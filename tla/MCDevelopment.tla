--------------------------- MODULE MCDevelopment ----------------------------
(* The development stack: the page and its session, the bootstrap of its     *)
(* actors, and prototype funding.  In each scenario one of them runs, and    *)
(* the others stay where they began.                                         *)
EXTENDS FrontendSession, DevelopmentProvisioning, PrototypeFunding, TLC

VARIABLE scenario \* which of the scenarios below the behaviour is of
vars == <<scenario, frontendVars, provisioningVars, prototypeVars>>

(* Provisioning: foreign records take the identity, the principal id or the  *)
(* actor of the first of two principals.                                     *)
MCSpecs == <<"payer", "payee">>
Row(p, i, a) == [principal |-> p, identity |-> i, actor |-> a, enabled |-> TRUE,
                 capabilities |-> {"ACT_AS_SELF"}]
MCForeign == {Row("x", "payer", "y"), Row("payer", "z", "payer"), Row("x", "z", "payer")}

(* Funding: two cells of alice; a command and its repetition and a second    *)
(* command; or one id for both cells and a request of the payee.             *)
MCTerms == [main |-> [payer |-> "alice", payee |-> "carol", deadline |-> 1],
            side |-> [payer |-> "alice", payee |-> "bob", deadline |-> 2]]
Asks(a, k, c) == [actor |-> a, command |-> k, cell |-> c]
MCRepeated == [first |-> Asks("alice", "k1", "main"), again |-> Asks("alice", "k1", "main"),
               other |-> Asks("alice", "k2", "main")]
MCMixed == [here |-> Asks("alice", "k3", "main"), elsewhere |-> Asks("alice", "k3", "side"),
            payee |-> Asks("carol", "k4", "main")]
MCSent == MCRepeated @@ MCMixed
MCRequest == DOMAIN MCSent

(* The page: a room with clicks and failures; switches without a click; and  *)
(* switches with a click and a failure.                                      *)
InRoomOnly == choices' <= 2
Switching == clicks' = 0
InSession == clicks' <= 1 /\ faults' <= 1

(* The requests of one scenario; those of the other do not begin.            *)
Only(requests) == \A r \in Request \ requests : request'[r] = request[r]

Init ==
  /\ FrontendInit /\ ProvisioningInit /\ PrototypeInit
  /\ scenario \in {"room", "switching", "session", "provisioning", "funding", "repeating"}
  /\ scenario # "provisioning" => principals = {}
FrontendStep ==
  /\ FrontendNext
  /\ \/ scenario = "room" /\ InRoomOnly
     \/ scenario = "switching" /\ Switching
     \/ scenario = "session" /\ InSession
  /\ UNCHANGED <<scenario, provisioningVars, prototypeVars>>
ProvisioningStep ==
  /\ scenario = "provisioning" /\ ProvisioningNext
  /\ UNCHANGED <<scenario, frontendVars, prototypeVars>>
PrototypeStep ==
  /\ \/ scenario = "funding" /\ PrototypeNext /\ Only(DOMAIN MCMixed)
     \/ scenario = "repeating" /\ PrototypeNext /\ Only(DOMAIN MCRepeated)
  /\ UNCHANGED <<scenario, frontendVars, provisioningVars>>
Next == FrontendStep \/ ProvisioningStep \/ PrototypeStep
Spec == Init /\ [][Next]_vars

-----------------------------------------------------------------------------
ASSUME FrontendAssumption /\ ProvisioningAssumption /\ PrototypeAssumption
=============================================================================
