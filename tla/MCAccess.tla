------------------------------ MODULE MCAccess ------------------------------
(* Who may do what: principals and their lifecycle, quarantines, and the     *)
(* trusted ingress that judges every request by them.  The ingress takes a   *)
(* resolution as one reading of a principal, which ResolvedFresh justifies.  *)
(* In each scenario one of the three runs, with inputs of its own, and the   *)
(* others stay where they began.                                             *)
EXTENDS TrustedIngress, PrincipalAuthority, AdmissionQuarantine, TLC

CONSTANTS admin1, admin2

VARIABLE scenario \* which of the scenarios below the behaviour is of
vars == <<scenario, ingressVars, authorityVars, quarantineVars>>

(* Principals: an actor's and a gateway's, one spare actor and identity.     *)
Creation(p, type, a, i, cs) ==
  [operation |-> "CREATE", principal |-> p, type |-> type, actor |-> a, identity |-> i,
   capabilities |-> cs]
Actor1 == Creation("alice", "ACTOR", "a1", "i1", {"ACT_AS_SELF"})
Capable(op, p, c) == [operation |-> op, principal |-> p, capability |-> c]
Map(p, a) == [operation |-> "ACTOR_MAPPING", principal |-> p, actor |-> a]
OnePrincipal ==
  {Actor1, [operation |-> "IDENTITY_ATTACH", principal |-> "alice", identity |-> "i2"],
   Capable("CAPABILITY_REVOKE", "alice", "ACT_AS_SELF"),
   Capable("CAPABILITY_ASSIGN", "alice", "ACT_AS_SELF")}
  \cup {[operation |-> op, principal |-> "alice"] : op \in {"DISABLE", "ENABLE"}}
TwoPrincipals ==
  {Actor1, Creation("gate", "GATEWAY", None, "i2", {"RESOLVE_FUNDING_NEGATIVE"}),
   Creation("gate", "ACTOR", "a2", "i2", {}), Map("alice", "a2"), Map("gate", "a1"),
   Capable("CAPABILITY_REVOKE", "gate", "RESOLVE_FUNDING_NEGATIVE"),
   Capable("CAPABILITY_ASSIGN", "gate", "CONFIRM_FUNDING"),
   Capable("CAPABILITY_ASSIGN", "gate", "ACT_AS_SELF")}
MCChanges == OnePrincipal \cup TwoPrincipals

(* Quarantine: one principal with a row and one without, quarantines of      *)
(* several lengths, candidate policies of every disposition.                 *)
Ask(id, p, e, r) ==
  [operation |-> "issue", id |-> id, principal |-> p, expires |-> e, correlation |-> r]
End(id, r) == [operation |-> "release", id |-> id, correlation |-> r]
Retried ==
  {Ask("q1", "alice", 3, "x1"), Ask("q1", "alice", 4, "x1"), Ask("q2", "alice", 3, "x1"),
   Ask("q2", "ghost", 3, "x2"), End("q1", "x3"), End("q2", "x3")}
Issued ==
  {Ask("q1", "alice", 2, "x1"), Ask("q2", "alice", 3, "x2"), Ask("q1", "alice", 5, "x1"),
   End("q1", "x3"), End("q2", "x4")}
MCRequests == Retried \cup Issued
Decision(d, r) == [disposition |-> d, reason |-> r]
MCCandidates ==
  {Decision("ALLOW", "BASELINE_ALLOW"), Decision("CHALLENGE", "ADDITIONAL_PROOF_REQUIRED"),
   [disposition |-> "LIMIT", reason |-> "RISK_LIMIT", retryAfter |-> 30],
   [disposition |-> "ALLOW", reason |-> "BASELINE_ALLOW", retryAfter |-> 30],
   Decision("DENY", "ADMISSION_POLICY_FAILURE")}

(* Ingress: a cell of alice and carol, one of bob and carol, and a gateway.  *)
MCTerms == [c \in {"cell", "other"} |->
  [payer |-> IF c = "cell" THEN "alice" ELSE "bob", payee |-> "carol", amount |-> 5, deadline |-> 2]]
Acting(a, on, caps) ==
  [principal |-> "P", type |-> "ACTOR", enabled |-> on, actor |-> a, capabilities |-> caps]
Gateway(on, caps) ==
  [principal |-> "G", type |-> "GATEWAY", enabled |-> on, actor |-> None, capabilities |-> caps]
Self == {"ACT_AS_SELF"}
Confirm == {"CONFIRM_FUNDING"}
Readers == {Acting("alice", TRUE, Self), Acting("mallory", TRUE, Self)}
ReadingGates == {Gateway(TRUE, Confirm), Gateway(TRUE, {})}
FundingGates == {Gateway(TRUE, Confirm), Gateway(FALSE, Confirm)}
MCRecords ==
  [caller |-> Readers \cup {Acting("alice", FALSE, Self), Acting("alice", TRUE, {}),
                            Acting(None, TRUE, Self)},
   gate |-> ReadingGates \cup FundingGates]
Act(a) == [type |-> "AcceptCell", cell |-> "cell", actor |-> a]
Fund == [type |-> "FundCell", cell |-> "cell", actor |-> "mallory", amount |-> 1]
Intended(d, e) ==
  [id |-> "i1", provider |-> "bank", scope |-> "s1", cell |-> "cell", destination |-> d, expires |-> e]
MCSent ==
  [act |-> [kind |-> "command", identity |-> "caller", command |-> Act("alice")],
   show |-> [kind |-> "receipt", identity |-> "caller", cell |-> "cell"],
   look |-> [kind |-> "state", identity |-> "caller", cell |-> "cell"],
   list |-> [kind |-> "list", identity |-> "caller"],
   audit |-> [kind |-> "receipt", identity |-> "gate", cell |-> "cell"],
   fund |-> [kind |-> "command", identity |-> "gate", command |-> Fund,
             evidence |-> [provider |-> "bank", scope |-> None, transaction |-> "t1", intent |-> "i1"]],
   plan |-> [kind |-> "provision", identity |-> "gate", draft |-> Intended("d1", 2)],
   late |-> [kind |-> "provision", identity |-> "gate", draft |-> Intended("d2", 1)]]
Said(d, a, at, f) ==
  [provider |-> "bank", scope |-> "s1", transaction |-> "t1", intent |-> "i1", gateway |-> "G",
   cell |-> "cell", payer |-> "alice", payee |-> "carol", amount |-> a, destination |-> d,
   confirmedAt |-> at, finality |-> f]
MCContexts ==
  {Said(d, a, at, f) : d \in {"d1", "d2"}, a \in {1, 5}, at \in {0, 1, 3}, f \in {"FUNDS_HELD", "PENDING"}}
Sends(requests) == \A r \in DOMAIN MCSent \ requests : request'[r] = NotBegun

(* What the ingress begins with, and what requests and the world around them *)
(* do, in each of its scenarios.                                             *)
Unused == directory = [caller |-> Acting("alice", TRUE, Self), gate |-> Gateway(TRUE, Confirm)]
ActsInit ==
  directory.gate = Gateway(TRUE, Confirm) /\ destination \in [Cell -> {"d1"}]
Acts ==
  /\ IngressNext /\ Sends({"act", "show"}) /\ now' = 0
  /\ directory'.gate = directory.gate /\ destination'.other = "d1" /\ destination'.cell # "d2"
  /\ status'.other = "absent"
ReadsInit ==
  directory.caller \in Readers /\ directory.gate \in ReadingGates /\ destination \in [Cell -> {"d1"}]
Reads ==
  /\ IngressNext /\ Sends({"look", "list", "audit"}) /\ now' = 0
  /\ directory'.caller \in Readers /\ directory'.gate \in ReadingGates
  /\ destination' = destination /\ changes' <= 1
FundsInit ==
  /\ directory.caller = Acting("alice", TRUE, Self) /\ directory.gate = Gateway(TRUE, Confirm)
  /\ destination.other = "d1" /\ destination.cell # None
Funds ==
  /\ IngressNext /\ Sends({"fund", "plan", "late"})
  /\ directory'.caller = directory.caller /\ directory'.gate \in FundingGates
  /\ destination'.other = destination.other /\ changes' <= 1
  /\ status'.other = "absent"
(* Two administrators of two principals; or one, while an identity is        *)
(* resolved.                                                                 *)
Administers ==
  /\ AuthorityNext /\ resolution' = resolution
  /\ \A a \in Administrator : change'[a] # NotAsked =>
       change'[a].request \in TwoPrincipals /\ change'[a].expected < 3
Resolves ==
  /\ AuthorityNext
  /\ \A a \in Administrator : change'[a] # NotAsked =>
       /\ change'[a].request \in OnePrincipal
       /\ \A b \in Administrator \ {a} : change'[b] = NotAsked
(* Quarantines and the commands they hold; or operators that ask again.      *)
QuarantinesInit == skew["o2"] = 0 /\ skew["u"] = 0
Quarantines ==
  /\ QuarantineNext /\ calls' <= 2 /\ call'["o2"] = NotCalled
  /\ \A c \in Caller : call'[c] # NotCalled => call'[c].request \in Issued
RetriesInit == mode = "ENFORCE" /\ skew["k1"] = 0 /\ skew["u"] = 0
Retries ==
  /\ QuarantineNext /\ time' <= 1 /\ command' = command /\ call'["u"] = NotCalled
  /\ \A c \in Caller : call'[c] # NotCalled => call'[c].request \in Retried

IngressIdle == Unused /\ destination = [c \in Cell |-> "d1"]
QuarantineIdle == QuarantinesInit /\ RetriesInit /\ skew["o1"] = 0
Init ==
  /\ IngressInit /\ AuthorityInit /\ QuarantineInit
  /\ \/ scenario = "acting" /\ ActsInit /\ QuarantineIdle
     \/ scenario = "reading" /\ ReadsInit /\ QuarantineIdle
     \/ scenario = "funding" /\ FundsInit /\ QuarantineIdle
     \/ scenario \in {"administration", "resolution"} /\ IngressIdle /\ QuarantineIdle
     \/ scenario = "quarantine" /\ QuarantinesInit /\ IngressIdle
     \/ scenario = "retries" /\ RetriesInit /\ IngressIdle
IngressStep ==
  /\ \/ scenario = "acting" /\ Acts
     \/ scenario = "reading" /\ Reads
     \/ scenario = "funding" /\ Funds
  /\ UNCHANGED <<scenario, authorityVars, quarantineVars>>
AuthorityStep ==
  /\ \/ scenario = "administration" /\ Administers
     \/ scenario = "resolution" /\ Resolves
  /\ UNCHANGED <<scenario, ingressVars, quarantineVars>>
QuarantineStep ==
  /\ \/ scenario = "quarantine" /\ Quarantines
     \/ scenario = "retries" /\ Retries
  /\ UNCHANGED <<scenario, ingressVars, authorityVars>>
Next == IngressStep \/ AuthorityStep \/ QuarantineStep
Spec == Init /\ [][Next]_vars

Symmetry == Permutations({admin1, admin2})

-----------------------------------------------------------------------------
ASSUME IngressAssumption /\ VersionAssumption /\ ChangesAssumption /\ QuarantineAssumption
=============================================================================
