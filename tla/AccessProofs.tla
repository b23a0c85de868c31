---------------------------- MODULE AccessProofs ----------------------------
(***************************************************************************)
(* Proofs about who may do what: the trusted ingress acts, funds and shows  *)
(* only for whom it may, whatever administrators and cells do while its     *)
(* requests wait; resolutions of principals are fresh and administrators    *)
(* lose no change; quarantines hold, end and are retried safely.            *)
(***************************************************************************)
EXTENDS TrustedIngress, PrincipalAuthority, AdmissionQuarantine, TLAPS

(***************************************************************************)
(* The trusted ingress.  What a waiting request carries is justified by     *)
(* what it has seen since it began: s, the records of its identity, o, the  *)
(* destinations of the cells, and i, the intents on record.                 *)
(***************************************************************************)
Carrying == {"limit", "admit", "cell", "destination", "intent", "verify", "command", "provision", "read"}
Commanding == {"limit", "admit", "cell", "destination", "intent", "verify"}
Backs(c, x, o, i) ==
  /\ x.cell = c /\ x.payer = Terms[c].payer /\ x.payee = Terms[c].payee
  /\ x.amount = Terms[c].amount /\ x.finality = "FUNDS_HELD"
  /\ <<c, x.destination>> \in o
  /\ \E intent \in i :
       /\ intent.id = x.intent /\ intent.cell = c /\ intent.scope = x.scope
       /\ intent.createdAt <= x.confirmedAt /\ x.confirmedAt <= Terms[c].deadline
Ready(r, q, o, i) ==
  \/ q.command.type # "FundCell"
  \/ /\ q.command = FundCommand(r) /\ Sent[r].kind = "command"
     /\ q.context \in Contexts /\ Backs(Sent[r].command.cell, q.context, o, i)
Live(p) == p # None /\ p.enabled
Justified(r, q, s, o, i) ==
  /\ q.pc \in Carrying => q.principal \in s /\ Live(q.principal)
  /\ q.pc = "limit" => q = [pc |-> "limit", principal |-> q.principal]
  /\ q.pc \in Commanding => Sent[r].kind = "command"
  /\ q.pc = "provision" => Sent[r].kind = "provision"
  /\ q.pc = "gateway" => Sent[r].kind = "receipt"
  /\ q.pc = "read" =>
       \/ IsActor(q.principal)
       \/ Sent[r].kind = "receipt" /\ IsGateway(q.principal)
  /\ q.pc \in {"intent", "verify"} => <<Sent[r].command.cell, q.destination>> \in o
  /\ q.pc = "verify" =>
       /\ q.intent \in i
       /\ MatchesIntent(q.intent, Sent[r].evidence, Sent[r].command.cell, q.destination)
  /\ q.pc = "command" => Ready(r, q, o, i)
  /\ q.pc = "insert" =>
       q.draft.expires \in Nat /\ q.draft.expires <= Terms[q.draft.cell].deadline
(* Since a request began it has seen the record and the destinations as they *)
(* are now.                                                                  *)
UpToDate(r) ==
  /\ directory[Sent[r].identity] \in seen[r]
  /\ \A c \in Cell : <<c, destination[c]>> \in offered[r]

IngressDomains ==
  /\ DOMAIN directory = Identities /\ DOMAIN status = Cell /\ DOMAIN destination = Cell
  /\ DOMAIN funded = Cell /\ DOMAIN request = Request
  /\ DOMAIN seen = Request /\ DOMAIN offered = Request
IntentsBounded ==
  \A i \in intents : i.expires \in Nat /\ i.expires <= Terms[i.cell].deadline
HistoryOfRequests ==
  /\ \A e \in executed : e.request \in Request /\ Began(e.request)
  /\ \A d \in disclosed : d[1] \in Request /\ Began(d[1])
  /\ \A c \in Cell : funded[c] # None => funded[c].request \in Request /\ Began(funded[c].request)
IngressInv ==
  /\ IngressDomains /\ IntentsBounded /\ HistoryOfRequests
  /\ \A r \in Request : Began(r) => UpToDate(r)
  /\ \A r \in Request : Justified(r, request[r], seen[r], offered[r], intents)
  /\ FundedAsAgreed /\ PartiesOnly

(* What justified a request keeps justifying it: records and destinations    *)
(* seen, and intents, are only added.                                        *)
LEMMA JustifiedMonotone ==
  ASSUME NEW r, NEW q, NEW s, NEW o, NEW i, NEW s2, NEW o2, NEW i2,
         Justified(r, q, s, o, i), s \subseteq s2, o \subseteq o2, i \subseteq i2
  PROVE  Justified(r, q, s2, o2, i2)
  <1>1. ASSUME NEW c, NEW x, Backs(c, x, o, i) PROVE Backs(c, x, o2, i2)
    BY <1>1 DEF Backs
  <1>2. Ready(r, q, o, i) => Ready(r, q, o2, i2)
    BY <1>1 DEF Ready
  <1>3. QED
    BY <1>2 DEF Justified

(* A request that has its answer carries nothing.                            *)
LEMMA AnswersAreJustified ==
  ASSUME NEW r, NEW outcome, NEW s, NEW o, NEW i
  PROVE  /\ Justified(r, [pc |-> "answered", outcome |-> outcome], s, o, i)
         /\ [pc |-> "answered", outcome |-> outcome] # NotBegun
  BY DEF Justified, Carrying, Commanding, NotBegun

(* The invariant survives what moves one request to a place it is justified  *)
(* to be at and changes nothing else.                                        *)
LEMMA PureStepKeepsInv ==
  ASSUME IngressInv, NEW r \in Request, request[r] # NotBegun, NEW q, q # NotBegun,
         Goto(r, q), Pure, Justified(r, q, seen[r], offered[r], intents)
  PROVE  IngressInv'
  <1> USE DEF Goto, Pure, world, history
  <1>1. /\ IngressDomains' /\ IntentsBounded' /\ HistoryOfRequests'
    BY DEF IngressInv, IngressDomains, IntentsBounded, HistoryOfRequests, Began,
      Identities
  <1>2. \A x \in Request : Began(x)' => UpToDate(x)'
    BY DEF IngressInv, IngressDomains, Began, UpToDate
  <1>3. \A x \in Request : Justified(x, request'[x], seen'[x], offered'[x], intents')
    BY DEF IngressInv, IngressDomains
  <1>4. FundedAsAgreed' /\ PartiesOnly'
    BY DEF IngressInv, FundedAsAgreed, IngressTypeOK, PartiesOnly, ActsForItself, OnlyPartiesRead
  <1>5. QED
    BY <1>1, <1>2, <1>3, <1>4 DEF IngressInv

(* Where the trusted ingress begins, no request has begun.                   *)
LEMMA IngressInitInv ==
  ASSUME IngressAssumption, IngressInit
  PROVE  IngressInv
  <1> USE DEF IngressInit
  <1>1. IngressDomains
    BY DEF IngressDomains
  <1>2. IngressTypeOK
    BY DEF IngressAssumption, IngressTypeOK
  <1>3. \A r \in Request : Justified(r, request[r], seen[r], offered[r], intents)
    BY DEF Justified, Carrying, Commanding, NotBegun
  <1>4. \A r \in Request : Began(r) => UpToDate(r)
    BY DEF Began
  <1>5. FundedAsAgreed /\ PartiesOnly /\ IntentsBounded /\ HistoryOfRequests
    BY <1>2 DEF FundedAsAgreed, PartiesOnly, ActsForItself, OnlyPartiesRead, IntentsBounded,
      HistoryOfRequests
  <1>6. QED
    BY <1>1, <1>3, <1>4, <1>5 DEF IngressInv

(* An administrator's change of a record is seen by every request of the     *)
(* identity that has begun.                                                  *)
LEMMA AdministerKeepsInv ==
  ASSUME IngressAssumption, IngressInv, NEW i \in Identities,
         NEW record \in Records[i], Administer(i, record)
  PROVE  IngressInv'
  <1> USE DEF Administer
  <1>1. IngressDomains' /\ IntentsBounded' /\ HistoryOfRequests'
    BY DEF IngressInv, IngressDomains, IntentsBounded, HistoryOfRequests, Began,
      Identities
  <1>2. \A r \in Request : seen[r] \subseteq seen'[r]
    OBVIOUS
  <1>3. \A r \in Request : Began(r)' => UpToDate(r)'
    BY DEF IngressInv, IngressDomains, Began, UpToDate
  <1>4. \A r \in Request : Justified(r, request'[r], seen'[r], offered'[r], intents')
    <2> SUFFICES ASSUME NEW r \in Request
                 PROVE  Justified(r, request'[r], seen'[r], offered'[r], intents')
      OBVIOUS
    <2>1. Justified(r, request[r], seen[r], offered[r], intents)
      BY DEF IngressInv
    <2>2. QED
      BY <1>2, <2>1, JustifiedMonotone
  <1>5. FundedAsAgreed'
    BY DEF IngressAssumption, IngressInv, FundedAsAgreed, IngressTypeOK
  <1>6. PartiesOnly'
    BY <1>2 DEF IngressInv, HistoryOfRequests, PartiesOnly, ActsForItself, OnlyPartiesRead
  <1>7. QED
    BY <1>1, <1>3, <1>4, <1>5, <1>6 DEF IngressInv

(* A changed destination is seen by every request that has begun.            *)
LEMMA RedirectKeepsInv ==
  ASSUME IngressAssumption, IngressInv, NEW c \in Cell, NEW d, Redirect(c, d)
  PROVE  IngressInv'
  <1> USE DEF Redirect
  <1>1. IngressDomains' /\ IntentsBounded' /\ HistoryOfRequests'
    BY DEF IngressInv, IngressDomains, IntentsBounded, HistoryOfRequests, Began,
      Identities
  <1>2. \A r \in Request : offered[r] \subseteq offered'[r]
    OBVIOUS
  <1>3. \A r \in Request : Began(r)' => UpToDate(r)'
    BY DEF IngressInv, IngressDomains, Began, UpToDate
  <1>4. \A r \in Request : Justified(r, request'[r], seen'[r], offered'[r], intents')
    <2> SUFFICES ASSUME NEW r \in Request
                 PROVE  Justified(r, request'[r], seen'[r], offered'[r], intents')
      OBVIOUS
    <2>1. Justified(r, request[r], seen[r], offered[r], intents)
      BY DEF IngressInv
    <2>2. QED
      BY <1>2, <2>1, JustifiedMonotone
  <1>5. FundedAsAgreed'
    <2>1. IngressTypeOK'
      BY DEF IngressAssumption, IngressInv, FundedAsAgreed, IngressTypeOK
    <2>2. QED
      BY <1>2, <2>1 DEF IngressInv, HistoryOfRequests, FundedAsAgreed
  <1>6. PartiesOnly'
    BY DEF IngressInv, PartiesOnly, ActsForItself, OnlyPartiesRead
  <1>7. QED
    BY <1>1, <1>3, <1>4, <1>5, <1>6 DEF IngressInv

(* A cell that is created and a clock that ticks concern no request.         *)
LEMMA CreateCellKeepsInv ==
  ASSUME IngressInv, NEW c \in Cell, CreateCell(c)
  PROVE  IngressInv'
  <1> USE DEF CreateCell, history
  <1>1. IngressDomains' /\ IntentsBounded' /\ HistoryOfRequests'
    BY DEF IngressInv, IngressDomains, IntentsBounded, HistoryOfRequests, Began,
      Identities
  <1>2. \A r \in Request : Began(r)' => UpToDate(r)'
    BY DEF IngressInv, Began, UpToDate
  <1>3. FundedAsAgreed' /\ PartiesOnly'
    BY DEF IngressInv, IngressDomains, FundedAsAgreed, IngressTypeOK, PartiesOnly, ActsForItself,
      OnlyPartiesRead
  <1>4. QED
    BY <1>1, <1>2, <1>3 DEF IngressInv
LEMMA TickKeepsInv ==
  ASSUME IngressAssumption, IngressInv, Tick
  PROVE  IngressInv'
  <1> USE DEF Tick, history
  <1>1. IngressDomains' /\ IntentsBounded' /\ HistoryOfRequests'
    BY DEF IngressInv, IngressDomains, IntentsBounded, HistoryOfRequests, Began,
      Identities
  <1>2. \A r \in Request : Began(r)' => UpToDate(r)'
    BY DEF IngressInv, Began, UpToDate
  <1>3. FundedAsAgreed' /\ PartiesOnly'
    BY DEF IngressAssumption, IngressInv, FundedAsAgreed, IngressTypeOK, PartiesOnly,
      ActsForItself, OnlyPartiesRead
  <1>4. QED
    BY <1>1, <1>2, <1>3 DEF IngressInv

(* A request begins with the record and the destinations as they are.        *)
LEMMA AuthenticateKeepsInv ==
  ASSUME IngressInv, NEW r \in Request, Authenticate(r)
  PROVE  IngressInv'
  <1> USE DEF Authenticate, world, Answer, Goto
  <1>1. IngressDomains' /\ IntentsBounded' /\ HistoryOfRequests'
    BY DEF IngressInv, IngressDomains, IntentsBounded, HistoryOfRequests, Began,
      Identities
  <1>2. \A x \in Request : Began(x)' => UpToDate(x)'
    BY DEF IngressInv, IngressDomains, Began, UpToDate
  <1>3. \A x \in Request : Justified(x, request'[x], seen'[x], offered'[x], intents')
    <2> SUFFICES ASSUME NEW x \in Request
                 PROVE  Justified(x, request'[x], seen'[x], offered'[x], intents')
      OBVIOUS
    <2>1. CASE x = r
      <3>1. request'[r].pc \in {"resolve", "answered"}
        BY DEF IngressInv, IngressDomains
      <3>2. QED
        BY <2>1, <3>1 DEF Justified, Carrying, Commanding
    <2>2. CASE x # r
      BY <2>2 DEF IngressInv, IngressDomains
    <2>3. QED
      BY <2>1, <2>2
  <1>4. FundedAsAgreed'
    BY DEF IngressInv, IngressDomains, HistoryOfRequests, Began, FundedAsAgreed, IngressTypeOK
  <1>5. PartiesOnly'
    BY DEF IngressInv, IngressDomains, HistoryOfRequests, Began, PartiesOnly, ActsForItself,
      OnlyPartiesRead
  <1>6. QED
    BY <1>1, <1>2, <1>3, <1>4, <1>5 DEF IngressInv

(* The principal a command goes on with is the record of this moment.        *)
LEMMA ResolvePrincipalKeepsInv ==
  ASSUME IngressInv, NEW r \in Request, ResolvePrincipal(r)
  PROVE  IngressInv'
  <1> DEFINE p == directory[Sent[r].identity]
  <1>1. /\ request[r] # NotBegun /\ Pure
        /\ \/ \E outcome : Answer(r, outcome)
           \/ Live(p) /\ Goto(r, [pc |-> "limit", principal |-> p])
        /\ Sent[r].kind = "command"
    BY DEF ResolvePrincipal, NotBegun, Live
  <1>2. p \in seen[r]
    BY <1>1 DEF IngressInv, Began, UpToDate
  <1>3. ASSUME NEW outcome, Answer(r, outcome) PROVE IngressInv'
    BY <1>1, <1>3, AnswersAreJustified, PureStepKeepsInv DEF Answer
  <1>4. ASSUME Live(p), Goto(r, [pc |-> "limit", principal |-> p]) PROVE IngressInv'
    <2> DEFINE q == [pc |-> "limit", principal |-> p]
    <2>1. Justified(r, q, seen[r], offered[r], intents) /\ q # NotBegun
      BY <1>1, <1>2, <1>4 DEF Justified, Carrying, Commanding, NotBegun
    <2>2. QED
      BY <1>1, <1>4, <2>1, PureStepKeepsInv
  <1>5. QED
    BY <1>1, <1>3, <1>4
LEMMA ConsumeRateKeepsInv ==
  ASSUME IngressInv, NEW r \in Request, ConsumeRate(r)
  PROVE  IngressInv'
  <1>1. /\ request[r] # NotBegun /\ Pure /\ request[r].pc = "limit"
        /\ \/ \E outcome : Answer(r, outcome)
           \/ Goto(r, [request[r] EXCEPT !.pc = "admit"])
    BY DEF ConsumeRate, NotBegun
  <1>2. Justified(r, request[r], seen[r], offered[r], intents)
    BY DEF IngressInv
  <1>3. ASSUME NEW outcome, Answer(r, outcome) PROVE IngressInv'
    BY <1>1, <1>3, AnswersAreJustified, PureStepKeepsInv DEF Answer
  <1>4. ASSUME Goto(r, [request[r] EXCEPT !.pc = "admit"]) PROVE IngressInv'
    <2> DEFINE q == [request[r] EXCEPT !.pc = "admit"]
    <2>1. q = [pc |-> "admit", principal |-> request[r].principal]
      BY <1>1, <1>2 DEF Justified
    <2>2. Justified(r, q, seen[r], offered[r], intents) /\ q # NotBegun
      BY <1>1, <1>2, <2>1 DEF Justified, Carrying, Commanding, NotBegun
    <2>3. QED
      BY <1>1, <1>4, <2>2, PureStepKeepsInv
  <1>5. QED
    BY <1>1, <1>3, <1>4
(* A command other than a funding goes to the application; a funding only    *)
(* from a gateway and to be bound first.                                     *)
LEMMA AdmitKeepsInv ==
  ASSUME IngressInv, NEW r \in Request, Admit(r)
  PROVE  IngressInv'
  <1> DEFINE p == request[r].principal
             c == Sent[r].command
             handling == [pc |-> "command", principal |-> p, command |-> c, context |-> None]
             cell == [pc |-> "cell", principal |-> p]
  <1>1. /\ request[r] # NotBegun /\ Pure /\ request[r].pc = "admit"
        /\ \/ \E outcome : Answer(r, outcome)
           \/ c.type # "FundCell" /\ Goto(r, handling)
           \/ Goto(r, cell)
    BY DEF Admit, NotBegun
  <1>2. Justified(r, request[r], seen[r], offered[r], intents)
    BY DEF IngressInv
  <1>3. ASSUME NEW outcome, Answer(r, outcome) PROVE IngressInv'
    BY <1>1, <1>3, AnswersAreJustified, PureStepKeepsInv DEF Answer
  <1>4. ASSUME c.type # "FundCell", Goto(r, handling) PROVE IngressInv'
    <2>1. Justified(r, handling, seen[r], offered[r], intents) /\ handling # NotBegun
      BY <1>1, <1>2, <1>4 DEF Justified, Carrying, Commanding, NotBegun, Ready
    <2>2. QED
      BY <1>1, <1>4, <2>1, PureStepKeepsInv
  <1>5. ASSUME Goto(r, cell) PROVE IngressInv'
    <2>1. Justified(r, cell, seen[r], offered[r], intents) /\ cell # NotBegun
      BY <1>1, <1>2 DEF Justified, Carrying, Commanding, NotBegun
    <2>2. QED
      BY <1>1, <1>5, <2>1, PureStepKeepsInv
  <1>6. QED
    BY <1>1, <1>3, <1>4, <1>5
LEMMA ReadCellKeepsInv ==
  ASSUME IngressInv, NEW r \in Request, ReadCell(r)
  PROVE  IngressInv'
  <1> DEFINE q == [pc |-> "destination", principal |-> request[r].principal]
  <1>1. /\ request[r] # NotBegun /\ Pure /\ request[r].pc = "cell"
        /\ (\E outcome : Answer(r, outcome)) \/ Goto(r, q)
    BY DEF ReadCell, NotBegun
  <1>2. Justified(r, request[r], seen[r], offered[r], intents)
    BY DEF IngressInv
  <1>3. ASSUME NEW outcome, Answer(r, outcome) PROVE IngressInv'
    BY <1>1, <1>3, AnswersAreJustified, PureStepKeepsInv DEF Answer
  <1>4. Justified(r, q, seen[r], offered[r], intents) /\ q # NotBegun
    BY <1>1, <1>2 DEF Justified, Carrying, Commanding, NotBegun
  <1>5. QED
    BY <1>1, <1>3, <1>4, PureStepKeepsInv
(* The destination a funding goes on with is the cell's of this moment.      *)
LEMMA ResolveDestinationKeepsInv ==
  ASSUME IngressAssumption, IngressInv, NEW r \in Request, ResolveDestination(r)
  PROVE  IngressInv'
  <1> DEFINE d == destination[Sent[r].command.cell]
             q == [pc |-> "intent", principal |-> request[r].principal, destination |-> d]
  <1>1. /\ request[r] # NotBegun /\ Pure /\ request[r].pc = "destination"
        /\ (\E outcome : Answer(r, outcome)) \/ Goto(r, q)
    BY DEF ResolveDestination, NotBegun
  <1>2. Justified(r, request[r], seen[r], offered[r], intents)
    BY DEF IngressInv
  <1>3. ASSUME NEW outcome, Answer(r, outcome) PROVE IngressInv'
    BY <1>1, <1>3, AnswersAreJustified, PureStepKeepsInv DEF Answer
  <1>4. Sent[r].command.cell \in Cell
    BY <1>1, <1>2 DEF Justified, Commanding, IngressAssumption
  <1>5. <<Sent[r].command.cell, d>> \in offered[r]
    BY <1>1, <1>4 DEF IngressInv, Began, UpToDate
  <1>6. Justified(r, q, seen[r], offered[r], intents) /\ q # NotBegun
    BY <1>1, <1>2, <1>5 DEF Justified, Carrying, Commanding, NotBegun
  <1>7. QED
    BY <1>1, <1>3, <1>6, PureStepKeepsInv
(* The intent a funding goes on with is on record and of the cell's terms.   *)
LEMMA LookupIntentKeepsInv ==
  ASSUME IngressInv, NEW r \in Request, LookupIntent(r)
  PROVE  IngressInv'
  <1> DEFINE d == request[r].destination
             q(i) == [pc |-> "verify", principal |-> request[r].principal, destination |-> d,
                      intent |-> i]
             matches(i) == MatchesIntent(i, Sent[r].evidence, Sent[r].command.cell, d)
  <1>1. /\ request[r] # NotBegun /\ Pure /\ request[r].pc = "intent"
        /\ \/ \E outcome : Answer(r, outcome)
           \/ \E i \in intents : matches(i) /\ Goto(r, q(i))
    <2> DEFINE found == {i \in intents : i.id = Sent[r].evidence.intent /\ matches(i)}
    <2>1. request[r].pc = "intent" /\ Pure
      BY DEF LookupIntent
    <2>2. (\E outcome : Answer(r, outcome)) \/ \E i \in found : Goto(r, q(i))
      BY Zenon DEF LookupIntent
    <2>3. QED
      BY <2>1, <2>2 DEF NotBegun
  <1>2. Justified(r, request[r], seen[r], offered[r], intents)
    BY DEF IngressInv
  <1>3. ASSUME NEW outcome, Answer(r, outcome) PROVE IngressInv'
    BY <1>1, <1>3, AnswersAreJustified, PureStepKeepsInv DEF Answer
  <1>4. ASSUME NEW i \in intents, matches(i), Goto(r, q(i)) PROVE IngressInv'
    <2>1. Justified(r, q(i), seen[r], offered[r], intents) /\ q(i) # NotBegun
      BY <1>1, <1>2, <1>4 DEF Justified, Carrying, Commanding, NotBegun
    <2>2. QED
      BY <1>1, <1>4, <2>1, PureStepKeepsInv
  <1>5. QED
    BY <1>1, <1>3, <1>4

(* What the provider said is bound to the intent and through it to the       *)
(* cell's terms, its destination and its deadline.                           *)
LEMMA VerifyKeepsInv ==
  ASSUME IngressAssumption, IngressInv, NEW r \in Request, Verify(r)
  PROVE  IngressInv'
  <1> DEFINE q(x) == [pc |-> "command", principal |-> request[r].principal,
                      command |-> FundCommand(r), context |-> x]
             c == Sent[r].command.cell
             i == request[r].intent
  <1>1. /\ request[r] # NotBegun /\ Pure /\ request[r].pc = "verify"
        /\ \/ \E outcome : Answer(r, outcome)
           \/ \E x \in Contexts :
                MatchesExpectedBinding(x, r) /\ InWindow(x, i) /\ Goto(r, q(x))
    <2>1. request[r].pc = "verify" /\ Pure
      BY DEF Verify
    <2>2. \/ \E outcome : Answer(r, outcome)
          \/ \E x \in Contexts :
               MatchesExpectedBinding(x, r) /\ InWindow(x, i) /\ Goto(r, q(x))
      BY Zenon DEF Verify
    <2>3. QED
      BY <2>1, <2>2 DEF NotBegun
  <1>2. Justified(r, request[r], seen[r], offered[r], intents)
    BY DEF IngressInv
  <1>3. ASSUME NEW outcome, Answer(r, outcome) PROVE IngressInv'
    BY <1>1, <1>3, AnswersAreJustified, PureStepKeepsInv DEF Answer
  <1>4. ASSUME NEW x \in Contexts, MatchesExpectedBinding(x, r), InWindow(x, i), Goto(r, q(x))
        PROVE  IngressInv'
    <2>1. /\ Sent[r].kind = "command" /\ c \in Cell /\ i \in intents
          /\ <<c, request[r].destination>> \in offered[r]
          /\ MatchesIntent(i, Sent[r].evidence, c, request[r].destination)
      BY <1>1, <1>2 DEF Justified, Commanding, IngressAssumption
    <2>2. /\ x.cell = c /\ x.payer = Terms[c].payer /\ x.payee = Terms[c].payee
          /\ x.amount = Terms[c].amount /\ x.finality = "FUNDS_HELD"
          /\ x.destination = request[r].destination
          /\ i.id = x.intent /\ i.cell = c /\ i.scope = x.scope
      BY <1>4, <2>1 DEF MatchesExpectedBinding, MatchesIntent
    <2>3. i.createdAt <= x.confirmedAt /\ x.confirmedAt <= Terms[c].deadline
      <3>1. i.createdAt <= x.confirmedAt /\ x.confirmedAt <= i.expires
        BY <1>4 DEF InWindow
      <3>2. i.expires \in Nat /\ i.expires <= Terms[c].deadline
        BY <2>1, <2>2 DEF IngressInv, IntentsBounded
      <3>3. x.confirmedAt \in Nat /\ Terms[c].deadline \in Nat
        BY <2>1 DEF IngressAssumption
      <3> HIDE DEF c, i
      <3>4. QED
        BY <3>1, <3>2, <3>3
    <2>4. Backs(c, x, offered[r], intents)
      BY <2>1, <2>2, <2>3 DEF Backs
    <2>5. Justified(r, q(x), seen[r], offered[r], intents) /\ q(x) # NotBegun
      BY <1>1, <1>2, <2>1, <2>4 DEF Justified, Carrying, Commanding, NotBegun, Ready
    <2>6. QED
      BY <1>1, <1>4, <2>5, PureStepKeepsInv
  <1>5. QED
    BY <1>1, <1>3, <1>4

(* What FundedAsAgreed says of a cell and its funding.                       *)
AgreedFunding(c, f, o, i, e) ==
  LET x == f.context IN
  /\ x.cell = c /\ x.payer = Terms[c].payer /\ x.payee = Terms[c].payee
  /\ x.amount = Terms[c].amount /\ x.finality = "FUNDS_HELD"
  /\ <<c, x.destination>> \in o[f.request]
  /\ \E intent \in i :
       /\ intent.id = x.intent /\ intent.cell = c /\ intent.scope = x.scope
       /\ intent.createdAt <= x.confirmedAt /\ x.confirmedAt <= Terms[c].deadline
  /\ \E entry \in e :
       /\ entry.request = f.request
       /\ entry.command.amount = Terms[c].amount /\ entry.command.actor = Terms[c].payer

(* A command is executed for the principal it carries, and a funding on the  *)
(* context that backs it.                                                    *)
LEMMA HandleCommandKeepsInv ==
  ASSUME IngressAssumption, IngressInv, NEW r \in Request, HandleCommand(r)
  PROVE  IngressInv'
  <1> DEFINE q == request[r]
             c == q.command
             entry == [request |-> r, command |-> c]
             answered(outcome) == [pc |-> "answered", outcome |-> outcome]
  <1>1. /\ q.pc = "command" /\ q # NotBegun
        /\ UNCHANGED <<now, directory, destination, intents, changes, seen, offered, disclosed>>
        /\ \E outcome : Goto(r, answered(outcome))
    <2>1. /\ q.pc = "command"
          /\ UNCHANGED <<now, directory, destination, intents, changes, seen, offered, disclosed>>
          /\ Goto(r, answered("REJECTED")) \/ Goto(r, answered("SUCCESS"))
      BY Zenon DEF HandleCommand, Answer
    <2>2. q # NotBegun
      BY <2>1 DEF NotBegun
    <2>3. QED
      BY Zenon, <2>1, <2>2
  <1>2. \/ UNCHANGED <<status, executed, funded>>
        \/ /\ AuthorizePrincipal(q.principal, c, q.context)
           /\ executed' = executed \cup {entry}
           /\ c.type # "FundCell" /\ UNCHANGED <<status, funded>>
        \/ /\ AuthorizePrincipal(q.principal, c, q.context)
           /\ executed' = executed \cup {entry}
           /\ c.type = "FundCell" /\ status[c.cell] = "CREATED"
           /\ status' = [status EXCEPT ![c.cell] = "FUNDED"]
           /\ funded' = [funded EXCEPT ![c.cell] = [request |-> r, context |-> q.context]]
    BY DEF HandleCommand
  <1>3. q.principal \in seen[r] /\ Live(q.principal) /\ Ready(r, q, offered[r], intents)
    BY <1>1 DEF IngressInv, Justified, Carrying
  <1>4. \A x \in Request : Began(x) => Began(x)'
    BY <1>1 DEF Goto, Began, NotBegun, IngressInv, IngressDomains
  <1>5. Began(r)
    BY <1>1 DEF Began
  <1>6. executed \subseteq executed' /\ \A e \in executed' : e \in executed \/ e = entry
    BY <1>2
  <1>7. IngressDomains' /\ IntentsBounded'
    BY <1>1, <1>2 DEF Goto, IngressInv, IngressDomains, IntentsBounded, Identities
  <1>8. \A x \in Request : Began(x)' => UpToDate(x)'
    BY <1>1 DEF Goto, IngressInv, IngressDomains, Began, UpToDate
  <1>9. \A x \in Request : Justified(x, request'[x], seen'[x], offered'[x], intents')
    BY <1>1, AnswersAreJustified DEF Goto, IngressInv, IngressDomains
  <1>10. HistoryOfRequests'
    BY <1>1, <1>2, <1>4, <1>5, <1>6 DEF IngressInv, IngressDomains, HistoryOfRequests
  <1>11. PartiesOnly'
    <2>1. OnlyPartiesRead'
      BY <1>1 DEF IngressInv, PartiesOnly, OnlyPartiesRead
    <2>2. ASSUME AuthorizePrincipal(q.principal, c, q.context)
          PROVE  IF c.type = "FundCell"
                 THEN q.principal.type = "GATEWAY" /\ "CONFIRM_FUNDING" \in q.principal.capabilities
                 ELSE /\ q.principal.type = "ACTOR" /\ q.principal.actor = c.actor
                      /\ "ACT_AS_SELF" \in q.principal.capabilities
      BY <2>2 DEF AuthorizePrincipal, IsActor, IsGateway, CallerMatchesCommand
    <2>3. ActsForItself'
      BY <1>1, <1>2, <1>3, <1>6, <2>2 DEF IngressInv, PartiesOnly, ActsForItself, Live
    <2>4. QED
      BY <2>1, <2>3 DEF PartiesOnly
  <1>12. FundedAsAgreed'
    <2>1. CASE UNCHANGED <<status, executed, funded>>
      BY <1>1, <2>1 DEF IngressInv, FundedAsAgreed, IngressTypeOK
    <2>2. CASE c.type # "FundCell" /\ UNCHANGED <<status, funded>>
      <3>1. IngressTypeOK'
        BY <1>1, <2>2 DEF IngressInv, FundedAsAgreed, IngressTypeOK
      <3>2. QED
        BY <1>1, <1>6, <2>2, <3>1 DEF IngressInv, FundedAsAgreed
    <2>3. CASE /\ executed' = executed \cup {entry}
               /\ c.type = "FundCell" /\ status[c.cell] = "CREATED"
               /\ status' = [status EXCEPT ![c.cell] = "FUNDED"]
               /\ funded' = [funded EXCEPT ![c.cell] = [request |-> r, context |-> q.context]]
      <3> DEFINE cell == Sent[r].command.cell
                 row == [request |-> r, context |-> q.context]
      <3>1. /\ c = FundCommand(r) /\ q.context \in Contexts
            /\ Backs(cell, q.context, offered[r], intents) /\ Sent[r].kind = "command"
        BY <1>3, <2>3 DEF Ready
      <3>2. cell \in Cell /\ c.cell = cell /\ row # None
        BY <3>1 DEF IngressAssumption, FundCommand
      <3>3. \A x \in Cell : /\ funded'[x] = IF x = cell THEN row ELSE funded[x]
                            /\ status'[x] = IF x = cell THEN "FUNDED" ELSE status[x]
        BY <2>3, <3>2 DEF IngressInv, IngressDomains
      <3>4. IngressTypeOK'
        BY <1>1, <3>2, <3>3 DEF IngressInv, FundedAsAgreed, IngressTypeOK
      <3>5. entry \in executed' /\ entry.request = r /\ entry.command.amount = Terms[cell].amount
            /\ entry.command.actor = Terms[cell].payer
        BY <2>3, <3>1 DEF FundCommand
      <3>6. AgreedFunding(cell, row, offered', intents', executed')
        BY <1>1, <3>1, <3>5 DEF AgreedFunding, Backs
      <3>7. ASSUME NEW x \in Cell, x # cell, funded[x] # None
            PROVE  AgreedFunding(x, funded[x], offered', intents', executed')
        <4>1. AgreedFunding(x, funded[x], offered, intents, executed)
          BY <3>7 DEF IngressInv, FundedAsAgreed, AgreedFunding
        <4> QED
          BY <4>1, <1>1, <1>6 DEF AgreedFunding
      <3> HIDE DEF row
      <3>8. ASSUME NEW x \in Cell, funded'[x] # None
            PROVE  AgreedFunding(x, funded'[x], offered', intents', executed')
        BY <3>8, <3>2, <3>3, <3>6, <3>7
      <3> QED
        BY <3>4, <3>8 DEF FundedAsAgreed, AgreedFunding
    <2>4. QED
      BY <1>2, <2>1, <2>2, <2>3
  <1>13. QED
    BY <1>7, <1>8, <1>9, <1>10, <1>11, <1>12 DEF IngressInv

(* A gateway that creates an intent or a receipt's second reader is the      *)
(* record of this moment.                                                    *)
LEMMA ResolveFundingPrincipalKeepsInv ==
  ASSUME IngressInv, NEW r \in Request, ResolveFundingPrincipal(r)
  PROVE  IngressInv'
  <1> DEFINE p == directory[Sent[r].identity]
             next == IF Sent[r].kind = "provision" THEN "provision" ELSE "read"
             q == [pc |-> next, principal |-> p]
  <1>1. /\ request[r] # NotBegun /\ Pure
        /\ Sent[r].kind = "provision" \/ request[r].pc = "gateway"
        /\ \/ Answer(r, "INVALID")
           \/ Live(p) /\ IsGateway(p) /\ Goto(r, q)
    <2>1. request[r].pc \in {"resolve", "gateway"}
      BY DEF ResolveFundingPrincipal
    <2>2. request[r] # NotBegun
      <3>1. CASE request[r].pc = "resolve"
        BY <3>1 DEF NotBegun
      <3>2. CASE request[r].pc = "gateway"
        BY <3>2 DEF NotBegun
      <3>3. QED
        BY <2>1, <3>1, <3>2
    <2>3. QED
      BY Zenon, <2>2 DEF ResolveFundingPrincipal, Live
  <1>2. Justified(r, request[r], seen[r], offered[r], intents)
    BY DEF IngressInv
  <1>3. ASSUME Answer(r, "INVALID") PROVE IngressInv'
    BY <1>1, <1>3, AnswersAreJustified, PureStepKeepsInv DEF Answer
  <1>4. p \in seen[r]
    BY <1>1 DEF IngressInv, Began, UpToDate
  <1>5. ASSUME Live(p), IsGateway(p) PROVE Justified(r, q, seen[r], offered[r], intents) /\ q # NotBegun
    BY <1>1, <1>2, <1>4, <1>5 DEF Justified, Carrying, Commanding, NotBegun
  <1>6. QED
    BY <1>1, <1>3, <1>5, PureStepKeepsInv
(* An intent is drafted to expire before the cell's deadline.                *)
LEMMA CreateFundingIntentKeepsInv ==
  ASSUME IngressAssumption, IngressInv, NEW r \in Request, CreateFundingIntent(r)
  PROVE  IngressInv'
  <1> DEFINE q == [pc |-> "insert", draft |-> Draft(r)]
  <1>1. /\ request[r] # NotBegun /\ Pure
        /\ \/ Answer(r, "INVALID")
           \/ Open(r) /\ Goto(r, q)
    <2>1. request[r].pc = "provision"
      BY DEF CreateFundingIntent
    <2>2. request[r] # NotBegun
      BY <2>1 DEF NotBegun
    <2>3. QED
      BY Zenon, <2>2 DEF CreateFundingIntent
  <1>2. ASSUME Answer(r, "INVALID") PROVE IngressInv'
    BY <1>1, <1>2, AnswersAreJustified, PureStepKeepsInv DEF Answer
  <1>3. request[r].pc = "provision" /\ Justified(r, request[r], seen[r], offered[r], intents)
    BY DEF CreateFundingIntent, IngressInv
  <1>4. ASSUME Open(r) PROVE Justified(r, q, seen[r], offered[r], intents) /\ q # NotBegun
    <2>1. q.draft.expires = Sent[r].draft.expires /\ q.draft.cell = Sent[r].draft.cell
      BY DEF Draft
    <2>2. q.draft.expires \in Nat /\ q.draft.expires <= Terms[q.draft.cell].deadline
      BY <1>3, <1>4, <2>1 DEF Open, Justified, IngressAssumption
    <2>3. QED
      BY <2>2 DEF Justified, Carrying, Commanding, NotBegun
  <1>5. QED
    BY <1>1, <1>2, <1>4, PureStepKeepsInv
(* An intent is inserted under an id that no other has.                      *)
LEMMA InsertIntentKeepsInv ==
  ASSUME IngressInv, NEW r \in Request, InsertIntent(r)
  PROVE  IngressInv'
  <1> DEFINE i == request[r].draft
             answered(outcome) == [pc |-> "answered", outcome |-> outcome]
  <1>1. /\ request[r].pc = "insert" /\ request[r] # NotBegun
        /\ UNCHANGED <<now, directory, status, destination, changes, history>>
        /\ \E outcome : Goto(r, answered(outcome))
        /\ \/ UNCHANGED intents
           \/ (\A other \in intents : other.id # i.id) /\ intents' = intents \cup {i}
    <2>1. request[r].pc = "insert"
      BY DEF InsertIntent
    <2>2. request[r] # NotBegun
      BY <2>1 DEF NotBegun
    <2>3. \E outcome : Goto(r, answered(outcome))
      BY Zenon DEF InsertIntent, Answer
    <2>4. \/ UNCHANGED intents
          \/ (\A other \in intents : other.id # i.id) /\ intents' = intents \cup {i}
      BY DEF InsertIntent
    <2>5. UNCHANGED <<now, directory, status, destination, changes, history>>
      BY DEF InsertIntent
    <2>6. QED
      BY Zenon, <2>1, <2>2, <2>3, <2>4, <2>5
  <1>2. i.expires \in Nat /\ i.expires <= Terms[i.cell].deadline
    BY <1>1 DEF IngressInv, Justified
  <1>3. IngressDomains'
    BY <1>1 DEF Goto, history, IngressInv, IngressDomains, Identities
  <1>4. IntentsBounded'
    BY <1>1, <1>2 DEF IngressInv, IntentsBounded
  <1>5. HistoryOfRequests'
    BY <1>1 DEF Goto, history, IngressInv, IngressDomains, HistoryOfRequests, Began, NotBegun
  <1>6. \A x \in Request : Began(x)' => UpToDate(x)'
    BY <1>1 DEF Goto, history, IngressInv, IngressDomains, Began, UpToDate
  <1>7. \A x \in Request : Justified(x, request'[x], seen'[x], offered'[x], intents')
    <2> SUFFICES ASSUME NEW x \in Request
                 PROVE  Justified(x, request'[x], seen'[x], offered'[x], intents')
      OBVIOUS
    <2>1. intents \subseteq intents' /\ seen'[x] = seen[x] /\ offered'[x] = offered[x]
      BY <1>1 DEF history
    <2>2. CASE x = r
      BY <1>1, <2>2, AnswersAreJustified DEF Goto, IngressInv, IngressDomains
    <2>3. CASE x # r
      <3>1. request'[x] = request[x] /\ Justified(x, request[x], seen[x], offered[x], intents)
        BY <1>1, <2>3 DEF Goto, IngressInv, IngressDomains
      <3>2. QED
        BY <2>1, <3>1, JustifiedMonotone
    <2>4. QED
      BY <2>2, <2>3
  <1>8. FundedAsAgreed'
    <2>1. intents \subseteq intents' /\ UNCHANGED <<now, status, changes, funded, offered, executed>>
      BY <1>1 DEF history
    <2>2. \A a, b \in intents' : a.id = b.id => a = b
      BY <1>1 DEF IngressInv, FundedAsAgreed, IngressTypeOK
    <2>3. IngressTypeOK'
      BY <2>1, <2>2 DEF IngressInv, FundedAsAgreed, IngressTypeOK
    <2>4. QED
      BY <2>1, <2>3 DEF IngressInv, FundedAsAgreed
  <1>9. PartiesOnly'
    BY <1>1 DEF history, IngressInv, PartiesOnly, ActsForItself, OnlyPartiesRead
  <1>10. QED
    BY <1>3, <1>4, <1>5, <1>6, <1>7, <1>8, <1>9 DEF IngressInv

(* Who reads is the actor of this moment, and only a receipt is tried again  *)
(* for a gateway.                                                            *)
LEMMA ResolveActorPrincipalKeepsInv ==
  ASSUME IngressInv, NEW r \in Request, ResolveActorPrincipal(r)
  PROVE  IngressInv'
  <1> DEFINE p == directory[Sent[r].identity]
             q == [pc |-> "read", principal |-> p]
             again == [pc |-> "gateway"]
  <1>1. /\ request[r] # NotBegun /\ Pure
        /\ \/ Answer(r, "FORBIDDEN")
           \/ Sent[r].kind = "receipt" /\ Goto(r, again)
           \/ Live(p) /\ IsActor(p) /\ Goto(r, q)
    <2>1. request[r].pc = "resolve"
      BY DEF ResolveActorPrincipal
    <2>2. request[r] # NotBegun
      BY <2>1 DEF NotBegun
    <2>3. QED
      BY Zenon, <2>2 DEF ResolveActorPrincipal, Live
  <1>2. ASSUME Answer(r, "FORBIDDEN") PROVE IngressInv'
    BY <1>1, <1>2, AnswersAreJustified, PureStepKeepsInv DEF Answer
  <1>3. ASSUME Sent[r].kind = "receipt", Goto(r, again) PROVE IngressInv'
    <2>1. Justified(r, again, seen[r], offered[r], intents) /\ again # NotBegun
      BY <1>3 DEF Justified, Carrying, Commanding, NotBegun
    <2>2. QED
      BY <1>1, <1>3, <2>1, PureStepKeepsInv
  <1>4. ASSUME Live(p), IsActor(p), Goto(r, q) PROVE IngressInv'
    <2>1. p \in seen[r]
      BY <1>1 DEF IngressInv, Began, UpToDate
    <2>2. Justified(r, q, seen[r], offered[r], intents) /\ q # NotBegun
      BY <1>4, <2>1 DEF Justified, Carrying, Commanding, NotBegun
    <2>3. QED
      BY <1>1, <1>4, <2>2, PureStepKeepsInv
  <1>5. QED
    BY <1>1, <1>2, <1>3, <1>4
(* What is read is of a cell the reader is a party of, or a receipt.         *)
LEMMA ReadKeepsInv ==
  ASSUME IngressInv, NEW r \in Request, Read(r)
  PROVE  IngressInv'
  <1> DEFINE p == request[r].principal
             answered(outcome) == [pc |-> "answered", outcome |-> outcome]
  <1>1. /\ request[r].pc = "read" /\ request[r] # NotBegun
        /\ UNCHANGED <<world, seen, offered, executed, funded>>
        /\ \E outcome : Goto(r, answered(outcome))
        /\ UNCHANGED disclosed \/ disclosed' = disclosed \cup ({r} \X Shows(r))
    <2>1. request[r].pc = "read"
      BY DEF Read
    <2>2. request[r] # NotBegun
      BY <2>1 DEF NotBegun
    <2>3. QED
      BY Zenon, <2>1, <2>2 DEF Read, Answer
  <1>2. /\ p \in seen[r] /\ Live(p)
        /\ IsActor(p) \/ (Sent[r].kind = "receipt" /\ IsGateway(p))
    BY <1>1 DEF IngressInv, Justified, Carrying
  <1>3. ASSUME NEW c \in Shows(r)
        PROVE  \/ p.type = "ACTOR" /\ p.actor \in {Terms[c].payer, Terms[c].payee}
               \/ Sent[r].kind = "receipt" /\ p.type = "GATEWAY" /\ "CONFIRM_FUNDING" \in p.capabilities
    BY <1>2, <1>3 DEF Shows, ListCells, GetCellState, GetFundingReceipt, Party, IsActor, IsGateway
  <1>4. \A d \in disclosed' : d \in disclosed \/ (d[1] = r /\ d[2] \in Shows(r))
    BY <1>1
  <1>5. IngressDomains' /\ IntentsBounded'
    BY <1>1 DEF Goto, world, IngressInv, IngressDomains, IntentsBounded, Identities
  <1>6. \A x \in Request : Began(x) => Began(x)'
    BY <1>1 DEF Goto, IngressInv, IngressDomains, Began, NotBegun
  <1>7. HistoryOfRequests'
    BY <1>1, <1>4, <1>6 DEF IngressInv, HistoryOfRequests, Began
  <1>8. \A x \in Request : Began(x)' => UpToDate(x)'
    BY <1>1 DEF Goto, world, IngressInv, IngressDomains, Began, UpToDate
  <1>9. \A x \in Request : Justified(x, request'[x], seen'[x], offered'[x], intents')
    BY <1>1, AnswersAreJustified DEF Goto, world, IngressInv, IngressDomains
  <1>10. FundedAsAgreed'
    BY <1>1 DEF world, IngressInv, FundedAsAgreed, IngressTypeOK
  <1>11. PartiesOnly'
    <2>1. ActsForItself'
      BY <1>1 DEF IngressInv, PartiesOnly, ActsForItself
    <2>2. OnlyPartiesRead'
      BY <1>1, <1>2, <1>3, <1>4 DEF Live, IngressInv, PartiesOnly, OnlyPartiesRead
    <2>3. QED
      BY <2>1, <2>2 DEF PartiesOnly
  <1>12. QED
    BY <1>5, <1>7, <1>8, <1>9, <1>10, <1>11 DEF IngressInv

(* Every step of the trusted ingress keeps its invariant.                    *)
LEMMA IngressNextInv ==
  ASSUME IngressAssumption, IngressInv, [IngressNext]_ingressVars
  PROVE  IngressInv'
  <1>1. CASE Tick
    BY <1>1, TickKeepsInv
  <1>2. ASSUME NEW i \in Identities, NEW record \in Records[i], Administer(i, record)
        PROVE  IngressInv'
    BY <1>2, AdministerKeepsInv
  <1>3. ASSUME NEW c \in Cell, CreateCell(c) PROVE IngressInv'
    BY <1>3, CreateCellKeepsInv
  <1>4. ASSUME NEW c \in Cell, NEW d, Redirect(c, d) PROVE IngressInv'
    BY <1>4, RedirectKeepsInv
  <1>5. ASSUME NEW r \in Request,
               \/ Authenticate(r) \/ ResolvePrincipal(r) \/ ConsumeRate(r) \/ Admit(r)
               \/ ReadCell(r) \/ ResolveDestination(r) \/ LookupIntent(r) \/ Verify(r)
               \/ HandleCommand(r) \/ ResolveFundingPrincipal(r) \/ CreateFundingIntent(r)
               \/ InsertIntent(r) \/ ResolveActorPrincipal(r) \/ Read(r)
        PROVE  IngressInv'
    BY <1>5, AuthenticateKeepsInv, ResolvePrincipalKeepsInv, ConsumeRateKeepsInv, AdmitKeepsInv,
      ReadCellKeepsInv, ResolveDestinationKeepsInv, LookupIntentKeepsInv, VerifyKeepsInv,
      HandleCommandKeepsInv, ResolveFundingPrincipalKeepsInv, CreateFundingIntentKeepsInv,
      InsertIntentKeepsInv, ResolveActorPrincipalKeepsInv, ReadKeepsInv
  <1>6. CASE UNCHANGED ingressVars
    <2> USE <1>6 DEF ingressVars
    <2>1. IngressDomains' /\ IntentsBounded' /\ HistoryOfRequests'
      BY DEF IngressInv, IngressDomains, IntentsBounded, HistoryOfRequests, Began, Identities
    <2>2. \A x \in Request : Began(x)' => UpToDate(x)'
      BY DEF IngressInv, Began, UpToDate
    <2>3. FundedAsAgreed' /\ PartiesOnly'
      BY DEF IngressInv, FundedAsAgreed, IngressTypeOK, PartiesOnly, ActsForItself, OnlyPartiesRead
    <2>4. QED
      BY <2>1, <2>2, <2>3 DEF IngressInv
  <1>7. QED
    BY <1>1, <1>2, <1>3, <1>4, <1>5, <1>6 DEF IngressNext

(* What a waiting request carries is justified by what it has seen.          *)
THEOREM IngressInvariant ==
  ASSUME IngressAssumption
  PROVE  IngressSpec => []IngressInv
  <1>1. IngressInit => IngressInv
    BY IngressInitInv
  <1>2. IngressInv /\ [IngressNext]_ingressVars => IngressInv'
    BY IngressNextInv
  <1>3. QED
    BY <1>1, <1>2, PTL DEF IngressSpec

(* While administrators revoke, disable and remap: a command is executed and *)
(* a cell or receipt shown only for an identity that had, at some moment     *)
(* since the request began, the very actor or gateway the rule asks for.     *)
THEOREM ActsAndReadsForItself ==
  ASSUME IngressAssumption
  PROVE  IngressSpec => []PartiesOnly
  <1>1. IngressInv => PartiesOnly
    BY DEF IngressInv
  <1>2. QED
    BY <1>1, IngressInvariant, PTL

(* A cell is funded with the terms its parties agreed on, at a destination   *)
(* it had while the request ran, confirmed on an intent and before the       *)
(* funding deadline, whatever the caller wrote and whatever changes between  *)
(* the steps of a request.                                                   *)
THEOREM FundsAsAgreed ==
  ASSUME IngressAssumption
  PROVE  IngressSpec => []FundedAsAgreed
  <1>1. IngressInv => FundedAsAgreed
    BY DEF IngressInv
  <1>2. QED
    BY <1>1, IngressInvariant, PTL

---------------------------------------------------------------------------
(***************************************************************************)
(* Principals and their lifecycle.                                          *)
(***************************************************************************)
AuditRecord ==
  [operation : LifecycleOperation, version : Nat, actor : Actor \cup {None},
   capability : Capability \cup {None}, holds : SUBSET Capability]
PrincipalRow ==
  [type : PrincipalType \cup {None}, actor : Actor \cup {None}, enabled : BOOLEAN,
   version : 0..MaxVersion]
AuthorityTyped ==
  /\ principals \in [Principal -> PrincipalRow]
  /\ identities \in [Identity -> Principal \cup {None}]
  /\ capabilities \in [Principal -> SUBSET Capability]
  /\ audit \in [Principal -> Seq(AuditRecord)]
  /\ DOMAIN change = Administrator /\ DOMAIN resolution = Resolution

(* A principal's row with its capabilities, and with its audit: the last row *)
(* that switches it tells whether it is enabled, the last row its actor and  *)
(* what it holds, the last row of a capability whether it has that one.      *)
RowOK(row, held) ==
  \/ row = Absent /\ held = {}
  \/ /\ row.type \in PrincipalType /\ row.version # 0
     /\ row.type = "ACTOR" <=> row.actor \in Actor
     /\ held \subseteq Allowed(row.type)
Switches == {"CREATE", "ENABLE", "DISABLE"}
Last(rows, operations, v) ==
  /\ v \in 1..Len(rows) /\ rows[v].operation \in operations
  /\ \A w \in v + 1 .. Len(rows) : rows[w].operation \notin operations
Settles(rows, v) ==
  /\ v \in 1..Len(rows) /\ rows[v].capability # None
  /\ \A w \in v + 1 .. Len(rows) : rows[w].capability # rows[v].capability
AuditOK(row, held, rows) ==
  /\ Len(rows) = row.version
  /\ \A v \in 1..Len(rows) : rows[v].version = v
  /\ row # Absent =>
       /\ row.actor = rows[Len(rows)].actor /\ held = rows[Len(rows)].holds
       /\ \E v \in 1..Len(rows) :
            Last(rows, Switches, v) /\ (row.enabled <=> rows[v].operation # "DISABLE")
       /\ \A v \in 1..Len(rows) : Settles(rows, v) =>
            (rows[v].capability \in held <=> rows[v].operation = "CAPABILITY_ASSIGN")
RowsInv ==
  \A p \in Principal :
    RowOK(principals[p], capabilities[p]) /\ AuditOK(principals[p], capabilities[p], audit[p])

(* What an administrator read is not of a later version than the row; what   *)
(* was confirmed is in the audit.                                            *)
AskedInv ==
  \A a \in Administrator : change[a] # NotAsked =>
    /\ change[a].pc = "change" /\ change[a].request \in Changes
    /\ change[a].expected \in Nat /\ change[a].expected < MaxVersion
    /\ change[a].expected <= principals[change[a].request.principal].version
ConfirmedInv ==
  \A c \in confirmed :
    /\ c.principal \in Principal /\ c.version \in 1..Len(audit[c.principal])
    /\ c.version = c.read + 1

(* A resolution at work reads forward in the versions of one principal.      *)
ResolvingInv ==
  \A r \in Resolution :
    /\ resolution[r].pc = "row" =>
         /\ resolution[r].identity \in Identity /\ resolution[r].since \in Nat
         /\ IF identities[resolution[r].identity] = None THEN resolution[r].since = 0
            ELSE resolution[r].since <= principals[identities[resolution[r].identity]].version
    /\ resolution[r].pc = "capabilities" =>
         /\ resolution[r].principal \in Principal /\ resolution[r].since \in Nat
         /\ resolution[r].row.version \in Nat
         /\ resolution[r].since <= resolution[r].row.version
         /\ resolution[r].row.version <= principals[resolution[r].principal].version
    /\ resolution[r].pc = "resolved" =>
         resolution[r].principal \in Principal /\ resolution[r].since \in Nat
AuthorityInv ==
  /\ AuthorityTyped /\ RowsInv /\ AskedInv /\ ConfirmedInv /\ ResolvingInv
  /\ ActorsUnambiguous /\ NoLostChange /\ ResolvedFresh

(* A row that is not of an absent principal has a type and a version.        *)
LEMMA PresentRows ==
  ASSUME VersionAssumption, ChangesAssumption, AuthorityInv, NEW p \in Principal
  PROVE  /\ Exists(p) <=> principals[p].version # 0
         /\ Exists(p) => /\ principals[p].type \in PrincipalType
                         /\ principals[p].version \in 1..MaxVersion
         /\ ~Exists(p) => principals[p].actor = None
  <1>1. RowOK(principals[p], capabilities[p]) /\ principals[p] \in PrincipalRow
    BY DEF AuthorityInv, RowsInv, AuthorityTyped
  <1>2. QED
    BY <1>1 DEF RowOK, Exists, Absent, PrincipalRow, VersionAssumption

(* The audit of a principal explains what it says of it.                     *)
LEMMA AuditOKExplains ==
  ASSUME VersionAssumption, ChangesAssumption, AuthorityInv
  PROVE  AuditExplains
  <1> SUFFICES ASSUME NEW p \in Principal
               PROVE  /\ Len(audit[p]) = principals[p].version
                      /\ \A v \in 1 .. Len(audit[p]) : audit[p][v].version = v
                      /\ Exists(p) =>
                           /\ principals[p].enabled <=>
                                audit[p][LastRow(p, Switches)].operation # "DISABLE"
                           /\ principals[p].actor = audit[p][Len(audit[p])].actor
                           /\ \A v \in 1 .. Len(audit[p]) :
                                (audit[p][v].capability # None
                                 /\ \A w \in v + 1 .. Len(audit[p]) :
                                      audit[p][w].capability # audit[p][v].capability)
                                => (audit[p][v].capability \in capabilities[p]
                                    <=> audit[p][v].operation = "CAPABILITY_ASSIGN")
    BY DEF AuditExplains, Switches
  <1> DEFINE rows == audit[p]
  <1>1. AuditOK(principals[p], capabilities[p], rows) /\ rows \in Seq(AuditRecord)
    BY DEF AuthorityInv, RowsInv, AuthorityTyped
  <1>2. ASSUME Exists(p) PROVE principals[p].enabled <=> rows[LastRow(p, Switches)].operation # "DISABLE"
    <2>1. PICK v : Last(rows, Switches, v) /\ (principals[p].enabled <=> rows[v].operation # "DISABLE")
      BY <1>1, <1>2 DEF AuditOK, Exists
    <2>2. \A x, y : Last(rows, Switches, x) /\ Last(rows, Switches, y) => x = y
      BY <1>1 DEF Last
    <2>3. Last(rows, Switches, LastRow(p, Switches))
      <3>1. LastRow(p, Switches) =
              CHOOSE x \in 1..Len(rows) : /\ rows[x].operation \in Switches
                                          /\ \A w \in x + 1 .. Len(rows) : rows[w].operation \notin Switches
        BY DEF LastRow
      <3>2. \E x \in 1..Len(rows) : /\ rows[x].operation \in Switches
                                    /\ \A w \in x + 1 .. Len(rows) : rows[w].operation \notin Switches
        BY <2>1 DEF Last
      <3>3. QED
        BY <3>1, <3>2 DEF Last
    <2>4. v = LastRow(p, Switches)
      BY <2>1, <2>2, <2>3
    <2>5. QED
      BY <2>1, <2>4
  <1>3. QED
    BY <1>1, <1>2 DEF AuditOK, Exists, Settles

(* The audit goes on explaining a principal when the row of a change is      *)
(* appended: a creation's to none, any other's to what the principal was.    *)
LEMMA AuditAppended ==
  ASSUME ChangesAssumption,
         NEW row, NEW held, NEW rows \in Seq(AuditRecord), AuditOK(row, held, rows),
         NEW row2, NEW held2, NEW new \in AuditRecord,
         row2 # Absent, row.version \in Nat, row2.version = row.version + 1,
         new.version = row2.version, new.actor = row2.actor, new.holds = held2,
         row = Absent => row.version = 0,
         new.operation = "CREATE" <=> row = Absent,
         new.operation \in Switches => (row2.enabled <=> new.operation # "DISABLE"),
         new.operation \notin Switches => (row2.enabled <=> row.enabled),
         new.operation \notin {"CAPABILITY_ASSIGN", "CAPABILITY_REVOKE"} => new.capability = None,
         new.operation = "CAPABILITY_ASSIGN" => held2 = held \cup {new.capability},
         new.operation = "CAPABILITY_REVOKE" => held2 = held \ {new.capability},
         new.operation \notin {"CREATE", "CAPABILITY_ASSIGN", "CAPABILITY_REVOKE"} => held2 = held
  PROVE  AuditOK(row2, held2, Append(rows, new))
  <1> DEFINE after == Append(rows, new)
             n == Len(rows)
  <1>1. /\ n \in Nat /\ n = row.version
        /\ Len(after) = n + 1 /\ after[n + 1] = new
        /\ \A v \in 1..n : after[v] = rows[v]
    BY DEF AuditOK
  <1>2. Len(after) = row2.version /\ \A v \in 1..Len(after) : after[v].version = v
    BY <1>1 DEF AuditOK
  <1>3. row2.actor = after[Len(after)].actor /\ held2 = after[Len(after)].holds
    BY <1>1
  <1>4. \E v \in 1..Len(after) :
          Last(after, Switches, v) /\ (row2.enabled <=> after[v].operation # "DISABLE")
    <2>1. CASE new.operation \in Switches
      <3>1. Last(after, Switches, n + 1) /\ n + 1 \in 1..Len(after)
        BY <1>1, <2>1 DEF Last
      <3>2. row2.enabled <=> after[n + 1].operation # "DISABLE"
        BY <1>1, <2>1
      <3>3. QED
        BY <3>1, <3>2
    <2>2. CASE new.operation \notin Switches
      <3>1. row # Absent
        BY <2>2 DEF Switches
      <3>2. PICK v \in 1..Len(rows) :
              Last(rows, Switches, v) /\ (row.enabled <=> rows[v].operation # "DISABLE")
        BY <3>1 DEF AuditOK
      <3>3. Last(after, Switches, v) /\ after[v] = rows[v] /\ v \in 1..Len(after)
        BY <1>1, <2>2, <3>2 DEF Last
      <3>4. row2.enabled <=> after[v].operation # "DISABLE"
        BY <2>2, <3>2, <3>3
      <3>5. QED
        BY <3>3, <3>4
    <2>3. QED
      BY <2>1, <2>2
  <1>5. ASSUME NEW v \in 1..Len(after), Settles(after, v)
        PROVE  after[v].capability \in held2 <=> after[v].operation = "CAPABILITY_ASSIGN"
    <2>1. v \in 1..n + 1
      BY <1>1
    <2>2. CASE v = n + 1
      <3>1. new.operation \in {"CAPABILITY_ASSIGN", "CAPABILITY_REVOKE"}
        BY <1>1, <1>5, <2>2 DEF Settles
      <3>2. QED
        BY <1>1, <2>2, <3>1
    <2>3. CASE v \in 1..n
      <3>1. row # Absent /\ after[v] = rows[v] /\ new.operation # "CREATE"
        BY <1>1, <2>3
      <3>2. Settles(rows, v) /\ new.capability # rows[v].capability
        BY <1>1, <1>5, <2>3 DEF Settles
      <3>3. v \in 1..Len(rows)
        BY <1>1, <2>3, <3>1 DEF AuditOK
      <3>4. rows[v].capability \in held <=> rows[v].operation = "CAPABILITY_ASSIGN"
        BY <3>1, <3>2, <3>3 DEF AuditOK
      <3>5. rows[v].capability \in held2 <=> rows[v].capability \in held
        BY <3>1, <3>2
      <3>6. QED
        BY <3>1, <3>4, <3>5
    <2>4. QED
      BY <1>1, <2>1, <2>2, <2>3
  <1>6. row2 # Absent
    BY <1>1
  <1>7. QED
    BY <1>2, <1>3, <1>4, <1>5, <1>6 DEF AuditOK

(* What a change that is committed makes of its principal.                   *)
Committable(a) ==
  LET q == change[a].request IN
  /\ change[a] # NotAsked
  /\ \/ q.operation = "CREATE" /\ Creatable(q)
     \/ q.operation # "CREATE" /\ Finds(q, change[a].expected) /\ Permitted(q)
LEMMA WhatCommits ==
  ASSUME VersionAssumption, ChangesAssumption, AuthorityInv, NEW a \in Administrator, Committable(a)
  PROVE  LET q == change[a].request
             p == q.principal IN
         /\ q \in Changes /\ p \in Principal
         /\ q.operation = "CREATE" <=> principals[p] = Absent
         /\ principals[p].version \in Nat /\ principals[p].version = change[a].expected
         /\ RowAfter(q) \in PrincipalRow /\ RowAfter(q).type \in PrincipalType
         /\ RowAfter(q).version = principals[p].version + 1
         /\ RowAfter(q).type = "ACTOR" <=> RowAfter(q).actor \in Actor
         /\ RowAfter(q).actor # None => ActorFree(p, RowAfter(q).actor)
         /\ CapabilitiesAfter(q) \subseteq Allowed(RowAfter(q).type)
         /\ q.operation \in {"CREATE", "IDENTITY_ATTACH"} =>
              q.identity \in Identity /\ identities[q.identity] = None
  <1> DEFINE q == change[a].request
             p == q.principal
             row == principals[p]
  <1>1. /\ q \in Changes /\ change[a].expected \in Nat /\ change[a].expected < MaxVersion
        /\ change[a].expected <= row.version
    BY DEF Committable, AuthorityInv, AskedInv
  <1>2. p \in Principal /\ q.operation \in LifecycleOperation
    BY <1>1 DEF ChangesAssumption
  <1>3. /\ row \in PrincipalRow /\ RowOK(row, capabilities[p])
        /\ row # Absent <=> row.version # 0
        /\ row # Absent => row.type \in PrincipalType /\ row.version \in 1..MaxVersion
    BY <1>2, PresentRows DEF Exists, AuthorityInv, RowsInv, AuthorityTyped
  <1>4. CASE q.operation = "CREATE"
    <2>1. /\ Creatable(q) /\ row = Absent /\ row.version = 0
          /\ RowAfter(q) = [type |-> q.type, actor |-> q.actor, enabled |-> TRUE, version |-> 1]
          /\ CapabilitiesAfter(q) = q.capabilities
      BY <1>4 DEF Committable, Creatable, Exists, RowAfter, CapabilitiesAfter, Absent
    <2>2. q.type \in PrincipalType /\ q.actor \in Actor \cup {None} /\ q.identity \in Identity
          /\ None \notin Actor
      BY <1>1, <1>4 DEF ChangesAssumption
    <2>3. 1 \in 0..MaxVersion
      BY DEF VersionAssumption
    <2>4. RowAfter(q) \in PrincipalRow
      BY <2>1, <2>2, <2>3 DEF PrincipalRow
    <2>5. (q.type = "ACTOR" <=> q.actor # None) /\ q.capabilities \subseteq Allowed(q.type)
          /\ identities[q.identity] = None /\ (q.actor # None => ActorFree(p, q.actor))
      BY <2>1 DEF Creatable, ValidCreate
    <2>6. change[a].expected = row.version
      BY <1>1, <2>1
    <2>7. /\ RowAfter(q).type = q.type /\ RowAfter(q).actor = q.actor /\ RowAfter(q).version = 1
      BY <2>1
    <2>8. q.type = "ACTOR" <=> q.actor \in Actor
      BY <2>2, <2>5
    <2>9. row = Absent /\ row.version = 0 /\ CapabilitiesAfter(q) = q.capabilities
      BY <2>1
    <2>10. QED
      BY <1>1, <1>2, <1>4, <2>2, <2>4, <2>5, <2>6, <2>7, <2>8, <2>9
  <1>5. CASE q.operation # "CREATE"
    <2>1. /\ Finds(q, change[a].expected) /\ Permitted(q)
          /\ row # Absent /\ row.version = change[a].expected
      BY <1>5 DEF Committable, Finds, Exists
    <2>2. /\ row.type \in PrincipalType /\ row.version + 1 \in 0..MaxVersion
          /\ (row.type = "ACTOR" <=> row.actor \in Actor) /\ capabilities[p] \subseteq Allowed(row.type)
      <3>1. row.type \in PrincipalType /\ row.version + 1 \in 0..MaxVersion
        BY <1>1, <1>3, <2>1 DEF VersionAssumption
      <3>2. (row.type = "ACTOR" <=> row.actor \in Actor) /\ capabilities[p] \subseteq Allowed(row.type)
        BY <1>3, <2>1 DEF RowOK
      <3> QED BY <3>1, <3>2
    <2>3. ActorFree(p, row.actor) \/ row.actor = None
      BY <1>2 DEF ActorFree, AuthorityInv, ActorsUnambiguous
    <2>4. q.operation \in {"CREATE", "IDENTITY_ATTACH"} =>
            q.identity \in Identity /\ identities[q.identity] = None
      BY <1>1, <1>5, <2>1 DEF Permitted, ChangesAssumption
    <2>5. CapabilitiesAfter(q) \subseteq Allowed(row.type)
      BY <1>5, <2>1, <2>2 DEF CapabilitiesAfter, Permitted
    <2>6. /\ RowAfter(q) \in PrincipalRow /\ RowAfter(q).type = row.type
          /\ RowAfter(q).version = row.version + 1
          /\ RowAfter(q).actor = IF q.operation = "ACTOR_MAPPING" THEN q.actor ELSE row.actor
      <3>1. q.operation = "ACTOR_MAPPING" => q.actor \in Actor
        BY <1>1 DEF ChangesAssumption
      <3>2. QED
        BY <1>3, <1>5, <2>2, <3>1 DEF RowAfter, PrincipalRow
    <2>7. /\ RowAfter(q).type = "ACTOR" <=> RowAfter(q).actor \in Actor
          /\ RowAfter(q).actor # None => ActorFree(p, RowAfter(q).actor)
      <3>1. CASE q.operation = "ACTOR_MAPPING"
        <4>1. q.actor \in Actor
          BY <1>1, <3>1 DEF ChangesAssumption
        <4>2. row.type = "ACTOR" /\ ActorFree(p, q.actor)
          BY <2>1, <3>1 DEF Finds, Permitted
        <4>3. QED
          BY <2>6, <3>1, <4>1, <4>2
      <3>2. CASE q.operation # "ACTOR_MAPPING"
        BY <2>2, <2>3, <2>6, <3>2
      <3>3. QED
        BY <3>1, <3>2
    <2>8. row.version \in Nat
      BY <1>1, <2>1
    <2>9. QED
      BY <1>1, <1>2, <1>5, <2>1, <2>2, <2>4, <2>5, <2>6, <2>7, <2>8
  <1>6. QED
    BY <1>4, <1>5

(* A step that leaves the tables and what was confirmed alone keeps what     *)
(* they say.                                                                 *)
LEMMA TablesUnchanged ==
  ASSUME AuthorityInv, UNCHANGED <<principals, identities, capabilities, audit, confirmed>>,
         DOMAIN change' = Administrator, DOMAIN resolution' = Resolution
  PROVE  AuthorityTyped' /\ RowsInv' /\ ConfirmedInv' /\ ActorsUnambiguous' /\ NoLostChange'
  BY DEF AuthorityInv, AuthorityTyped, RowsInv, ConfirmedInv, ActorsUnambiguous, NoLostChange

(* A change that is committed keeps the invariant.                           *)
LEMMA CommitKeepsInv ==
  ASSUME VersionAssumption, ChangesAssumption, AuthorityInv, NEW a \in Administrator,
         Committable(a), CommitChange(a), change' = [change EXCEPT ![a] = NotAsked],
         UNCHANGED <<cited, resolution>>
  PROVE  AuthorityInv'
  <1> DEFINE q == change[a].request
             p == q.principal
             row == principals[p]
             row2 == RowAfter(q)
             held2 == CapabilitiesAfter(q)
             new == AuditRow(q)
             told == [principal |-> p, version |-> row2.version, read |-> change[a].expected,
                      by |-> a, request |-> q]
  <1>1. /\ q \in Changes /\ p \in Principal
        /\ q.operation = "CREATE" <=> row = Absent
        /\ row.version \in Nat /\ row.version = change[a].expected
        /\ row2 \in PrincipalRow /\ row2.type \in PrincipalType
        /\ row2.version = row.version + 1
        /\ row2.type = "ACTOR" <=> row2.actor \in Actor
        /\ row2.actor # None => ActorFree(p, row2.actor)
        /\ held2 \subseteq Allowed(row2.type)
        /\ q.operation \in {"CREATE", "IDENTITY_ATTACH"} =>
             q.identity \in Identity /\ identities[q.identity] = None
    BY WhatCommits
  <1>2. /\ principals \in [Principal -> PrincipalRow] /\ capabilities \in [Principal -> SUBSET Capability]
        /\ identities \in [Identity -> Principal \cup {None}]
        /\ audit \in [Principal -> Seq(AuditRecord)]
        /\ DOMAIN change = Administrator /\ DOMAIN resolution = Resolution
    BY DEF AuthorityInv, AuthorityTyped
  <1>3. \A x \in Principal :
          /\ principals'[x] = IF x = p THEN row2 ELSE principals[x]
          /\ capabilities'[x] = IF x = p THEN held2 ELSE capabilities[x]
          /\ audit'[x] = IF x = p THEN Append(audit[p], new) ELSE audit[x]
    BY <1>1, <1>2 DEF CommitChange
  <1>4. held2 \subseteq Capability
    BY <1>1 DEF Allowed, Capability, PrincipalType
  <1>5. new \in AuditRecord
    <2>1. q.operation \in LifecycleOperation /\ row2.version \in Nat /\ row2.actor \in Actor \cup {None}
      BY <1>1 DEF ChangesAssumption, PrincipalRow
    <2>2. q.operation \in {"CAPABILITY_ASSIGN", "CAPABILITY_REVOKE"} => q.capability \in Capability
      BY <1>1 DEF ChangesAssumption
    <2> HIDE DEF q, row2
    <2>3. QED
      BY <1>4, <2>1, <2>2 DEF AuditRow, AuditRecord, q, row2
  <1>6. AuthorityTyped'
    <2>1. identities' \in [Identity -> Principal \cup {None}]
      BY <1>1, <1>2 DEF CommitChange
    <2>2. principals' \in [Principal -> PrincipalRow] /\ capabilities' \in [Principal -> SUBSET Capability]
      BY <1>1, <1>2, <1>4 DEF CommitChange
    <2>3. audit' \in [Principal -> Seq(AuditRecord)]
      BY <1>1, <1>2, <1>5 DEF CommitChange
    <2>4. QED
      BY <1>2, <2>1, <2>2, <2>3 DEF AuthorityTyped
  <1>7. row2 # Absent
    BY <1>1 DEF ChangesAssumption, Absent
  <1>8. AuditOK(row2, held2, Append(audit[p], new))
    <2>1. AuditOK(row, capabilities[p], audit[p]) /\ audit[p] \in Seq(AuditRecord)
      BY <1>1, <1>2 DEF AuthorityInv, RowsInv
    <2>2. /\ new.version = row2.version /\ new.actor = row2.actor /\ new.holds = held2
          /\ new.operation = q.operation
          /\ new.capability = IF q.operation \in {"CAPABILITY_ASSIGN", "CAPABILITY_REVOKE"}
                              THEN q.capability ELSE None
      BY DEF AuditRow
    <2>3. row = Absent => row.version = 0
      BY DEF Absent
    <2>4. /\ q.operation \in Switches => (row2.enabled <=> q.operation # "DISABLE")
          /\ q.operation \notin Switches => (row2.enabled <=> row.enabled)
      <3>1. row \in PrincipalRow
        BY <1>1, <1>2
      <3>2. QED
        BY <3>1 DEF RowAfter, Switches, PrincipalRow
    <2>5. /\ q.operation = "CAPABILITY_ASSIGN" => held2 = capabilities[p] \cup {q.capability}
          /\ q.operation = "CAPABILITY_REVOKE" => held2 = capabilities[p] \ {q.capability}
          /\ q.operation \notin {"CREATE", "CAPABILITY_ASSIGN", "CAPABILITY_REVOKE"} =>
               held2 = capabilities[p]
      BY DEF CapabilitiesAfter
    <2> HIDE DEF q, p, row, row2, held2, new
    <2>6. QED
      BY <1>1, <1>5, <1>7, <2>1, <2>2, <2>3, <2>4, <2>5, AuditAppended
  <1>9. RowsInv'
    <2>1. RowOK(row2, held2)
      BY <1>1 DEF RowOK
    <2> HIDE DEF row2, held2, new
    <2>2. QED
      BY <1>3, <1>8, <2>1 DEF AuthorityInv, RowsInv
  <1>10. \A x \in Principal :
           /\ principals[x].version \in Nat /\ principals'[x].version \in Nat
           /\ principals[x].version <= principals'[x].version
           /\ Len(audit[x]) \in Nat /\ Len(audit'[x]) \in Nat /\ Len(audit[x]) <= Len(audit'[x])
           /\ \A v \in 1..Len(audit[x]) : audit'[x][v] = audit[x][v]
    <2> HIDE DEF new, row2
    <2> SUFFICES ASSUME NEW x \in Principal
                 PROVE  /\ principals[x].version \in Nat /\ principals'[x].version \in Nat
                        /\ principals[x].version <= principals'[x].version
                        /\ Len(audit[x]) \in Nat /\ Len(audit'[x]) \in Nat
                        /\ Len(audit[x]) <= Len(audit'[x])
                        /\ \A v \in 1..Len(audit[x]) : audit'[x][v] = audit[x][v]
      OBVIOUS
    <2>1. audit[x] \in Seq(AuditRecord) /\ principals[x] \in PrincipalRow
      BY <1>2
    <2>2. principals[x].version \in Nat
      BY <2>1 DEF PrincipalRow
    <2>3. CASE x = p
      <3>1. principals'[x].version = principals[x].version + 1
        BY <1>1, <1>3, <2>3
      <3>2. audit'[x] = Append(audit[x], new)
        BY <1>3, <2>3
      <3> HIDE DEF p, row
      <3>3. QED
        BY <1>5, <2>1, <2>2, <3>1, <3>2
    <2>4. CASE x # p
      BY <1>3, <2>1, <2>2, <2>4
    <2>5. QED
      BY <2>3, <2>4
  <1>11. AskedInv'
    <2> SUFFICES ASSUME NEW b \in Administrator, change'[b] # NotAsked
                 PROVE  /\ change'[b].pc = "change" /\ change'[b].request \in Changes
                        /\ change'[b].expected \in Nat /\ change'[b].expected < MaxVersion
                        /\ change'[b].expected <= principals'[change'[b].request.principal].version
      BY DEF AskedInv
    <2>1. change'[b] = change[b]
      BY <1>2
    <2>2. /\ change[b].pc = "change" /\ change[b].request \in Changes
          /\ change[b].expected \in Nat /\ change[b].expected < MaxVersion
          /\ change[b].expected <= principals[change[b].request.principal].version
      BY <2>1 DEF AuthorityInv, AskedInv
    <2>3. change[b].request.principal \in Principal
      BY <2>2 DEF ChangesAssumption
    <2>4. QED
      BY <1>10, <2>1, <2>2, <2>3
  <1>12. \A c \in confirmed' : c \in confirmed \/ c = told
    BY DEF CommitChange
  <1>13. told.version = Len(audit[p]) + 1 /\ Len(audit'[p]) = Len(audit[p]) + 1
         /\ audit'[p][Len(audit[p]) + 1] = new /\ Len(audit[p]) \in Nat
    <2>1. Len(audit[p]) = row.version /\ audit[p] \in Seq(AuditRecord)
      BY <1>1, <1>2 DEF AuthorityInv, RowsInv, AuditOK
    <2>2. audit'[p] = Append(audit[p], new)
      BY <1>1, <1>3
    <2> HIDE DEF new, row2, row
    <2>3. QED
      BY <1>1, <1>5, <2>1, <2>2
  <1>14. ConfirmedInv'
    <2> SUFFICES ASSUME NEW c \in confirmed'
                 PROVE  /\ c.principal \in Principal /\ c.version \in 1..Len(audit'[c.principal])
                        /\ c.version = c.read + 1
      BY DEF ConfirmedInv
    <2>1. CASE c \in confirmed
      BY <1>10, <2>1 DEF AuthorityInv, ConfirmedInv
    <2>2. CASE c = told
      BY <1>1, <1>13, <2>2
    <2>3. QED
      BY <1>12, <2>1, <2>2
  <1>15. NoLostChange'
    <2>1. ASSUME NEW c \in confirmed'
          PROVE  audit'[c.principal][c.version].operation = c.request.operation
      <3>1. CASE c \in confirmed
        BY <1>10, <3>1 DEF AuthorityInv, ConfirmedInv, NoLostChange
      <3>2. CASE c = told
        BY <1>13, <3>2 DEF AuditRow
      <3>3. QED
        BY <1>12, <2>1, <3>1, <3>2
    <2>2. ASSUME NEW c \in confirmed', NEW d \in confirmed', d.principal = c.principal,
                 d.version = c.version
          PROVE  d = c
      <3>1. \A x \in confirmed : x.principal = p => x.version # told.version
        BY <1>13 DEF AuthorityInv, ConfirmedInv
      <3>2. told.principal = p
        OBVIOUS
      <3> HIDE DEF told
      <3>3. QED
        BY <1>12, <2>2, <3>1, <3>2 DEF AuthorityInv, NoLostChange
    <2>3. QED
      BY <1>14, <2>1, <2>2 DEF ConfirmedInv, NoLostChange
  <1>16. ActorsUnambiguous'
    <2> HIDE DEF row2
    <2>1. QED
      BY <1>1, <1>3 DEF AuthorityInv, ActorsUnambiguous, ActorFree
  <1>17. \A i \in Identity : identities[i] # None => identities'[i] = identities[i]
    BY <1>1, <1>2 DEF CommitChange
  <1>18. ResolvingInv'
    <2> SUFFICES ASSUME NEW r \in Resolution
                 PROVE  /\ resolution[r].pc = "row" =>
                             LET i == resolution[r].identity IN
                             /\ i \in Identity /\ resolution[r].since \in Nat
                             /\ IF identities'[i] = None THEN resolution[r].since = 0
                                ELSE resolution[r].since <= principals'[identities'[i]].version
                        /\ resolution[r].pc = "capabilities" =>
                             /\ resolution[r].principal \in Principal /\ resolution[r].since \in Nat
                             /\ resolution[r].row.version \in Nat
                             /\ resolution[r].since <= resolution[r].row.version
                             /\ resolution[r].row.version <= principals'[resolution[r].principal].version
                        /\ resolution[r].pc = "resolved" =>
                             resolution[r].principal \in Principal /\ resolution[r].since \in Nat
      BY DEF ResolvingInv
    <2>1. CASE resolution[r].pc = "row"
      <3> DEFINE i == resolution[r].identity
      <3>1. /\ i \in Identity /\ resolution[r].since \in Nat
            /\ IF identities[i] = None THEN resolution[r].since = 0
               ELSE resolution[r].since <= principals[identities[i]].version
        BY <2>1 DEF AuthorityInv, ResolvingInv
      <3>2. identities'[i] \in Principal \cup {None}
        BY <1>6, <3>1 DEF AuthorityTyped
      <3>3. identities'[i] # None => resolution[r].since <= principals'[identities'[i]].version
        <4>1. CASE identities[i] = None
          BY <1>10, <3>1, <3>2, <4>1
        <4>2. CASE identities[i] # None
          BY <1>10, <1>17, <3>1, <3>2, <4>2
        <4>3. QED
          BY <4>1, <4>2
      <3>4. QED
        BY <1>17, <2>1, <3>1, <3>3
    <2>2. CASE resolution[r].pc = "capabilities"
      BY <1>10, <2>2 DEF AuthorityInv, ResolvingInv
    <2>3. CASE resolution[r].pc = "resolved"
      BY <2>3 DEF AuthorityInv, ResolvingInv
    <2>4. QED
      BY <2>1, <2>2, <2>3
  <1>19. ResolvedFresh'
    <2> SUFFICES ASSUME NEW r \in Resolution, resolution[r].pc = "resolved",
                        NEW c \in resolution[r].capabilities
                 PROVE  \E v \in 1 .. Len(audit'[resolution[r].principal]) :
                          /\ v >= resolution[r].since
                          /\ c \in audit'[resolution[r].principal][v].holds
      BY DEF AuthorityInv, ResolvedFresh
    <2>1. resolution[r].principal \in Principal
      BY DEF AuthorityInv, ResolvingInv
    <2>2. PICK v \in 1 .. Len(audit[resolution[r].principal]) :
            v >= resolution[r].since /\ c \in audit[resolution[r].principal][v].holds
      BY DEF AuthorityInv, ResolvedFresh
    <2>3. QED
      BY <1>10, <2>1, <2>2
  <1>20. QED
    BY <1>6, <1>9, <1>11, <1>14, <1>15, <1>16, <1>18, <1>19 DEF AuthorityInv

(* Steps of an administrator that change no table.                           *)
LEMMA AskingKeepsInv ==
  ASSUME ChangesAssumption, AuthorityInv, NEW a \in Administrator,
         \/ \E q \in Changes : Get(a, q)
         \/ /\ change' = [change EXCEPT ![a] = NotAsked]
            /\ UNCHANGED <<principals, identities, capabilities, audit, cited, resolution, confirmed>>
  PROVE  AuthorityInv'
  <1>1. /\ UNCHANGED <<principals, identities, capabilities, audit, cited, resolution, confirmed>>
        /\ DOMAIN change' = Administrator /\ DOMAIN resolution' = Resolution
    BY DEF Get, AuthorityInv, AuthorityTyped
  <1>2. AskedInv'
    <2>1. ASSUME NEW q \in Changes, Get(a, q) PROVE AskedInv'
      <3>1. principals[q.principal].version \in Nat
        BY DEF ChangesAssumption, AuthorityInv, AuthorityTyped, PrincipalRow
      <3>2. principals[q.principal].version < MaxVersion
        BY <2>1 DEF Get
      <3>3. \A b \in Administrator :
              change'[b] = IF b = a THEN [pc |-> "change", request |-> q,
                                          expected |-> principals[q.principal].version]
                           ELSE change[b]
        BY <2>1 DEF Get, AuthorityInv, AuthorityTyped
      <3>4. QED
        BY <1>1, <3>1, <3>2, <3>3 DEF AuthorityInv, AskedInv
    <2>2. ASSUME change' = [change EXCEPT ![a] = NotAsked] PROVE AskedInv'
      BY <1>1, <2>2 DEF AuthorityInv, AuthorityTyped, AskedInv
    <2>3. QED
      BY <2>1, <2>2
  <1>3. ResolvingInv' /\ ResolvedFresh'
    BY <1>1 DEF AuthorityInv, ResolvingInv, ResolvedFresh
  <1>4. QED
    BY <1>1, <1>2, <1>3, TablesUnchanged DEF AuthorityInv

(* Steps of a resolution, which read and write nothing.                      *)
LEMMA ResolvingKeepsInv ==
  ASSUME VersionAssumption, ChangesAssumption, AuthorityInv, NEW r \in Resolution,
         (\E i \in Identity : Authenticated(r, i)) \/ ResolveRow(r) \/ ToRecord(r) \/ Done(r)
  PROVE  AuthorityInv'
  <1>1. /\ UNCHANGED <<principals, identities, capabilities, audit, cited, change, confirmed>>
        /\ DOMAIN change' = Administrator /\ DOMAIN resolution' = Resolution
        /\ \A s \in Resolution \ {r} : resolution'[s] = resolution[s]
    BY DEF Authenticated, ResolveRow, ToRecord, Done, AuthorityInv, AuthorityTyped
  <1>2. AskedInv'
    BY <1>1 DEF AuthorityInv, AskedInv
  <1> DEFINE Sound(x) ==
               /\ x.pc = "row" =>
                    /\ x.identity \in Identity /\ x.since \in Nat
                    /\ IF identities[x.identity] = None THEN x.since = 0
                       ELSE x.since <= principals[identities[x.identity]].version
               /\ x.pc = "capabilities" =>
                    /\ x.principal \in Principal /\ x.since \in Nat /\ x.row.version \in Nat
                    /\ x.since <= x.row.version
                    /\ x.row.version <= principals[x.principal].version
               /\ x.pc = "resolved" =>
                    /\ x.principal \in Principal /\ x.since \in Nat /\ x.row.version >= x.since
                    /\ \A c \in x.capabilities : \E v \in 1 .. Len(audit[x.principal]) :
                         v >= x.since /\ c \in audit[x.principal][v].holds
  <1>3. \A s \in Resolution : Sound(resolution[s])
    BY DEF AuthorityInv, ResolvingInv, ResolvedFresh
  <1>4. \A p \in Principal : principals[p].version \in Nat
    BY DEF AuthorityInv, AuthorityTyped, PrincipalRow
  <1>5. Sound(resolution'[r])
    <2>1. Sound(NotAsked)
      BY DEF NotAsked
    <2>2. ASSUME NEW i \in Identity, Authenticated(r, i) PROVE Sound(resolution'[r])
      <3>1. identities[i] \in Principal \cup {None}
        BY DEF AuthorityInv, AuthorityTyped
      <3>2. resolution'[r] =
              [pc |-> "row", identity |-> i,
               since |-> IF identities[i] = None THEN 0 ELSE principals[identities[i]].version]
        BY <2>2 DEF Authenticated, AuthorityInv, AuthorityTyped
      <3>3. QED
        BY <1>4, <3>1, <3>2
    <2>3. ASSUME ResolveRow(r) PROVE Sound(resolution'[r])
      <3> DEFINE p == identities[resolution[r].identity]
      <3>1. resolution[r].pc = "row"
        BY <2>3 DEF ResolveRow
      <3>2. /\ resolution[r].identity \in Identity /\ resolution[r].since \in Nat
            /\ p # None => resolution[r].since <= principals[p].version
        BY <1>3, <3>1
      <3>3. p \in Principal \cup {None}
        BY <3>2 DEF AuthorityInv, AuthorityTyped
      <3>4. resolution'[r] =
              IF p = None THEN NotAsked
              ELSE [pc |-> "capabilities", principal |-> p, row |-> principals[p],
                    since |-> resolution[r].since]
        BY <2>3 DEF ResolveRow, AuthorityInv, AuthorityTyped
      <3>5. CASE p = None
        BY <2>1, <3>4, <3>5
      <3>6. CASE p # None
        <4>1. p \in Principal
          BY <3>3, <3>6
        <4> HIDE DEF p
        <4>2. QED
          BY <1>4, <3>2, <3>4, <3>6, <4>1
      <3>7. QED
        BY <3>5, <3>6
    <2>4. ASSUME ToRecord(r) PROVE Sound(resolution'[r])
      <3> DEFINE x == resolution[r]
      <3>1. x.pc = "capabilities"
        BY <2>4 DEF ToRecord
      <3>2. /\ x.principal \in Principal /\ x.since \in Nat /\ x.row.version \in Nat
            /\ x.since <= x.row.version /\ x.row.version <= principals[x.principal].version
        BY <1>3, <3>1
      <3>3. resolution'[r] = [pc |-> "resolved", principal |-> x.principal, row |-> x.row,
                              since |-> x.since, capabilities |-> capabilities[x.principal]]
        BY <2>4 DEF ToRecord, AuthorityInv, AuthorityTyped
      <3>4. ASSUME NEW c \in capabilities[x.principal]
            PROVE  \E v \in 1 .. Len(audit[x.principal]) :
                     v >= x.since /\ c \in audit[x.principal][v].holds
        <4> DEFINE n == Len(audit[x.principal])
        <4>1. /\ RowOK(principals[x.principal], capabilities[x.principal])
              /\ AuditOK(principals[x.principal], capabilities[x.principal], audit[x.principal])
          BY <3>2 DEF AuthorityInv, RowsInv
        <4>2. principals[x.principal] # Absent
          BY <3>4, <4>1, PresentRows, <3>2 DEF RowOK, Absent, ChangesAssumption
        <4>3. /\ n = principals[x.principal].version
              /\ capabilities[x.principal] = audit[x.principal][n].holds
          BY <4>1, <4>2 DEF AuditOK
        <4>4. principals[x.principal].version \in 1..MaxVersion
          BY <3>2, <4>2, PresentRows DEF Exists
        <4>5. n \in 1..n /\ n >= x.since
          BY <3>2, <4>3, <4>4 DEF VersionAssumption
        <4>6. QED
          BY <3>4, <4>3, <4>5
      <3> HIDE DEF x
      <3>5. QED
        BY <3>2, <3>3, <3>4
    <2>5. ASSUME Done(r) PROVE Sound(resolution'[r])
      <3>1. resolution'[r] = NotAsked
        BY <2>5 DEF Done, AuthorityInv, AuthorityTyped
      <3>2. QED
        BY <2>1, <3>1
    <2>6. QED
      BY <2>2, <2>3, <2>4, <2>5
  <1>6. \A s \in Resolution : Sound(resolution'[s])
    BY <1>1, <1>3, <1>5
  <1>7. ResolvingInv' /\ ResolvedFresh'
    BY <1>1, <1>6 DEF ResolvingInv, ResolvedFresh
  <1>8. QED
    BY <1>1, <1>2, <1>7, TablesUnchanged DEF AuthorityInv

(* Every step of administrators and resolutions keeps their invariant.       *)
LEMMA AuthorityNextInv ==
  ASSUME VersionAssumption, ChangesAssumption, AuthorityInv, [AuthorityNext]_authorityVars
  PROVE  AuthorityInv'
  <1>1. ASSUME NEW a \in Administrator,
               (\E q \in Changes : Get(a, q)) \/ CreatePrincipal(a) \/ Mutate(a) \/ Abandon(a)
        PROVE  AuthorityInv'
    <2> DEFINE q == change[a].request
               ends == change' = [change EXCEPT ![a] = NotAsked]
               alone == UNCHANGED <<principals, identities, capabilities, audit, confirmed>>
    <2>1. CASE \E c \in Changes : Get(a, c)
      BY <2>1, AskingKeepsInv
    <2>2. CASE CreatePrincipal(a)
      <3>1. /\ change[a].pc = "change" /\ q.operation = "CREATE" /\ ends
            /\ UNCHANGED <<cited, resolution>>
            /\ (Creatable(q) /\ CommitChange(a)) \/ alone
        BY <2>2 DEF CreatePrincipal
      <3>2. Creatable(q) => Committable(a)
        BY <3>1 DEF Committable, NotAsked
      <3>3. QED
        BY <3>1, <3>2, CommitKeepsInv, AskingKeepsInv
    <2>3. CASE Mutate(a)
      <3>1. /\ change[a].pc = "change" /\ q.operation # "CREATE" /\ ends
            /\ UNCHANGED <<cited, resolution>>
            /\ (Finds(q, change[a].expected) /\ Permitted(q) /\ CommitChange(a)) \/ alone
        BY <2>3 DEF Mutate
      <3>2. Finds(q, change[a].expected) /\ Permitted(q) => Committable(a)
        BY <3>1 DEF Committable, NotAsked
      <3>3. QED
        BY <3>1, <3>2, CommitKeepsInv, AskingKeepsInv
    <2>4. CASE Abandon(a)
      BY <2>4, AskingKeepsInv DEF Abandon
    <2>5. QED
      BY <1>1, <2>1, <2>2, <2>3, <2>4
  <1>2. ASSUME NEW r \in Resolution,
               (\E i \in Identity : Authenticated(r, i)) \/ ResolveRow(r) \/ ToRecord(r) \/ Done(r)
        PROVE  AuthorityInv'
    BY <1>2, ResolvingKeepsInv
  <1>3. ASSUME UNCHANGED <<principals, identities, capabilities, audit, change, resolution, confirmed>>
        PROVE  AuthorityInv'
    <2>1. DOMAIN change' = Administrator /\ DOMAIN resolution' = Resolution
      BY <1>3 DEF AuthorityInv, AuthorityTyped
    <2>2. AskedInv' /\ ResolvingInv' /\ ResolvedFresh'
      BY <1>3 DEF AuthorityInv, AskedInv, ResolvingInv, ResolvedFresh
    <2>3. QED
      BY <1>3, <2>1, <2>2, TablesUnchanged DEF AuthorityInv
  <1>4. QED
    BY <1>1, <1>2, <1>3 DEF AuthorityNext, Cite, authorityVars

(* Administrators and resolutions keep their invariant.                      *)
THEOREM AuthorityInvariant ==
  ASSUME VersionAssumption, ChangesAssumption
  PROVE  AuthoritySpec => []AuthorityInv
  <1>1. AuthorityInit => AuthorityInv
    <2> SUFFICES ASSUME AuthorityInit PROVE AuthorityInv
      OBVIOUS
    <2> USE DEF AuthorityInit
    <2>1. Absent \in PrincipalRow
      BY DEF Absent, PrincipalRow, VersionAssumption
    <2>2. AuthorityTyped
      BY <2>1 DEF AuthorityTyped
    <2>3. RowsInv
      BY DEF RowsInv, RowOK, AuditOK, Absent
    <2>4. AskedInv /\ ConfirmedInv /\ ResolvingInv
      BY DEF AskedInv, ConfirmedInv, ResolvingInv, NotAsked
    <2>5. ActorsUnambiguous /\ NoLostChange /\ ResolvedFresh
      BY DEF ActorsUnambiguous, NoLostChange, ResolvedFresh, NotAsked, Absent
    <2>6. QED
      BY <2>2, <2>3, <2>4, <2>5 DEF AuthorityInv
  <1>2. AuthorityInv /\ [AuthorityNext]_authorityVars => AuthorityInv'
    BY AuthorityNextInv
  <1>3. QED
    BY <1>1, <1>2, PTL DEF AuthoritySpec

(* Whoever races, dies or loses an answer: principals keep to their types,   *)
(* no two act as one actor, of the administrators that changed one version   *)
(* at most one was told it succeeded, and the audit explains who is enabled, *)
(* mapped and capable.                                                       *)
THEOREM PrincipalsAreSound ==
  ASSUME VersionAssumption, ChangesAssumption
  PROVE  AuthoritySpec => []PrincipalsSound
  <1>1. AuthorityInv => AuthorityTypeOK
    <2> SUFFICES ASSUME AuthorityInv, NEW p \in Principal, Exists(p)
                 PROVE  /\ principals[p].type \in PrincipalType
                        /\ principals[p].type = "ACTOR" <=> principals[p].actor \in Actor
                        /\ principals[p].enabled \in BOOLEAN /\ principals[p].version \in 1 .. MaxVersion
                        /\ capabilities[p] \subseteq Allowed(principals[p].type)
                        /\ principals[p].type = "GATEWAY" => "ACT_AS_SELF" \notin capabilities[p]
      BY DEF AuthorityTypeOK, AuthorityInv, AuthorityTyped
    <2>1. RowOK(principals[p], capabilities[p]) /\ principals[p] \in PrincipalRow
      BY DEF AuthorityInv, RowsInv, AuthorityTyped
    <2>2. principals[p].enabled \in BOOLEAN
      BY <2>1 DEF PrincipalRow
    <2>3. QED
      BY <2>1, <2>2, PresentRows DEF RowOK, Exists, Allowed
  <1>2. AuthorityInv => PrincipalsSound
    BY <1>1, AuditOKExplains DEF PrincipalsSound, AuthorityInv
  <1>3. QED
    BY <1>2, AuthorityInvariant, PTL

(* What a resolution returns was true after it began, whatever is changed    *)
(* between its two queries.                                                  *)
THEOREM ResolutionsAreFresh ==
  ASSUME VersionAssumption, ChangesAssumption
  PROVE  AuthoritySpec => []ResolvedFresh
  <1>1. AuthorityInv => ResolvedFresh
    BY DEF AuthorityInv
  <1>2. QED
    BY <1>1, AuthorityInvariant, PTL

---------------------------------------------------------------------------
(***************************************************************************)
(* Quarantines.                                                             *)
(***************************************************************************)
QuarantineIds == {q.id : q \in Requests}
QuarantineTyped ==
  /\ mode \in Mode /\ skew \in [Caller \cup Command -> 0..Skew]
  /\ time \in 0..MaxRealTime /\ calls \in 0..MaxCalls
  /\ issued \in [QuarantineIds -> Quarantine \cup {None}]
  /\ released \in [QuarantineIds -> QuarantineRelease \cup {None}]
  /\ DOMAIN call = Caller /\ DOMAIN command = Command
RowsBounded ==
  \A q \in QuarantineIds :
    /\ issued[q] # None =>
         issued[q].issuedAt < issued[q].expires /\ issued[q].expires <= issued[q].issuedAt + MaxTtl
    /\ released[q] # None => issued[q] # None /\ released[q].at >= issued[q].issuedAt
(* A call at work is an operator's, and asks for what it may.                *)
CallsInv ==
  \A c \in Caller : call[c] # NotCalled =>
    LET x == call[c] IN
    /\ c \in Operator /\ x.request \in Requests /\ x.at \in Nat
    /\ x.pc = "ask" => x = [pc |-> "ask", request |-> x.request, at |-> x.at]
    /\ x.pc = "ask" /\ x.request.operation = "issue" => ValidQuarantine(x.request, x.at)
    /\ x.pc = "release" =>
         /\ x.request.operation = "release" /\ issued[x.request.id] # None
         /\ x.at >= issued[x.request.id].issuedAt
(* What a lookup began with, and what it decided by.                         *)
LookupsInv ==
  \A k \in Command : command[k].pc \in {"find", "decided"} =>
    LET l == command[k].lookup IN
    /\ l.at \in Nat /\ l.began \in Nat /\ l.began <= l.at /\ l.at <= l.began + Skew
    /\ \A q \in l.issuedBefore : q \in QuarantineIds /\ issued[q] # None
    /\ \A q \in l.releasedBefore : q \in QuarantineIds /\ released[q] # None
    /\ command[k].pc = "find" => command[k] = [pc |-> "find", lookup |-> l]
(* A conflict is about an id or correlation that is taken for good, or a     *)
(* principal without a row.                                                  *)
AnswersInv ==
  \A a \in answers :
    /\ a.request \in Requests
    /\ a.outcome = "ISSUED" => a.request.operation = "issue"
    /\ a.request.operation = "issue" /\ a.outcome = "CONFLICT" =>
         a.request.principal \notin Registered \/ ~Fresh(issued, a.request)
QuarantineInv ==
  /\ QuarantineTyped /\ RowsBounded /\ CallsInv /\ LookupsInv /\ AnswersInv
  /\ QuarantineEnforced /\ QuarantineEnds /\ RetriesAgree

(* Rows are neither changed nor deleted.                                     *)
RowsKept ==
  \A q \in QuarantineIds :
    /\ issued[q] # None => issued'[q] = issued[q]
    /\ released[q] # None => released'[q] = released[q]

(* The commands that stay where they are keep what was decided, when rows    *)
(* are only added.                                                           *)
LEMMA CommandsStay ==
  ASSUME QuarantineAssumption, QuarantineInv, DOMAIN issued' = DOMAIN issued, RowsKept,
         UNCHANGED <<mode, command>>
  PROVE  LookupsInv' /\ QuarantineEnforced' /\ QuarantineEnds'
  <1>1. DOMAIN issued = QuarantineIds /\ DOMAIN issued' = QuarantineIds
    BY DEF QuarantineInv, QuarantineTyped
  <1>2. LookupsInv'
    BY <1>1 DEF RowsKept, QuarantineInv, LookupsInv
  <1>3. QuarantineEnforced'
    <2> SUFFICES ASSUME NEW k \in Command, command[k].pc = "decided", command[k].effective = "ALLOW",
                        mode = "ENFORCE", NEW q \in command[k].lookup.issuedBefore
                 PROVE  \/ issued'[q].principal # command[k].lookup.principal
                        \/ q \in command[k].releasedBy
                        \/ issued'[q].issuedAt > command[k].lookup.began
                        \/ issued'[q].expires <= command[k].lookup.began + Skew
      BY DEF QuarantineEnforced
    <2>1. issued'[q] = issued[q]
      BY DEF QuarantineInv, LookupsInv, RowsKept
    <2>2. QED
      BY <2>1 DEF QuarantineInv, QuarantineEnforced
  <1>4. QuarantineEnds'
    <2> SUFFICES ASSUME NEW k \in Command, command[k].pc = "decided", command[k].observed = Quarantined
                 PROVE  LET l == command[k].lookup IN
                        \E q \in QuarantineIds \ l.releasedBefore :
                          /\ issued'[q] # None /\ issued'[q].principal = l.principal
                          /\ l.began < issued'[q].expires
                          /\ l.began < issued'[q].issuedAt + MaxTtl
      BY <1>1 DEF QuarantineEnds, Ids
    <2>1. PICK q \in QuarantineIds \ command[k].lookup.releasedBefore :
            /\ issued[q] # None /\ issued[q].principal = command[k].lookup.principal
            /\ command[k].lookup.began < issued[q].expires
            /\ command[k].lookup.began < issued[q].issuedAt + MaxTtl
      BY <1>1 DEF QuarantineInv, QuarantineEnds, Ids
    <2>2. QED
      BY <2>1 DEF RowsKept
  <1>5. QED
    BY <1>2, <1>3, <1>4

(* What Tell adds to the answers.                                            *)
LEMMA ToldAnswers ==
  ASSUME NEW c, NEW q, NEW outcome, Tell(c, q, outcome)
  PROVE  /\ answers \subseteq answers'
         /\ \A a \in answers' \ answers :
              /\ a.caller = c /\ a.request = q /\ a.outcome = outcome
              /\ a = [caller |-> c, request |-> q, outcome |-> outcome, call |-> calls]
              /\ outcome \in {"ISSUED", "DUPLICATE", "CONFLICT"}
  BY DEF Tell

(* The answers stay right when nothing is issued and none is added that is   *)
(* about issuing.                                                            *)
LEMMA AnswersStay ==
  ASSUME QuarantineInv, UNCHANGED issued,
         \A a \in answers' \ answers :
           a.request \in Requests /\ a.request.operation # "issue" /\ a.outcome # "ISSUED"
  PROVE  AnswersInv' /\ RetriesAgree'
  <1>1. AnswersInv'
    BY DEF QuarantineInv, AnswersInv, Fresh, Ids
  <1>2. RetriesAgree'
    BY DEF QuarantineInv, RetriesAgree, SameQuarantineIntent
  <1>3. QED
    BY <1>1, <1>2

LEMMA TimePassesKeepsInv ==
  ASSUME QuarantineAssumption, QuarantineInv, TimePasses
  PROVE  QuarantineInv'
  <1> USE DEF TimePasses
  <1>1. RowsKept /\ DOMAIN issued' = DOMAIN issued /\ UNCHANGED <<mode, command>>
    BY DEF RowsKept
  <1>2. QuarantineTyped'
    BY DEF QuarantineAssumption, QuarantineInv, QuarantineTyped
  <1>3. RowsBounded' /\ CallsInv'
    BY DEF QuarantineInv, RowsBounded, CallsInv
  <1>4. AnswersInv' /\ RetriesAgree'
    BY AnswersStay
  <1>5. QED
    BY <1>1, <1>2, <1>3, <1>4, CommandsStay DEF QuarantineInv

(* A call begins with what its clock and its caller allow.                   *)
LEMMA CallKeepsInv ==
  ASSUME QuarantineAssumption, QuarantineInv, NEW c \in Caller, NEW q \in Requests, Call(c, q)
  PROVE  QuarantineInv'
  <1>1. /\ UNCHANGED <<mode, skew, time, issued, released, command>>
        /\ calls' = calls + 1 /\ calls < MaxCalls
        /\ \/ /\ Refused(c, q) = None /\ UNCHANGED answers
              /\ call' = [call EXCEPT ![c] = [pc |-> "ask", request |-> q, at |-> Clock(c)]]
           \/ Tell(c, q, Refused(c, q)) /\ UNCHANGED call /\ Refused(c, q) # None
    BY DEF Call
  <1>2. UNCHANGED answers
    <2>1. Refused(c, q) \in {"FORBIDDEN", "INVALID", None}
      BY DEF Refused
    <2>2. QED
      BY <1>1, <2>1 DEF Tell
  <1>3. RowsKept /\ DOMAIN issued' = DOMAIN issued /\ UNCHANGED <<mode, command>>
    BY <1>1 DEF RowsKept
  <1>4. QuarantineTyped'
    BY <1>1 DEF QuarantineAssumption, QuarantineInv, QuarantineTyped
  <1>5. RowsBounded'
    BY <1>1 DEF QuarantineInv, RowsBounded
  <1>6. CallsInv'
    <2>1. CASE UNCHANGED call
      BY <1>1, <2>1 DEF QuarantineInv, CallsInv
    <2>2. CASE /\ Refused(c, q) = None
               /\ call' = [call EXCEPT ![c] = [pc |-> "ask", request |-> q, at |-> Clock(c)]]
      <3>1. c \in Operator /\ (q.operation = "issue" => ValidQuarantine(q, Clock(c)))
        BY <2>2 DEF Refused, QuarantineAssumption
      <3>2. Clock(c) \in Nat
        BY DEF Clock, QuarantineAssumption, QuarantineInv, QuarantineTyped
      <3>3. \A d \in Caller : call'[d] = IF d = c THEN [pc |-> "ask", request |-> q, at |-> Clock(c)]
                                         ELSE call[d]
        BY <2>2 DEF QuarantineInv, QuarantineTyped
      <3> HIDE DEF CallsInv
      <3>4. ASSUME NEW d \in Caller, call'[d] # NotCalled
            PROVE  LET x == call'[d] IN
                   /\ d \in Operator /\ x.request \in Requests /\ x.at \in Nat
                   /\ x.pc = "ask" => x = [pc |-> "ask", request |-> x.request, at |-> x.at]
                   /\ x.pc = "ask" /\ x.request.operation = "issue" => ValidQuarantine(x.request, x.at)
                   /\ x.pc = "release" =>
                        /\ x.request.operation = "release" /\ issued[x.request.id] # None
                        /\ x.at >= issued[x.request.id].issuedAt
        <4>1. CASE d = c
          BY <3>1, <3>2, <3>3, <4>1
        <4>2. CASE d # c
          BY <3>3, <3>4, <4>2 DEF QuarantineInv, CallsInv
        <4>3. QED
          BY <4>1, <4>2
      <3>5. QED
        BY <1>1, <3>4 DEF CallsInv
    <2>3. QED
      BY <1>1, <2>1, <2>2
  <1>7. AnswersInv' /\ RetriesAgree'
    BY <1>1, <1>2, AnswersStay
  <1>8. QED
    BY <1>3, <1>4, <1>5, <1>6, <1>7, CommandsStay DEF QuarantineInv

(* A call that ends, having added no row to those issued.                    *)
LEMMA EndedCall ==
  ASSUME QuarantineAssumption, QuarantineInv, NEW c \in Caller, NEW outcome, Finish(c, outcome),
         RowsKept, DOMAIN issued' = DOMAIN issued
  PROVE  CallsInv' /\ DOMAIN call' = Caller
  <1>1. \A d \in Caller : call'[d] = IF d = c THEN NotCalled ELSE call[d]
    BY DEF Finish, QuarantineInv, QuarantineTyped
  <1>2. \A x \in Requests : x.id \in QuarantineIds
    BY DEF QuarantineIds
  <1>3. QED
    BY <1>1, <1>2 DEF Finish, QuarantineInv, QuarantineTyped, CallsInv, RowsKept
(* What Finish may tell.                                                     *)
LEMMA FinishedAnswers ==
  ASSUME QuarantineInv, NEW c \in Caller, call[c] # NotCalled, NEW outcome, Finish(c, outcome)
  PROVE  /\ call[c].request \in Requests /\ answers \subseteq answers'
         /\ \A a \in answers' \ answers :
              /\ a.caller = c /\ a.request = call[c].request /\ a.outcome = outcome
              /\ a = [caller |-> c, request |-> call[c].request, outcome |-> outcome, call |-> calls]
              /\ outcome \in {"ISSUED", "DUPLICATE", "CONFLICT"}
  <1>1. call[c].request \in Requests
    BY DEF QuarantineInv, CallsInv
  <1>2. CASE Tell(c, call[c].request, outcome)
    BY <1>1, <1>2, ToldAnswers
  <1>3. CASE Tell(c, call[c].request, "UNAVAILABLE")
    BY <1>1, <1>3, ToldAnswers
  <1>4. QED
    BY <1>2, <1>3 DEF Finish

(* A quarantine that is issued.                                              *)
LEMMA IssueKeepsInv ==
  ASSUME QuarantineAssumption, QuarantineInv, NEW c \in Caller, Issue(c)
  PROVE  QuarantineInv'
  <1> DEFINE q == call[c].request
             row == IssueRow(c, q)
             conflict == IF SameQuarantineIntent(issued[q.id], c, q) THEN "DUPLICATE" ELSE "CONFLICT"
  <1>1. /\ call[c].pc = "ask" /\ q.operation = "issue"
        /\ UNCHANGED <<mode, skew, time, released, calls, command>>
        /\ \/ /\ q.principal \in Registered /\ Fresh(issued, q)
              /\ issued' = [issued EXCEPT ![q.id] = row] /\ Finish(c, "ISSUED")
           \/ /\ q.principal \notin Registered \/ ~Fresh(issued, q)
              /\ UNCHANGED issued /\ Finish(c, conflict)
    BY DEF Issue
  <1>2. call[c] # NotCalled
    BY <1>1 DEF NotCalled
  <1>3. /\ c \in Operator /\ q \in Requests /\ q.id \in QuarantineIds /\ call[c].at \in Nat
        /\ ValidQuarantine(q, call[c].at) /\ q.expires \in Nat
    BY <1>1, <1>2 DEF QuarantineInv, CallsInv, QuarantineIds, QuarantineAssumption
  <1>4. /\ issued \in [QuarantineIds -> Quarantine \cup {None}] /\ DOMAIN issued = QuarantineIds
        /\ released \in [QuarantineIds -> QuarantineRelease \cup {None}]
    BY DEF QuarantineInv, QuarantineTyped
  <1>5. CASE /\ q.principal \in Registered /\ Fresh(issued, q)
             /\ issued' = [issued EXCEPT ![q.id] = row] /\ Finish(c, "ISSUED")
    <2>1. row \in Quarantine /\ row # None
      BY <1>3, <1>5 DEF IssueRow, Quarantine, QuarantineAssumption
    <2>2. /\ row.issuedAt < row.expires /\ row.expires <= row.issuedAt + MaxTtl
      BY <1>3 DEF IssueRow, ValidQuarantine, QuarantineAssumption
    <2>3. \A x \in QuarantineIds : issued'[x] = IF x = q.id THEN row ELSE issued[x]
      BY <1>4, <1>5
    <2>4. issued[q.id] = None
      BY <1>3, <1>4, <1>5 DEF Fresh, Ids
    <2>5. RowsKept /\ DOMAIN issued' = DOMAIN issued
      BY <1>1, <1>4, <1>5, <2>3, <2>4 DEF RowsKept
    <2>6. CallsInv' /\ DOMAIN call' = Caller
      BY <1>5, <2>5, EndedCall
    <2>7. QuarantineTyped'
      BY <1>1, <1>4, <1>5, <2>1, <2>6 DEF QuarantineInv, QuarantineTyped
    <2>8. RowsBounded'
      BY <1>1, <2>1, <2>2, <2>3, <2>4 DEF QuarantineInv, RowsBounded
    <2>9. \A a \in answers' \ answers :
            a = [caller |-> c, request |-> q, outcome |-> "ISSUED", call |-> calls]
      BY <1>2, <1>5, FinishedAnswers
    <2>10. SameQuarantineIntent(row, c, q)
      BY <2>1 DEF SameQuarantineIntent, IssueRow
    <2> HIDE DEF q, row
    <2>11. \A x \in Requests : ~Fresh(issued, x) => ~Fresh(issued, x)'
      BY <1>4, <2>5 DEF Fresh, Ids, RowsKept
    <2>12. AnswersInv'
      BY <1>1, <1>3, <2>9, <2>11 DEF QuarantineInv, AnswersInv
    <2>13. \A a \in answers : a.request.operation = "issue" =>
             /\ a.outcome \in {"ISSUED", "DUPLICATE"} =>
                  a.request.id # q.id /\ SameQuarantineIntent(issued'[a.request.id], a.caller, a.request)
             /\ a.outcome = "CONFLICT" => ~SameQuarantineIntent(issued'[a.request.id], a.caller, a.request)
      <3> SUFFICES ASSUME NEW a \in answers, a.request.operation = "issue"
                   PROVE  /\ a.outcome \in {"ISSUED", "DUPLICATE"} =>
                               /\ a.request.id # q.id
                               /\ SameQuarantineIntent(issued'[a.request.id], a.caller, a.request)
                          /\ a.outcome = "CONFLICT" =>
                               ~SameQuarantineIntent(issued'[a.request.id], a.caller, a.request)
        OBVIOUS
      <3>1. a.request \in Requests /\ a.request.id \in QuarantineIds
        BY DEF QuarantineInv, AnswersInv, QuarantineIds
      <3>2. ASSUME a.outcome \in {"ISSUED", "DUPLICATE"}
            PROVE  /\ a.request.id # q.id
                   /\ SameQuarantineIntent(issued'[a.request.id], a.caller, a.request)
        <4>1. SameQuarantineIntent(issued[a.request.id], a.caller, a.request)
          BY <3>2 DEF QuarantineInv, RetriesAgree
        <4>2. issued[a.request.id] # None
          BY <4>1 DEF SameQuarantineIntent
        <4>3. QED
          BY <2>3, <2>4, <3>1, <4>1, <4>2
      <3>3. ASSUME a.outcome = "CONFLICT"
            PROVE  ~SameQuarantineIntent(issued'[a.request.id], a.caller, a.request)
        <4>1. CASE a.request.id # q.id
          BY <2>3, <3>1, <3>3, <4>1 DEF QuarantineInv, RetriesAgree
        <4>2. CASE a.request.id = q.id
          <5>1. a.request.principal \notin Registered \/ ~Fresh(issued, a.request)
            BY <3>3 DEF QuarantineInv, AnswersInv
          <5>2. row.principal \in Registered /\ row.correlation = q.correlation
            BY <1>5 DEF IssueRow, row
          <5>3. a.request.correlation = q.correlation => Fresh(issued, a.request)
            BY <1>5, <4>2 DEF Fresh
          <5>4. QED
            BY <2>3, <3>1, <4>2, <5>1, <5>2, <5>3 DEF SameQuarantineIntent
        <4>3. QED
          BY <4>1, <4>2
      <3>4. QED
        BY <3>2, <3>3
    <2>14. RetriesAgree'
      <3>1. \A a \in answers' : a \in answers \/ (/\ a.caller = c /\ a.request = q /\ a.outcome = "ISSUED"
                                                  /\ issued'[a.request.id] = row)
        BY <1>3, <2>3, <2>9
      <3>2. \A a \in answers' : a.request.operation = "issue" =>
              /\ a.outcome \in {"ISSUED", "DUPLICATE"} =>
                   SameQuarantineIntent(issued'[a.request.id], a.caller, a.request)
              /\ a.outcome = "CONFLICT" =>
                   ~SameQuarantineIntent(issued'[a.request.id], a.caller, a.request)
        BY <2>10, <2>13, <3>1
      <3>3. \A a, b \in answers' :
              a.outcome = "ISSUED" /\ b.outcome = "ISSUED" /\ a.request.id = b.request.id => a = b
        <4>1. \A a \in answers : a.outcome = "ISSUED" => a.request.id # q.id
          BY <2>13 DEF QuarantineInv, AnswersInv
        <4>2. \A a, b \in answers :
                a.outcome = "ISSUED" /\ b.outcome = "ISSUED" /\ a.request.id = b.request.id => a = b
          BY DEF QuarantineInv, RetriesAgree
        <4>3. QED
          BY <2>9, <3>1, <4>1, <4>2
      <3>4. QED
        BY <3>2, <3>3 DEF RetriesAgree
    <2>15. QED
      BY <1>1, <2>5, <2>6, <2>7, <2>8, <2>12, <2>14, CommandsStay DEF QuarantineInv
  <1>6. CASE /\ q.principal \notin Registered \/ ~Fresh(issued, q)
             /\ UNCHANGED issued /\ Finish(c, conflict)
    <2>1. RowsKept /\ DOMAIN issued' = DOMAIN issued
      BY <1>1, <1>6 DEF RowsKept
    <2>2. CallsInv' /\ DOMAIN call' = Caller
      BY <1>6, <2>1, EndedCall
    <2>3. QuarantineTyped' /\ RowsBounded'
      BY <1>1, <1>6, <2>2 DEF QuarantineInv, QuarantineTyped, RowsBounded
    <2>4. \A a \in answers' \ answers : a.caller = c /\ a.request = q /\ a.outcome = conflict
      BY <1>2, <1>6, FinishedAnswers
    <2>5. conflict \in {"DUPLICATE", "CONFLICT"}
          /\ (conflict = "DUPLICATE" <=> SameQuarantineIntent(issued[q.id], c, q))
      OBVIOUS
    <2> HIDE DEF q, conflict
    <2>6. AnswersInv'
      BY <1>1, <1>3, <1>6, <2>4, <2>5 DEF QuarantineInv, AnswersInv, Fresh, Ids
    <2>7. RetriesAgree'
      <3>1. \A a \in answers' : a \in answers \/ (a.caller = c /\ a.request = q /\ a.outcome = conflict)
        BY <2>4
      <3>2. QED
        BY <1>6, <2>5, <3>1 DEF QuarantineInv, RetriesAgree
    <2>8. QED
      BY <1>1, <2>1, <2>2, <2>3, <2>6, <2>7, CommandsStay DEF QuarantineInv
  <1>7. QED
    BY <1>1, <1>5, <1>6

(* A release, of a quarantine that is issued and not before it was.          *)
LEMMA ReleaseKeepsInv ==
  ASSUME QuarantineAssumption, QuarantineInv, NEW c \in Caller,
         FindIssued(c) \/ Release(c) \/ Unavailable(c)
  PROVE  QuarantineInv'
  <1> DEFINE q == call[c].request
  <1>1. /\ call[c] # NotCalled /\ UNCHANGED <<mode, skew, time, issued, calls, command>>
        /\ Unavailable(c) \/ q.operation = "release"
    <2>1. ASSUME call[c].pc \in {"ask", "release"} PROVE call[c] # NotCalled
      BY <2>1 DEF NotCalled
    <2>2. CASE Release(c)
      <3>1. call[c].pc = "release" /\ call[c] # NotCalled
        BY <2>1, <2>2 DEF Release
      <3>2. q.operation = "release"
        BY <3>1 DEF QuarantineInv, CallsInv
      <3>3. QED
        BY <2>2, <3>1, <3>2 DEF Release
    <2>3. CASE FindIssued(c)
      BY <2>1, <2>3 DEF FindIssued
    <2>4. CASE Unavailable(c)
      BY <2>4 DEF Unavailable
    <2>5. QED
      BY <2>2, <2>3, <2>4
  <1>2. c \in Operator /\ q \in Requests /\ q.id \in QuarantineIds /\ call[c].at \in Nat
    BY <1>1 DEF QuarantineInv, CallsInv, QuarantineIds
  <1>3. /\ issued \in [QuarantineIds -> Quarantine \cup {None}] /\ DOMAIN issued = QuarantineIds
        /\ released \in [QuarantineIds -> QuarantineRelease \cup {None}]
        /\ DOMAIN released = QuarantineIds /\ DOMAIN call = Caller
    BY DEF QuarantineInv, QuarantineTyped
  <1>4. ASSUME UNCHANGED released PROVE RowsKept /\ RowsBounded' /\ DOMAIN issued' = DOMAIN issued
    BY <1>1, <1>4 DEF RowsKept, QuarantineInv, RowsBounded
  <1>5. ASSUME NEW outcome, Finish(c, outcome), RowsKept, RowsBounded',
               released' \in [QuarantineIds -> QuarantineRelease \cup {None}],
               outcome # "ISSUED",
               outcome \in {"DUPLICATE", "CONFLICT"} => q.operation # "issue"
        PROVE  QuarantineInv'
    <2>1. DOMAIN issued' = DOMAIN issued
      BY <1>1
    <2>2. CallsInv' /\ DOMAIN call' = Caller
      BY <1>5, <2>1, EndedCall
    <2>3. QuarantineTyped'
      BY <1>1, <1>5, <2>2 DEF QuarantineInv, QuarantineTyped
    <2>4. \A a \in answers' \ answers :
            a.request \in Requests /\ a.request.operation # "issue" /\ a.outcome # "ISSUED"
      BY <1>1, <1>2, <1>5, FinishedAnswers
    <2>5. AnswersInv' /\ RetriesAgree'
      BY <1>1, <2>4, AnswersStay
    <2>6. QED
      BY <1>1, <1>5, <2>1, <2>2, <2>3, <2>5, CommandsStay DEF QuarantineInv
  <1>6. CASE Unavailable(c)
    <2>1. Finish(c, "UNAVAILABLE") /\ UNCHANGED released
      BY <1>6 DEF Unavailable
    <2>2. QED
      BY <1>3, <1>4, <1>5, <2>1
  <1>7. CASE FindIssued(c)
    <2>1. /\ call[c].pc = "ask" /\ q.operation = "release" /\ UNCHANGED released
          /\ \/ Finish(c, "NOT_FOUND") \/ Finish(c, "INVALID")
             \/ /\ issued[q.id] # None /\ ~(call[c].at < issued[q.id].issuedAt)
                /\ call' = [call EXCEPT ![c].pc = "release"] /\ UNCHANGED answers
      BY <1>7 DEF FindIssued
    <2>2. CASE Finish(c, "NOT_FOUND") \/ Finish(c, "INVALID")
      BY <1>3, <1>4, <1>5, <2>1, <2>2
    <2>3. CASE /\ issued[q.id] # None /\ ~(call[c].at < issued[q.id].issuedAt)
               /\ call' = [call EXCEPT ![c].pc = "release"] /\ UNCHANGED answers
      <3>1. call[c] = [pc |-> "ask", request |-> q, at |-> call[c].at]
        BY <1>1, <2>1 DEF QuarantineInv, CallsInv
      <3>2. \A d \in Caller :
              call'[d] = IF d = c THEN [pc |-> "release", request |-> q, at |-> call[c].at] ELSE call[d]
        <4>1. [call[c] EXCEPT !.pc = "release"] = [pc |-> "release", request |-> q, at |-> call[c].at]
          BY <3>1
        <4>2. QED
          BY <1>3, <2>3, <4>1
      <3>3. issued[q.id].issuedAt \in Nat /\ call[c].at >= issued[q.id].issuedAt
        <4>1. issued[q.id] \in Quarantine
          BY <1>2, <1>3, <2>3
        <4>2. issued[q.id].issuedAt \in Nat
          BY <4>1 DEF Quarantine
        <4>3. QED
          BY <1>2, <2>3, <4>2
      <3>4. CallsInv'
        <4> SUFFICES ASSUME NEW d \in Caller, call'[d] # NotCalled
                     PROVE  LET x == call'[d] IN
                            /\ d \in Operator /\ x.request \in Requests /\ x.at \in Nat
                            /\ x.pc = "ask" => x = [pc |-> "ask", request |-> x.request, at |-> x.at]
                            /\ x.pc = "ask" /\ x.request.operation = "issue" =>
                                 ValidQuarantine(x.request, x.at)
                            /\ x.pc = "release" =>
                                 /\ x.request.operation = "release" /\ issued'[x.request.id] # None
                                 /\ x.at >= issued'[x.request.id].issuedAt
          BY DEF CallsInv
        <4>1. CASE d = c
          BY <1>1, <1>2, <2>1, <2>3, <3>2, <3>3, <4>1
        <4>2. CASE d # c
          BY <1>1, <3>2, <4>2 DEF QuarantineInv, CallsInv
        <4>3. QED
          BY <4>1, <4>2
      <3>5. QuarantineTyped'
        BY <1>1, <1>3, <2>1, <2>3 DEF QuarantineInv, QuarantineTyped
      <3>6. AnswersInv' /\ RetriesAgree'
        BY <1>1, <2>3, AnswersStay
      <3>7. QED
        BY <1>1, <1>4, <2>1, <3>4, <3>5, <3>6, CommandsStay DEF QuarantineInv
    <2>4. QED
      BY <2>1, <2>2, <2>3
  <1>8. CASE Release(c)
    <2> DEFINE row == ReleaseRow(c, q)
               conflict == IF SameReleaseIntent(released[q.id], c, q) THEN "DUPLICATE" ELSE "CONFLICT"
    <2>1. /\ call[c].pc = "release" /\ q.operation = "release"
          /\ \/ /\ Fresh(released, q) /\ released' = [released EXCEPT ![q.id] = row]
                /\ Finish(c, "RELEASED")
             \/ Finish(c, conflict) /\ UNCHANGED released
      <3>1. q.operation = "release"
        BY <1>1, <1>8 DEF QuarantineInv, CallsInv, Release, Unavailable
      <3>2. QED
        BY <1>8, <3>1 DEF Release
    <2>2. CASE Finish(c, conflict) /\ UNCHANGED released
      BY <1>3, <1>4, <1>5, <2>1, <2>2
    <2>3. CASE /\ Fresh(released, q) /\ released' = [released EXCEPT ![q.id] = row]
               /\ Finish(c, "RELEASED")
      <3>1. row \in QuarantineRelease
        BY <1>2 DEF ReleaseRow, QuarantineRelease
      <3>2. \A x \in QuarantineIds : released'[x] = IF x = q.id THEN row ELSE released[x]
        BY <1>3, <2>3
      <3>3. released' \in [QuarantineIds -> QuarantineRelease \cup {None}]
        BY <1>3, <2>3, <3>1
      <3>4. released[q.id] = None
        BY <1>2, <1>3, <2>3 DEF Fresh, Ids
      <3>5. RowsKept
        BY <1>1, <3>2, <3>4 DEF RowsKept
      <3>6. issued[q.id] # None /\ row.at >= issued[q.id].issuedAt
        BY <1>1, <2>1 DEF QuarantineInv, CallsInv, ReleaseRow
      <3> HIDE DEF row
      <3>7. RowsBounded'
        BY <1>1, <3>2, <3>6 DEF QuarantineInv, RowsBounded
      <3>8. QED
        BY <1>5, <2>3, <3>3, <3>5, <3>7
    <2>4. QED
      BY <2>1, <2>2, <2>3
  <1>9. QED
    BY <1>6, <1>7, <1>8

(* A lookup begins with the clock of its replica and the rows there are.     *)
LEMMA ReadClockKeepsInv ==
  ASSUME QuarantineAssumption, QuarantineInv, NEW k \in Command, NEW p \in Registered,
         ReadClock(k, p)
  PROVE  QuarantineInv'
  <1> DEFINE l == Started(k, p)
             x == [pc |-> "find", lookup |-> l]
  <1>1. UNCHANGED <<mode, skew, time, issued, released, call, calls, answers>>
    BY DEF ReadClock
  <1>2. \A j \in Command : command'[j] = IF j = k THEN x ELSE command[j]
    BY DEF ReadClock, QuarantineInv, QuarantineTyped
  <1>3. /\ l.at \in Nat /\ l.began \in Nat /\ l.began <= l.at /\ l.at <= l.began + Skew
        /\ l.issuedBefore = {q \in QuarantineIds : issued[q] # None}
        /\ l.releasedBefore = {q \in QuarantineIds : released[q] # None}
    <2>1. skew[k] \in 0..Skew /\ time \in Nat /\ DOMAIN issued = QuarantineIds
      BY DEF QuarantineAssumption, QuarantineInv, QuarantineTyped
    <2>2. QED
      BY <2>1 DEF Started, Clock, Ids, QuarantineAssumption
  <1>4. QuarantineTyped' /\ RowsBounded' /\ CallsInv'
    BY <1>1 DEF ReadClock, QuarantineInv, QuarantineTyped, RowsBounded, CallsInv
  <1>5. AnswersInv' /\ RetriesAgree'
    BY <1>1, AnswersStay
  <1> HIDE DEF l
  <1>6. LookupsInv'
    <2> SUFFICES ASSUME NEW j \in Command, command'[j].pc \in {"find", "decided"}
                 PROVE  LET m == command'[j].lookup IN
                        /\ m.at \in Nat /\ m.began \in Nat /\ m.began <= m.at /\ m.at <= m.began + Skew
                        /\ \A q \in m.issuedBefore : q \in QuarantineIds /\ issued'[q] # None
                        /\ \A q \in m.releasedBefore : q \in QuarantineIds /\ released'[q] # None
                        /\ command'[j].pc = "find" => command'[j] = [pc |-> "find", lookup |-> m]
      BY DEF LookupsInv
    <2>1. CASE j = k
      BY <1>1, <1>2, <1>3, <2>1
    <2>2. CASE j # k
      BY <1>1, <1>2, <2>2 DEF QuarantineInv, LookupsInv
    <2>3. QED
      BY <2>1, <2>2
  <1>7. QuarantineEnforced' /\ QuarantineEnds'
    BY <1>1, <1>2 DEF QuarantineInv, QuarantineEnforced, QuarantineEnds, Ids
  <1>8. QED
    BY <1>4, <1>5, <1>6, <1>7 DEF QuarantineInv

(* A lookup that is decided lets through nobody whose quarantine runs, and   *)
(* turns away as quarantined nobody without one.                             *)
LEMMA DecideKeepsInv ==
  ASSUME QuarantineAssumption, QuarantineInv, NEW k \in Command, FindActive(k) \/ LookupFails(k)
  PROVE  QuarantineInv'
  <1> DEFINE l == command[k].lookup
             active == Active(l.principal, l.at)
             y == command'[k]
  <1>1. /\ command[k].pc = "find"
        /\ UNCHANGED <<mode, skew, time, issued, released, call, calls, answers>>
    BY DEF FindActive, LookupFails
  <1>2. /\ l.at \in Nat /\ l.began \in Nat /\ l.began <= l.at /\ l.at <= l.began + Skew
        /\ \A q \in l.issuedBefore : q \in QuarantineIds /\ issued[q] # None
        /\ \A q \in l.releasedBefore : q \in QuarantineIds /\ released[q] # None
        /\ command[k] = [pc |-> "find", lookup |-> l]
    BY <1>1 DEF QuarantineInv, LookupsInv
  <1>3. PICK d \in {Allow, Quarantined, Failure} :
          /\ Decide(k, d)
          /\ d = Allow => active = {}
          /\ d = Quarantined => active # {}
    <2>1. Allow # Quarantined /\ Allow # Failure /\ Quarantined # Failure
      BY DEF Allow, Quarantined, Failure
    <2>2. CASE FindActive(k)
      <3>1. CASE active = {}
        <4>1. Decide(k, Allow)
          BY <2>2, <3>1 DEF FindActive
        <4>2. QED
          BY <2>1, <3>1, <4>1
      <3>2. CASE active # {}
        <4>1. Decide(k, Quarantined)
          BY <2>2, <3>2 DEF FindActive
        <4>2. QED
          BY <2>1, <3>2, <4>1
      <3>3. QED
        BY <3>1, <3>2
    <2>3. CASE LookupFails(k)
      BY <2>1, <2>3 DEF LookupFails
    <2>4. QED
      BY <2>2, <2>3
  <1>4. Observed(d) = d
    <2>1. Allow.disposition = "ALLOW" /\ Allow.reason = "BASELINE_ALLOW" /\ RetryAfter(Allow) = 0
      BY DEF Allow, RetryAfter
    <2>2. /\ Quarantined.disposition = "QUARANTINE" /\ Quarantined.reason = "PRINCIPAL_QUARANTINED"
          /\ RetryAfter(Quarantined) = 0
      BY DEF Quarantined, RetryAfter
    <2>3. ValidDecision(Allow) /\ ValidDecision(Quarantined)
      BY <2>1, <2>2 DEF ValidDecision, ReasonOf
    <2>4. QED
      BY <2>3 DEF Observed
  <1>5. DOMAIN issued = QuarantineIds /\ DOMAIN command = Command
    BY DEF QuarantineInv, QuarantineTyped
  <1>6. /\ y = [pc |-> "decided", lookup |-> l, observed |-> d, effective |-> Effective(d),
                releasedBy |-> {q \in QuarantineIds : released[q] # None}]
        /\ DOMAIN command' = Command
        /\ \A j \in Command \ {k} : command'[j] = command[j]
    BY <1>3, <1>4, <1>5 DEF Decide, Ids
  <1>7. QuarantineTyped' /\ RowsBounded' /\ CallsInv'
    BY <1>1, <1>6 DEF QuarantineInv, QuarantineTyped, RowsBounded, CallsInv
  <1>8. AnswersInv' /\ RetriesAgree'
    BY <1>1, AnswersStay
  <1>9. y.pc = "decided" /\ y.lookup = l /\ y.observed = d /\ y.effective = Effective(d)
        /\ y.releasedBy = {q \in QuarantineIds : released[q] # None}
    BY <1>6
  <1>10. \A q \in QuarantineIds : q \in active <=>
           /\ issued[q] # None /\ released[q] = None
           /\ issued[q].principal = l.principal /\ issued[q].issuedAt <= l.at /\ issued[q].expires > l.at
    BY <1>5 DEF Active, Ids
  <1>11. \A q \in QuarantineIds : issued[q] # None =>
           issued[q].issuedAt \in Nat /\ issued[q].expires \in Nat
    BY DEF QuarantineInv, QuarantineTyped, Quarantine
  <1>12. active \subseteq QuarantineIds
    BY <1>5 DEF Active, Ids
  <1> HIDE DEF l, active, y
  <1>13. LookupsInv'
    <2> SUFFICES ASSUME NEW j \in Command, command'[j].pc \in {"find", "decided"}
                 PROVE  LET m == command'[j].lookup IN
                        /\ m.at \in Nat /\ m.began \in Nat /\ m.began <= m.at /\ m.at <= m.began + Skew
                        /\ \A q \in m.issuedBefore : q \in QuarantineIds /\ issued'[q] # None
                        /\ \A q \in m.releasedBefore : q \in QuarantineIds /\ released'[q] # None
                        /\ command'[j].pc = "find" => command'[j] = [pc |-> "find", lookup |-> m]
      BY DEF LookupsInv
    <2>1. CASE j = k
      BY <1>1, <1>2, <1>9, <2>1 DEF y
    <2>2. CASE j # k
      BY <1>1, <1>6, <2>2 DEF QuarantineInv, LookupsInv
    <2>3. QED
      BY <2>1, <2>2
  <1>14. QuarantineEnforced'
    <2> SUFFICES ASSUME NEW j \in Command, command'[j].pc = "decided",
                        command'[j].effective = "ALLOW", mode = "ENFORCE",
                        NEW q \in command'[j].lookup.issuedBefore
                 PROVE  \/ issued[q].principal # command'[j].lookup.principal
                        \/ q \in command'[j].releasedBy
                        \/ issued[q].issuedAt > command'[j].lookup.began
                        \/ issued[q].expires <= command'[j].lookup.began + Skew
      BY <1>1 DEF QuarantineEnforced
    <2>1. CASE j # k
      BY <1>6, <2>1 DEF QuarantineInv, QuarantineEnforced
    <2>2. CASE j = k
      <3>1. Effective(d) = "ALLOW" /\ q \in l.issuedBefore
        BY <1>9, <2>2 DEF y
      <3>2. d = Allow
        BY <3>1 DEF Effective, Quarantined, Failure
      <3>3. q \in QuarantineIds /\ issued[q] # None /\ q \notin active
        BY <1>2, <1>3, <3>1, <3>2
      <3>4. \/ released[q] # None \/ issued[q].principal # l.principal
            \/ ~(issued[q].issuedAt <= l.at) \/ ~(issued[q].expires > l.at)
        BY <1>10, <3>3
      <3>5. issued[q].issuedAt \in Nat /\ issued[q].expires \in Nat
        BY <1>11, <3>3
      <3>6. CASE released[q] # None
        BY <1>9, <2>2, <3>3, <3>6 DEF y
      <3>7. CASE ~(issued[q].issuedAt <= l.at)
        <4>1. issued[q].issuedAt > l.began
          BY <1>2, <3>5, <3>7
        <4>2. QED
          BY <1>9, <2>2, <4>1 DEF y
      <3>8. CASE ~(issued[q].expires > l.at)
        <4>1. issued[q].expires <= l.began + Skew
          BY <1>2, <3>5, <3>8 DEF QuarantineAssumption
        <4>2. QED
          BY <1>9, <2>2, <4>1 DEF y
      <3>9. QED
        BY <1>9, <2>2, <3>4, <3>6, <3>7, <3>8 DEF y
    <2>3. QED
      BY <2>1, <2>2
  <1>15. QuarantineEnds'
    <2> SUFFICES ASSUME NEW j \in Command, command'[j].pc = "decided",
                        command'[j].observed = Quarantined
                 PROVE  \E q \in QuarantineIds \ command'[j].lookup.releasedBefore :
                          /\ issued[q] # None /\ issued[q].principal = command'[j].lookup.principal
                          /\ command'[j].lookup.began < issued[q].expires
                          /\ command'[j].lookup.began < issued[q].issuedAt + MaxTtl
      BY <1>1, <1>5 DEF QuarantineEnds, Ids
    <2>1. CASE j # k
      BY <1>5, <1>6, <2>1 DEF QuarantineInv, QuarantineEnds, Ids
    <2>2. CASE j = k
      <3>1. d = Quarantined
        BY <1>9, <2>2 DEF y
      <3>2. PICK q : q \in active
        BY <1>3, <3>1
      <3>3. /\ q \in QuarantineIds /\ issued[q] # None /\ released[q] = None
            /\ issued[q].principal = l.principal /\ issued[q].expires > l.at
        BY <1>10, <1>12, <3>2
      <3>4. q \notin l.releasedBefore
        BY <1>2, <3>3
      <3>5. issued[q].issuedAt \in Nat /\ issued[q].expires \in Nat
            /\ issued[q].expires <= issued[q].issuedAt + MaxTtl
        BY <1>11, <3>3 DEF QuarantineInv, RowsBounded
      <3>6. l.began < issued[q].expires /\ l.began < issued[q].issuedAt + MaxTtl
        BY <1>2, <3>3, <3>5 DEF QuarantineAssumption
      <3>7. QED
        BY <1>9, <2>2, <3>3, <3>4, <3>6 DEF y
    <2>3. QED
      BY <2>1, <2>2
  <1>16. QED
    BY <1>7, <1>8, <1>13, <1>14, <1>15 DEF QuarantineInv

(* What a candidate policy decides looks nothing up.  Neither does it ever   *)
(* answer as the registry does of a quarantine.                              *)
LEMMA CandidateKeepsInv ==
  ASSUME QuarantineAssumption, QuarantineInv, NEW k \in Command, NEW p, NEW d, Candidate(k, p, d)
  PROVE  QuarantineInv'
  <1>1. /\ UNCHANGED <<mode, skew, time, issued, released, call, calls, answers>>
        /\ command'[k].pc = "candidate" /\ DOMAIN command' = Command
        /\ \A j \in Command \ {k} : command'[j] = command[j]
    BY DEF Candidate, QuarantineInv, QuarantineTyped
  <1>2. QuarantineTyped' /\ RowsBounded' /\ CallsInv'
    BY <1>1 DEF QuarantineInv, QuarantineTyped, RowsBounded, CallsInv
  <1>3. AnswersInv' /\ RetriesAgree'
    BY <1>1, AnswersStay
  <1>4. \A j \in Command : command'[j].pc \in {"find", "decided"} => command'[j] = command[j]
    BY <1>1
  <1>5. LookupsInv'
    BY <1>1, <1>4 DEF QuarantineInv, LookupsInv
  <1>6. QuarantineEnforced' /\ QuarantineEnds'
    BY <1>1, <1>4 DEF QuarantineInv, QuarantineEnforced, QuarantineEnds, Ids
  <1>7. QED
    BY <1>2, <1>3, <1>5, <1>6 DEF QuarantineInv

(* Operators, commands and clocks keep the invariant of quarantines.         *)
LEMMA QuarantineNextInv ==
  ASSUME QuarantineAssumption, QuarantineInv, [QuarantineNext]_quarantineVars
  PROVE  QuarantineInv'
  <1>1. CASE TimePasses
    BY <1>1, TimePassesKeepsInv
  <1>2. ASSUME NEW c \in Caller, NEW q \in Requests, Call(c, q) PROVE QuarantineInv'
    BY <1>2, CallKeepsInv
  <1>3. ASSUME NEW c \in Caller, Issue(c) \/ FindIssued(c) \/ Release(c) \/ Unavailable(c)
        PROVE  QuarantineInv'
    BY <1>3, IssueKeepsInv, ReleaseKeepsInv
  <1>4. ASSUME NEW k \in Command, NEW p \in Registered, ReadClock(k, p) PROVE QuarantineInv'
    BY <1>4, ReadClockKeepsInv
  <1>5. ASSUME NEW k \in Command, NEW p, NEW d, Candidate(k, p, d) PROVE QuarantineInv'
    BY <1>5, CandidateKeepsInv
  <1>6. ASSUME NEW k \in Command, FindActive(k) \/ LookupFails(k) PROVE QuarantineInv'
    BY <1>6, DecideKeepsInv
  <1>7. CASE UNCHANGED quarantineVars
    <2> USE <1>7 DEF quarantineVars
    <2>1. RowsKept /\ DOMAIN issued' = DOMAIN issued
      BY DEF RowsKept
    <2>2. QuarantineTyped' /\ RowsBounded' /\ CallsInv'
      BY DEF QuarantineInv, QuarantineTyped, RowsBounded, CallsInv
    <2>3. AnswersInv' /\ RetriesAgree'
      BY AnswersStay
    <2>4. QED
      BY <2>1, <2>2, <2>3, CommandsStay DEF QuarantineInv
  <1>8. QED
    BY <1>1, <1>2, <1>3, <1>4, <1>5, <1>6, <1>7 DEF QuarantineNext

(* Quarantines, calls and lookups keep their invariant.                      *)
THEOREM QuarantineInvariant ==
  ASSUME QuarantineAssumption
  PROVE  QuarantineSpec => []QuarantineInv
  <1>1. QuarantineInit => QuarantineInv
    <2> SUFFICES ASSUME QuarantineInit PROVE QuarantineInv
      OBVIOUS
    <2> USE DEF QuarantineInit
    <2>1. QuarantineTyped /\ RowsBounded
      <3>1. /\ issued = [q \in QuarantineIds |-> None]
            /\ released = [q \in QuarantineIds |-> None]
        BY DEF QuarantineIds
      <3>2. 0 \in 0..MaxRealTime /\ 0 \in 0..MaxCalls
        BY DEF QuarantineAssumption
      <3>3. QED
        BY <3>1, <3>2 DEF QuarantineTyped, RowsBounded
    <2>2. CallsInv /\ LookupsInv /\ AnswersInv
      BY DEF CallsInv, LookupsInv, AnswersInv, NotCalled
    <2>3. QuarantineEnforced /\ QuarantineEnds /\ RetriesAgree
      BY DEF QuarantineEnforced, QuarantineEnds, RetriesAgree, NotCalled
    <2>4. QED
      BY <2>1, <2>2, <2>3 DEF QuarantineInv
  <1>2. QuarantineInv /\ [QuarantineNext]_quarantineVars => QuarantineInv'
    BY QuarantineNextInv
  <1>3. QED
    BY <1>1, <1>2, PTL DEF QuarantineSpec

(* On replicas whose clocks differ by at most Skew: no command is let        *)
(* through a quarantine that runs, a quarantine ends by itself, and whoever  *)
(* asks again, races another operator or loses an answer is answered by the  *)
(* row that is stored.                                                       *)
THEOREM QuarantinesHold ==
  ASSUME QuarantineAssumption
  PROVE  QuarantineSpec => []QuarantineHolds
  <1>1. QuarantineInv => QuarantineTypeOK
    <2> SUFFICES ASSUME QuarantineInv, NEW q \in QuarantineIds
                 PROVE  /\ issued[q] # None =>
                             /\ issued[q].principal \in Registered
                             /\ issued[q].expires \in issued[q].issuedAt + 1 .. issued[q].issuedAt + MaxTtl
                             /\ issued[q].by \in Operator
                        /\ released[q] # None => issued[q] # None /\ released[q].at >= issued[q].issuedAt
      BY DEF QuarantineInv, QuarantineTyped, QuarantineTypeOK, Ids
    <2>1. issued[q] # None => /\ issued[q].principal \in Registered /\ issued[q].by \in Operator
                              /\ issued[q].issuedAt \in Nat /\ issued[q].expires \in Nat
      BY DEF QuarantineInv, QuarantineTyped, Quarantine
    <2>2. QED
      BY <2>1 DEF QuarantineInv, RowsBounded, QuarantineAssumption
  <1>2. QuarantineInv => QuarantineHolds
    BY <1>1 DEF QuarantineInv, QuarantineHolds
  <1>3. QED
    BY <1>2, QuarantineInvariant, PTL
=============================================================================
