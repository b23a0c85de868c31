------------------------- MODULE MCProviderFunding --------------------------
(* The provider's side of funding: reconciliation, disputes and negatives,   *)
(* and the inbox, which meet in tables the others only append to; and the    *)
(* in-memory adapters: the foundation's stores, and commands executed over   *)
(* them.  In each scenario one of them runs, with inputs of its own, and the *)
(* others stay where they began.                                             *)
EXTENDS FundingReconciliation, FundingDispute, ProviderInbox, Sequences, TLC

CONSTANTS w1, w2, r1, r2

VARIABLES
  scenario, \* which of the scenarios below the behaviour is of
  durable, memory, answers, writer, accepted,
  rows, ledger, receipt, negative, snapshot, handler, author, sent, replies,
  tails, seenDisputes, seenNegatives, seenDispositions

(* The variables by the modules that have them.                              *)
Off == "off"
ofStores == <<durable, memory, answers, writer, accepted>>
NoStores ==
  /\ durable = Off /\ memory = Off /\ answers = Off /\ writer = Off /\ accepted = Off
ofMemory == <<rows, ledger, receipt, negative, snapshot, handler, author, sent, replies,
              tails, seenDisputes, seenNegatives, seenDispositions>>
NoMemory ==
  /\ rows = Off /\ ledger = Off /\ receipt = Off /\ negative = Off
  /\ snapshot = Off /\ handler = Off /\ author = Off /\ sent = Off /\ replies = Off
  /\ tails = Off /\ seenDisputes = Off /\ seenNegatives = Off /\ seenDispositions = Off
vars == <<scenario, reconciliationVars, disputeVars, inboxVars, ofStores, ofMemory>>

(* Reconciliation: two intents in one account, and a second account that     *)
(* uses the same transaction ids; credits that fit, credits that do not, a   *)
(* late older report, a refund in a transaction of its own and a reversal of *)
(* the credit itself.                                                        *)
Intent(i, d) == [id |-> i, scope |-> "main", destination |-> d, currency |-> "EUR", amount |-> 2]
MCIntents == {Intent("i1", "d1"), Intent("i2", "d2")}
Route(id, i, d, amount, expires) ==
  [id |-> id, intent |-> i, scope |-> "main", destination |-> d, currency |-> "EUR",
   expectedAmount |-> amount, status |-> "ACTIVE", createdAt |-> 1, expiresAt |-> expires]
Hint == Route(3, "i1", "d1", 1, None)
OneRoute == {Route(1, "i1", "d1", 2, 2)}
MCRoutes == OneRoute \cup {Route(2, "i2", "d2", 2, None), Hint}
Credit(id, s, t, d, amount, at, state) ==
  [id |-> id, scope |-> s, tx |-> t, related |-> None, direction |-> "CREDIT",
   destination |-> d, currency |-> "EUR", amount |-> amount, observedAt |-> at, state |-> state]
Debit(id, t, related, state) ==
  [Credit(id, "main", t, None, 2, 3, state) EXCEPT !.direction = "DEBIT", !.related = related]
MCPayments ==
  {Credit(2, "main", "t1", "d1", 2, 2, "SETTLED"), Credit(3, "main", "t2", "d1", 2, 2, "SETTLED"),
   Credit(3, "main", "t2", "d2", 2, 2, "SETTLED"), Credit(4, "main", "t1", "d1", 1, 3, "SETTLED"),
   Credit(5, "other", "t1", "d1", 2, 2, "SETTLED")}
MCReversals ==
  {Credit(1, "main", "t1", "d1", 2, 1, "PENDING"), Credit(2, "main", "t1", "d1", 2, 2, "SETTLED"),
   Debit(6, "t2", "t1", "REFUND"), Debit(7, "t1", None, "FAILED")}

(* Disputes: one receipt of 2, with a negative over all of it, one over part *)
(* of it and one that names no receipt; proofs that the funds were retained  *)
(* and lost; a dispute whose second version arrives before, after or instead *)
(* of the first, or under a wrong amount.                                    *)
Negative(id, amount, bound) == [id |-> id, amount |-> amount, receipt |-> bound]
N1 == Negative("whole", 2, 1)
N2 == Negative("part", 1, 1)
N3 == Negative("unbound", 2, 0)
Proof(n, digest, outcome, final) ==
  [negative |-> n, digest |-> digest, amount |-> 2, status |-> "RESOLVED",
   outcome |-> outcome, finalState |-> final]
MCProofs ==
  {Proof(N1, 1, "FUNDS_RETAINED", "FUNDS_HELD"), Proof(N1, 2, "FUNDS_LOST", "FUNDS_LOST"),
   Proof(N2, 3, "FUNDS_RETAINED", "FUNDS_HELD"), Proof(N3, 4, "FUNDS_RETAINED", "FUNDS_HELD"),
   Proof(N1, 5, "FUNDS_RETAINED", "SETTLED"),
   [Proof(N1, 6, "PENDING", "FUNDS_HELD") EXCEPT !.status = "PENDING"]}
Report(id, status, outcome, amount) ==
  [id |-> id, dispute |-> "chargeback", version |-> id, status |-> status, outcome |-> outcome,
   digest |-> id, binding |-> [kind |-> "CHARGEBACK", amount |-> amount]]
MCDisputes ==
  {Report(1, "OPEN", "PENDING", 2), Report(2, "RESOLVED", "FUNDS_RETAINED", 2),
   Report(3, "CLOSED", "FUNDS_LOST", 2), Report(4, "CLOSED", "FUNDS_RETAINED", 1),
   Report(5, "OPEN", "FUNDS_RETAINED", 2)}

(* The inbox: an event, and workers with an id of their own. The stores: an  *)
(* event, the same replay under another identity and with another payload.   *)
Delivery(i, r, p) == [identity |-> i, replay |-> r, payload |-> p]
MCWorkerOf == [c \in {"c1", "c2", "c3"} |->
  CASE c = "c1" -> "w1" [] c = "c2" -> "w2" [] OTHER -> "w3"]
MCDeliveries ==
  {Delivery("e1", "r1", "p1"), Delivery("e2", "r1", "p1"), Delivery("e2", "r2", "p1"),
   Delivery("e1", "r1", "p2")}

(* Commands in memory: cells of alice (payer) and bob (payee) with carol as   *)
(* the arbiter, funding deadline 1, completion deadline 2.  Two provider     *)
(* transactions compete for two cells, and an expiry uses the id of one of   *)
(* them; a release while disputes and dispositions are recorded in any order. *)
MCActors == {"alice", "bob", "carol"}
Kernel == INSTANCE CellKernel WITH
  Actor <- MCActors, NoActor <- "nobody", Amount <- {2}, Time <- {1, 3}
Deal == [payer |-> "alice", payee |-> "bob", arbiter |-> "carol", amount |-> 2,
         fundingDeadline |-> 1, completionDeadline |-> 2]
Agreed == <<Kernel!CellCreated(Deal, TRUE, 1), Kernel!SimpleEvent("CellAccepted", "bob", 1)>>
Pending ==
  Agreed \o <<Kernel!CellFunded("alice", 2, 1), Kernel!SimpleEvent("ReleaseRequested", "alice", 1)>>
Command(id, cell, type, by) == [id |-> id, cell |-> cell, command |-> [type |-> type, by |-> by]]
Fund(id, cell, tx) ==
  [id |-> id, cell |-> cell, tx |-> tx,
   command |-> [type |-> "FundCell", by |-> "alice", amount |-> 2]]
MCFundings ==
  {Fund("c1", "k1", "t1"), Fund("c2", "k1", "t2"), Fund("c3", "k2", "t1"),
   Command("c3", "k1", "ExpireCell", "bob")}
MCRelease == {Command("c1", "k1", "ApproveRelease", "bob")}
Seen(d, v, s, o) ==
  [id |-> <<d, v, o>>, dispute |-> d, version |-> v, status |-> s, outcome |-> o,
   digest |-> None, cell |-> "k1"]
MCSeen ==
  {Seen(d, 1, "OPEN", "PENDING") : d \in {"d1", "d2"}}
    \cup {Seen(d, 2, "RESOLVED", o) : d \in {"d1", "d2"}, o \in {"FUNDS_RETAINED", "FUNDS_LOST"}}
    \cup {Seen("d1", 3, "CLOSED", "FUNDS_RETAINED"), Seen("d1", 3, "CLOSED", "PENDING")}
Finding(v, s, o) == [version |-> v, status |-> s, outcome |-> o]
MCFindings ==
  {Finding(v, "PENDING", "PENDING") : v \in 1..2}
    \cup {Finding(v, "RESOLVED", o) : v \in 1..3, o \in {"FUNDS_RETAINED", "FUNDS_LOST"}}

MCObservations == MCPayments \cup MCReversals
MCHints == {Hint}
MCNegatives == {N1, N2, N3}
MCCallers == DOMAIN MCWorkerOf
MCEvent == {Delivery("e1", "r1", "p1")}

Stores == INSTANCE ProviderStores WITH
  Deliveries <- MCDeliveries, Worker <- {"w1", "w2"}, Writer <- {"v1"},
  Clock <- {0, 1}, LeaseMs <- 1, MaxAttempts <- 2, MaxRevision <- 1
Cursor == INSTANCE ProviderStores WITH
  Deliveries <- {}, Worker <- {}, Writer <- {"v1", "v2", "v3"},
  Clock <- {0, 1}, LeaseMs <- 1, MaxAttempts <- 0, MaxRevision <- 2
Fundings == INSTANCE InMemoryExecution WITH
  Actor <- MCActors, NoActor <- "nobody", Amount <- {2}, Time <- {1, 3},
  Cell <- {"k1", "k2"}, Worker <- {w1, w2}, CommandId <- {"c1", "c2", "c3"},
  ProviderTx <- {"t1", "t2"}, Requests <- MCFundings, MaxSends <- 2, Absent <- None,
  InitialRows <- [c \in {"k1", "k2"} |-> {Agreed}], Reports <- {}, Findings <- {},
  worker <- handler, observations <- seenDisputes, negatives <- seenNegatives,
  dispositions <- seenDispositions
Blocks == INSTANCE InMemoryExecution WITH
  Actor <- MCActors, NoActor <- "nobody", Amount <- {2}, Time <- {1, 3},
  Cell <- {"k1"}, Worker <- {w1, w2}, CommandId <- {"c1"}, ProviderTx <- {"t1"},
  Requests <- MCRelease, MaxSends <- 1, Absent <- None,
  InitialRows <- [c \in {"k1"} |-> {Pending}], Reports <- MCSeen, Findings <- MCFindings,
  worker <- handler, observations <- seenDisputes, negatives <- seenNegatives,
  dispositions <- seenDispositions

Init ==
  /\ ReconciliationInit /\ DisputeInit /\ InboxInit
  /\ \/ /\ scenario \in {"payments", "reversals", "resolutions", "disputes", "inbox"}
        /\ NoStores /\ NoMemory
     \/ scenario = "stores" /\ Stores!Init /\ NoMemory
     \/ scenario = "cursor" /\ Cursor!Init /\ NoMemory
     \/ scenario = "fundings" /\ Fundings!MemoryInit /\ NoStores
     \/ scenario = "blocks" /\ Blocks!MemoryInit /\ NoStores

(* Credits, each delivered once; or a payment and its reversals, delivered   *)
(* twice to workers that pass no hint.                                       *)
Paying ==
  \A o \in Observations : delivered'[o] <= IF o \in MCPayments THEN 1 ELSE 0
Reversing ==
  /\ \A o \in Observations \ MCReversals : delivered'[o] = 0
  /\ \A w \in Worker : worker'[w].pc # "idle" => worker'[w].hint = None
  /\ routes' \subseteq OneRoute
ReconciliationStep ==
  /\ \/ scenario = "payments" /\ ReconciliationNext /\ Paying
     \/ scenario = "reversals" /\ ReconciliationNext /\ Reversing
  /\ UNCHANGED <<scenario, disputeVars, inboxVars, ofStores, ofMemory>>
(* Resolutions of negatives alone; or disputes and one resolution each.      *)
Resolving == disputes' = {}
Disputing == reversals' \subseteq {N1, N2} /\ \A r \in Resolver : started'[r] <= 1
DisputeStep ==
  /\ \/ scenario = "resolutions" /\ DisputeNext /\ Resolving
     \/ scenario = "disputes" /\ DisputeNext /\ Disputing
  /\ UNCHANGED <<scenario, reconciliationVars, inboxVars, ofStores, ofMemory>>
InboxStep ==
  /\ scenario = "inbox" /\ InboxNext
  /\ UNCHANGED <<scenario, reconciliationVars, disputeVars, ofStores, ofMemory>>
StoresStep ==
  /\ \/ scenario = "stores" /\ Stores!Next
     \/ scenario = "cursor" /\ Cursor!Next
  /\ UNCHANGED <<scenario, reconciliationVars, disputeVars, inboxVars, ofMemory>>
MemoryStep ==
  /\ \/ scenario = "fundings" /\ Fundings!MemoryNext
     \/ scenario = "blocks" /\ Blocks!MemoryNext
  /\ UNCHANGED <<scenario, reconciliationVars, disputeVars, inboxVars, ofStores>>
Next == ReconciliationStep \/ DisputeStep \/ InboxStep \/ StoresStep \/ MemoryStep
Spec == Init /\ [][Next]_vars

Symmetry == Permutations({w1, w2}) \cup Permutations({r1, r2})

-----------------------------------------------------------------------------
ASSUME BoundAssumption /\ IntentAssumption /\ ObservationAssumption
ASSUME RequestsAssumption /\ EvidenceAssumption /\ LeaseAssumption
ASSUME Stores!StoresAssumption /\ Cursor!StoresAssumption
ASSUME Fundings!ReportsAssumption /\ Blocks!ReportsAssumption

(* In memory: effects and receipts are sound for commands that have ended,    *)
(* a cell is blocked exactly when PostgreSQL's queries would say so, and      *)
(* whatever calls were made, the foundation's in-memory store answers the     *)
(* next one as PostgreSQL's does; of the writers of an account's cursor one   *)
(* is told it wrote a revision, and the cursor's time never goes back.        *)
MemorySound ==
  /\ scenario = "fundings" => Fundings!MemorySound
  /\ scenario = "blocks" => Blocks!MemorySound
  /\ scenario = "stores" => Stores!StoresAgree
  /\ scenario = "cursor" => Cursor!StoresAgree /\ Cursor!CursorNotForked

(* OneAtomicUnit of the in-memory command store.                             *)
OneAtomicUnit == scenario = "fundings" => Fundings!OneAtomicUnit
=============================================================================
