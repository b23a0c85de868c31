--------------------------- MODULE FundingProofs ---------------------------
(***************************************************************************)
(* What FundingReconciliation promises, for any workers, intents, routes,   *)
(* observations and deliveries, what FundingDispute promises, for any       *)
(* resolvers, proofs, negatives and versions of disputes, what ProviderInbox *)
(* promises, for any callers, events and leases, and what ProviderStores     *)
(* promises, for any deliveries and writers.                                 *)
(***************************************************************************)
EXTENDS FundingReconciliation, FundingDispute, ProviderInbox, FiniteSetTheorems,
        TLAPS

Steps == {"idle", "record", "lookup", "negative", "correlate", "read", "write"}
Transactions ==
  {o.tx : o \in Observations} \cup {o.related : o \in Observations} \cup {None}
IntentIds == {i.id : i \in Intents} \cup {None}
Tasks ==
  [pc : Steps, observation : Observations \cup {None}, hint : Hints \cup {None},
   tx : Transactions, intent : IntentIds, attempts : Nat]

(* The provider credited the intent's amount to its destination.             *)
Pays(o, scope, tx, intent) ==
  \E i \in Intents :
    /\ i.id = intent /\ i.scope = scope /\ o.scope = scope /\ o.tx = tx
    /\ o.direction = "CREDIT" /\ o.destination = i.destination
    /\ o.amount = i.amount /\ o.currency = i.currency
(* The negative of an observation, against the intent of its transaction.    *)
NegativeOf(n, o) == n.observation = o.id /\ n.scope = o.scope
Reported(o) == \E n \in negatives : NegativeOf(n, o)
CorrelationOf(c, o) == c.scope = o.scope /\ c.tx = ParentTransaction(o)
Traces(n, o, c) ==
  /\ NegativeOf(n, o) /\ n.kind = NegativeKind(o.state)
  /\ CorrelationOf(c, o) /\ n.tx = c.tx /\ n.intent = c.intent

(* What a worker knows at each of its steps is still so.                     *)
TaskOK(w) ==
  LET o == worker[w].observation  tx == worker[w].tx IN
  /\ worker[w].pc # "idle" => o \in Observations
  /\ worker[w].pc \notin {"idle", "record"} => o \in observations
  /\ worker[w].pc = "negative" =>
       /\ IsFinancialNegative(o.state)
       /\ \E c \in correlations : CorrelationOf(c, o) /\ tx = c.tx /\ worker[w].intent = c.intent
  /\ worker[w].pc = "correlate" =>
       ~IsNegative(o.state) /\ tx = o.tx /\ Pays(o, o.scope, tx, worker[w].intent)
  /\ worker[w].pc \in {"read", "write"} =>
       /\ tx \in {o.tx, o.related}
       /\ IsFinancialNegative(o.state) => tx = ParentTransaction(o) /\ Reported(o)
  /\ worker[w].pc = "write" => worker[w].attempts >= 1

TypedInv ==
  /\ worker \in [Worker -> Tasks] /\ routes \subseteq Routes /\ observations \subseteq Observations
TasksInv == \A w \in Worker : TaskOK(w)
KeysInv == \A o, p \in observations : (o.scope = p.scope /\ o.id = p.id) => o = p
CorrelationsInv ==
  \A c \in correlations :
    /\ \A d \in correlations : (c.scope = d.scope /\ (c.tx = d.tx \/ c.intent = d.intent)) => c = d
    /\ \E o \in observations : Pays(o, c.scope, c.tx, c.intent)
NegativesInv == \A n \in negatives : \E o \in observations, c \in correlations : Traces(n, o, c)
CheckpointsInv ==
  /\ \A c, d \in checkpoints : (c.scope = d.scope /\ c.tx = d.tx) => c = d
  /\ \A c \in checkpoints : /\ c.state \in FundingObservationState
                            /\ c.attempts \in Nat /\ c.attempts >= 1 /\ c.checkedAt \in Nat
ConcludedInv == concluded \subseteq Observations
UnderWay(o) ==
  \E w \in Worker : worker[w].pc \notin {"idle", "record"} /\ worker[w].observation = o
ReportedInv ==
  \A o \in observations : IsFinancialNegative(o.state) =>
    o \in missed \/ UnderWay(o) \/ Reported(o)

RowsInv == KeysInv /\ CorrelationsInv /\ NegativesInv /\ CheckpointsInv /\ ConcludedInv
ReconciliationInv ==
  /\ TypedInv /\ TasksInv /\ RowsInv
  /\ NegativeBeforeCheckpoint /\ CheckpointNotBehind /\ ReportedInv

-----------------------------------------------------------------------------
(* What the four assignments to a worker leave of it.                        *)
LEMMA MoveShape ==
  ASSUME TypedInv, NEW w \in Worker, NEW pc \in Steps, Move(w, pc)
  PROVE  /\ worker' \in [Worker -> Tasks]
         /\ \A v \in Worker : v # w => worker'[v] = worker[v]
         /\ worker'[w] = [worker[w] EXCEPT !.pc = pc]
         /\ worker'[w].pc = pc /\ worker'[w].observation = worker[w].observation
         /\ worker'[w].tx = worker[w].tx /\ worker'[w].intent = worker[w].intent
  BY DEF TypedInv, Move, Tasks

(* A worker that links keeps its observation and sets its transaction.      *)
LEMMA LinkShape ==
  ASSUME TypedInv, NEW w \in Worker, NEW pc \in Steps, NEW tx \in Transactions,
         NEW intent \in IntentIds, Link(w, pc, tx, intent)
  PROVE  /\ worker' \in [Worker -> Tasks]
         /\ \A v \in Worker : v # w => worker'[v] = worker[v]
         /\ worker'[w].pc = pc /\ worker'[w].observation = worker[w].observation
         /\ worker'[w].tx = tx /\ worker'[w].intent = intent
  BY DEF TypedInv, Link, Tasks

(* A worker that attempts a write keeps its observation and transaction.    *)
LEMMA AttemptShape ==
  ASSUME TypedInv, NEW w \in Worker, NEW n \in Nat, Attempt(w, n)
  PROVE  /\ worker' \in [Worker -> Tasks]
         /\ \A v \in Worker : v # w => worker'[v] = worker[v]
         /\ worker'[w].pc = "write" /\ worker'[w].observation = worker[w].observation
         /\ worker'[w].tx = worker[w].tx /\ worker'[w].attempts = n
  BY DEF TypedInv, Attempt, Tasks, Steps

(* A worker that stops is idle and leaves the others alone.                 *)
LEMMA StopShape ==
  ASSUME TypedInv, NEW w \in Worker, Stop(w)
  PROVE  /\ worker' \in [Worker -> Tasks]
         /\ \A v \in Worker : v # w => worker'[v] = worker[v]
         /\ worker'[w].pc = "idle"
  BY DEF TypedInv, Stop, Tasks, Steps, Idle, Transactions, IntentIds

(* A worker's fields.                                                        *)
LEMMA TaskFields ==
  ASSUME TypedInv, NEW w \in Worker
  PROVE  /\ worker[w].pc \in Steps /\ worker[w].tx \in Transactions
         /\ worker[w].intent \in IntentIds /\ worker[w].attempts \in Nat
  BY DEF TypedInv, Tasks

(* What a worker knows stays true while other workers only add rows.         *)
LEMMA TaskStable ==
  ASSUME NEW w \in Worker, TaskOK(w), worker'[w] = worker[w],
         observations \subseteq observations', correlations \subseteq correlations',
         negatives \subseteq negatives'
  PROVE  TaskOK(w)'
  BY DEF TaskOK, Reported, CorrelationOf, NegativeOf, Pays, ParentTransaction, IsNegative,
         IsFinancialNegative

(* A correlation names a transaction and an intent the provider credited.    *)
LEMMA CorrelationFields ==
  ASSUME TypedInv, CorrelationsInv, NEW c \in correlations
  PROVE  c.tx \in Transactions /\ c.intent \in IntentIds
  BY DEF TypedInv, CorrelationsInv, Pays, Transactions, IntentIds

(* What a link of a credit rests on.                                         *)
LEMMA RoutePays ==
  ASSUME NEW o \in Observations, NEW hint, NEW r \in RouteFor(o, hint), RouteFits(r, o),
         \E i \in Intents : RouteMatchesIntent(r, i)
  PROVE  Pays(o, o.scope, o.tx, r.intent) /\ r.intent \in IntentIds
<1>1. r.scope = o.scope
  BY DEF RouteFor, FindRoute
<1>. QED
  BY <1>1 DEF RouteFits, RouteMatchesIntent, Pays, IntentIds

(* Routes, observations, correlations and negatives are only ever added.     *)
LEMMA RowsStay ==
  ASSUME [ReconciliationNext]_reconciliationVars
  PROVE  /\ observations \subseteq observations' /\ correlations \subseteq correlations'
         /\ negatives \subseteq negatives'
<1>. USE DEF reconciliationVars
<1>1. CASE \E r \in Routes : CreateRoute(r)
  BY <1>1 DEF CreateRoute
<1>2. ASSUME NEW w \in Worker, NEW o, NEW hint, Receive(w, o, hint)
      PROVE  UNCHANGED <<observations, correlations, negatives>>
  BY <1>2 DEF Receive
<1>3. ASSUME NEW w \in Worker, RecordObservation(w)
      PROVE  observations \subseteq observations' /\ UNCHANGED <<correlations, negatives>>
  BY <1>3 DEF RecordObservation
<1>4. ASSUME NEW w \in Worker, LookUpNegative(w) \/ LookUpCredit(w)
      PROVE  UNCHANGED <<observations, correlations, negatives>>
  BY <1>4 DEF LookUpNegative, LookUpCredit
<1>5. ASSUME NEW w \in Worker, RecordNegative(w)
      PROVE  negatives \subseteq negatives' /\ UNCHANGED <<observations, correlations>>
  BY <1>5 DEF RecordNegative, AppendNegativeObservation
<1>6. ASSUME NEW w \in Worker, CorrelateTransaction(w)
      PROVE  correlations \subseteq correlations' /\ UNCHANGED <<observations, negatives>>
  BY <1>6 DEF CorrelateTransaction
<1>7. ASSUME NEW w \in Worker, ReadCheckpoint(w) \/ PutCheckpoint(w) \/ Interrupt(w)
      PROVE  UNCHANGED <<observations, correlations, negatives>>
  BY <1>7 DEF ReadCheckpoint, PutCheckpoint, Interrupt
<1>. QED
  BY <1>1, <1>2, <1>3, <1>4, <1>5, <1>6, <1>7 DEF ReconciliationNext

(* The worker that takes a step knows, after it, what the next one rests on. *)
LEMMA ActorStep ==
  ASSUME ObservationAssumption, ReconciliationInv, NEW w \in Worker,
         [ReconciliationNext]_reconciliationVars,
         \/ \E o \in Observations, hint \in Hints \cup {None} : Receive(w, o, hint)
         \/ RecordObservation(w) \/ LookUpNegative(w) \/ LookUpCredit(w)
         \/ RecordNegative(w) \/ CorrelateTransaction(w)
         \/ ReadCheckpoint(w) \/ PutCheckpoint(w) \/ Interrupt(w)
  PROVE  /\ worker' \in [Worker -> Tasks] /\ TaskOK(w)'
         /\ \A v \in Worker : v # w => worker'[v] = worker[v]
<1>. DEFINE o == worker[w].observation
<1>0. /\ TypedInv /\ TaskOK(w) /\ CorrelationsInv /\ CheckpointsInv
      /\ worker[w].pc \in Steps /\ worker[w].tx \in Transactions
      /\ worker[w].intent \in IntentIds
  BY TaskFields DEF ReconciliationInv, TasksInv, RowsInv
<1>a. /\ observations \subseteq observations' /\ correlations \subseteq correlations'
      /\ negatives \subseteq negatives'
  BY RowsStay
<1>1. ASSUME NEW p \in Observations, NEW hint \in Hints \cup {None}, Receive(w, p, hint)
      PROVE  /\ worker' \in [Worker -> Tasks] /\ TaskOK(w)'
             /\ \A v \in Worker : v # w => worker'[v] = worker[v]
  <2>1. /\ worker' \in [Worker -> Tasks]
        /\ \A v \in Worker : v # w => worker'[v] = worker[v]
        /\ worker'[w].pc = "record" /\ worker'[w].observation = p
    <3>1. worker[w] \in Tasks /\ worker \in [Worker -> Tasks]
      BY <1>0 DEF TypedInv
    <3>2. worker' = [worker EXCEPT ![w] = [@ EXCEPT !.pc = "record", !.observation = p, !.hint = hint]]
      BY <1>1 DEF Receive
    <3>3. [worker[w] EXCEPT !.pc = "record", !.observation = p, !.hint = hint] \in Tasks
      BY <3>1, <1>1 DEF Tasks, Steps
    <3> QED BY <3>1, <3>2, <3>3 DEF Tasks
  <2>. QED BY <2>1 DEF TaskOK
<1>2. CASE RecordObservation(w)
  <2>1. CASE ObservationKnown(o)
    <3>1. Stop(w)
      BY <1>2, <2>1 DEF RecordObservation
    <3>. QED BY <1>0, <3>1, StopShape DEF TaskOK
  <2>2. CASE ~ObservationKnown(o)
    <3>1. Move(w, "lookup") /\ observations' = observations \cup {o} /\ o \in Observations
      BY <1>0, <1>2, <2>2 DEF RecordObservation, TaskOK
    <3>. QED BY <1>0, <3>1, MoveShape DEF TaskOK, Steps
  <2>. QED BY <2>1, <2>2
<1>3. CASE LookUpNegative(w)
  <2>0. o \in observations /\ o \in Observations
    BY <1>0, <1>3 DEF LookUpNegative, TaskOK, TypedInv
  <2>1. CASE Stop(w)
    BY <1>0, <2>1, StopShape DEF TaskOK
  <2>2. CASE ~Stop(w)
    <3>1. PICK c \in correlations :
            /\ CorrelationOf(c, o)
            /\ Link(w, IF IsFinancialNegative(o.state) THEN "negative" ELSE "read",
                    c.tx, c.intent)
      BY <1>3, <2>2 DEF LookUpNegative, GetCorrelation, CorrelationOf
    <3>2. c.tx \in Transactions /\ c.intent \in IntentIds
      BY <1>0, CorrelationFields
    <3>3. CASE IsFinancialNegative(o.state)
      <4>1. Link(w, "negative", c.tx, c.intent)
        BY <3>1, <3>3
      <4>2. /\ worker' \in [Worker -> Tasks]
            /\ \A v \in Worker : v # w => worker'[v] = worker[v]
            /\ worker'[w].pc = "negative" /\ worker'[w].observation = o
            /\ worker'[w].tx = c.tx /\ worker'[w].intent = c.intent
        BY <1>0, <3>2, <4>1, LinkShape DEF Steps
      <4>. QED BY <1>a, <2>0, <3>1, <3>3, <4>2 DEF TaskOK, CorrelationOf, ParentTransaction
    <3>4. CASE ~IsFinancialNegative(o.state)
      <4>1. Link(w, "read", c.tx, c.intent)
        BY <3>1, <3>4
      <4>2. /\ worker' \in [Worker -> Tasks]
            /\ \A v \in Worker : v # w => worker'[v] = worker[v]
            /\ worker'[w].pc = "read" /\ worker'[w].observation = o
            /\ worker'[w].tx = c.tx /\ worker'[w].intent = c.intent
        BY <1>0, <3>2, <4>1, LinkShape DEF Steps
      <4>3. c.tx \in {o.tx, o.related}
        BY <3>1 DEF CorrelationOf, ParentTransaction
      <4>. QED BY <1>a, <2>0, <3>4, <4>2, <4>3 DEF TaskOK
    <3>. QED BY <3>3, <3>4
  <2>. QED BY <2>1, <2>2
<1>4. CASE LookUpCredit(w)
  <2>0. o \in observations /\ o \in Observations /\ ~IsNegative(o.state)
    BY <1>0, <1>4 DEF LookUpCredit, TaskOK, TypedInv
  <2>1. CASE Stop(w)
    BY <1>0, <2>1, StopShape DEF TaskOK
  <2>2. CASE ~Stop(w)
    <3>1. PICK r \in RouteFor(o, worker[w].hint) :
            /\ RouteFits(r, o) /\ \E i \in Intents : RouteMatchesIntent(r, i)
            /\ Link(w, "correlate", o.tx, r.intent)
      BY <1>4, <2>2 DEF LookUpCredit
    <3>2. Pays(o, o.scope, o.tx, r.intent) /\ r.intent \in IntentIds
      BY <2>0, <3>1, RoutePays
    <3>3. /\ worker' \in [Worker -> Tasks]
          /\ \A v \in Worker : v # w => worker'[v] = worker[v]
          /\ worker'[w].pc = "correlate" /\ worker'[w].observation = o
          /\ worker'[w].tx = o.tx /\ worker'[w].intent = r.intent
      <4>1. o.tx \in Transactions /\ "correlate" \in Steps
        BY <2>0 DEF Transactions, Steps
      <4>. QED BY <1>0, <3>1, <3>2, <4>1, LinkShape
    <3>. QED BY <1>a, <2>0, <3>2, <3>3 DEF TaskOK, Pays
  <2>. QED BY <2>1, <2>2
<1>5. CASE RecordNegative(w)
  <2>1. /\ worker' \in [Worker -> Tasks]
        /\ \A v \in Worker : v # w => worker'[v] = worker[v]
        /\ worker'[w].pc = "read" /\ worker'[w].observation = o
        /\ worker'[w].tx = worker[w].tx
    BY <1>0, <1>5, MoveShape DEF RecordNegative, Steps
  <2>2. /\ o \in observations /\ o \in Observations /\ IsFinancialNegative(o.state)
        /\ worker[w].tx = ParentTransaction(o)
    BY <1>0, <1>5 DEF RecordNegative, TaskOK, CorrelationOf, TypedInv
  <2>3. Reported(o)'
    <3>. DEFINE n == [scope |-> o.scope, observation |-> o.id, tx |-> worker[w].tx,
                      intent |-> worker[w].intent, kind |-> NegativeKind(o.state)]
    <3>1. AppendNegativeObservation(n) /\ n.scope = o.scope /\ n.observation = o.id
      BY <1>5 DEF RecordNegative
    <3>. HIDE DEF n
    <3>2. \E m \in negatives' : m.observation = o.id /\ m.scope = o.scope
      BY <3>1 DEF AppendNegativeObservation
    <3>. QED BY <2>1, <3>2 DEF Reported, NegativeOf
  <2>4. worker[w].tx \in {o.tx, o.related}
    BY <2>2 DEF ParentTransaction
  <2>. QED BY <1>a, <2>1, <2>2, <2>3, <2>4 DEF TaskOK, ParentTransaction, Reported, NegativeOf
<1>6. CASE CorrelateTransaction(w)
  <2>1. CASE Stop(w)
    BY <1>0, <2>1, StopShape DEF TaskOK
  <2>2. CASE ~Stop(w)
    <3>1. Move(w, "read")
      BY <1>6, <2>2 DEF CorrelateTransaction
    <3>2. /\ o \in observations /\ o \in Observations /\ ~IsNegative(o.state)
          /\ worker[w].tx = o.tx
      BY <1>0, <1>6 DEF CorrelateTransaction, TaskOK
    <3>3. ~IsFinancialNegative(o.state)
      BY <3>2 DEF IsNegative, IsFinancialNegative
    <3>. QED BY <1>0, <1>a, <3>1, <3>2, <3>3, MoveShape DEF TaskOK, Steps
  <2>. QED BY <2>1, <2>2
<1>7. CASE ReadCheckpoint(w)
  <2>1. PICK n \in Nat : n >= 1 /\ Attempt(w, n)
    BY <1>0, <1>7 DEF ReadCheckpoint, GetCheckpoint, CheckpointsInv
  <2>2. worker[w].pc = "read" /\ UNCHANGED <<observations, negatives>>
    BY <1>7 DEF ReadCheckpoint
  <2>3. /\ worker' \in [Worker -> Tasks]
        /\ \A v \in Worker : v # w => worker'[v] = worker[v]
        /\ worker'[w].pc = "write" /\ worker'[w].observation = o
        /\ worker'[w].tx = worker[w].tx /\ worker'[w].attempts = n
    BY <1>0, <2>1, AttemptShape
  <2>. QED BY <1>0, <2>1, <2>2, <2>3
           DEF TaskOK, Reported, NegativeOf, ParentTransaction, IsFinancialNegative
<1>8. CASE PutCheckpoint(w) \/ Interrupt(w)
  <2>1. Stop(w)
    BY <1>8 DEF PutCheckpoint, Interrupt
  <2>. QED BY <1>0, <2>1, StopShape DEF TaskOK
<1>. QED
  BY <1>1, <1>2, <1>3, <1>4, <1>5, <1>6, <1>7, <1>8

(* So does everyone: types and what workers know are kept by every step.     *)
LEMMA TasksStep ==
  ASSUME ObservationAssumption, ReconciliationInv, [ReconciliationNext]_reconciliationVars
  PROVE  TypedInv' /\ TasksInv'
<1>0. TypedInv /\ TasksInv
  BY DEF ReconciliationInv
<1>a. /\ observations \subseteq observations' /\ correlations \subseteq correlations'
      /\ negatives \subseteq negatives'
  BY RowsStay
<1>1. routes' \subseteq Routes /\ observations' \subseteq Observations
  <2>1. CASE \E r \in Routes : CreateRoute(r)
    BY <1>0, <2>1 DEF CreateRoute, TypedInv
  <2>2. ASSUME NEW w \in Worker, RecordObservation(w)
        PROVE  routes' \subseteq Routes /\ observations' \subseteq Observations
    BY <1>0, <2>2 DEF RecordObservation, TypedInv, TasksInv, TaskOK
  <2>3. CASE \/ UNCHANGED reconciliationVars
             \/ \E w \in Worker :
                  \/ \E o \in Observations, hint \in Hints \cup {None} : Receive(w, o, hint)
                  \/ LookUpNegative(w) \/ LookUpCredit(w)
                  \/ RecordNegative(w) \/ CorrelateTransaction(w)
                  \/ ReadCheckpoint(w) \/ PutCheckpoint(w) \/ Interrupt(w)
    BY <1>0, <2>3 DEF TypedInv, Receive, LookUpNegative, LookUpCredit, RecordNegative,
          CorrelateTransaction, ReadCheckpoint, PutCheckpoint, Interrupt, reconciliationVars
  <2>. QED BY <2>1, <2>2, <2>3 DEF ReconciliationNext
<1>2. CASE worker' = worker
  <2>1. worker' \in [Worker -> Tasks]
    BY <1>0, <1>2 DEF TypedInv
  <2>2. \A w \in Worker : TaskOK(w)'
    BY <1>0, <1>a, <1>2, TaskStable DEF TasksInv
  <2>. QED BY <1>1, <2>1, <2>2 DEF TypedInv, TasksInv
<1>3. CASE worker' # worker
  <2>1. PICK w \in Worker :
         \/ \E o \in Observations, hint \in Hints \cup {None} : Receive(w, o, hint)
         \/ RecordObservation(w) \/ LookUpNegative(w) \/ LookUpCredit(w)
         \/ RecordNegative(w) \/ CorrelateTransaction(w)
         \/ ReadCheckpoint(w) \/ PutCheckpoint(w) \/ Interrupt(w)
    BY <1>3 DEF ReconciliationNext, CreateRoute, reconciliationVars
  <2>2. /\ worker' \in [Worker -> Tasks] /\ TaskOK(w)'
        /\ \A v \in Worker : v # w => worker'[v] = worker[v]
    BY <2>1, ActorStep
  <2>3. \A v \in Worker : TaskOK(v)'
    <3>1. ASSUME NEW v \in Worker, v # w PROVE TaskOK(v)'
      BY <1>0, <1>a, <2>2, <3>1, TaskStable DEF TasksInv
    <3>. QED BY <2>2, <3>1
  <2>. QED BY <1>1, <2>2, <2>3 DEF TypedInv, TasksInv
<1>. QED
  BY <1>2, <1>3

(* Who changes which rows.                                                   *)
LEMMA Changes ==
  ASSUME [ReconciliationNext]_reconciliationVars
  PROVE  /\ observations' = observations \/ \E w \in Worker : RecordObservation(w)
         /\ correlations' = correlations \/ \E w \in Worker : CorrelateTransaction(w)
         /\ negatives' = negatives \/ \E w \in Worker : RecordNegative(w)
         /\ \/ checkpoints' = checkpoints /\ concluded' = concluded
            \/ \E w \in Worker : PutCheckpoint(w)
         /\ missed \subseteq missed'
<1>. USE DEF reconciliationVars
<1>1. CASE \E r \in Routes : CreateRoute(r)
  BY <1>1 DEF CreateRoute
<1>2. ASSUME NEW w \in Worker,
             \/ \E o \in Observations, hint \in Hints \cup {None} : Receive(w, o, hint)
             \/ LookUpNegative(w) \/ LookUpCredit(w) \/ ReadCheckpoint(w) \/ Interrupt(w)
      PROVE  /\ UNCHANGED <<observations, correlations, negatives, checkpoints, concluded>>
             /\ missed \subseteq missed'
  BY <1>2 DEF Receive, LookUpNegative, LookUpCredit, ReadCheckpoint, Interrupt
<1>3. ASSUME NEW w \in Worker, RecordObservation(w)
      PROVE  UNCHANGED <<correlations, negatives, checkpoints, concluded, missed>>
  BY <1>3 DEF RecordObservation
<1>4. ASSUME NEW w \in Worker, RecordNegative(w)
      PROVE  UNCHANGED <<observations, correlations, checkpoints, concluded, missed>>
  BY <1>4 DEF RecordNegative
<1>5. ASSUME NEW w \in Worker, CorrelateTransaction(w)
      PROVE  UNCHANGED <<observations, negatives, checkpoints, concluded, missed>>
  BY <1>5 DEF CorrelateTransaction
<1>6. ASSUME NEW w \in Worker, PutCheckpoint(w)
      PROVE  UNCHANGED <<observations, correlations, negatives, missed>>
  BY <1>6 DEF PutCheckpoint
<1>7. CASE UNCHANGED reconciliationVars
  BY <1>7
<1>. QED
  BY <1>1, <1>2, <1>3, <1>4, <1>5, <1>6, <1>7 DEF ReconciliationNext

(* INSERT ON CONFLICT DO UPDATE ... WHERE: the one row of the key is replaced *)
(* or stays.                                                                 *)
LEMMA Upserted ==
  ASSUME NEW value, UpsertCheckpoint(value)
  PROVE  \/ /\ checkpoints' = checkpoints
            /\ \E c \in checkpoints :
                 c.scope = value.scope /\ c.tx = value.tx /\ ~Supersedes(c, value)
         \/ /\ value \in checkpoints'
            /\ \A c \in checkpoints' :
                 c = value \/ (c \in checkpoints /\ ~(c.scope = value.scope /\ c.tx = value.tx))
            /\ \A c \in checkpoints :
                 \/ c \in checkpoints'
                 \/ c.scope = value.scope /\ c.tx = value.tx /\ Supersedes(c, value)
<1>. DEFINE prior == GetCheckpoint(value.scope, value.tx)
<1>1. CASE \A c \in prior : Supersedes(c, value)
  <2>1. checkpoints' = (checkpoints \ prior) \cup {value}
    BY <1>1 DEF UpsertCheckpoint
  <2>. QED BY <1>1, <2>1 DEF GetCheckpoint
<1>2. CASE ~ \A c \in prior : Supersedes(c, value)
  <2>1. checkpoints' = checkpoints
    BY <1>2 DEF UpsertCheckpoint
  <2>. QED BY <1>2, <2>1 DEF GetCheckpoint
<1>. QED BY <1>1, <1>2

(* Row keys stay unique, and rows keep their reason.                         *)
LEMMA RowsStep ==
  ASSUME ObservationAssumption, ReconciliationInv, [ReconciliationNext]_reconciliationVars
  PROVE  RowsInv'
<1>0. TypedInv /\ TasksInv /\ KeysInv /\ CorrelationsInv /\ NegativesInv /\ CheckpointsInv
      /\ ConcludedInv
  BY DEF ReconciliationInv, RowsInv
<1>a. /\ observations \subseteq observations' /\ correlations \subseteq correlations'
      /\ negatives \subseteq negatives'
  BY RowsStay
<1>1. KeysInv'
  <2>1. CASE observations' = observations
    BY <1>0, <2>1 DEF KeysInv
  <2>2. ASSUME NEW w \in Worker, RecordObservation(w)
        PROVE  KeysInv'
    <3>. DEFINE o == worker[w].observation
    <3>1. CASE ObservationKnown(o)
      BY <1>0, <2>2, <3>1 DEF RecordObservation, KeysInv
    <3>2. CASE ~ObservationKnown(o)
      <4>1. /\ observations' = observations \cup {o}
            /\ \A p \in observations : ~(p.scope = o.scope /\ p.id = o.id)
        BY <2>2, <3>2 DEF RecordObservation, ObservationKnown
      <4>. HIDE DEF o
      <4>. QED BY <1>0, <4>1 DEF KeysInv
    <3>. QED BY <3>1, <3>2
  <2>. QED BY <2>1, <2>2, Changes
<1>2. CorrelationsInv'
  <2>1. CASE correlations' = correlations
    BY <1>0, <1>a, <2>1 DEF CorrelationsInv, Pays
  <2>2. ASSUME NEW w \in Worker, CorrelateTransaction(w), correlations' # correlations
        PROVE  CorrelationsInv'
    <3>. DEFINE o == worker[w].observation
                value == [scope |-> o.scope, tx |-> worker[w].tx, intent |-> worker[w].intent]
    <3>1. /\ value.scope = o.scope /\ value.tx = worker[w].tx
          /\ value.intent = worker[w].intent
      OBVIOUS
    <3>2. /\ correlations' = correlations \cup {value}
          /\ Clashing(value.scope, value.tx, value.intent) \subseteq {value}
      BY <2>2 DEF CorrelateTransaction
    <3>3. o \in observations /\ Pays(o, o.scope, o.tx, worker[w].intent) /\ worker[w].tx = o.tx
      BY <1>0, <2>2 DEF CorrelateTransaction, TasksInv, TaskOK
    <3>. HIDE DEF value, o
    <3>4. \A d \in correlations :
            (d.scope = value.scope /\ (d.tx = value.tx \/ d.intent = value.intent)) => d = value
      BY <3>2 DEF Clashing
    <3>5. o \in observations' /\ Pays(o, value.scope, value.tx, value.intent)
      BY <1>a, <3>1, <3>3 DEF Pays
    <3>6. \A c \in correlations : \E p \in observations' : Pays(p, c.scope, c.tx, c.intent)
      BY <1>0, <1>a DEF CorrelationsInv, Pays
    <3>7. \A c, d \in correlations' :
            (c.scope = d.scope /\ (c.tx = d.tx \/ c.intent = d.intent)) => c = d
      BY <1>0, <3>2, <3>4 DEF CorrelationsInv
    <3>. QED BY <3>2, <3>5, <3>6, <3>7 DEF CorrelationsInv
  <2>. QED BY <2>1, <2>2, Changes
<1>3. NegativesInv'
  <2>1. \A n \in negatives : \E o \in observations', c \in correlations' : Traces(n, o, c)
    BY <1>0, <1>a DEF NegativesInv, Traces, NegativeOf, CorrelationOf, ParentTransaction
  <2>2. ASSUME NEW w \in Worker, RecordNegative(w)
        PROVE  NegativesInv'
    <3>. DEFINE o == worker[w].observation
                n == [scope |-> o.scope, observation |-> o.id, tx |-> worker[w].tx,
                      intent |-> worker[w].intent, kind |-> NegativeKind(o.state)]
    <3>1. negatives' \subseteq negatives \cup {n}
      BY <2>2 DEF RecordNegative, AppendNegativeObservation
    <3>2. o \in observations'
      BY <1>0, <1>a, <2>2 DEF RecordNegative, TasksInv, TaskOK
    <3>3. PICK c \in correlations' : /\ c.scope = o.scope /\ c.tx = ParentTransaction(o)
                                     /\ worker[w].tx = c.tx /\ worker[w].intent = c.intent
      BY <1>0, <1>a, <2>2 DEF RecordNegative, TasksInv, TaskOK, CorrelationOf
    <3>4. Traces(n, o, c)
      BY <3>3 DEF Traces, NegativeOf, CorrelationOf
    <3>. HIDE DEF n, o
    <3>. QED BY <2>1, <3>1, <3>2, <3>3, <3>4 DEF NegativesInv
  <2>. QED BY <1>0, <2>1, <2>2, Changes DEF NegativesInv
<1>4. CheckpointsInv' /\ ConcludedInv'
  <2>1. CASE checkpoints' = checkpoints /\ concluded' = concluded
    BY <1>0, <2>1 DEF CheckpointsInv, ConcludedInv
  <2>2. ASSUME NEW w \in Worker, PutCheckpoint(w)
        PROVE  CheckpointsInv' /\ ConcludedInv'
    <3>. DEFINE o == worker[w].observation
                value == [scope |-> o.scope, tx |-> worker[w].tx, state |-> o.state,
                          attempts |-> worker[w].attempts, checkedAt |-> o.observedAt]
    <3>1. /\ UpsertCheckpoint(value) /\ worker[w].pc = "write"
          /\ concluded' = concluded \cup {o}
      BY <2>2 DEF PutCheckpoint
    <3>2. o \in Observations /\ worker[w].attempts \in Nat /\ worker[w].attempts >= 1
      BY <1>0, <3>1, TaskFields DEF TasksInv, TaskOK
    <3>3. /\ value.state \in FundingObservationState
          /\ value.attempts \in Nat /\ value.attempts >= 1 /\ value.checkedAt \in Nat
      BY <3>2 DEF ObservationAssumption
    <3>. HIDE DEF value
    <3>4. CheckpointsInv'
      BY <1>0, <3>1, <3>3, Upserted DEF CheckpointsInv
    <3>. QED BY <1>0, <3>1, <3>2, <3>4 DEF ConcludedInv
  <2>. QED BY <2>1, <2>2, Changes
<1>. QED
  BY <1>1, <1>2, <1>3, <1>4 DEF RowsInv

(* A negative of a known observation is of the transaction that it takes     *)
(* back.                                                                     *)
LEMMA NegativeTransaction ==
  ASSUME KeysInv, NegativesInv, NEW o \in observations, NEW n \in negatives, NegativeOf(n, o)
  PROVE  \E c \in correlations : Traces(n, o, c)
<1>1. PICK p \in observations, c \in correlations : Traces(n, p, c)
  BY DEF NegativesInv
<1>2. p = o
  BY <1>1 DEF KeysInv, Traces, NegativeOf
<1>. QED BY <1>1, <1>2

(* The negative comes before the checkpoint.                                 *)
LEMMA BlocksStep ==
  ASSUME ObservationAssumption, ReconciliationInv, [ReconciliationNext]_reconciliationVars
  PROVE  NegativeBeforeCheckpoint'
<1>0. TasksInv /\ KeysInv /\ NegativesInv /\ NegativeBeforeCheckpoint
      /\ negatives \subseteq negatives'
  BY RowsStay DEF ReconciliationInv, RowsInv
<1>1. CASE checkpoints' = checkpoints
  BY <1>0, <1>1 DEF NegativeBeforeCheckpoint
<1>2. ASSUME NEW w \in Worker, PutCheckpoint(w)
      PROVE  NegativeBeforeCheckpoint'
  <2>. DEFINE o == worker[w].observation
              value == [scope |-> o.scope, tx |-> worker[w].tx, state |-> o.state,
                        attempts |-> worker[w].attempts, checkedAt |-> o.observedAt]
  <2>1. /\ UpsertCheckpoint(value) /\ worker[w].pc = "write"
        /\ value.scope = o.scope /\ value.tx = worker[w].tx /\ value.state = o.state
    BY <1>2 DEF PutCheckpoint
  <2>2. ASSUME o.state \in MoneyTakenBack
        PROVE  \E n \in negatives : n.scope = value.scope /\ n.tx = value.tx
    <3>1. /\ o \in observations /\ worker[w].tx = ParentTransaction(o)
          /\ \E n \in negatives : NegativeOf(n, o)
      BY <1>0, <2>1, <2>2 DEF TasksInv, TaskOK, MoneyTakenBack, IsFinancialNegative, Reported
    <3>2. PICK n \in negatives : NegativeOf(n, o)
      BY <3>1
    <3>3. PICK c \in correlations : Traces(n, o, c)
      BY <1>0, <3>1, <3>2, NegativeTransaction
    <3>4. n.tx = ParentTransaction(o) /\ n.scope = o.scope
      BY <3>3 DEF Traces, NegativeOf, CorrelationOf
    <3>. QED BY <2>1, <3>1, <3>4
  <2>3. \A c \in checkpoints' : c = value \/ c \in checkpoints
    BY <2>1, Upserted
  <2>4. value.state \in MoneyTakenBack =>
          \E n \in negatives : n.scope = value.scope /\ n.tx = value.tx
    BY <2>1, <2>2
  <2>. HIDE DEF value
  <2>. QED BY <1>0, <2>3, <2>4 DEF NegativeBeforeCheckpoint
<1>. QED
  BY <1>1, <1>2, Changes

(* A row that supersedes another is as far in time and stage.                *)
LEMMA SupersedesOrder ==
  ASSUME NEW o \in Observations, NEW c, NEW d, ObservationAssumption,
         c.checkedAt \in Nat, d.checkedAt \in Nat, Supersedes(c, d),
         o.observedAt <= c.checkedAt \/ CheckpointRank(o.state) < CheckpointRank(c.state)
  PROVE  o.observedAt <= d.checkedAt \/ CheckpointRank(o.state) < CheckpointRank(d.state)
<1>1. o.observedAt \in Nat
  BY DEF ObservationAssumption
<1>2. \A s : CheckpointRank(s) \in 0 .. 2
  BY DEF CheckpointRank
<1>. QED BY <1>1, <1>2 DEF Supersedes

(* A checkpoint does not fall behind what workers finished with.             *)
LEMMA BehindStep ==
  ASSUME ObservationAssumption, ReconciliationInv, [ReconciliationNext]_reconciliationVars
  PROVE  CheckpointNotBehind'
<1>0. TypedInv /\ TasksInv /\ CheckpointsInv /\ ConcludedInv /\ CheckpointNotBehind
  BY DEF ReconciliationInv, RowsInv
<1>1. CASE checkpoints' = checkpoints /\ concluded' = concluded
  BY <1>0, <1>1 DEF CheckpointNotBehind
<1>2. ASSUME NEW w \in Worker, PutCheckpoint(w)
      PROVE  CheckpointNotBehind'
  <2>. DEFINE o == worker[w].observation
              value == [scope |-> o.scope, tx |-> worker[w].tx, state |-> o.state,
                        attempts |-> worker[w].attempts, checkedAt |-> o.observedAt]
              Ahead(p, c) == \/ p.observedAt <= c.checkedAt
                             \/ CheckpointRank(p.state) < CheckpointRank(c.state)
  <2>1. /\ UpsertCheckpoint(value) /\ worker[w].pc = "write"
        /\ concluded' = concluded \cup {o}
        /\ value.scope = o.scope /\ value.tx = worker[w].tx /\ value.state = o.state
        /\ value.checkedAt = o.observedAt
    BY <1>2 DEF PutCheckpoint
  <2>2. o \in Observations /\ value.tx \in {o.tx, o.related}
    BY <1>0, <2>1 DEF TasksInv, TaskOK
  <2>3. o.observedAt \in Nat /\ value.checkedAt \in Nat
    BY <2>1, <2>2 DEF ObservationAssumption
  <2>. HIDE DEF value, o
  <2>4. \E c \in checkpoints' : c.scope = o.scope /\ c.tx \in {o.tx, o.related} /\ Ahead(o, c)
    <3>1. CASE value \in checkpoints'
      BY <2>1, <2>2, <2>3, <3>1
    <3>2. CASE value \notin checkpoints'
      <4>1. PICK c \in checkpoints' : /\ c \in checkpoints /\ c.scope = value.scope
                                      /\ c.tx = value.tx /\ ~Supersedes(c, value)
        BY <2>1, <3>2, Upserted
      <4>2. c.checkedAt \in Nat
        BY <1>0, <4>1 DEF CheckpointsInv
      <4>3. \A s : CheckpointRank(s) \in 0 .. 2
        BY DEF CheckpointRank
      <4>4. Ahead(o, c)
        BY <2>1, <2>3, <4>1, <4>2, <4>3 DEF Supersedes
      <4>. QED BY <2>1, <2>2, <4>1, <4>4
    <3>. QED BY <3>1, <3>2
  <2>5. ASSUME NEW p \in concluded
        PROVE  \E c \in checkpoints' :
                 c.scope = p.scope /\ c.tx \in {p.tx, p.related} /\ Ahead(p, c)
    <3>1. PICK c \in checkpoints :
            c.scope = p.scope /\ c.tx \in {p.tx, p.related} /\ Ahead(p, c)
      BY <1>0 DEF CheckpointNotBehind
    <3>2. p \in Observations /\ c.checkedAt \in Nat
      BY <1>0 DEF ConcludedInv, CheckpointsInv
    <3>3. CASE c \in checkpoints'
      BY <3>1, <3>3
    <3>4. CASE c \notin checkpoints'
      <4>1. /\ value \in checkpoints' /\ c.scope = value.scope /\ c.tx = value.tx
            /\ Supersedes(c, value)
        BY <2>1, <3>4, Upserted
      <4>2. Ahead(p, value)
        BY <2>3, <3>1, <3>2, <4>1, SupersedesOrder
      <4>. QED BY <3>1, <4>1, <4>2
    <3>. QED BY <3>3, <3>4
  <2>. QED BY <2>1, <2>4, <2>5 DEF CheckpointNotBehind
<1>. QED
  BY <1>1, <1>2, Changes

(* A recorded reversal is missed, under way or reported.                     *)
LEMMA ReportedStep ==
  ASSUME ObservationAssumption, ReconciliationInv, [ReconciliationNext]_reconciliationVars
  PROVE  ReportedInv'
<1>0. /\ TypedInv /\ TasksInv /\ KeysInv /\ ReportedInv
      /\ negatives \subseteq negatives' /\ missed \subseteq missed'
  BY RowsStay, Changes DEF ReconciliationInv, RowsInv
<1>1. \A o : Reported(o) => Reported(o)'
  BY <1>0 DEF Reported
<1>2. ASSUME NEW o \in observations, IsFinancialNegative(o.state), NEW w \in Worker,
             worker[w].pc \notin {"idle", "record"}, worker[w].observation = o
      PROVE  o \in missed' \/ UnderWay(o)' \/ Reported(o)'
  <2>0. o \in Observations /\ IsNegative(o.state)
    BY <1>0, <1>2 DEF TypedInv, IsNegative, IsFinancialNegative
  <2>1. CASE worker'[w] = worker[w]
    BY <1>2, <2>1 DEF UnderWay
  <2>2. CASE worker'[w] # worker[w]
    <3>1. PICK v \in Worker :
         \/ \E p \in Observations, hint \in Hints \cup {None} : Receive(v, p, hint)
         \/ RecordObservation(v) \/ LookUpNegative(v) \/ LookUpCredit(v)
         \/ RecordNegative(v) \/ CorrelateTransaction(v)
         \/ ReadCheckpoint(v) \/ PutCheckpoint(v) \/ Interrupt(v)
      BY <2>2 DEF ReconciliationNext, CreateRoute, reconciliationVars
    <3>2. \A u \in Worker : u # v => worker'[u] = worker[u]
      BY <3>1, ActorStep
    <3>3. v = w
      BY <2>2, <3>2
    <3>4. CASE LookUpNegative(w)
      <4>1. CASE missed' = missed \cup {o}
        BY <4>1
      <4>2. CASE missed' # missed \cup {o}
        <5>1. PICK c \in correlations : CorrelationOf(c, o) /\ Link(w, "negative", c.tx, c.intent)
          BY <1>2, <3>4, <4>2 DEF LookUpNegative, GetCorrelation, CorrelationOf
        <5>2. c.tx \in Transactions /\ c.intent \in IntentIds /\ "negative" \in Steps
          BY CorrelationFields DEF ReconciliationInv, RowsInv, Steps
        <5>3. worker'[w].pc = "negative" /\ worker'[w].observation = o
          BY <1>0, <1>2, <5>1, <5>2, LinkShape
        <5>. QED BY <5>3 DEF UnderWay
      <4>. QED BY <4>1, <4>2
    <3>5. CASE RecordNegative(w)
      <4>1. Move(w, "read") /\ "read" \in Steps
        BY <3>5 DEF RecordNegative, Steps
      <4>2. worker'[w].pc = "read" /\ worker'[w].observation = o
        BY <1>0, <1>2, <4>1, MoveShape
      <4>. QED BY <4>2 DEF UnderWay
    <3>6. CASE CorrelateTransaction(w) \/ LookUpCredit(w)
      BY <1>0, <1>2, <2>0, <3>6 DEF CorrelateTransaction, LookUpCredit, TasksInv, TaskOK
    <3>7. CASE ReadCheckpoint(w)
      <4>1. PICK n \in Nat : Attempt(w, n)
        BY <3>7 DEF ReadCheckpoint, GetCheckpoint, ReconciliationInv, RowsInv, CheckpointsInv
      <4>2. worker'[w].pc = "write" /\ worker'[w].observation = o
        BY <1>0, <1>2, <4>1, AttemptShape
      <4>. QED BY <4>2 DEF UnderWay
    <3>8. CASE PutCheckpoint(w)
      <4>1. Reported(o)
        BY <1>0, <1>2, <3>8 DEF PutCheckpoint, TasksInv, TaskOK
      <4>. QED BY <1>1, <4>1
    <3>9. CASE Interrupt(w)
      BY <1>2, <3>9 DEF Interrupt
    <3>10. CASE \/ \E p \in Observations, hint \in Hints \cup {None} : Receive(w, p, hint)
                \/ RecordObservation(w)
      <4>1. worker[w] = Idle \/ worker[w].pc = "record"
        BY <3>10 DEF Receive, RecordObservation
      <4>. QED BY <1>2, <4>1 DEF Idle
    <3>. QED BY <3>1, <3>3, <3>4, <3>5, <3>6, <3>7, <3>8, <3>9, <3>10
  <2>. QED BY <2>1, <2>2
<1>3. ASSUME NEW o \in observations', IsFinancialNegative(o.state)
      PROVE  o \in missed' \/ UnderWay(o)' \/ Reported(o)'
  <2>1. CASE o \in observations
    <3>1. o \in missed \/ UnderWay(o) \/ Reported(o)
      BY <1>0, <1>3, <2>1 DEF ReportedInv
    <3>. QED BY <1>0, <1>1, <1>2, <1>3, <2>1, <3>1 DEF UnderWay
  <2>2. CASE o \notin observations
    <3>1. PICK w \in Worker : RecordObservation(w)
      BY <1>3, <2>2, Changes
    <3>2. o = worker[w].observation /\ Move(w, "lookup") /\ "lookup" \in Steps
      BY <1>3, <2>2, <3>1 DEF RecordObservation, Steps
    <3>3. worker'[w].pc = "lookup" /\ worker'[w].observation = o
      BY <1>0, <3>2, MoveShape
    <3>. QED BY <3>3 DEF UnderWay
  <2>. QED BY <2>1, <2>2
<1>. QED
  BY <1>3 DEF ReportedInv

-----------------------------------------------------------------------------
(* The inductive invariant of reconciliation: rows and what workers know of  *)
(* them, whichever worker moves, fails or gets a second delivery.            *)
THEOREM ReconciliationInvariant ==
  ASSUME ObservationAssumption
  PROVE  ReconciliationSpec => []ReconciliationInv
<1>1. ReconciliationInit => ReconciliationInv
  <2>1. ReconciliationInit => TypedInv
    BY DEF ReconciliationInit, TypedInv, Tasks, Idle, Steps, Transactions, IntentIds
  <2>2. ReconciliationInit => TasksInv
    BY DEF ReconciliationInit, TasksInv, TaskOK, Idle
  <2>3. ReconciliationInit => RowsInv /\ NegativeBeforeCheckpoint /\ CheckpointNotBehind
                              /\ ReportedInv
    BY DEF ReconciliationInit, RowsInv, KeysInv, CorrelationsInv, NegativesInv, CheckpointsInv,
           ConcludedInv, NegativeBeforeCheckpoint, CheckpointNotBehind, ReportedInv
  <2>. QED BY <2>1, <2>2, <2>3 DEF ReconciliationInv
<1>2. ReconciliationInv /\ [ReconciliationNext]_reconciliationVars => ReconciliationInv'
  BY TasksStep, RowsStep, BlocksStep, BehindStep, ReportedStep DEF ReconciliationInv
<1>. QED
  BY <1>1, <1>2, PTL DEF ReconciliationSpec

(* An account correlates each intent with one transaction and each           *)
(* transaction with one intent, on a credit of exactly the intent's amount.  *)
THEOREM CorrelationsAreJustified ==
  ASSUME ObservationAssumption
  PROVE  ReconciliationSpec => []CorrelationsJustified
<1>1. ReconciliationInv => ReconciliationTypeOK
  BY TaskFields DEF ReconciliationInv, TypedInv, RowsInv, KeysInv, CheckpointsInv,
     ReconciliationTypeOK, Steps
<1>2. ReconciliationInv => CorrelationsJustified
  BY <1>1 DEF ReconciliationInv, RowsInv, CorrelationsInv, Pays, CorrelationsJustified
<1>. QED
  BY <1>2, ReconciliationInvariant, PTL

(* Reversals are recorded: the negative before the checkpoint, a checkpoint  *)
(* that does not fall behind, and no reversal lost but where a worker died   *)
(* or nothing was correlated.                                                *)
THEOREM ReversalsAreRecorded ==
  ASSUME ObservationAssumption
  PROVE  ReconciliationSpec => []ReversalsRecorded
<1>1. ReconciliationInv => ReversalsReported
  <2>. SUFFICES ASSUME ReconciliationInv, NEW o \in observations, o.state \in MoneyTakenBack
                PROVE  \/ o \in missed
                       \/ \E w \in Worker : worker[w].pc # "idle" /\ worker[w].observation = o
                       \/ \E n \in negatives, c \in GetCorrelation(o.scope, ParentTransaction(o)) :
                            /\ n.observation = o.id /\ n.scope = o.scope /\ n.tx = c.tx
                            /\ n.intent = c.intent /\ n.kind = NegativeKind(o.state)
    BY DEF ReversalsReported
  <2>1. o \in missed \/ UnderWay(o) \/ Reported(o)
    BY DEF ReconciliationInv, ReportedInv, MoneyTakenBack, IsFinancialNegative
  <2>2. ASSUME NEW n \in negatives, NegativeOf(n, o)
        PROVE  \E c \in GetCorrelation(o.scope, ParentTransaction(o)) :
                 /\ n.observation = o.id /\ n.scope = o.scope /\ n.tx = c.tx
                 /\ n.intent = c.intent /\ n.kind = NegativeKind(o.state)
    <3>1. PICK c \in correlations : Traces(n, o, c)
      BY <2>2, NegativeTransaction DEF ReconciliationInv, RowsInv
    <3>. QED BY <3>1 DEF Traces, NegativeOf, CorrelationOf, GetCorrelation
  <2>. QED BY <2>1, <2>2 DEF UnderWay, Reported
<1>2. ReconciliationInv => ReversalsRecorded
  BY <1>1 DEF ReconciliationInv, ReversalsRecorded
<1>. QED
  BY <1>2, ReconciliationInvariant, PTL

-----------------------------------------------------------------------------
(* Disputes and resolutions.  What may be written as a disposition, and what *)
(* a request holds of it.                                                    *)
Digests == {p.digest : p \in Proofs}
Statuses == {p.status : p \in Proofs}
Outcomes == {p.outcome : p \in Proofs}
Dispositions ==
  [id : Digests, negative : Negatives, version : Nat, status : Statuses, outcome : Outcomes,
   digest : Digests, recordedAt : Time, resolver : Resolver]
Prior == [pc : {"prior"}, negative : Negatives, proof : Proofs]
Appending == [pc : {"append"}, disposition : Dispositions]
Calls == {NoRequest} \cup Prior \cup Appending

(* A disposition says what a valid proof said, over the cell's receipt.      *)
Backs(p, d) ==
  /\ p.digest = d.digest /\ p.status = d.status /\ p.outcome = d.outcome
  /\ ValidProof(p, d.negative)
Backed(d) == d.id = d.digest /\ SameNegativeReceipt(d.negative) /\ \E p \in Proofs : Backs(p, d)
RequestOK(r) ==
  /\ request[r].pc = "prior" =>
       /\ request[r].negative \in reversals /\ SameNegativeReceipt(request[r].negative)
       /\ ValidProof(request[r].proof, request[r].negative)
  /\ request[r].pc = "append" =>
       /\ request[r].disposition.negative \in reversals /\ request[r].disposition.resolver = r
       /\ Backed(request[r].disposition)
DispositionOK(d) ==
  /\ d.negative \in reversals /\ d.resolver \in capable
  /\ Backed(d) /\ RetainsWhole(d.negative, d.outcome)
SeriesOK(n) ==
  IsFiniteSet(Series(n)) /\ {d.version : d \in Series(n)} = 1 .. Cardinality(Series(n))
(* Some observation of each dispute is its last.                             *)
LastOf(m, o) ==
  m.dispute = o.dispute /\ \A p \in disputes : p.dispute = o.dispute => p.version <= m.version

RequestsInv ==
  /\ request \in [Resolver -> Calls]
  /\ started \in [Resolver -> Nat] /\ \A r \in Resolver : started[r] <= MaxRequests /\ RequestOK(r)
SetsInv ==
  /\ reversals \subseteq Negatives /\ disputes \subseteq Disputes /\ capable \subseteq Resolver
  /\ dispositions \subseteq Dispositions /\ settlement \in {"open", "checked", "settled"}
DispositionsInv ==
  /\ \A d \in dispositions : DispositionOK(d)
  /\ \A d, e \in dispositions : d.digest = e.digest => d = e
  /\ \A digest \in recorded : \E d \in dispositions : d.digest = digest
SeriesInv == \A n \in reversals : SeriesOK(n)
VersionsInv ==
  /\ \A o, p \in disputes : (o.dispute = p.dispute /\ o.version = p.version) => o = p
  /\ \A o \in disputes : \E m \in disputes : LastOf(m, o)
CheckedInv == settlement = "checked" => ~HasBlockingDispute
DisputeInv ==
  /\ RequestsInv /\ SetsInv /\ DispositionsInv /\ SeriesInv /\ VersionsInv /\ CheckedInv

-----------------------------------------------------------------------------
(* The greatest number of a range.                                           *)
LEMMA MaxOfRange ==
  ASSUME NEW k \in Nat
  PROVE  Max(0 .. k) = k
<1>. DEFINE Top(x) == \A y \in 0 .. k : x >= y
<1>1. k \in 0 .. k /\ Top(k)
  OBVIOUS
<1>2. \A x \in 0 .. k : Top(x) => x = k
  OBVIOUS
<1>. QED BY <1>1, <1>2 DEF Max

(* The latest version of a series without gap is its length.                 *)
LEMMA LatestIsLength ==
  ASSUME NEW n, SeriesOK(n)
  PROVE  /\ Cardinality(Series(n)) \in Nat
         /\ LatestVersion(n) = Cardinality(Series(n))
<1>. DEFINE k == Cardinality(Series(n))
<1>1. k \in Nat
  BY FS_CardinalityType DEF SeriesOK
<1>2. {d.version : d \in Series(n)} = 1 .. k
  BY DEF SeriesOK
<1>. HIDE DEF k
<1>3. {0} \cup 1 .. k = 0 .. k
  BY <1>1
<1>4. LatestVersion(n) = Max(0 .. k)
  BY <1>2, <1>3 DEF LatestVersion
<1>. QED
  BY <1>1, <1>4, MaxOfRange DEF k

(* What the state of a request says of its shape.                            *)
LEMMA RequestShape ==
  ASSUME RequestsInv, NEW r \in Resolver
  PROVE  /\ request[r].pc = "prior" => request[r] \in Prior
         /\ request[r].pc = "append" => request[r] \in Appending
         /\ request[r].pc \in {"idle", "prior", "append"} /\ RequestOK(r)
<1>1. request[r] \in Calls /\ RequestOK(r)
  BY DEF RequestsInv
<1>. QED
  BY <1>1 DEF Calls, Prior, Appending, NoRequest

(* Negatives, and dispositions, are only added; the receipt's row is free    *)
(* when they are.                                                            *)
LEMMA EvidenceStays ==
  ASSUME [DisputeNext]_disputeVars
  PROVE  /\ reversals \subseteq reversals' /\ dispositions \subseteq dispositions'
         /\ \/ UNCHANGED <<reversals, disputes, dispositions>>
            \/ RowFree /\ settlement' = settlement
<1>. USE DEF disputeVars
<1>1. ASSUME NEW o \in Disputes, RecordDispute(o)
      PROVE  RowFree /\ UNCHANGED <<reversals, dispositions, settlement>>
  BY <1>1 DEF RecordDispute
<1>2. ASSUME NEW n \in Negatives, AppendNegative(n)
      PROVE  RowFree /\ reversals \subseteq reversals' /\ UNCHANGED <<dispositions, settlement>>
  BY <1>2 DEF AppendNegative
<1>3. ASSUME NEW r \in Resolver, AppendDisposition(r)
      PROVE  RowFree /\ dispositions \subseteq dispositions' /\ UNCHANGED <<reversals, settlement>>
  BY <1>3 DEF AppendDisposition
<1>4. ASSUME NEW r \in Resolver,
             \/ \E n \in reversals, p \in Proofs : Resolve(r, n, p)
             \/ ListPrior(r) \/ InterruptResolution(r) \/ RevokeCapability(r)
      PROVE  UNCHANGED <<reversals, disputes, dispositions>>
  BY <1>4 DEF Resolve, ListPrior, InterruptResolution, RevokeCapability
<1>5. CASE CheckSettlement \/ EndSettlement \/ UNCHANGED disputeVars
  BY <1>5 DEF CheckSettlement, EndSettlement
<1>. QED
  BY <1>1, <1>2, <1>3, <1>4, <1>5 DEF DisputeNext

(* A request keeps what it rests on while others write.                      *)
LEMMA RequestStable ==
  ASSUME NEW r \in Resolver, RequestOK(r), request'[r] = request[r],
         reversals \subseteq reversals'
  PROVE  RequestOK(r)'
  BY DEF RequestOK, SameNegativeReceipt, ValidProof, Backed, Backs

(* Requests keep their shape, and what they will write its reason.           *)
LEMMA RequestsStep ==
  ASSUME RequestsAssumption, DisputeInv, [DisputeNext]_disputeVars
  PROVE  RequestsInv'
<1>0. /\ RequestsInv /\ SetsInv /\ SeriesInv /\ reversals \subseteq reversals'
      /\ request \in [Resolver -> Calls] /\ started \in [Resolver -> Nat]
      /\ \A r \in Resolver : started[r] <= MaxRequests /\ RequestOK(r)
  BY EvidenceStays DEF DisputeInv, RequestsInv
<1>1. CASE UNCHANGED <<request, started>>
  <2>1. \A r \in Resolver : RequestOK(r)'
    BY <1>0, <1>1, RequestStable
  <2>. QED BY <1>0, <1>1, <2>1 DEF RequestsInv
<1>2. ASSUME NEW r \in Resolver, NEW x \in Calls, request' = [request EXCEPT ![r] = x],
             RequestOK(r)', started' \in [Resolver -> Nat],
             \A s \in Resolver : started'[s] <= MaxRequests
      PROVE  RequestsInv'
  <2>1. request' \in [Resolver -> Calls] /\ \A s \in Resolver : s # r => request'[s] = request[s]
    BY <1>0, <1>2
  <2>2. ASSUME NEW s \in Resolver PROVE RequestOK(s)'
    BY <1>0, <1>2, <2>1, RequestStable
  <2>. QED BY <1>2, <2>1, <2>2 DEF RequestsInv
<1>3. ASSUME NEW r \in Resolver, NEW n \in reversals, NEW p \in Proofs, Resolve(r, n, p)
      PROVE  RequestsInv'
  <2>. DEFINE x == [pc |-> "prior", negative |-> n, proof |-> p]
  <2>1. /\ request' = [request EXCEPT ![r] = x] /\ UNCHANGED reversals
        /\ SameNegativeReceipt(n) /\ ValidProof(p, n)
        /\ started' = [started EXCEPT ![r] = @ + 1] /\ started[r] < MaxRequests
    BY <1>3 DEF Resolve
  <2>2. /\ x \in Calls /\ x.pc = "prior" /\ x.negative = n /\ x.proof = p
    BY <1>0 DEF Calls, Prior, SetsInv
  <2>3. request'[r] = x
    BY <1>0, <2>1
  <2>. HIDE DEF x
  <2>4. RequestOK(r)'
    BY <2>1, <2>2, <2>3 DEF RequestOK
  <2>5. started' \in [Resolver -> Nat] /\ \A s \in Resolver : started'[s] <= MaxRequests
    BY <1>0, <2>1 DEF RequestsAssumption
  <2>. QED BY <1>2, <2>1, <2>2, <2>4, <2>5
<1>4. ASSUME NEW r \in Resolver, ListPrior(r)
      PROVE  RequestsInv'
  <2>. DEFINE n == request[r].negative  p == request[r].proof
  <2>1. /\ n \in reversals /\ SameNegativeReceipt(n) /\ ValidProof(p, n)
        /\ n \in Negatives /\ p \in Proofs
    BY <1>0, <1>4, RequestShape DEF ListPrior, RequestOK, Prior
  <2>2. LatestVersion(n) + 1 \in Nat
    BY <1>0, <2>1, LatestIsLength DEF SeriesInv
  <2>3. PICK now \in Time : request' = [request EXCEPT ![r] =
          [pc |-> "append", disposition |->
            [id |-> p.digest, negative |-> n, version |-> LatestVersion(n) + 1,
             status |-> p.status, outcome |-> p.outcome, digest |-> p.digest,
             recordedAt |-> now, resolver |-> r]]]
    BY <1>4 DEF ListPrior
  <2>. DEFINE d == [id |-> p.digest, negative |-> n, version |-> LatestVersion(n) + 1,
                    status |-> p.status, outcome |-> p.outcome, digest |-> p.digest,
                    recordedAt |-> now, resolver |-> r]
              x == [pc |-> "append", disposition |-> d]
  <2>4. d \in Dispositions
    <3>1. p.digest \in Digests /\ p.status \in Statuses /\ p.outcome \in Outcomes
      BY <2>1 DEF Digests, Statuses, Outcomes
    <3>. HIDE DEF n, p
    <3>. QED BY <2>1, <2>2, <3>1 DEF Dispositions
  <2>5. /\ d.id = p.digest /\ d.negative = n /\ d.resolver = r /\ d.status = p.status
        /\ d.outcome = p.outcome /\ d.digest = p.digest
    OBVIOUS
  <2>6. Backed(d)
    BY <2>1, <2>5 DEF Backed, Backs
  <2>7. UNCHANGED <<started, reversals>> /\ request'[r] = x
    BY <1>0, <1>4, <2>3 DEF ListPrior
  <2>. HIDE DEF d, n, p
  <2>8. x \in Calls /\ x.pc = "append" /\ x.disposition = d
    BY <2>4 DEF Calls, Appending
  <2>9. RequestOK(r)'
    <3>1. request'[r].pc = "append" /\ request'[r].disposition = d
      BY <2>7, <2>8
    <3>. QED BY <2>1, <2>5, <2>6, <2>7, <3>1 DEF RequestOK
  <2>10. request' = [request EXCEPT ![r] = x]
    BY <2>3 DEF d, n, p
  <2>. QED BY <1>0, <1>2, <2>7, <2>8, <2>9, <2>10
<1>5. ASSUME NEW r \in Resolver, AppendDisposition(r) \/ InterruptResolution(r)
      PROVE  RequestsInv'
  <2>1. request' = [request EXCEPT ![r] = NoRequest] /\ UNCHANGED started
    BY <1>5 DEF AppendDisposition, InterruptResolution
  <2>2. RequestOK(r)'
    BY <1>0, <2>1 DEF RequestOK, NoRequest
  <2>3. NoRequest \in Calls
    BY DEF Calls
  <2>. QED BY <1>0, <1>2, <2>1, <2>2, <2>3
<1>6. CASE \/ \E o \in Disputes : RecordDispute(o)
           \/ \E n \in Negatives : AppendNegative(n)
           \/ \E r \in Resolver : RevokeCapability(r)
           \/ CheckSettlement \/ EndSettlement \/ UNCHANGED disputeVars
  BY <1>1, <1>6 DEF RecordDispute, AppendNegative, RevokeCapability, CheckSettlement,
     EndSettlement, disputeVars
<1>. QED
  BY <1>3, <1>4, <1>5, <1>6 DEF DisputeNext

(* Sets keep their members.                                                  *)
LEMMA SetsStep ==
  ASSUME DisputeInv, [DisputeNext]_disputeVars
  PROVE  SetsInv'
<1>0. RequestsInv /\ SetsInv
  BY DEF DisputeInv
<1>1. ASSUME NEW r \in Resolver, AppendDisposition(r)
      PROVE  SetsInv'
  <2>1. request[r].disposition \in Dispositions
    BY <1>0, <1>1, RequestShape DEF AppendDisposition, Appending
  <2>. QED BY <1>0, <1>1, <2>1 DEF AppendDisposition, SetsInv
<1>2. ASSUME NEW r \in Resolver,
             \/ \E n \in reversals, p \in Proofs : Resolve(r, n, p)
             \/ ListPrior(r) \/ InterruptResolution(r) \/ RevokeCapability(r)
      PROVE  SetsInv'
  BY <1>0, <1>2 DEF Resolve, ListPrior, InterruptResolution, RevokeCapability, SetsInv
<1>3. CASE \/ \E o \in Disputes : RecordDispute(o)
           \/ \E n \in Negatives : AppendNegative(n)
           \/ CheckSettlement \/ EndSettlement \/ UNCHANGED disputeVars
  BY <1>0, <1>3 DEF RecordDispute, AppendNegative, CheckSettlement, EndSettlement, disputeVars,
     SetsInv
<1>. QED
  BY <1>1, <1>2, <1>3 DEF DisputeNext

(* Every disposition keeps its negative, its proof, and a resolver that is   *)
(* still capable; proofs stay distinct.                                      *)
LEMMA DispositionsStep ==
  ASSUME DisputeInv, [DisputeNext]_disputeVars
  PROVE  DispositionsInv'
<1>0. RequestsInv /\ SetsInv /\ DispositionsInv /\ reversals \subseteq reversals'
  BY EvidenceStays DEF DisputeInv
<1>. USE DEF RetainsWhole, Backed, Backs, SameNegativeReceipt, ValidProof
<1>1. CASE UNCHANGED <<dispositions, recorded, capable>>
  BY <1>0, <1>1 DEF DispositionsInv, DispositionOK
<1>2. ASSUME NEW r \in Resolver, RevokeCapability(r)
      PROVE  DispositionsInv'
  BY <1>0, <1>2 DEF RevokeCapability, DispositionsInv, DispositionOK
<1>3. ASSUME NEW r \in Resolver, AppendDisposition(r)
      PROVE  DispositionsInv'
  <2>. DEFINE d == request[r].disposition
  <2>0. /\ d.negative \in reversals /\ d.resolver = r /\ Backed(d)
        /\ UNCHANGED <<reversals, capable>>
    BY <1>0, <1>3, RequestShape DEF AppendDisposition, RequestOK
  <2>1. CASE Appendable(d)
    <3>1. dispositions' = dispositions \cup {d} /\ recorded' \in {recorded, recorded \cup {d.digest}}
      BY <1>3, <2>1 DEF AppendDisposition
    <3>2. /\ r \in capable /\ RetainsWhole(d.negative, d.outcome)
          /\ \A e \in dispositions : e.id # d.id
      BY <2>0, <2>1 DEF Appendable
    <3>3. \A e \in dispositions : e.digest # d.digest
      BY <1>0, <2>0, <3>2 DEF DispositionsInv, DispositionOK
    <3>. HIDE DEF d
    <3>4. \A e \in dispositions' : DispositionOK(e)'
      BY <1>0, <2>0, <3>1, <3>2 DEF DispositionsInv, DispositionOK
    <3>. QED BY <1>0, <3>1, <3>3, <3>4 DEF DispositionsInv
  <2>2. CASE ~Appendable(d)
    BY <1>1, <1>3, <2>2 DEF AppendDisposition
  <2>. QED BY <2>1, <2>2
<1>4. CASE \/ \E o \in Disputes : RecordDispute(o)
           \/ \E n \in Negatives : AppendNegative(n)
           \/ \E r \in Resolver : \/ \E n \in reversals, p \in Proofs : Resolve(r, n, p)
                                  \/ ListPrior(r) \/ InterruptResolution(r)
           \/ CheckSettlement \/ EndSettlement \/ UNCHANGED disputeVars
  <2>1. UNCHANGED <<dispositions, recorded, capable>>
    BY <1>4 DEF RecordDispute, AppendNegative, Resolve, ListPrior, InterruptResolution,
       CheckSettlement, EndSettlement, disputeVars
  <2>. QED BY <1>1, <2>1
<1>. QED
  BY <1>2, <1>3, <1>4 DEF DisputeNext

(* A series grows by the version after its last.                             *)
LEMMA SeriesGrows ==
  ASSUME SeriesInv, NEW d, d.negative \in reversals, d \notin dispositions,
         dispositions' = dispositions \cup {d}, reversals' = reversals,
         d.version = LatestVersion(d.negative) + 1
  PROVE  SeriesInv'
<1>. DEFINE m == d.negative  k == Cardinality(Series(m))
<1>1. SeriesOK(m)
  BY DEF SeriesInv
<1>2. k \in Nat /\ d.version = k + 1
  BY <1>1, LatestIsLength
<1>3. Series(m)' = Series(m) \cup {d} /\ d \notin Series(m)
  BY DEF Series
<1>4. /\ IsFiniteSet(Series(m)') /\ Cardinality(Series(m)') = k + 1
  BY <1>1, <1>3, FS_AddElement DEF SeriesOK
<1>5. {e.version : e \in Series(m)'} = 1 .. k + 1
  <2>1. {e.version : e \in Series(m)'} = {e.version : e \in Series(m)} \cup {d.version}
    BY <1>3
  <2>2. {e.version : e \in Series(m)} = 1 .. k
    BY <1>1 DEF SeriesOK
  <2>. HIDE DEF k, m
  <2>3. (1 .. k) \cup {k + 1} = 1 .. k + 1
    BY <1>2
  <2>. QED BY <1>2, <2>1, <2>2, <2>3
<1>6. SeriesOK(m)'
  BY <1>4, <1>5 DEF SeriesOK
<1>7. ASSUME NEW n \in reversals, n # m PROVE SeriesOK(n)'
  <2>1. Series(n)' = Series(n)
    BY <1>7 DEF Series
  <2>. QED BY <2>1 DEF SeriesInv, SeriesOK
<1>. QED
  BY <1>6, <1>7 DEF SeriesInv

(* A version is appended to the end of its series, whoever chose the same.   *)
LEMMA SeriesStep ==
  ASSUME DisputeInv, [DisputeNext]_disputeVars
  PROVE  SeriesInv'
<1>0. RequestsInv /\ DispositionsInv /\ SeriesInv
  BY DEF DisputeInv
<1>1. ASSUME NEW n, n \notin reversals, dispositions' = dispositions
      PROVE  SeriesOK(n)'
  <2>1. Series(n)' = {}
    BY <1>0, <1>1 DEF Series, DispositionsInv, DispositionOK
  <2>2. {d.version : d \in Series(n)'} = {}
    BY <2>1
  <2>3. IsFiniteSet(Series(n)') /\ Cardinality(Series(n)') = 0 /\ 1 .. 0 = {}
    BY <2>1, FS_EmptySet
  <2>. QED BY <2>2, <2>3 DEF SeriesOK
<1>2. CASE dispositions' = dispositions
  <2>1. \A n : Series(n)' = Series(n)
    BY <1>2 DEF Series
  <2>2. ASSUME NEW n \in reversals' PROVE SeriesOK(n)'
    <3>1. CASE n \in reversals
      BY <1>0, <2>1, <3>1 DEF SeriesInv, SeriesOK
    <3>. QED BY <1>1, <1>2, <3>1
  <2>. QED BY <2>2 DEF SeriesInv
<1>3. ASSUME NEW r \in Resolver, AppendDisposition(r), dispositions' # dispositions
      PROVE  SeriesInv'
  <2>1. PICK d : d = request[r].disposition
    OBVIOUS
  <2>2. /\ dispositions' = dispositions \cup {d} /\ Appendable(d) /\ reversals' = reversals
        /\ d.negative \in reversals
    BY <1>0, <1>3, <2>1, RequestShape DEF AppendDisposition, RequestOK
  <2>3. d \notin dispositions /\ d.version = LatestVersion(d.negative) + 1
    BY <2>2 DEF Appendable
  <2>. QED BY <1>0, <2>2, <2>3, SeriesGrows
<1>4. CASE \A r \in Resolver : ~AppendDisposition(r)
  BY <1>2, <1>4 DEF DisputeNext, RecordDispute, AppendNegative, Resolve, ListPrior,
     InterruptResolution, RevokeCapability, CheckSettlement, EndSettlement, disputeVars
<1>. QED
  BY <1>2, <1>3, <1>4

(* The versions of a dispute stay distinct, and one of them the last.        *)
LEMMA VersionsStep ==
  ASSUME EvidenceAssumption, DisputeInv, [DisputeNext]_disputeVars
  PROVE  VersionsInv'
<1>0. SetsInv /\ VersionsInv
  BY DEF DisputeInv
<1>1. CASE disputes' = disputes
  BY <1>0, <1>1 DEF VersionsInv, LastOf
<1>2. ASSUME NEW o \in Disputes, RecordDispute(o)
      PROVE  VersionsInv'
  <2>1. /\ disputes' = disputes \cup {o}
        /\ \A p \in disputes : ~(p.dispute = o.dispute /\ p.version = o.version)
    BY <1>2 DEF RecordDispute, Collides
  <2>2. \A p \in disputes' : p.version \in Nat
    BY <1>0, <2>1 DEF SetsInv, EvidenceAssumption
  <2>3. ASSUME NEW p \in disputes'
        PROVE  \E m \in disputes' : LastOf(m, p)'
    <3>1. CASE p.dispute # o.dispute
      <4>1. PICK m \in disputes : LastOf(m, p)
        BY <1>0, <2>1, <2>3, <3>1 DEF VersionsInv
      <4>. QED BY <2>1, <3>1, <4>1 DEF LastOf
    <3>2. CASE p.dispute = o.dispute
      <4>1. CASE \E q \in disputes : q.dispute = o.dispute
        <5>1. PICK q \in disputes : q.dispute = o.dispute
          BY <4>1
        <5>2. PICK m \in disputes : LastOf(m, q)
          BY <1>0 DEF VersionsInv
        <5>3. CASE o.version <= m.version
          BY <2>1, <3>2, <5>1, <5>2, <5>3 DEF LastOf
        <5>4. CASE ~(o.version <= m.version)
          <6>1. \A x \in disputes' : x.dispute = o.dispute => x.version <= o.version
            BY <2>1, <2>2, <5>1, <5>2, <5>4 DEF LastOf
          <6>. QED BY <2>1, <3>2, <6>1 DEF LastOf
        <5>. QED BY <5>3, <5>4
      <4>2. CASE ~\E q \in disputes : q.dispute = o.dispute
        <5>1. \A x \in disputes' : x.dispute = o.dispute => x.version <= o.version
          BY <2>1, <2>2, <4>2
        <5>. QED BY <2>1, <3>2, <5>1 DEF LastOf
      <4>. QED BY <4>1, <4>2
    <3>. QED BY <3>1, <3>2
  <2>4. \A p, q \in disputes' : (p.dispute = q.dispute /\ p.version = q.version) => p = q
    BY <1>0, <2>1 DEF VersionsInv
  <2>. QED BY <2>3, <2>4 DEF VersionsInv
<1>3. CASE \A o \in Disputes : ~RecordDispute(o)
  BY <1>1, <1>3 DEF DisputeNext, AppendNegative, Resolve, ListPrior, AppendDisposition,
     InterruptResolution, RevokeCapability, CheckSettlement, EndSettlement, disputeVars
<1>. QED
  BY <1>2, <1>3

(* Nothing of what the check read changes while the row is locked.           *)
LEMMA CheckedStep ==
  ASSUME DisputeInv, [DisputeNext]_disputeVars
  PROVE  CheckedInv'
<1>. SUFFICES ASSUME settlement' = "checked" PROVE ~HasBlockingDispute'
  BY DEF CheckedInv
<1>1. UNCHANGED <<reversals, disputes, dispositions>>
  BY EvidenceStays DEF RowFree
<1>2. HasBlockingDispute' <=> HasBlockingDispute
  BY <1>1 DEF HasBlockingDispute, Cleared, LatestVersion, Series, LatestObservation
<1>3. CASE settlement = "checked"
  BY <1>2, <1>3 DEF DisputeInv, CheckedInv
<1>4. CASE settlement # "checked"
  <2>1. CheckSettlement
    BY <1>4 DEF DisputeNext, RecordDispute, AppendNegative, Resolve, ListPrior, AppendDisposition,
       InterruptResolution, RevokeCapability, EndSettlement, disputeVars
  <2>. QED BY <1>2, <2>1 DEF CheckSettlement
<1>. QED
  BY <1>3, <1>4

-----------------------------------------------------------------------------
(* The inductive invariant of disputes and resolutions.                      *)
THEOREM DisputeInvariant ==
  ASSUME RequestsAssumption, EvidenceAssumption
  PROVE  DisputeSpec => []DisputeInv
<1>1. DisputeInit => DisputeInv
  <2>. SUFFICES ASSUME DisputeInit PROVE DisputeInv
    OBVIOUS
  <2>1. RequestsInv
    BY DEF DisputeInit, RequestsInv, RequestsAssumption, RequestOK, Calls, NoRequest
  <2>2. SetsInv /\ DispositionsInv /\ SeriesInv /\ VersionsInv /\ CheckedInv
    BY DEF DisputeInit, SetsInv, DispositionsInv, SeriesInv, VersionsInv, CheckedInv
  <2>. QED BY <2>1, <2>2 DEF DisputeInv
<1>2. DisputeInv /\ [DisputeNext]_disputeVars => DisputeInv'
  BY RequestsStep, SetsStep, DispositionsStep, SeriesStep, VersionsStep, CheckedStep
     DEF DisputeInv
<1>. QED
  BY <1>1, <1>2, PTL DEF DisputeSpec

(* Series without gap or fork, blocks lifted by proofs only, and resolvers   *)
(* that still hold their capability.                                         *)
THEOREM ResolutionsAreSound ==
  ASSUME RequestsAssumption, EvidenceAssumption
  PROVE  DisputeSpec => []ResolutionsSound
<1>1. ASSUME DisputeInv, NEW d \in dispositions
      PROVE  /\ d.negative \in reversals /\ d.resolver \in capable /\ d.resolver \in Resolver
             /\ SameNegativeReceipt(d.negative) /\ RetainsWhole(d.negative, d.outcome)
             /\ \E p \in Proofs : Backs(p, d)
  BY <1>1 DEF DisputeInv, DispositionsInv, SetsInv, DispositionOK, Backed
<1>2. DisputeInv /\ EvidenceAssumption => DisputeTypeOK
  <2>. SUFFICES ASSUME DisputeInv PROVE DisputeTypeOK
    OBVIOUS
  <2>1. \A r \in Resolver : request[r].pc \in {"idle", "prior", "append"} /\ started[r] <= MaxRequests
    BY RequestShape DEF DisputeInv, RequestsInv
  <2>2. ASSUME NEW d \in dispositions
        PROVE  /\ d.status \in {"RESOLVED", "CLOSED"}
               /\ d.outcome \in {"FUNDS_RETAINED", "FUNDS_LOST"}
    <3>1. PICK p \in Proofs : Backs(p, d)
      BY <1>1
    <3>2. p.status \in {"PENDING", "RESOLVED", "CLOSED"} /\ p.status # "PENDING"
      BY <3>1 DEF Backs, ValidProof, EvidenceAssumption
    <3>3. p.outcome \in {"FUNDS_RETAINED", "FUNDS_LOST"}
      BY <3>1 DEF Backs, ValidProof
    <3>. QED BY <3>1, <3>2, <3>3 DEF Backs
  <2>. QED BY <1>1, <2>1, <2>2 DEF DisputeInv, SetsInv, DisputeTypeOK
<1>3. DisputeInv => SeriesIntact /\ ResolversAccountable
  BY <1>1 DEF DisputeInv, SeriesInv, SeriesOK, DispositionsInv, SeriesIntact, ResolversAccountable
<1>4. DisputeInv => BlockLiftedByProof
  <2>. SUFFICES ASSUME DisputeInv, NEW n \in reversals, Cleared(n)
                PROVE  /\ n.receipt = Funded /\ n.amount = ReceiptAmount
                       /\ \E p \in Proofs, d \in Series(n) :
                            p.negative = n /\ p.digest = d.digest /\ p.finalState = "FUNDS_HELD"
    BY DEF BlockLiftedByProof
  <2>1. PICK d \in Series(n) : d.outcome = "FUNDS_RETAINED"
    BY DEF Cleared
  <2>2. d \in dispositions /\ d.negative = n
    BY DEF Series
  <2>3. PICK p \in Proofs : Backs(p, d)
    BY <1>1, <2>2
  <2>4. p.negative = n /\ p.digest = d.digest /\ p.finalState = "FUNDS_HELD"
    BY <2>1, <2>2, <2>3 DEF Backs, ValidProof
  <2>5. n.receipt = Funded /\ n.amount = ReceiptAmount
    BY <1>1, <2>1, <2>2 DEF SameNegativeReceipt, RetainsWhole
  <2>. QED BY <2>1, <2>4, <2>5
<1>5. DisputeInv => ResolutionsSound
  BY <1>2, <1>3, <1>4 DEF ResolutionsSound
<1>. QED
  BY <1>5, DisputeInvariant, PTL

(* The money is settled only when the last word on every dispute, and on     *)
(* every negative, is that it was retained.                                  *)
THEOREM SettlesOnlyUnblocked ==
  ASSUME RequestsAssumption, EvidenceAssumption
  PROVE  DisputeSpec => SettledUnblocked
<1>1. ASSUME DisputeInv, [DisputeNext]_disputeVars
      PROVE  SettlesUnblocked
  <2>. SUFFICES ASSUME settlement' = "settled", settlement # "settled"
                PROVE  /\ \A o \in disputes' : o.outcome # "FUNDS_RETAINED" =>
                            \E p \in disputes' : p.dispute = o.dispute /\ p.version > o.version
                       /\ \A n \in reversals' : Cleared(n)
    BY DEF SettlesUnblocked
  <2>1. EndSettlement
    BY <1>1 DEF DisputeNext, RecordDispute, AppendNegative, Resolve, ListPrior, AppendDisposition,
       InterruptResolution, RevokeCapability, CheckSettlement, disputeVars
  <2>2. UNCHANGED <<reversals, disputes>> /\ ~HasBlockingDispute
    BY <1>1, <2>1 DEF EndSettlement, DisputeInv, CheckedInv
  <2>3. ASSUME NEW o \in disputes, o.outcome # "FUNDS_RETAINED"
        PROVE  \E p \in disputes : p.dispute = o.dispute /\ p.version > o.version
    <3>. DEFINE last == LatestObservation(o.dispute)
    <3>1. \E m \in disputes : LastOf(m, o)
      BY <1>1 DEF DisputeInv, VersionsInv
    <3>2. last \in disputes /\ LastOf(last, o)
      BY <3>1 DEF LatestObservation, LastOf
    <3>3. last.outcome = "FUNDS_RETAINED"
      BY <2>2 DEF HasBlockingDispute, IsBlocking
    <3>4. last.version # o.version
      BY <1>1, <2>3, <3>2, <3>3 DEF DisputeInv, VersionsInv, LastOf
    <3>5. o.version <= last.version
      BY <3>2 DEF LastOf
    <3>6. o.version \in Nat /\ last.version \in Nat
      BY <1>1, <3>2 DEF DisputeInv, SetsInv, EvidenceAssumption
    <3>. HIDE DEF last
    <3>7. last.version > o.version
      BY <3>4, <3>5, <3>6
    <3>. QED BY <3>2, <3>7 DEF LastOf
  <2>4. \A n \in reversals : Cleared(n)
    BY <2>2 DEF HasBlockingDispute
  <2>. QED BY <2>2, <2>3, <2>4
<1>. QED
  BY <1>1, DisputeInvariant, PTL DEF DisputeSpec, SettledUnblocked

-----------------------------------------------------------------------------
(***************************************************************************)
(* InboxSound of ProviderInbox, for any number of callers, events and       *)
(* troubles and any lease.  Its leases need worker ids of their own;        *)
(* ProcessedAfterWork does not.                                             *)
(***************************************************************************)
(* No two callers share a worker id, and none has the id of an empty row.    *)
WorkersDistinct ==
  /\ \A c, d \in Caller : WorkerOf[c] = WorkerOf[d] => c = d
  /\ \A c \in Caller : WorkerOf[c] # NoWorker

RowStates == {"ABSENT", "RECEIVED", "CLAIMED", "PROCESSED", "FAILED"}
WorkerIds == {WorkerOf[c] : c \in Caller} \cup {NoWorker}
Rows == [state : RowStates, worker : WorkerIds, left : Int]
Claiming == [pc : {"claim"}, event : Event, age : Nat]
Holdings == [pc : {"work", "complete", "fail"}, event : Event, left : Int]
WorkerCalls == {NoCall} \cup Claiming \cup Holdings

(* Rows and calls have their shape, and are about recorded events.           *)
Typed ==
  /\ processing \in [Event -> Rows]
  /\ call \in [Caller -> WorkerCalls]
  /\ \A e \in Event : processing[e].state # "ABSENT" => e \in Recorded
  /\ \A c \in Caller : call[c].pc # "idle" => call[c].event \in Recorded

(* A worker within its lease holds the row, with the same time left.         *)
Working(c) == call[c].pc \in {"work", "complete"} /\ call[c].left > 0
RowHeldBy(c, e) ==
  /\ processing[e].state = "CLAIMED"
  /\ processing[e].worker = WorkerOf[c]
  /\ processing[e].left = call[c].left
LeaseInv == \A c \in Caller : Working(c) => RowHeldBy(c, call[c].event)

(* Whoever is about to complete has returned from the callback.              *)
WorkInv ==
  /\ answered \subseteq Event
  /\ \A c \in Caller : call[c].pc = "complete" => call[c].event \in performed
  /\ ProcessedAfterWork

-----------------------------------------------------------------------------
(* What the state of a call says of its shape.                               *)
LEMMA CallShape ==
  ASSUME Typed, NEW c \in Caller
  PROVE  /\ call[c].pc = "claim" => call[c] \in Claiming
         /\ call[c].pc \in {"work", "complete", "fail"} => call[c] \in Holdings
         /\ call[c].pc \in {"idle", "claim", "work", "complete", "fail"}
         /\ call[c].pc = "idle" <=> call[c] = NoCall
<1>1. call[c] \in WorkerCalls
  BY DEF Typed
<1> QED
  BY <1>1 DEF WorkerCalls, Claiming, Holdings, NoCall

(* A finish leaves every row but that of its event alone, and that one too   *)
(* unless the worker holds it.                                               *)
LEMMA FinishShape ==
  ASSUME Typed, NEW c \in Caller, NEW e \in Event,
         NEW state \in {"PROCESSED", "FAILED"}, FinishEvent(c, e, state)
  PROVE  /\ processing' \in [Event -> Rows]
         /\ \A f \in Event : f # e => processing'[f] = processing[f]
         /\ Holds(c, e) => processing'[e] = Row(state, NoWorker, 0)
         /\ ~Holds(c, e) => processing' = processing
<1>1. Row(state, NoWorker, 0) \in Rows
  BY DEF Row, Rows, RowStates, WorkerIds
<1> QED
  BY <1>1 DEF FinishEvent, Typed

(* Every step keeps the types.                                               *)
LEMMA TypedStep ==
  ASSUME LeaseAssumption, Typed, [InboxNext]_inboxVars
  PROVE  Typed'
<1> USE DEF Typed
<1>1. ASSUME NEW d \in Deliveries, RecordEvent(d)
      PROVE  Typed'
  <2>1. Received \in Rows /\ d.identity \in Event
    BY DEF Received, Row, Rows, RowStates, WorkerIds, Event
  <2>2. Recorded' = Recorded \cup {d.identity}
    BY <1>1 DEF RecordEvent, Recorded
  <2>3. \A e \in Event : e # d.identity => processing'[e] = processing[e]
    BY <1>1, <2>1 DEF RecordEvent
  <2>4. processing' \in [Event -> Rows] /\ call' = call
    BY <1>1, <2>1 DEF RecordEvent
  <2> QED
    BY <2>2, <2>3, <2>4
<1>2. ASSUME NEW c \in Caller, NEW e \in Event, Start(c, e)
      PROVE  Typed'
  <2>1. [pc |-> "claim", event |-> e, age |-> 0] \in WorkerCalls
    BY DEF WorkerCalls, Claiming
  <2>2. e \in Recorded
    BY <1>2 DEF Start, Claimable
  <2>3. Recorded' = Recorded
    BY <1>2 DEF Start, Recorded
  <2> QED
    BY <1>2, <2>1, <2>2, <2>3 DEF Start
<1>3. ASSUME NEW c \in Caller, ClaimEvent(c)
      PROVE  Typed'
  <2> DEFINE e == call[c].event
             left == LeaseMs - call[c].age
  <2>1. call[c] \in Claiming /\ e \in Recorded
    BY <1>3, CallShape DEF ClaimEvent
  <2>2. NoCall \in WorkerCalls /\ NoCall.pc = "idle"
    BY DEF WorkerCalls, NoCall
  <2>3. e \in Event /\ left \in Int
    BY <2>1 DEF Claiming, LeaseAssumption
  <2>4. Row("CLAIMED", WorkerOf[c], left) \in Rows
    BY <2>3 DEF Row, Rows, RowStates, WorkerIds
  <2>5. [pc |-> "work", event |-> e, left |-> left] \in WorkerCalls
    BY <2>3 DEF WorkerCalls, Holdings
  <2>6. Recorded' = Recorded
    BY <1>3 DEF ClaimEvent, Recorded
  <2>7. CASE MayClaim(e, call[c].age)
    <3>1. /\ processing' = [processing EXCEPT ![e] = Row("CLAIMED", WorkerOf[c], left)]
          /\ call' = [call EXCEPT ![c] = [pc |-> "work", event |-> e, left |-> left]]
      BY <1>3, <2>7 DEF ClaimEvent
    <3> QED
      BY <2>1, <2>3, <2>4, <2>5, <2>6, <3>1
  <2>8. CASE ~MayClaim(e, call[c].age)
    <3>1. processing' = processing /\ call' = [call EXCEPT ![c] = NoCall]
      BY <1>3, <2>8 DEF ClaimEvent
    <3> QED
      BY <2>2, <2>6, <3>1
  <2> QED
    BY <2>7, <2>8
<1>4. ASSUME NEW c \in Caller, Process(c) \/ ProcessFails(c)
      PROVE  Typed'
  <2>1. PICK pc \in {"complete", "fail"} : call' = [call EXCEPT ![c].pc = pc]
    BY <1>4 DEF Process, ProcessFails
  <2>2. call[c] \in Holdings /\ call[c].pc = "work"
    BY <1>4, CallShape DEF Process, ProcessFails
  <2>3. [call[c] EXCEPT !.pc = pc] \in Holdings
    BY <2>2 DEF Holdings
  <2>4. Recorded' = Recorded /\ processing' = processing
    BY <1>4 DEF Process, ProcessFails, Recorded
  <2>5. [call[c] EXCEPT !.pc = pc].event = call[c].event
    BY <2>2 DEF Holdings
  <2> QED
    BY <2>1, <2>2, <2>3, <2>4, <2>5 DEF WorkerCalls
<1>5. ASSUME NEW c \in Caller, CompleteEvent(c) \/ FailEvent(c) \/ CompleteThrows(c) \/ Crash(c)
      PROVE  Typed'
  <2>1. Recorded' = Recorded
    BY <1>5 DEF CompleteEvent, FailEvent, CompleteThrows, Crash, Recorded
  <2>2. \/ processing' = processing
        \/ call[c].event \in Recorded /\ call[c].event \in Event
           /\ \E state \in {"PROCESSED", "FAILED"} : FinishEvent(c, call[c].event, state)
    <3>1. CASE Crash(c)
      BY <3>1 DEF Crash
    <3>2. CASE CompleteEvent(c) \/ FailEvent(c) \/ CompleteThrows(c)
      <4>1. call[c] \in Holdings /\ call[c].event \in Recorded
        BY <3>2, CallShape DEF CompleteEvent, FailEvent, CompleteThrows
      <4> QED
        BY <3>2, <4>1 DEF CompleteEvent, FailEvent, CompleteThrows, Holdings
    <3> QED
      BY <1>5, <3>1, <3>2
  <2>3. /\ processing' \in [Event -> Rows]
        /\ \A e \in Event : processing'[e].state # "ABSENT" => e \in Recorded
    <3>1. CASE processing' = processing
      BY <3>1
    <3>2. CASE call[c].event \in Recorded /\ call[c].event \in Event
               /\ \E state \in {"PROCESSED", "FAILED"} : FinishEvent(c, call[c].event, state)
      BY <3>2, FinishShape
    <3> QED
      BY <2>2, <3>1, <3>2
  <2>4. call' \in [Caller -> WorkerCalls] /\ \A d \in Caller : call'[d].pc # "idle" => call'[d].event \in Recorded
    <3>1. CASE CompleteEvent(c) \/ FailEvent(c) \/ Crash(c)
      <4>1. call' = [call EXCEPT ![c] = NoCall]
        BY <3>1 DEF CompleteEvent, FailEvent, Crash
      <4>2. NoCall \in WorkerCalls /\ NoCall.pc = "idle"
        BY DEF WorkerCalls, NoCall
      <4> QED
        BY <4>1, <4>2
    <3>2. CASE CompleteThrows(c)
      <4>1. call' = [call EXCEPT ![c].pc = "fail"]
        BY <3>2 DEF CompleteThrows
      <4>2. call[c] \in Holdings /\ call[c].pc = "complete"
        BY <3>2, CallShape DEF CompleteThrows
      <4>3. /\ [call[c] EXCEPT !.pc = "fail"] \in Holdings
            /\ [call[c] EXCEPT !.pc = "fail"].event = call[c].event
        BY <4>2 DEF Holdings
      <4> QED
        BY <4>1, <4>2, <4>3 DEF WorkerCalls
    <3> QED
      BY <1>5, <3>1, <3>2
  <2> QED
    BY <2>1, <2>3, <2>4
<1>6. ASSUME Tick
      PROVE  Typed'
  <2>1. Recorded' = Recorded
    BY <1>6 DEF Tick, Recorded
  <2>2. \A e \in Event : processing'[e] \in Rows /\ processing'[e].state = processing[e].state
    BY <1>6 DEF Tick, Rows
  <2>3. processing' \in [Event -> Rows]
    BY <1>6, <2>2 DEF Tick
  <2>4. ASSUME NEW c \in Caller
        PROVE  /\ call'[c] \in WorkerCalls
               /\ call'[c].pc = call[c].pc
               /\ call[c].pc # "idle" => call'[c].event = call[c].event
    <3>1. CASE call[c].pc = "claim"
      <4>1. call'[c] = [call[c] EXCEPT !.age = @ + 1] /\ call[c] \in Claiming
        BY <1>6, <3>1, CallShape DEF Tick
      <4> QED
        BY <4>1 DEF Claiming, WorkerCalls
    <3>2. CASE call[c].pc \in {"work", "complete", "fail"}
      <4>1. call[c] \in Holdings
        BY <3>2, CallShape
      <4>2. call'[c] = [call[c] EXCEPT !.left = @ - 1] \/ call'[c] = call[c]
        BY <1>6, <3>2 DEF Tick
      <4> QED
        BY <4>1, <4>2 DEF Holdings, WorkerCalls
    <3>3. CASE call[c].pc = "idle"
      BY <1>6, <3>3 DEF Tick
    <3> QED
      BY <3>1, <3>2, <3>3, CallShape
  <2>5. call' \in [Caller -> WorkerCalls]
    BY <1>6, <2>4 DEF Tick
  <2> QED
    BY <2>1, <2>2, <2>3, <2>4, <2>5
<1>7. CASE UNCHANGED inboxVars
  BY <1>7 DEF inboxVars, Recorded
<1> QED
  BY <1>1, <1>2, <1>3, <1>4, <1>5, <1>6, <1>7 DEF InboxNext, CallerStep

-----------------------------------------------------------------------------
(* A step of one caller leaves the lease of another one alone: it changes    *)
(* neither the other call nor a row that call holds.                         *)
LEMMA OthersKeepLease ==
  ASSUME Typed, LeaseInv, NEW c \in Caller,
         call' \in [Caller -> WorkerCalls],
         \A d \in Caller : d # c => call'[d] = call[d],
         \A d \in Caller : d # c /\ Working(d) => processing'[call[d].event] = processing[call[d].event],
         Working(c)' => RowHeldBy(c, call[c].event)' /\ call'[c].event = call[c].event
  PROVE  LeaseInv'
<1> SUFFICES ASSUME NEW d \in Caller, Working(d)'
             PROVE  RowHeldBy(d, call[d].event)'
  BY DEF LeaseInv
<1>1. CASE d = c
  BY <1>1
<1>2. CASE d # c
  BY <1>2 DEF LeaseInv, Working, RowHeldBy
<1> QED
  BY <1>1, <1>2

(* A finish takes no row from another worker within its lease.               *)
LEMMA FinishKeepsOthers ==
  ASSUME WorkersDistinct, Typed, LeaseInv, NEW c \in Caller, call[c] \in Holdings,
         NEW state \in {"PROCESSED", "FAILED"}, FinishEvent(c, call[c].event, state)
  PROVE  \A d \in Caller : d # c /\ Working(d) => processing'[call[d].event] = processing[call[d].event]
<1> SUFFICES ASSUME NEW d \in Caller, d # c, Working(d)
             PROVE  processing'[call[d].event] = processing[call[d].event]
  OBVIOUS
<1>1. call[c].event \in Event /\ call[d].event \in Event
  <2>1. call[d] \in Holdings
    BY CallShape DEF Working
  <2> QED
    BY <2>1 DEF Holdings
<1>2. CASE call[d].event = call[c].event
  <2>1. processing[call[c].event].worker = WorkerOf[d]
    BY <1>2 DEF LeaseInv, RowHeldBy
  <2>2. ~Holds(c, call[c].event)
    BY <2>1 DEF Holds, WorkersDistinct
  <2> QED
    BY <1>1, <2>2, FinishShape
<1>3. CASE call[d].event # call[c].event
  BY <1>1, <1>3, FinishShape
<1> QED
  BY <1>2, <1>3

(* Every step keeps the leases.                                              *)
LEMMA LeaseStep ==
  ASSUME LeaseAssumption, WorkersDistinct, Typed, Typed', LeaseInv, [InboxNext]_inboxVars
  PROVE  LeaseInv'
<1>0. call \in [Caller -> WorkerCalls] /\ call' \in [Caller -> WorkerCalls]
      /\ processing \in [Event -> Rows] /\ processing' \in [Event -> Rows]
  BY DEF Typed
<1>1. ASSUME NEW d \in Deliveries, RecordEvent(d)
      PROVE  LeaseInv'
  <2>1. d.identity \notin Recorded
    BY <1>1 DEF RecordEvent, Known, Recorded
  <2>2. ASSUME NEW c \in Caller, Working(c)
        PROVE  call[c].event # d.identity
    BY <2>1, <2>2 DEF Working, Typed
  <2>3. call' = call /\ \A e \in Event : e # d.identity => processing'[e] = processing[e]
    BY <1>0, <1>1 DEF RecordEvent
  <2>4. \A c \in Caller : Working(c) => call[c].event \in Event
    BY CallShape DEF Working, Holdings
  <2> QED
    BY <2>2, <2>3, <2>4 DEF LeaseInv, Working, RowHeldBy
<1>2. ASSUME NEW c \in Caller, NEW e \in Event, Start(c, e)
      PROVE  LeaseInv'
  <2>1. /\ call'[c].pc = "claim" /\ processing' = processing
        /\ \A d \in Caller : d # c => call'[d] = call[d]
    BY <1>0, <1>2 DEF Start
  <2> QED
    BY <1>0, <2>1, OthersKeepLease DEF Working
<1>3. ASSUME NEW c \in Caller, ClaimEvent(c)
      PROVE  LeaseInv'
  <2> DEFINE e == call[c].event
             left == LeaseMs - call[c].age
  <2>1. call[c] \in Claiming /\ e \in Event
    BY <1>3, CallShape DEF ClaimEvent, Claiming
  <2>2. CASE MayClaim(e, call[c].age)
    <3>1. /\ processing' = [processing EXCEPT ![e] = Row("CLAIMED", WorkerOf[c], left)]
          /\ call' = [call EXCEPT ![c] = [pc |-> "work", event |-> e, left |-> left]]
      BY <1>3, <2>2 DEF ClaimEvent
    <3>2. RowHeldBy(c, e)' /\ call'[c].event = e
      BY <1>0, <2>1, <3>1 DEF RowHeldBy, Row
    <3>3. ASSUME NEW d \in Caller, d # c, Working(d)
          PROVE  processing'[call[d].event] = processing[call[d].event]
      <4>1. call[d] \in Holdings
        BY <3>3, CallShape DEF Working
      <4>2. call[d].event # e
        <5>1. ASSUME call[d].event = e  PROVE FALSE
          <6>1. processing[e].state = "CLAIMED" /\ processing[e].left > 0
            BY <3>3, <5>1 DEF LeaseInv, RowHeldBy, Working
          <6>2. processing[e].left \in Int /\ call[c].age \in Nat
            BY <1>0, <2>1 DEF Rows, Claiming
          <6> QED
            BY <2>2, <6>1, <6>2 DEF MayClaim
        <5> QED
          BY <5>1
      <4> QED
        BY <1>0, <3>1, <4>1, <4>2 DEF Holdings
    <3>4. \A d \in Caller : d # c => call'[d] = call[d]
      BY <1>0, <3>1
    <3> QED
      BY <1>0, <3>2, <3>3, <3>4, OthersKeepLease DEF RowHeldBy
  <2>3. CASE ~MayClaim(e, call[c].age)
    <3>1. processing' = processing /\ call' = [call EXCEPT ![c] = NoCall]
      BY <1>3, <2>3 DEF ClaimEvent
    <3>2. ~Working(c)' /\ \A d \in Caller : d # c => call'[d] = call[d]
      BY <1>0, <3>1 DEF Working, NoCall
    <3> QED
      BY <1>0, <3>1, <3>2, OthersKeepLease
  <2> QED
    BY <2>2, <2>3
<1>4. ASSUME NEW c \in Caller, Process(c)
      PROVE  LeaseInv'
  <2>1. call[c] \in Holdings /\ call[c].pc = "work"
    BY <1>4, CallShape DEF Process
  <2>2. call'[c] = [call[c] EXCEPT !.pc = "complete"] /\ processing' = processing
    BY <1>0, <1>4 DEF Process
  <2>3. call'[c].event = call[c].event /\ call'[c].left = call[c].left
    BY <2>1, <2>2 DEF Holdings
  <2>4. \A d \in Caller : d # c => call'[d] = call[d]
    BY <1>0, <1>4 DEF Process
  <2>5. Working(c)' => Working(c)
    BY <2>1, <2>3 DEF Working
  <2>6. Working(c)' => RowHeldBy(c, call[c].event)'
    BY <2>2, <2>3, <2>5 DEF LeaseInv, RowHeldBy
  <2> QED
    BY <1>0, <2>2, <2>3, <2>4, <2>6, OthersKeepLease
<1>5. ASSUME NEW c \in Caller, ProcessFails(c) \/ CompleteEvent(c) \/ FailEvent(c) \/ CompleteThrows(c) \/ Crash(c)
      PROVE  LeaseInv'
  <2>1. ~Working(c)' /\ \A d \in Caller : d # c => call'[d] = call[d]
    <3>1. CASE CompleteEvent(c) \/ FailEvent(c) \/ Crash(c)
      BY <1>0, <3>1 DEF CompleteEvent, FailEvent, Crash, Working, NoCall
    <3>2. CASE ProcessFails(c) \/ CompleteThrows(c)
      <4>1. call[c] \in Holdings
        BY <3>2, CallShape DEF ProcessFails, CompleteThrows
      <4>2. call' = [call EXCEPT ![c].pc = "fail"]
        BY <3>2 DEF ProcessFails, CompleteThrows
      <4>3. call'[c] = [call[c] EXCEPT !.pc = "fail"]
        BY <1>0, <4>2
      <4>4. call'[c].pc = "fail"
        BY <4>1, <4>3 DEF Holdings
      <4> QED
        BY <1>0, <4>2, <4>4 DEF Working
    <3> QED
      BY <1>5, <3>1, <3>2
  <2>2. \A d \in Caller : d # c /\ Working(d) => processing'[call[d].event] = processing[call[d].event]
    <3>1. CASE processing' = processing
      BY <3>1
    <3>2. CASE processing' # processing
      <4>1. \/ CompleteEvent(c) \/ FailEvent(c)
            \/ CompleteThrows(c) /\ FinishEvent(c, call[c].event, "PROCESSED")
        BY <1>5, <3>2 DEF ProcessFails, CompleteThrows, Crash
      <4>2. call[c] \in Holdings
        BY <4>1, CallShape DEF CompleteEvent, FailEvent, CompleteThrows
      <4>3. \E state \in {"PROCESSED", "FAILED"} : FinishEvent(c, call[c].event, state)
        BY <4>1 DEF CompleteEvent, FailEvent
      <4> QED
        BY <4>2, <4>3, FinishKeepsOthers
    <3> QED
      BY <3>1, <3>2
  <2> QED
    BY <1>0, <2>1, <2>2, OthersKeepLease
<1>6. ASSUME Tick
      PROVE  LeaseInv'
  <2> SUFFICES ASSUME NEW c \in Caller, Working(c)'
               PROVE  RowHeldBy(c, call[c].event)'
    BY DEF LeaseInv
  <2> DEFINE e == call[c].event
  <2>1. call[c].pc \in {"work", "complete"} /\ call[c] \in Holdings
    <3>1. CASE call[c].pc = "claim"
      <4>1. call'[c] = [call[c] EXCEPT !.age = @ + 1] /\ call[c] \in Claiming
        BY <1>0, <1>6, <3>1, CallShape DEF Tick
      <4> QED
        BY <3>1, <4>1 DEF Claiming, Working
    <3>2. CASE call[c].pc = "idle"
      BY <1>0, <1>6, <3>2 DEF Tick, Working
    <3>3. CASE call[c].pc = "fail"
      <4>1. call[c] \in Holdings
        BY <3>3, CallShape
      <4>2. call'[c] = [call[c] EXCEPT !.left = @ - 1] \/ call'[c] = call[c]
        BY <1>0, <1>6, <3>3 DEF Tick
      <4> QED
        BY <3>3, <4>1, <4>2 DEF Holdings, Working
    <3> QED
      BY <3>1, <3>2, <3>3, CallShape
  <2>2. call'[c] = IF call[c].left > 0 THEN [call[c] EXCEPT !.left = @ - 1] ELSE call[c]
    BY <1>0, <1>6, <2>1 DEF Tick
  <2>3. call[c].left > 0 /\ call[c].left \in Int /\ e \in Event
    BY <2>1, <2>2 DEF Working, Holdings
  <2>4. call'[c].left = call[c].left - 1 /\ call'[c].event = e
    BY <2>1, <2>2, <2>3 DEF Holdings
  <2>5. RowHeldBy(c, e)
    BY <2>1, <2>3 DEF LeaseInv, Working
  <2>6. processing'[e] = [processing[e] EXCEPT !.left = @ - 1]
    BY <1>6, <2>3, <2>5 DEF Tick, RowHeldBy, LeaseAssumption
  <2>7. processing[e] \in Rows
    BY <1>0, <2>3
  <2> QED
    BY <2>4, <2>5, <2>6, <2>7 DEF RowHeldBy, Rows
<1>7. CASE UNCHANGED inboxVars
  BY <1>7 DEF inboxVars, LeaseInv, Working, RowHeldBy
<1> QED
  BY <1>1, <1>2, <1>3, <1>4, <1>5, <1>6, <1>7 DEF InboxNext, CallerStep

-----------------------------------------------------------------------------
(* Every step keeps what is said of work done.                               *)
LEMMA WorkStep ==
  ASSUME LeaseAssumption, Typed, Typed', WorkInv, [InboxNext]_inboxVars
  PROVE  WorkInv'
<1>0. call \in [Caller -> WorkerCalls] /\ call' \in [Caller -> WorkerCalls]
      /\ processing \in [Event -> Rows] /\ processing' \in [Event -> Rows]
  BY DEF Typed
<1> USE DEF WorkInv, ProcessedAfterWork
<1>1. ASSUME NEW d \in Deliveries, RecordEvent(d)
      PROVE  WorkInv'
  <2>1. d.identity \notin Recorded /\ d.identity \in Event
    BY <1>1 DEF RecordEvent, Known, Recorded, Event
  <2>2. processing[d.identity].state = "ABSENT"
    BY <2>1 DEF Typed
  <2>3. /\ call' = call /\ performed' = performed /\ answered' = answered
        /\ processing' = [processing EXCEPT ![d.identity] = Received]
    BY <1>1 DEF RecordEvent
  <2>4. \A e \in Event : processing'[e].state = "PROCESSED" => processing[e].state = "PROCESSED"
    BY <1>0, <2>1, <2>3 DEF Received, Row
  <2>5. \A e \in answered : e \in Event /\ e # d.identity
    BY <2>2
  <2>6. \A e \in answered : processing'[e] = processing[e]
    BY <1>0, <2>3, <2>5
  <2> QED
    BY <2>3, <2>4, <2>6
<1>2. ASSUME NEW c \in Caller, NEW e \in Event, Start(c, e)
      PROVE  WorkInv'
  <2>1. /\ processing' = processing /\ performed' = performed /\ answered' = answered
        /\ call' = [call EXCEPT ![c] = [pc |-> "claim", event |-> e, age |-> 0]]
    BY <1>2 DEF Start
  <2> QED
    BY <1>0, <2>1
<1>3. ASSUME NEW c \in Caller, ClaimEvent(c)
      PROVE  WorkInv'
  <2> DEFINE e == call[c].event
             left == LeaseMs - call[c].age
  <2>1. e \in Event
    BY <1>3, CallShape DEF ClaimEvent, Claiming
  <2>2. CASE MayClaim(e, call[c].age)
    <3>1. /\ processing' = [processing EXCEPT ![e] = Row("CLAIMED", WorkerOf[c], left)]
          /\ call' = [call EXCEPT ![c] = [pc |-> "work", event |-> e, left |-> left]]
          /\ answered' = answered /\ performed' = performed
      BY <1>3, <2>2 DEF ClaimEvent
    <3>2. processing[e].state # "PROCESSED"
      BY <2>2 DEF MayClaim
    <3>3. \A f \in Event : processing'[f].state = "PROCESSED" <=> processing[f].state = "PROCESSED"
      BY <1>0, <3>1, <3>2 DEF Row
    <3>4. \A d \in Caller : call'[d].pc = "complete" => call'[d] = call[d]
      BY <1>0, <3>1
    <3> QED
      BY <3>1, <3>3, <3>4
  <2>3. CASE ~MayClaim(e, call[c].age)
    <3>1. /\ processing' = processing /\ performed' = performed
          /\ call' = [call EXCEPT ![c] = NoCall]
          /\ answered' = answered \cup (IF processing[e].state = "PROCESSED" THEN {e} ELSE {})
      BY <1>3, <2>3 DEF ClaimEvent
    <3>2. \A d \in Caller : call'[d].pc = "complete" => call'[d] = call[d]
      BY <1>0, <3>1 DEF NoCall
    <3> QED
      BY <2>1, <3>1, <3>2
  <2> QED
    BY <2>2, <2>3
<1>4. ASSUME NEW c \in Caller, Process(c)
      PROVE  WorkInv'
  <2>1. call[c] \in Holdings
    BY <1>4, CallShape DEF Process
  <2>2. call'[c] = [call[c] EXCEPT !.pc = "complete"]
    BY <1>0, <1>4 DEF Process
  <2>3. call'[c].event = call[c].event
    BY <2>1, <2>2 DEF Holdings
  <2>4. /\ \A d \in Caller : d # c => call'[d] = call[d]
        /\ processing' = processing /\ answered' = answered
        /\ performed' = performed \cup {call[c].event}
    BY <1>0, <1>4 DEF Process
  <2> QED
    BY <2>3, <2>4
<1>5. ASSUME NEW c \in Caller, ProcessFails(c) \/ Crash(c)
      PROVE  WorkInv'
  <2>1. processing' = processing /\ performed' = performed /\ answered' = answered
    BY <1>5 DEF ProcessFails, Crash
  <2>2. call'[c].pc # "complete" /\ \A d \in Caller : d # c => call'[d] = call[d]
    <3>1. CASE Crash(c)
      BY <1>0, <3>1 DEF Crash, NoCall
    <3>2. CASE ProcessFails(c)
      <4>1. call[c] \in Holdings /\ call'[c] = [call[c] EXCEPT !.pc = "fail"]
        BY <1>0, <3>2, CallShape DEF ProcessFails
      <4>2. call'[c].pc = "fail"
        BY <4>1 DEF Holdings
      <4> QED
        BY <1>0, <3>2, <4>2 DEF ProcessFails
    <3> QED
      BY <1>5, <3>1, <3>2
  <2> QED
    BY <2>1, <2>2
<1>6. ASSUME NEW c \in Caller, CompleteEvent(c) \/ CompleteThrows(c) \/ FailEvent(c)
      PROVE  WorkInv'
  <2> DEFINE e == call[c].event
  <2>1. call[c] \in Holdings /\ e \in Event
    BY <1>6, CallShape DEF CompleteEvent, CompleteThrows, FailEvent, Holdings
  <2>2. call'[c].pc # "complete" /\ \A d \in Caller : d # c => call'[d] = call[d]
    <3>1. CASE CompleteEvent(c) \/ FailEvent(c)
      BY <1>0, <3>1 DEF CompleteEvent, FailEvent, NoCall
    <3>2. CASE CompleteThrows(c)
      <4>1. call'[c] = [call[c] EXCEPT !.pc = "fail"]
        BY <1>0, <3>2 DEF CompleteThrows
      <4>2. call'[c].pc = "fail"
        BY <2>1, <4>1 DEF Holdings
      <4> QED
        BY <1>0, <3>2, <4>2 DEF CompleteThrows
    <3> QED
      BY <1>6, <3>1, <3>2
  <2>3. \/ processing' = processing
        \/ FinishEvent(c, e, "FAILED")
        \/ FinishEvent(c, e, "PROCESSED") /\ e \in performed
    BY <1>6 DEF CompleteEvent, CompleteThrows, FailEvent
  <2>4. \A f \in Event : processing'[f].state = "PROCESSED" =>
          processing[f].state = "PROCESSED" \/ f \in performed
    BY <2>1, <2>3, FinishShape DEF Row
  <2>5. \A f \in Event : processing[f].state = "PROCESSED" => processing'[f].state = "PROCESSED"
    BY <2>1, <2>3, FinishShape DEF Holds
  <2>6. \A f \in answered' : f \in Event /\ processing'[f].state = "PROCESSED"
    <3>1. answered' = answered \/ CompleteEvent(c)
      BY <1>6 DEF CompleteThrows, FailEvent
    <3>2. CASE answered' = answered
      BY <2>5, <3>2
    <3>3. CASE CompleteEvent(c)
      BY <2>1, <2>5, <3>3 DEF CompleteEvent
    <3> QED
      BY <3>1, <3>2, <3>3
  <2>7. performed' = performed
    BY <1>6 DEF CompleteEvent, CompleteThrows, FailEvent
  <2> QED
    BY <2>2, <2>4, <2>6, <2>7
<1>7. ASSUME Tick
      PROVE  WorkInv'
  <2>1. performed' = performed /\ answered' = answered
    BY <1>7 DEF Tick
  <2>2. \A e \in Event : processing'[e].state = processing[e].state
    BY <1>0, <1>7 DEF Tick, Rows
  <2>3. ASSUME NEW c \in Caller, call'[c].pc = "complete"
        PROVE  call[c].pc = "complete" /\ call'[c].event = call[c].event
    <3>1. CASE call[c].pc = "claim"
      <4>1. call'[c] = [call[c] EXCEPT !.age = @ + 1] /\ call[c] \in Claiming
        BY <1>7, <3>1, CallShape DEF Tick
      <4> QED
        BY <2>3, <3>1, <4>1 DEF Claiming
    <3>2. CASE call[c].pc \in {"work", "complete", "fail"}
      <4>1. call[c] \in Holdings
        BY <3>2, CallShape
      <4>2. call'[c] = [call[c] EXCEPT !.left = @ - 1] \/ call'[c] = call[c]
        BY <1>7, <3>2 DEF Tick
      <4> QED
        BY <2>3, <4>1, <4>2 DEF Holdings
    <3>3. CASE call[c].pc = "idle"
      BY <1>7, <2>3, <3>3 DEF Tick
    <3> QED
      BY <3>1, <3>2, <3>3, CallShape
  <2> QED
    BY <2>1, <2>2, <2>3
<1>8. CASE UNCHANGED inboxVars
  BY <1>8 DEF inboxVars
<1> QED
  BY <1>1, <1>2, <1>3, <1>4, <1>5, <1>6, <1>7, <1>8 DEF InboxNext, CallerStep

-----------------------------------------------------------------------------
(* Types in full.  A row exists for each recorded event; it has a worker     *)
(* while it is claimed, and what is left of its lease stays within bounds.   *)
EventRowsInv ==
  \A e \in Event :
    /\ e \in Recorded => processing[e].state # "ABSENT"
    /\ processing[e].left \in -MaxAge .. LeaseMs
    /\ processing[e].worker # NoWorker <=> processing[e].state = "CLAIMED"
(* A clock reading is not older than MaxAge, nor a lease longer than LeaseMs. *)
CallsInv ==
  \A c \in Caller :
    /\ call[c].pc = "claim" => call[c].age <= MaxAge
    /\ call[c].pc \in {"work", "complete", "fail"} => call[c].left \in 0 .. LeaseMs
(* Identity and replay identity are keys of the inbox.                       *)
EventKeysInv ==
  /\ inbox \subseteq Deliveries
  /\ \A d, e \in inbox : d.replay = e.replay \/ d.identity = e.identity => d = e

(* Every step keeps the keys: an event known by either is not recorded.      *)
LEMMA KeysStep ==
  ASSUME EventKeysInv, [InboxNext]_inboxVars
  PROVE  EventKeysInv'
<1>1. ASSUME NEW d \in Deliveries, RecordEvent(d)
      PROVE  EventKeysInv'
  BY <1>1 DEF RecordEvent, Known, EventKeysInv
<1>2. CASE inbox' = inbox
  BY <1>2 DEF EventKeysInv
<1> QED
  BY <1>1, <1>2 DEF InboxNext, inboxVars, CallerStep, Start, ClaimEvent, Process, ProcessFails, CompleteEvent,
                    CompleteThrows, FailEvent, Crash, Tick

(* A step that sets one row to one of its shapes keeps what is said of rows. *)
LEMMA RowSet ==
  ASSUME LeaseAssumption, Typed, EventRowsInv, NEW e \in Event, NEW row \in Rows,
         row.state # "ABSENT", row.left \in -MaxAge .. LeaseMs,
         row.worker # NoWorker <=> row.state = "CLAIMED",
         processing' = [processing EXCEPT ![e] = row],
         Recorded' \subseteq Recorded \cup {e}
  PROVE  EventRowsInv'
<1>1. processing'[e] = row /\ \A f \in Event : f # e => processing'[f] = processing[f]
  BY DEF Typed
<1> QED
  BY <1>1 DEF EventRowsInv

(* Every step keeps what is said of rows.                                    *)
LEMMA EventRowsStep ==
  ASSUME LeaseAssumption, WorkersDistinct, Typed, EventRowsInv, CallsInv, [InboxNext]_inboxVars
  PROVE  EventRowsInv'
<1>0. MaxAge \in Nat /\ LeaseMs \in Nat /\ MaxAge < LeaseMs
  BY DEF LeaseAssumption
<1>1. ASSUME NEW d \in Deliveries, RecordEvent(d)
      PROVE  EventRowsInv'
  <2>1. Received \in Rows /\ d.identity \in Event
    BY DEF Received, Row, Rows, RowStates, WorkerIds, Event
  <2>2. Recorded' = Recorded \cup {d.identity}
    BY <1>1 DEF RecordEvent, Recorded
  <2>3. /\ Received.state = "RECEIVED" /\ Received.left \in -MaxAge .. LeaseMs
        /\ Received.worker = NoWorker
    BY <1>0 DEF Received, Row
  <2>4. processing' = [processing EXCEPT ![d.identity] = Received]
    BY <1>1 DEF RecordEvent
  <2> QED
    BY <2>1, <2>2, <2>3, <2>4, RowSet
<1>2. ASSUME NEW c \in Caller, ClaimEvent(c), MayClaim(call[c].event, call[c].age)
      PROVE  EventRowsInv'
  <2> DEFINE e == call[c].event
             row == Row("CLAIMED", WorkerOf[c], LeaseMs - call[c].age)
  <2>1. call[c] \in Claiming /\ call[c].age <= MaxAge
    BY <1>2, CallShape DEF ClaimEvent, CallsInv
  <2>2. e \in Event /\ LeaseMs - call[c].age \in -MaxAge .. LeaseMs
    BY <1>0, <2>1 DEF Claiming
  <2>3. row \in Rows
    BY <2>2 DEF Row, Rows, RowStates, WorkerIds
  <2>4. row.state = "CLAIMED" /\ row.left \in -MaxAge .. LeaseMs /\ row.worker # NoWorker
    BY <2>2 DEF Row, WorkersDistinct
  <2>5. processing' = [processing EXCEPT ![e] = row] /\ Recorded' = Recorded
    BY <1>2 DEF ClaimEvent, Recorded
  <2> HIDE DEF e, row
  <2> QED
    BY <2>2, <2>3, <2>4, <2>5, RowSet
<1>3. ASSUME NEW c \in Caller, NEW state \in {"PROCESSED", "FAILED"},
             call[c].pc \in {"complete", "fail"}, FinishEvent(c, call[c].event, state), inbox' = inbox
      PROVE  EventRowsInv'
  <2> DEFINE e == call[c].event
             row == Row(state, NoWorker, 0)
  <2>1. e \in Event
    BY <1>3, CallShape DEF Holdings
  <2>2. row \in Rows /\ row.left \in -MaxAge .. LeaseMs
    BY <1>0 DEF Row, Rows, RowStates, WorkerIds
  <2>3. row.state \in {"PROCESSED", "FAILED"} /\ row.worker = NoWorker
    BY DEF Row
  <2>4. Recorded' = Recorded
    BY <1>3 DEF Recorded
  <2>5. processing' = [processing EXCEPT ![e] = row] \/ processing' = processing
    BY <1>3 DEF FinishEvent
  <2> HIDE DEF e, row
  <2>6. CASE processing' = [processing EXCEPT ![e] = row]
    BY <2>1, <2>2, <2>3, <2>4, <2>6, RowSet
  <2>7. CASE processing' = processing
    BY <2>4, <2>7 DEF EventRowsInv
  <2> QED
    BY <2>5, <2>6, <2>7
<1>4. ASSUME Tick
      PROVE  EventRowsInv'
  <2>1. Recorded' = Recorded
    BY <1>4 DEF Tick, Recorded
  <2>2. ASSUME NEW e \in Event
        PROVE  /\ processing'[e].state = processing[e].state
               /\ processing'[e].worker = processing[e].worker
               /\ processing'[e].left \in -MaxAge .. LeaseMs
    <3>1. processing[e] \in Rows /\ processing[e].left \in -MaxAge .. LeaseMs
      BY DEF Typed, EventRowsInv
    <3>2. CASE processing[e].state = "CLAIMED" /\ processing[e].left > -MaxAge
      <4>1. processing'[e] = [processing[e] EXCEPT !.left = @ - 1]
        BY <1>4, <3>2 DEF Tick
      <4>2. processing'[e].left = processing[e].left - 1
        BY <3>1, <4>1 DEF Rows
      <4> QED
        BY <1>0, <3>1, <3>2, <4>1, <4>2 DEF Rows
    <3>3. CASE ~(processing[e].state = "CLAIMED" /\ processing[e].left > -MaxAge)
      BY <1>4, <3>1, <3>3 DEF Tick
    <3> QED
      BY <3>2, <3>3
  <2> QED
    BY <2>1, <2>2 DEF EventRowsInv
<1>5. CASE UNCHANGED <<inbox, processing>>
  BY <1>5 DEF EventRowsInv, Recorded
<1>6. ASSUME NEW c \in Caller, ClaimEvent(c), ~MayClaim(call[c].event, call[c].age)
      PROVE  UNCHANGED <<inbox, processing>>
  BY <1>6 DEF ClaimEvent
<1>7. ASSUME NEW c \in Caller, CompleteEvent(c) \/ FailEvent(c) \/ CompleteThrows(c)
      PROVE  EventRowsInv'
  <2>1. inbox' = inbox /\ call[c].pc \in {"complete", "fail"}
    BY <1>7 DEF CompleteEvent, FailEvent, CompleteThrows
  <2>2. \/ FinishEvent(c, call[c].event, "PROCESSED") \/ FinishEvent(c, call[c].event, "FAILED")
        \/ processing' = processing
    BY <1>7 DEF CompleteEvent, FailEvent, CompleteThrows
  <2> QED
    BY <1>3, <1>5, <2>1, <2>2
<1>8. ASSUME NEW c \in Caller, Process(c) \/ ProcessFails(c) \/ Crash(c) \/ \E e \in Event : Start(c, e)
      PROVE  UNCHANGED <<inbox, processing>>
  BY <1>8 DEF Process, ProcessFails, Crash, Start
<1> QED
  BY <1>1, <1>2, <1>4, <1>5, <1>6, <1>7, <1>8 DEF InboxNext, CallerStep, inboxVars

(* Every step keeps what is said of calls.                                   *)
LEMMA CallsStep ==
  ASSUME LeaseAssumption, Typed, CallsInv, [InboxNext]_inboxVars
  PROVE  CallsInv'
<1> DEFINE Fine(k) == /\ k.pc = "claim" => k.age <= MaxAge
                      /\ k.pc \in {"work", "complete", "fail"} => k.left \in 0 .. LeaseMs
<1>0. MaxAge \in Nat /\ LeaseMs \in Nat /\ MaxAge < LeaseMs /\ call \in [Caller -> WorkerCalls]
  BY DEF LeaseAssumption, Typed
<1>1. \A c \in Caller : Fine(call[c])
  BY DEF CallsInv
<1>2. ASSUME NEW c \in Caller, NEW k, Fine(k), call' = [call EXCEPT ![c] = k]
      PROVE  CallsInv'
  <2>1. call'[c] = k /\ \A d \in Caller : d # c => call'[d] = call[d]
    BY <1>0, <1>2
  <2> QED
    BY <1>1, <1>2, <2>1 DEF CallsInv
<1>3. Fine(NoCall)
  BY DEF NoCall
<1>4. ASSUME NEW c \in Caller, NEW e \in Event, Start(c, e)
      PROVE  CallsInv'
  <2>1. Fine([pc |-> "claim", event |-> e, age |-> 0])
    BY <1>0
  <2>2. call' = [call EXCEPT ![c] = [pc |-> "claim", event |-> e, age |-> 0]]
    BY <1>4 DEF Start
  <2> HIDE DEF Fine
  <2> QED
    BY <1>2, <2>1, <2>2
<1>5. ASSUME NEW c \in Caller, ClaimEvent(c)
      PROVE  CallsInv'
  <2> DEFINE k == [pc |-> "work", event |-> call[c].event, left |-> LeaseMs - call[c].age]
  <2>1. call[c] \in Claiming /\ call[c].age <= MaxAge
    BY <1>1, <1>5, CallShape DEF ClaimEvent
  <2>2. Fine(k)
    BY <1>0, <2>1 DEF Claiming
  <2>3. call' = [call EXCEPT ![c] = k] \/ call' = [call EXCEPT ![c] = NoCall]
    BY <1>5 DEF ClaimEvent
  <2> HIDE DEF k, Fine
  <2> QED
    BY <1>2, <1>3, <2>2, <2>3
<1>6. ASSUME NEW c \in Caller, CompleteEvent(c) \/ FailEvent(c) \/ Crash(c)
      PROVE  CallsInv'
  <2>1. call' = [call EXCEPT ![c] = NoCall]
    BY <1>6 DEF CompleteEvent, FailEvent, Crash
  <2> HIDE DEF Fine
  <2> QED
    BY <1>2, <1>3, <2>1
<1>7. ASSUME NEW c \in Caller, Process(c) \/ ProcessFails(c) \/ CompleteThrows(c)
      PROVE  CallsInv'
  <2>1. call[c].pc \in {"work", "complete"} /\ call[c] \in Holdings
    BY <1>7, CallShape DEF Process, ProcessFails, CompleteThrows
  <2>2. PICK next \in {"complete", "fail"} : call' = [call EXCEPT ![c].pc = next]
    BY <1>7 DEF Process, ProcessFails, CompleteThrows
  <2> DEFINE k == [call[c] EXCEPT !.pc = next]
  <2>3. k.pc = next /\ k.left = call[c].left
    BY <2>1 DEF Holdings
  <2>4. Fine(k)
    BY <1>1, <2>1, <2>3
  <2>5. call' = [call EXCEPT ![c] = k]
    BY <1>0, <2>2
  <2> HIDE DEF k, Fine
  <2> QED
    BY <1>2, <2>4, <2>5
<1>8. ASSUME Tick
      PROVE  CallsInv'
  <2> SUFFICES ASSUME NEW c \in Caller
               PROVE  Fine(call'[c])
    BY DEF CallsInv
  <2>1. CASE call[c].pc = "claim"
    <3>1. call[c] \in Claiming /\ call[c].age < MaxAge
      BY <1>8, <2>1, CallShape DEF Tick
    <3>2. call'[c] = [call[c] EXCEPT !.age = @ + 1]
      BY <1>8, <2>1 DEF Tick
    <3>3. call'[c].pc = "claim" /\ call'[c].age = call[c].age + 1
      BY <2>1, <3>1, <3>2 DEF Claiming
    <3> QED
      BY <1>0, <3>1, <3>3 DEF Claiming
  <2>2. CASE call[c].pc \in {"work", "complete", "fail"}
    <3>1. call[c] \in Holdings /\ call[c].left \in 0 .. LeaseMs
      BY <1>1, <2>2, CallShape
    <3>2. call'[c] = IF call[c].left > 0 THEN [call[c] EXCEPT !.left = @ - 1] ELSE call[c]
      BY <1>8, <2>2 DEF Tick
    <3>3. /\ call'[c].pc = call[c].pc
          /\ call'[c].left = IF call[c].left > 0 THEN call[c].left - 1 ELSE call[c].left
      BY <3>1, <3>2 DEF Holdings
    <3> QED
      BY <1>0, <2>2, <3>1, <3>3
  <2>3. CASE call[c].pc = "idle"
    <3>1. call'[c] = call[c]
      BY <1>8, <2>3 DEF Tick
    <3> QED
      BY <2>3, <3>1
  <2> QED
    BY <2>1, <2>2, <2>3, CallShape
<1>9. CASE call' = call
  BY <1>1, <1>9 DEF CallsInv
<1>10. ASSUME NEW d \in Deliveries, RecordEvent(d)
       PROVE  call' = call
  BY <1>10 DEF RecordEvent
<1> QED
  BY <1>4, <1>5, <1>6, <1>7, <1>8, <1>9, <1>10 DEF InboxNext, CallerStep, inboxVars

(* The parts together are the type invariant.                                *)
LEMMA TypesInFull ==
  ASSUME LeaseAssumption, Typed, EventRowsInv, CallsInv, EventKeysInv
  PROVE  InboxTypeOK
<1>1. \A c \in Caller : CallOK(call[c])
  <2> TAKE c \in Caller
  <2>1. CASE call[c].pc = "claim"
    BY <2>1, CallShape DEF CallOK, CallsInv, Claiming, LeaseAssumption
  <2>2. CASE call[c].pc \in {"work", "complete", "fail"}
    BY <2>2, CallShape DEF CallOK, CallsInv, Holdings
  <2>3. CASE call[c].pc = "idle"
    BY <2>3, CallShape DEF CallOK
  <2> QED
    BY <2>1, <2>2, <2>3, CallShape
<1>2. ASSUME NEW e \in Event
      PROVE  /\ processing[e].state \in
                  (IF e \in Recorded THEN {"RECEIVED", "CLAIMED", "PROCESSED", "FAILED"} ELSE {"ABSENT"})
             /\ processing[e].left \in -MaxAge .. LeaseMs
             /\ processing[e].worker # NoWorker <=> processing[e].state = "CLAIMED"
  <2>1. processing[e].state \in RowStates /\ (processing[e].state # "ABSENT" <=> e \in Recorded)
    BY DEF Typed, EventRowsInv, Rows
  <2> QED
    BY <2>1 DEF EventRowsInv, RowStates
<1> QED
  BY <1>1, <1>2 DEF EventKeysInv, InboxTypeOK

-----------------------------------------------------------------------------
(* An empty inbox and idle callers have all of it.                          *)
LEMMA InboxBegins ==
  ASSUME LeaseAssumption, InboxInit
  PROVE  Typed /\ LeaseInv /\ WorkInv
<1>1. NoRow \in Rows /\ NoRow.state = "ABSENT"
  BY DEF NoRow, Row, Rows, RowStates, WorkerIds
<1>2. NoCall \in WorkerCalls /\ NoCall.pc = "idle"
  BY DEF NoCall, WorkerCalls
<1> QED
  BY <1>1, <1>2 DEF InboxInit, Typed, LeaseInv, Working, WorkInv, ProcessedAfterWork

(* An event is PROCESSED, and answered so, only after a callback for it      *)
(* returned: under any interleaving of claims, crashes, lost answers, late    *)
(* finishes and expired leases, for workers that share ids too               *)
(* (PostgresProviderFoundationStore.completeEvent, processInboxEvent).       *)
THEOREM ProcessedAfterCallback ==
  ASSUME LeaseAssumption
  PROVE  InboxSpec => []ProcessedAfterWork
<1>1. InboxInit => Typed /\ WorkInv
  BY InboxBegins
<1>2. Typed /\ WorkInv /\ [InboxNext]_inboxVars => (Typed /\ WorkInv)'
  BY TypedStep, WorkStep
<1>3. WorkInv => ProcessedAfterWork
  BY DEF WorkInv
<1> QED
  BY <1>1, <1>2, <1>3, PTL DEF InboxSpec

(* A worker whose lease has not run out holds the row of its event: nobody   *)
(* works on an event within the lease of another, for any lease, clock age   *)
(* and number of callers, as long as each caller has a worker id of its own   *)
(* (PostgresProviderFoundationStore.claimEvent and its fenced finishes).     *)
THEOREM LeasesHold ==
  ASSUME LeaseAssumption, WorkersDistinct
  PROVE  InboxSpec => []LeaseHeld
<1>1. InboxInit => Typed /\ LeaseInv
  BY InboxBegins
<1>2. Typed /\ LeaseInv /\ [InboxNext]_inboxVars => (Typed /\ LeaseInv)'
  BY TypedStep, LeaseStep
<1>3. LeaseInv => LeaseHeld
  BY DEF LeaseInv, LeaseHeld, Working, RowHeldBy
<1> QED
  BY <1>1, <1>2, <1>3, PTL DEF InboxSpec

(* All the inbox promises: one well-formed row for each event, leases that   *)
(* hold, and nothing processed that no callback worked on.                   *)
THEOREM InboxIsSound ==
  ASSUME LeaseAssumption, WorkersDistinct
  PROVE  InboxSpec => []InboxSound
<1> DEFINE Inv == Typed /\ EventRowsInv /\ CallsInv /\ EventKeysInv
<1>1. InboxInit => Inv
  <2> SUFFICES ASSUME InboxInit
               PROVE  Inv
    OBVIOUS
  <2>1. NoRow.state = "ABSENT" /\ NoRow.left = 0 /\ NoRow.worker = NoWorker
    BY DEF NoRow, Row
  <2>2. Recorded = {} /\ 0 \in -MaxAge .. LeaseMs
    BY DEF InboxInit, Recorded, LeaseAssumption
  <2>3. EventRowsInv
    BY <2>1, <2>2 DEF InboxInit, EventRowsInv
  <2>4. CallsInv
    BY DEF InboxInit, CallsInv, NoCall
  <2> QED
    BY <2>3, <2>4, InboxBegins DEF InboxInit, EventKeysInv
<1>2. Inv /\ [InboxNext]_inboxVars => Inv'
  BY TypedStep, EventRowsStep, CallsStep, KeysStep
<1>3. Inv => InboxTypeOK
  BY TypesInFull
<1>4. InboxTypeOK /\ LeaseHeld /\ ProcessedAfterWork => InboxSound
  BY DEF InboxSound
<1> QED
  BY <1>1, <1>2, <1>3, <1>4, LeasesHold, ProcessedAfterCallback, PTL DEF InboxSpec

-----------------------------------------------------------------------------
(* The two implementations of the stores (ProviderStores).                   *)
CONSTANTS Writer, Clock, MaxAttempts, MaxRevision
VARIABLES durable, memory, answers, writer, accepted
Both == INSTANCE ProviderStores

(* The sentinel is neither a state of a row nor a checkpoint.                *)
StoreStates == {"RECEIVED", "CLAIMED", "PROCESSED", "FAILED"}
StoreRows == [state : StoreStates, worker : Worker \cup {None}, until : Nat, attempts : Nat]
Checkpoints == [cursor : Writer, checkedAt : Nat, revision : Nat]
NoneIsNothing == None \notin StoreStates /\ None \notin Checkpoints

(* One content for both, and a row for the events of its identity and no     *)
(* other.                                                                    *)
Contents ==
  [events : SUBSET Deliveries, row : [Both!Identity -> {Both!NoRow} \cup StoreRows],
   cursor : {None} \cup Checkpoints]
StoreTyped == memory = durable /\ durable \in Contents
RowsHaveEvents ==
  \A e \in Both!Identity :
    durable.row[e] = Both!NoRow <=> \A d \in durable.events : d.identity # e

(* A writer that read no cursor writes the first revision; the cursor is the  *)
(* last checkpoint that was accepted, or a later one.                        *)
WritersKnow ==
  /\ writer \in [Writer -> {None} \cup Checkpoints]
  /\ durable.cursor = None =>
       accepted = {} /\ \A w \in Writer : writer[w] # None => writer[w].revision = 1
AcceptedBehind ==
  /\ accepted \subseteq Checkpoints
  /\ \A a \in accepted :
       /\ a.revision <= durable.cursor.revision /\ a.checkedAt <= durable.cursor.checkedAt
       /\ a.revision = durable.cursor.revision => a = durable.cursor
StoresInv ==
  /\ StoreTyped /\ RowsHaveEvents /\ WritersKnow /\ AcceptedBehind
  /\ Both!CursorNotForked /\ answers[1] = answers[2]

LEMMA StoreShape ==
  ASSUME NEW s \in Contents
  PROVE  /\ s.events \in SUBSET Deliveries /\ s.cursor \in {None} \cup Checkpoints
         /\ s.row \in [Both!Identity -> {Both!NoRow} \cup StoreRows]
         /\ \A E \in SUBSET Deliveries, R \in [Both!Identity -> {Both!NoRow} \cup StoreRows],
               k \in {None} \cup Checkpoints :
              [s EXCEPT !.events = E, !.row = R, !.cursor = k] \in Contents
BY DEF Contents

(* The rows, by state.                                                       *)
LEMMA RowShape ==
  ASSUME NoneIsNothing, NEW s \in Contents, NEW e \in Both!Identity
  PROVE  \/ s.row[e] = Both!NoRow /\ s.row[e].state = None /\ s.row[e].state \notin StoreStates
         \/ /\ s.row[e] # Both!NoRow /\ s.row[e] \in StoreRows
            /\ s.row[e].state \in StoreStates /\ s.row[e].state # None
<1>1. s.row[e] = Both!NoRow \/ s.row[e] \in StoreRows
  BY StoreShape
<1>2. Both!NoRow.state = None
  BY DEF Both!NoRow
<1>3. \A r \in StoreRows : r.state \in StoreStates
  BY DEF StoreRows
<1>. QED BY <1>1, <1>2, <1>3 DEF NoneIsNothing

LEMMA ClaimableAlike ==
  ASSUME NoneIsNothing, NEW s \in Contents, NEW now
  PROVE  Both!PostgresClaimable(s, now) = Both!MemoryClaimable(s, now)
<1>. SUFFICES ASSUME NEW e \in Both!Identity
              PROVE  \/ s.row[e].state \in {"RECEIVED", "FAILED"}
                     \/ s.row[e].state = "CLAIMED" /\ s.row[e].until <= now
                     <=>
                     /\ s.row[e] # Both!NoRow /\ s.row[e].state # "PROCESSED"
                     /\ s.row[e].state = "CLAIMED" => s.row[e].until <= now
  BY DEF Both!PostgresClaimable, Both!MemoryClaimable
<1>. QED BY RowShape DEF StoreStates

LEMMA ClaimAlike ==
  ASSUME NoneIsNothing, NEW s \in Contents, NEW e \in Both!Identity, NEW w, NEW now \in Nat
  PROVE  Both!PostgresClaim(s, e, w, now) = Both!MemoryClaim(s, e, w, now)
<1>. DEFINE r == s.row[e]
            claimable == e \in Both!PostgresClaimable(s, now)
<1>1. claimable <=> \/ r.state \in {"RECEIVED", "FAILED"}
                    \/ r.state = "CLAIMED" /\ r.until <= now
  BY DEF Both!PostgresClaimable
<1>. HIDE DEF claimable
<1>2. Both!PostgresClaim(s, e, w, now) =
        IF claimable THEN Both!Taken(s, e, w, now)
        ELSE Both!Does(s, CASE r = Both!NoRow -> "NOT_FOUND"
                            [] r.state = "PROCESSED" -> "PROCESSED"
                            [] OTHER -> "BUSY")
  BY DEF Both!PostgresClaim, claimable
<1>3. CASE r = Both!NoRow
  <2>1. r.state = None /\ ~claimable
    BY <1>1, <1>3, RowShape DEF StoreStates
  <2>2. r.state # "PROCESSED"
    BY <2>1 DEF NoneIsNothing, StoreStates
  <2>3. Both!PostgresClaim(s, e, w, now) = Both!Does(s, "NOT_FOUND")
    BY <1>2, <1>3, <2>1, <2>2
  <2>4. Both!MemoryClaim(s, e, w, now) = Both!Does(s, "NOT_FOUND")
    BY <2>1 DEF Both!MemoryClaim, NoneIsNothing, StoreStates
  <2>. QED BY <2>3, <2>4
<1>4. CASE r # Both!NoRow
  <2>1. r \in StoreRows /\ r.state \in StoreStates /\ r.state # None
    BY <1>4, RowShape
  <2>2. r.until \in Nat
    BY <2>1 DEF StoreRows
  <2>3. CASE r.state = "PROCESSED"
    BY <1>1, <1>2, <1>4, <2>1, <2>3 DEF Both!MemoryClaim
  <2>4. CASE r.state \in {"RECEIVED", "FAILED"}
    BY <1>1, <1>2, <1>4, <2>1, <2>4 DEF Both!MemoryClaim
  <2>5. CASE r.state = "CLAIMED"
    BY <1>1, <1>2, <1>4, <2>1, <2>2, <2>5 DEF Both!MemoryClaim
  <2>. QED BY <2>1, <2>3, <2>4, <2>5 DEF StoreStates
<1>. QED BY <1>3, <1>4

LEMMA FinishAlike ==
  ASSUME NoneIsNothing, NEW s \in Contents, NEW e \in Both!Identity, NEW w, NEW state
  PROVE  Both!PostgresFinish(s, e, w, state) = Both!MemoryFinish(s, e, w, state)
<1>. DEFINE r == s.row[e]
<1>1. CASE r = Both!NoRow
  <2>1. r.state = None /\ r.state \notin StoreStates
    BY <1>1, RowShape DEF NoneIsNothing
  <2>2. Both!PostgresFinish(s, e, w, state) = Both!Does(s, "NOT_FOUND")
    BY <1>1, <2>1 DEF Both!PostgresFinish, StoreStates
  <2>3. Both!MemoryFinish(s, e, w, state) = Both!Does(s, "NOT_FOUND")
    BY <2>1 DEF Both!MemoryFinish, StoreStates
  <2>. QED BY <2>2, <2>3
<1>2. CASE r # Both!NoRow
  <2>1. r.state \in StoreStates /\ r.state # None
    BY <1>2, RowShape
  <2>. QED BY <1>2, <2>1 DEF Both!PostgresFinish, Both!MemoryFinish, StoreStates
<1>. QED BY <1>1, <1>2

LEMMA RecordAlike ==
  ASSUME StoreTyped, RowsHaveEvents, NEW d \in Deliveries
  PROVE  /\ Both!PostgresRecord(durable, d) = Both!MemoryRecord(memory, d)
         /\ \/ Both!PostgresRecord(durable, d).store = durable
            \/ Both!PostgresRecord(durable, d) = Both!Inserted(durable, d)
<1>. DEFINE s == durable
<1>1. d.identity \in Both!Identity /\ memory = s
  BY DEF Both!Identity, StoreTyped
<1>2. Both!Clashes(s, d) = {} <=>
        s.row[d.identity] = Both!NoRow /\ d.replay \notin {e.replay : e \in s.events}
  <2>1. s.row[d.identity] = Both!NoRow <=> \A e \in s.events : e.identity # d.identity
    BY <1>1 DEF RowsHaveEvents
  <2>. QED BY <2>1 DEF Both!Clashes
<1>. QED BY <1>1, <1>2 DEF Both!PostgresRecord, Both!MemoryRecord, Both!Does

LEMMA PutAlike ==
  ASSUME NoneIsNothing, NEW s \in Contents, NEW value \in Checkpoints,
         s.cursor = None => value.revision = 1
  PROVE  /\ Both!PostgresPut(s, value) = Both!MemoryPut(s, value)
         /\ \/ /\ Both!PostgresPut(s, value) = Both!Write(s, value)
               /\ s.cursor # None => /\ s.cursor.revision + 1 = value.revision
                                     /\ s.cursor.checkedAt <= value.checkedAt
            \/ s.cursor # None /\ Both!PostgresPut(s, value) = Both!Does(s, s.cursor = value)
<1>. DEFINE k == s.cursor
<1>1. value.revision \in Nat /\ value.checkedAt \in Nat /\ value # None
  BY DEF Checkpoints, NoneIsNothing
<1>2. CASE k = None
  BY <1>1, <1>2 DEF Both!PostgresPut, Both!MemoryPut
<1>3. CASE k # None
  <2>1. k \in Checkpoints /\ k.revision \in Nat /\ k.checkedAt \in Nat
    BY <1>3, StoreShape DEF Checkpoints
  <2>2. k = value => k.revision # value.revision - 1
    BY <2>1
  <2>3. k.revision = value.revision - 1 <=> value.revision = k.revision + 1
    BY <1>1, <2>1
  <2>4. k.checkedAt <= value.checkedAt <=> ~(value.checkedAt < k.checkedAt)
    BY <1>1, <2>1
  <2>5. CASE k.revision = value.revision - 1 /\ k.checkedAt <= value.checkedAt
    BY <1>3, <2>2, <2>3, <2>4, <2>5 DEF Both!PostgresPut, Both!MemoryPut
  <2>6. CASE ~(k.revision = value.revision - 1 /\ k.checkedAt <= value.checkedAt)
    <3>1. Both!PostgresPut(s, value) = Both!Does(s, k = value)
      BY <1>3, <2>6 DEF Both!PostgresPut
    <3>2. Both!MemoryPut(s, value) = Both!Does(s, k = value)
      <4>1. CASE k = value
        <5>1. Both!MemoryPut(s, value) = Both!Does(s, TRUE)
          BY <4>1 DEF Both!MemoryPut
        <5>. QED BY <4>1, <5>1
      <4>2. CASE k # value
        <5>1. Both!MemoryPut(s, value) = Both!Does(s, FALSE)
          BY <1>3, <2>3, <2>4, <2>6, <4>2 DEF Both!MemoryPut
        <5>2. (k = value) = FALSE
          BY <4>2
        <5>. QED BY <5>1, <5>2
      <4>. QED BY <4>1, <4>2
    <3>. QED BY <1>3, <3>1, <3>2
  <2>. QED BY <2>5, <2>6
<1>. QED BY <1>2, <1>3

(* A call that moves neither the cursor nor a writer keeps what is known of  *)
(* both.                                                                     *)
LEMMA CursorKept ==
  ASSUME StoresInv, memory' = durable', durable' \in Contents, RowsHaveEvents',
         durable'.cursor = durable.cursor, answers'[1] = answers'[2],
         UNCHANGED <<writer, accepted>>
  PROVE  StoresInv'
<1>1. StoreTyped'
  BY DEF StoreTyped
<1>2. WritersKnow' /\ AcceptedBehind' /\ Both!CursorNotForked'
  BY DEF StoresInv, WritersKnow, AcceptedBehind, Both!CursorNotForked
<1>. QED BY <1>1, <1>2 DEF StoresInv

(* A row that is there, written anew.                                        *)
LEMMA RowWritten ==
  ASSUME NoneIsNothing, StoresInv, NEW e \in Both!Identity, durable.row[e] # Both!NoRow,
         NEW r \in StoreRows, durable' = [durable EXCEPT !.row[e] = r], memory' = durable',
         answers'[1] = answers'[2], UNCHANGED <<writer, accepted>>
  PROVE  StoresInv'
<1>. DEFINE R == [durable.row EXCEPT ![e] = r]
<1>1. durable \in Contents /\ RowsHaveEvents
  BY DEF StoresInv, StoreTyped
<1>2. R \in [Both!Identity -> {Both!NoRow} \cup StoreRows]
  BY <1>1, StoreShape
<1>3. durable' = [durable EXCEPT !.row = R]
  OBVIOUS
<1>4. durable' \in Contents /\ durable'.row = R /\ durable'.events = durable.events
      /\ durable'.cursor = durable.cursor
  BY <1>1, <1>2, <1>3 DEF Contents
<1>5. r # Both!NoRow
  <2>1. r.state \in StoreStates /\ Both!NoRow.state = None
    BY DEF StoreRows, Both!NoRow
  <2>. QED BY <2>1 DEF NoneIsNothing
<1>6. \A x \in Both!Identity : R[x] = IF x = e THEN r ELSE durable.row[x]
  BY <1>1, StoreShape
<1>7. RowsHaveEvents'
  <2>1. Both!Identity' = Both!Identity /\ Both!NoRow' = Both!NoRow
    BY DEF Both!Identity, Both!NoRow
  <2>2. \A x \in Both!Identity :
          R[x] = Both!NoRow <=> \A d \in durable.events : d.identity # x
    BY <1>1, <1>5, <1>6 DEF RowsHaveEvents
  <2>. QED BY <1>4, <2>1, <2>2 DEF RowsHaveEvents
<1>. QED BY <1>4, <1>7, CursorKept

LEMMA StoreUntouched ==
  ASSUME StoresInv, durable' = durable, memory' = memory, answers'[1] = answers'[2],
         UNCHANGED <<writer, accepted>>
  PROVE  StoresInv'
<1>1. durable' \in Contents /\ memory' = durable' /\ RowsHaveEvents
  BY DEF StoresInv, StoreTyped
<1>2. RowsHaveEvents'
  BY <1>1 DEF RowsHaveEvents, Both!Identity, Both!NoRow
<1>. QED BY <1>1, <1>2, CursorKept

LEMMA RecordEventStep ==
  ASSUME NoneIsNothing, StoresInv, NEW d \in Deliveries, Both!RecordEvent(d)
  PROVE  StoresInv'
<1>. DEFINE p == Both!PostgresRecord(durable, d)
            e == d.identity
            r == Both!Row("RECEIVED", None, 0, 0)
            R == [durable.row EXCEPT ![e] = r]
            E == durable.events \cup {d}
<1>1. durable \in Contents /\ RowsHaveEvents /\ e \in Both!Identity /\ memory = durable
  BY DEF StoresInv, StoreTyped, Both!Identity
<1>2. p = Both!MemoryRecord(memory, d) /\ (p.store = durable \/ p = Both!Inserted(durable, d))
  BY RecordAlike DEF StoresInv
<1>3. /\ durable' = p.store /\ memory' = p.store /\ answers' = <<p.answer, p.answer>>
      /\ UNCHANGED <<writer, accepted>>
  BY <1>2 DEF Both!RecordEvent, Both!Asks
<1>4. answers'[1] = answers'[2]
  BY <1>3
<1>5. CASE p.store = durable
  BY <1>1, <1>3, <1>4, <1>5, StoreUntouched
<1>6. CASE p = Both!Inserted(durable, d)
  <2>1. p.store = [durable EXCEPT !.events = E, !.row[e] = r]
    BY <1>6 DEF Both!Inserted, Both!Does
  <2>2. r \in StoreRows /\ r # Both!NoRow
    <3>1. r \in StoreRows /\ r.state = "RECEIVED" /\ Both!NoRow.state = None
      BY DEF Both!Row, StoreRows, StoreStates, Both!NoRow
    <3>. QED BY <3>1 DEF NoneIsNothing, StoreStates
  <2>3. /\ E \in SUBSET Deliveries
        /\ R \in [Both!Identity -> {Both!NoRow} \cup StoreRows]
        /\ durable.cursor \in {None} \cup Checkpoints
    BY <1>1, <2>2, StoreShape
  <2>4. p.store = [durable EXCEPT !.events = E, !.row = R]
    BY <1>1, <2>1 DEF Contents
  <2>5. /\ p.store \in Contents /\ p.store.row = R /\ p.store.events = E
        /\ p.store.cursor = durable.cursor
    BY <1>1, <2>3, <2>4 DEF Contents
  <2>6. \A x \in Both!Identity : R[x] = IF x = e THEN r ELSE durable.row[x]
    BY <1>1, StoreShape
  <2>7. \A x \in Both!Identity : R[x] = Both!NoRow <=> \A f \in E : f.identity # x
    BY <1>1, <2>2, <2>6 DEF RowsHaveEvents
  <2>8. RowsHaveEvents'
    <3>1. Both!Identity' = Both!Identity /\ Both!NoRow' = Both!NoRow
      BY DEF Both!Identity, Both!NoRow
    <3>. QED BY <1>3, <2>5, <2>7, <3>1 DEF RowsHaveEvents
  <2>. QED BY <1>3, <1>4, <2>5, <2>8, CursorKept
<1>. QED BY <1>2, <1>5, <1>6

LEMMA ListStep ==
  ASSUME NoneIsNothing, StoresInv, NEW now, Both!List(now)
  PROVE  StoresInv'
<1>1. durable \in Contents /\ memory = durable
  BY DEF StoresInv, StoreTyped
<1>2. Both!PostgresClaimable(durable, now) = Both!MemoryClaimable(durable, now)
  BY <1>1, ClaimableAlike
<1>3. /\ answers'[1] = answers'[2] /\ durable' = durable /\ memory' = memory
      /\ UNCHANGED <<writer, accepted>>
  BY <1>1, <1>2 DEF Both!List
<1>. QED BY <1>3, StoreUntouched

LEMMA ClaimEventStep ==
  ASSUME Both!StoresAssumption, NoneIsNothing, StoresInv, NEW e \in Both!Identity,
         NEW w \in Worker, NEW now \in Clock, Both!ClaimEvent(e, w, now)
  PROVE  StoresInv'
<1>. DEFINE p == Both!PostgresClaim(durable, e, w, now)
            r == Both!Row("CLAIMED", w, now + LeaseMs, durable.row[e].attempts + 1)
<1>1. durable \in Contents /\ memory = durable /\ now \in Nat /\ LeaseMs \in Nat
  BY DEF StoresInv, StoreTyped, Both!StoresAssumption
<1>2. p = Both!MemoryClaim(memory, e, w, now)
  BY <1>1, ClaimAlike
<1>3. /\ durable' = p.store /\ memory' = p.store /\ answers' = <<p.answer, p.answer>>
      /\ UNCHANGED <<writer, accepted>>
  BY <1>2 DEF Both!ClaimEvent, Both!Asks
<1>4. answers'[1] = answers'[2]
  BY <1>3
<1>5. CASE e \in Both!PostgresClaimable(durable, now)
  <2>1. durable.row[e].state \in StoreStates
    BY <1>5 DEF Both!PostgresClaimable, StoreStates
  <2>2. durable.row[e] # Both!NoRow /\ durable.row[e] \in StoreRows
    BY <1>1, <2>1, RowShape
  <2>3. durable.row[e].attempts \in Nat
    BY <2>2 DEF StoreRows
  <2>4. r \in StoreRows
    BY <1>1, <2>3 DEF Both!Row, StoreRows, StoreStates
  <2>5. p.store = [durable EXCEPT !.row[e] = r]
    <3>1. p = Both!Taken(durable, e, w, now)
      BY <1>5 DEF Both!PostgresClaim
    <3>2. p.store = [durable EXCEPT !.row[e] = Both!Row("CLAIMED", w, now + LeaseMs, @.attempts + 1)]
      BY <3>1 DEF Both!Taken, Both!Does
    <3>. QED BY <1>1, <3>2
  <2>. QED BY <1>3, <1>4, <2>2, <2>4, <2>5, RowWritten
<1>6. CASE e \notin Both!PostgresClaimable(durable, now)
  <2>1. p.store = durable
    BY <1>6 DEF Both!PostgresClaim, Both!Does
  <2>. QED BY <1>1, <1>3, <1>4, <2>1, StoreUntouched
<1>. QED BY <1>5, <1>6

LEMMA FinishEventStep ==
  ASSUME NoneIsNothing, StoresInv, NEW e \in Both!Identity, NEW w \in Worker,
         NEW state \in {"PROCESSED", "FAILED"}, Both!FinishEvent(e, w, state)
  PROVE  StoresInv'
<1>. DEFINE p == Both!PostgresFinish(durable, e, w, state)
            r == Both!Row(state, None, 0, durable.row[e].attempts)
<1>1. durable \in Contents /\ memory = durable
  BY DEF StoresInv, StoreTyped
<1>2. p = Both!MemoryFinish(memory, e, w, state)
  BY <1>1, FinishAlike
<1>3. /\ durable' = p.store /\ memory' = p.store /\ answers' = <<p.answer, p.answer>>
      /\ UNCHANGED <<writer, accepted>>
  BY <1>2 DEF Both!FinishEvent, Both!Asks
<1>4. answers'[1] = answers'[2]
  BY <1>3
<1>5. CASE durable.row[e].state = "CLAIMED" /\ durable.row[e].worker = w
  <2>1. durable.row[e] # Both!NoRow /\ durable.row[e] \in StoreRows
    BY <1>1, <1>5, RowShape DEF StoreStates
  <2>2. r \in StoreRows
    BY <2>1 DEF Both!Row, StoreRows, StoreStates
  <2>3. p.store = [durable EXCEPT !.row[e] = r]
    <3>1. p = Both!Finished(durable, e, state)
      BY <1>5 DEF Both!PostgresFinish
    <3>2. p.store = [durable EXCEPT !.row[e] = Both!Row(state, None, 0, @.attempts)]
      BY <3>1 DEF Both!Finished, Both!Does
    <3>. QED BY <1>1, <3>2
  <2>. QED BY <1>3, <1>4, <2>1, <2>2, <2>3, RowWritten
<1>6. CASE ~(durable.row[e].state = "CLAIMED" /\ durable.row[e].worker = w)
  <2>1. p.store = durable
    BY <1>6 DEF Both!PostgresFinish, Both!Does
  <2>. QED BY <1>1, <1>3, <1>4, <2>1, StoreUntouched
<1>. QED BY <1>5, <1>6

(* A writer reads the cursor as it is, and may be overtaken.                 *)
LEMMA GetCheckpointStep ==
  ASSUME Both!StoresAssumption, NoneIsNothing, StoresInv, NEW w \in Writer, NEW now \in Clock,
         Both!GetAccountCheckpoint(w, now)
  PROVE  StoresInv'
<1>. DEFINE revision == IF durable.cursor = None THEN 1 ELSE durable.cursor.revision + 1
            value == [cursor |-> w, checkedAt |-> now, revision |-> revision]
<1>1. durable \in Contents /\ now \in Nat
  BY DEF StoresInv, StoreTyped, Both!StoresAssumption
<1>2. /\ writer' = [writer EXCEPT ![w] = value]
      /\ UNCHANGED <<durable, memory, answers, accepted>>
  BY DEF Both!GetAccountCheckpoint
<1>3. revision \in Nat
  <2>1. durable.cursor # None => durable.cursor.revision \in Nat
    BY <1>1, StoreShape DEF Checkpoints
  <2>. QED BY <2>1
<1>4. value \in Checkpoints
  BY <1>1, <1>3 DEF Checkpoints
<1>5. WritersKnow'
  <2>1. writer \in [Writer -> {None} \cup Checkpoints]
    BY DEF StoresInv, WritersKnow
  <2>2. writer' \in [Writer -> {None} \cup Checkpoints]
    BY <1>2, <1>4, <2>1
  <2>3. ASSUME durable.cursor = None, NEW x \in Writer, writer'[x] # None
        PROVE  writer'[x].revision = 1
    BY <1>2, <2>1, <2>3 DEF StoresInv, WritersKnow
  <2>. QED BY <1>2, <2>2, <2>3 DEF StoresInv, WritersKnow
<1>6. StoreTyped' /\ RowsHaveEvents' /\ AcceptedBehind' /\ Both!CursorNotForked'
  BY <1>2 DEF StoresInv, StoreTyped, RowsHaveEvents, AcceptedBehind, Both!CursorNotForked,
              Both!Identity, Both!NoRow
<1>. QED BY <1>2, <1>5, <1>6 DEF StoresInv

(* What was accepted lies behind the cursor, so the next write cannot fork   *)
(* it; a write that is repeated is told again that it is there.              *)
LEMMA PutCheckpointStep ==
  ASSUME NoneIsNothing, StoresInv, NEW w \in Writer, NEW arrives \in BOOLEAN,
         Both!PutAccountCheckpoint(w, arrives)
  PROVE  StoresInv'
<1>. DEFINE value == writer[w]
            k == durable.cursor
            p == Both!PostgresPut(durable, value)
<1>1. /\ durable \in Contents /\ memory = durable /\ RowsHaveEvents
      /\ writer \in [Writer -> {None} \cup Checkpoints] /\ accepted \subseteq Checkpoints
      /\ AcceptedBehind /\ Both!CursorNotForked
      /\ k = None => accepted = {} /\ \A x \in Writer : writer[x] # None => writer[x].revision = 1
  BY DEF StoresInv, StoreTyped, WritersKnow, AcceptedBehind
<1>2. /\ value # None /\ Both!Asks(p, Both!MemoryPut(memory, value))
      /\ accepted' = IF arrives /\ answers'[1] = TRUE THEN accepted \cup {value} ELSE accepted
      /\ writer' \in (IF arrives THEN {[writer EXCEPT ![w] = None]}
                      ELSE {writer, [writer EXCEPT ![w] = None]})
  BY DEF Both!PutAccountCheckpoint
<1>3. value \in Checkpoints /\ (k = None => value.revision = 1)
  BY <1>1, <1>2
<1>4. /\ p = Both!MemoryPut(durable, value)
      /\ \/ /\ p = Both!Write(durable, value)
            /\ k # None => k.revision + 1 = value.revision /\ k.checkedAt <= value.checkedAt
         \/ k # None /\ p = Both!Does(durable, k = value)
  BY <1>1, <1>3, PutAlike
<1>5. durable' = p.store /\ memory' = p.store /\ answers' = <<p.answer, p.answer>>
  BY <1>1, <1>2, <1>4 DEF Both!Asks
<1>6. answers'[1] = answers'[2] /\ answers'[1] = p.answer
  BY <1>5
<1>7. writer' \in [Writer -> {None} \cup Checkpoints]
  BY <1>1, <1>2
<1>8. /\ value.revision \in Nat /\ value.checkedAt \in Nat
      /\ \A a \in accepted : a.revision \in Nat /\ a.checkedAt \in Nat
      /\ k # None => k \in Checkpoints /\ k.revision \in Nat /\ k.checkedAt \in Nat
  BY <1>1, <1>3, StoreShape DEF Checkpoints
<1>9. accepted' \subseteq accepted \cup {value} /\ accepted' \subseteq Checkpoints
  BY <1>1, <1>2, <1>3
<1>10. \A a \in accepted :
         /\ a.revision <= k.revision /\ a.checkedAt <= k.checkedAt
         /\ a.revision = k.revision => a = k
  BY <1>1 DEF AcceptedBehind
<1>11. CASE p = Both!Write(durable, value)
             /\ (k # None => k.revision + 1 = value.revision /\ k.checkedAt <= value.checkedAt)
  <2>1. durable' = [durable EXCEPT !.cursor = value]
    BY <1>5, <1>11 DEF Both!Write, Both!Does
  <2>2. /\ durable' \in Contents /\ durable'.cursor = value
        /\ durable'.row = durable.row /\ durable'.events = durable.events
    BY <1>1, <1>3, <2>1 DEF Contents
  <2>3. StoreTyped' /\ RowsHaveEvents'
    BY <1>1, <1>5, <2>2 DEF StoreTyped, RowsHaveEvents, Both!Identity, Both!NoRow
  <2>4. WritersKnow'
    BY <1>2, <1>7, <2>2 DEF WritersKnow
  <2>5. \A a \in accepted : a.revision < value.revision /\ a.checkedAt <= value.checkedAt
    <3>1. CASE k = None
      BY <1>1, <3>1
    <3>2. CASE k # None
      BY <1>8, <1>10, <1>11, <3>2
    <3>. QED BY <3>1, <3>2
  <2>6. AcceptedBehind'
    BY <1>8, <1>9, <2>2, <2>5 DEF AcceptedBehind
  <2>7. Both!CursorNotForked'
    BY <1>1, <1>8, <1>9, <2>5 DEF Both!CursorNotForked
  <2>. QED BY <1>6, <2>3, <2>4, <2>6, <2>7 DEF StoresInv
<1>12. CASE k # None /\ p = Both!Does(durable, k = value)
  <2>1. durable' = durable /\ memory' = durable' /\ p.answer = (k = value)
    BY <1>5, <1>12 DEF Both!Does
  <2>2. StoreTyped' /\ RowsHaveEvents'
    BY <1>1, <2>1 DEF StoreTyped, RowsHaveEvents, Both!Identity, Both!NoRow
  <2>3. WritersKnow'
    BY <1>7, <1>12, <2>1 DEF WritersKnow
  <2>4. accepted' \subseteq accepted \cup {k}
    <3>1. CASE k = value
      BY <1>9, <3>1
    <3>2. CASE k # value
      <4>1. answers'[1] = FALSE
        BY <1>6, <2>1, <3>2
      <4>. QED BY <1>2, <4>1
    <3>. QED BY <3>1, <3>2
  <2>5. AcceptedBehind'
    BY <1>8, <1>9, <1>10, <1>12, <2>1, <2>4 DEF AcceptedBehind
  <2>6. Both!CursorNotForked'
    BY <1>1, <1>8, <1>10, <1>12, <2>4 DEF Both!CursorNotForked
  <2>. QED BY <1>6, <2>2, <2>3, <2>5, <2>6 DEF StoresInv
<1>. QED BY <1>4, <1>11, <1>12

LEMMA StoresStep ==
  ASSUME Both!StoresAssumption, NoneIsNothing, StoresInv, [Both!Next]_(Both!vars)
  PROVE  StoresInv'
<1>1. CASE \E d \in Deliveries : Both!RecordEvent(d)
  BY <1>1, RecordEventStep
<1>2. CASE \E now \in Clock :
             \/ Both!List(now)
             \/ \E e \in Both!Identity, w \in Worker : Both!ClaimEvent(e, w, now)
             \/ \E w \in Writer : Both!GetAccountCheckpoint(w, now)
  BY <1>2, ListStep, ClaimEventStep, GetCheckpointStep
<1>3. CASE \E e \in Both!Identity, w \in Worker, state \in {"PROCESSED", "FAILED"} :
             Both!FinishEvent(e, w, state)
  BY <1>3, FinishEventStep
<1>4. CASE \E w \in Writer, arrives \in BOOLEAN : Both!PutAccountCheckpoint(w, arrives)
  BY <1>4, PutCheckpointStep
<1>5. CASE UNCHANGED Both!vars
  <2>1. /\ durable' = durable /\ memory' = memory /\ answers' = answers
        /\ UNCHANGED <<writer, accepted>>
    BY <1>5 DEF Both!vars
  <2>2. answers'[1] = answers'[2]
    BY <2>1 DEF StoresInv
  <2>. QED BY <2>1, <2>2, StoreUntouched
<1>. QED BY <1>1, <1>2, <1>3, <1>4, <1>5 DEF Both!Next

(* Whatever calls are made, in any order, by any workers and writers, with    *)
(* writes repeated whose answer was lost: the in-memory store and PostgreSQL *)
(* answer alike and hold the same, one writer is told it wrote a revision,   *)
(* and the cursor's time never goes back.                                    *)
THEOREM StoresAreAlike ==
  ASSUME Both!StoresAssumption, NoneIsNothing
  PROVE  Both!Spec => [](Both!StoresAgree /\ Both!CursorNotForked)
<1>1. Both!Init => StoresInv
  <2>. SUFFICES ASSUME Both!Init PROVE StoresInv
    OBVIOUS
  <2>1. /\ durable = Both!Empty /\ memory = durable /\ answers = <<None, None>>
        /\ writer = [w \in Writer |-> None] /\ accepted = {}
    BY DEF Both!Init
  <2>2. /\ durable \in Contents /\ durable.events = {} /\ durable.cursor = None
        /\ \A e \in Both!Identity : durable.row[e] = Both!NoRow
    BY <2>1 DEF Both!Empty, Contents
  <2>. QED BY <2>1, <2>2 DEF StoresInv, StoreTyped, RowsHaveEvents, WritersKnow, AcceptedBehind,
                             Both!CursorNotForked
<1>2. StoresInv /\ [Both!Next]_(Both!vars) => StoresInv'
  BY StoresStep
<1>3. StoresInv => Both!StoresAgree /\ Both!CursorNotForked
  BY DEF StoresInv, StoreTyped, Both!StoresAgree
<1>. QED BY <1>1, <1>2, <1>3, PTL DEF Both!Spec
=============================================================================
