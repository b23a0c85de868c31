----------------------- MODULE FundingReconciliation -----------------------
(***************************************************************************)
(* FundingReconciliationService over the PostgreSQL provider foundation:    *)
(* an operator creates routes, and several workers reconcile observations   *)
(* a provider delivers, possibly again.  Each statement is a transaction of *)
(* its own: record the observation, look up route and correlation, then     *)
(* either record a negative or correlate the transaction with the intent,   *)
(* then read and write the transaction's checkpoint.  A worker may fail or  *)
(* die between any two of them.  One provider and environment; the account  *)
(* scopes are kept apart because every key has the scope in it.             *)
(***************************************************************************)
EXTENDS Naturals, FiniteSets

CONSTANTS
  Worker,
  Intents,        \* immutable funding intents, written before
  Routes,         \* routes operators try to create
  Hints,          \* routes a caller passes along, created or not
  Observations,   \* what the provider may deliver
  MaxDeliveries,  \* bound: deliveries of one observation
  None

BoundAssumption == MaxDeliveries \in Nat
IntentAssumption == \A i, j \in Intents : i.id = j.id => i = j

VARIABLES
  routes, observations, correlations, negatives, checkpoints,
  worker,
  delivered,      \* per observation, how often it was delivered
  concluded,      \* history: observations whose checkpoint was written
  missed          \* history: looked up before any correlation, or interrupted
reconciliationVars == <<routes, observations, correlations, negatives, checkpoints, worker,
          delivered, concluded, missed>>

FundingObservationState ==
  {"PENDING", "SETTLED", "FUNDS_HELD", "RETURNED", "REVERSED", "REFUND", "DISPUTE",
   "FAILED", "CANCELLED", "REFUNDED", "DISPUTED", "UNKNOWN"}
ObservationAssumption ==
  \A o \in Observations : o.observedAt \in Nat /\ o.state \in FundingObservationState
IsNegative(s) ==
  s \in {"RETURNED", "REVERSED", "REFUND", "DISPUTE", "FAILED", "CANCELLED",
         "REFUNDED", "DISPUTED"}
IsFinancialNegative(s) ==
  s \in {"RETURNED", "REVERSED", "REFUND", "DISPUTE", "REFUNDED", "DISPUTED"}
NegativeKind(s) ==
  CASE s = "RETURNED" -> "RETURNED"
    [] s = "REVERSED" -> "REVERSAL"
    [] s \in {"DISPUTE", "DISPUTED"} -> "DISPUTE"
    [] OTHER -> "REFUND"
CheckpointRank(s) ==
  CASE s \in {"PENDING", "UNKNOWN"} -> 0
    [] s \in {"SETTLED", "FUNDS_HELD"} -> 1
    [] OTHER -> 2

HasValidFundingRoute(r) ==
  r.expectedAmount > 0 /\ (r.expiresAt # None => r.expiresAt >= r.createdAt)
HasValidFundingObservation(o) == o.amount > 0
RouteMatchesIntent(r, i) ==
  /\ r.intent = i.id /\ r.destination = i.destination /\ r.scope = i.scope
  /\ r.currency = i.currency /\ r.expectedAmount = i.amount
RouteFits(r, o) ==
  /\ r.status = "ACTIVE" /\ (r.expiresAt # None => o.observedAt <= r.expiresAt)
  /\ o.destination = r.destination /\ o.currency = r.currency
  /\ o.amount = r.expectedAmount /\ o.direction = "CREDIT"

ParentTransaction(o) == IF o.related = None THEN o.tx ELSE o.related
GetCorrelation(scope, tx) == {c \in correlations : c.scope = scope /\ c.tx = tx}
GetCheckpoint(scope, tx) == {c \in checkpoints : c.scope = scope /\ c.tx = tx}
GetRouteByIntent(intent) == {r \in routes : r.intent = intent}
FindRoute(o) == {r \in routes : r.scope = o.scope /\ r.destination = o.destination}
RouteFor(o, hint) == IF hint # None /\ hint.scope = o.scope THEN {hint} ELSE FindRoute(o)

(* A worker's call: its step, its input, and what it looked up so far.        *)
Idle == [pc |-> "idle", observation |-> None, hint |-> None,
         tx |-> None, intent |-> None, attempts |-> 0]
Move(w, pc) == worker' = [worker EXCEPT ![w].pc = pc]
Link(w, pc, tx, intent) ==
  worker' = [worker EXCEPT ![w] = [@ EXCEPT !.pc = pc, !.tx = tx, !.intent = intent]]
Attempt(w, n) == worker' = [worker EXCEPT ![w] = [@ EXCEPT !.pc = "write", !.attempts = n]]
Stop(w) == worker' = [worker EXCEPT ![w] = Idle]

ReconciliationInit ==
  /\ routes = {} /\ observations = {} /\ correlations = {} /\ negatives = {}
  /\ checkpoints = {} /\ concluded = {} /\ missed = {}
  /\ worker = [w \in Worker |-> Idle]
  /\ delivered = [o \in Observations |-> 0]

(* Unique: route id, intent, and destination within the scope. *)
RouteTaken(r) ==
  \E q \in routes : \/ q.id = r.id \/ q.intent = r.intent
                    \/ <<q.scope, q.destination>> = <<r.scope, r.destination>>
CreateRoute(r) ==
  /\ HasValidFundingRoute(r)
  /\ \E i \in Intents : RouteMatchesIntent(r, i)
  /\ ~RouteTaken(r)
  /\ routes' = routes \cup {r}
  /\ UNCHANGED <<observations, correlations, negatives, checkpoints, worker,
                 delivered, concluded, missed>>

Receive(w, o, hint) ==
  /\ worker[w] = Idle /\ delivered[o] < MaxDeliveries
  /\ HasValidFundingObservation(o)
  /\ worker' = [worker EXCEPT ![w] =
       [@ EXCEPT !.pc = "record", !.observation = o, !.hint = hint]]
  /\ delivered' = [delivered EXCEPT ![o] = @ + 1]
  /\ UNCHANGED <<routes, observations, correlations, negatives, checkpoints,
                 concluded, missed>>

ObservationKnown(o) == \E p \in observations : p.scope = o.scope /\ p.id = o.id
(* A second delivery, or another content under the same id, ends here. *)
RecordObservation(w) ==
  LET o == worker[w].observation IN
  /\ worker[w].pc = "record"
  /\ IF ObservationKnown(o) THEN Stop(w) /\ UNCHANGED observations
     ELSE Move(w, "lookup") /\ observations' = observations \cup {o}
  /\ UNCHANGED <<routes, correlations, negatives, checkpoints, delivered, concluded, missed>>

(* Correlations, routes and intents are only ever inserted. *)
LookUpNegative(w) ==
  LET o == worker[w].observation
      parent == ParentTransaction(o)
      linked == {c \in GetCorrelation(o.scope, parent) :
                   \E r \in GetRouteByIntent(c.intent) : r.scope = o.scope} IN
  /\ worker[w].pc = "lookup" /\ IsNegative(o.state)
  /\ \/ \E c \in linked :
          /\ Link(w, IF IsFinancialNegative(o.state) THEN "negative" ELSE "read", c.tx, c.intent)
          /\ UNCHANGED missed
     \/ linked = {} /\ Stop(w) /\ missed' = missed \cup {o}
  /\ UNCHANGED <<routes, observations, correlations, negatives, checkpoints,
                 delivered, concluded>>

LookUpCredit(w) ==
  LET o == worker[w].observation
      fitting == {r \in RouteFor(o, worker[w].hint) :
                    RouteFits(r, o) /\ \E i \in Intents : RouteMatchesIntent(r, i)} IN
  /\ worker[w].pc = "lookup" /\ ~IsNegative(o.state)
  /\ \/ \E r \in fitting : Link(w, "correlate", o.tx, r.intent)
     \/ fitting = {} /\ Stop(w)
  /\ UNCHANGED <<routes, observations, correlations, negatives, checkpoints,
                 delivered, concluded, missed>>

(* Broken: the checkpoint is written first, and the negative never if the   *)
(* worker dies then.                                                       *)
RecordNegativeLast(w) ==
  LET o == worker[w].observation IN
  /\ worker[w].pc = "negative"
  /\ checkpoints' = checkpoints \cup
       {[scope |-> o.scope, tx |-> worker[w].tx, state |-> o.state, attempts |-> 1,
         checkedAt |-> o.observedAt]}
  /\ Move(w, "read")
  /\ UNCHANGED <<routes, observations, correlations, negatives, delivered, concluded, missed>>

(* INSERT ON CONFLICT DO NOTHING; the service ignores the answer. *)
AppendNegativeObservation(n) ==
  negatives' = IF \E m \in negatives : m.scope = n.scope /\ m.observation = n.observation
               THEN negatives ELSE negatives \cup {n}
RecordNegative(w) ==
  LET o == worker[w].observation IN
  /\ worker[w].pc = "negative"
  /\ AppendNegativeObservation(
       [scope |-> o.scope, observation |-> o.id, tx |-> worker[w].tx,
        intent |-> worker[w].intent, kind |-> NegativeKind(o.state)])
  /\ Move(w, "read")
  /\ UNCHANGED <<routes, observations, correlations, checkpoints, delivered, concluded, missed>>

(* Unique within the scope: the transaction, and the intent.  Broken: only   *)
(* the transaction.                                                        *)
ClashingByTransaction(scope, tx, intent) == GetCorrelation(scope, tx)
Clashing(scope, tx, intent) ==
  {c \in correlations : c.scope = scope /\ (c.tx = tx \/ c.intent = intent)}
CorrelateTransaction(w) ==
  LET value == [scope |-> worker[w].observation.scope, tx |-> worker[w].tx,
                intent |-> worker[w].intent]
      clashing == Clashing(value.scope, value.tx, value.intent) IN
  /\ worker[w].pc = "correlate"
  /\ IF clashing \subseteq {value}
     THEN Move(w, "read") /\ correlations' = correlations \cup {value}
     ELSE Stop(w) /\ UNCHANGED correlations
  /\ UNCHANGED <<routes, observations, negatives, checkpoints, delivered, concluded, missed>>

ReadCheckpoint(w) ==
  LET prior == GetCheckpoint(worker[w].observation.scope, worker[w].tx) IN
  /\ worker[w].pc = "read"
  /\ \/ \E c \in prior : Attempt(w, c.attempts + 1)
     \/ prior = {} /\ Attempt(w, 1)
  /\ UNCHANGED <<routes, observations, correlations, negatives, checkpoints,
                 delivered, concluded, missed>>

Supersedes(old, new) ==
  old.checkedAt <= new.checkedAt /\ CheckpointRank(old.state) <= CheckpointRank(new.state)
UpsertCheckpoint(value) ==
  LET prior == GetCheckpoint(value.scope, value.tx) IN
  checkpoints' = IF \A old \in prior : Supersedes(old, value)
                 THEN (checkpoints \ prior) \cup {value} ELSE checkpoints
PutCheckpoint(w) ==
  LET o == worker[w].observation IN
  /\ worker[w].pc = "write"
  /\ UpsertCheckpoint([scope |-> o.scope, tx |-> worker[w].tx, state |-> o.state,
                       attempts |-> worker[w].attempts, checkedAt |-> o.observedAt])
  /\ concluded' = concluded \cup {o}
  /\ Stop(w)
  /\ UNCHANGED <<routes, observations, correlations, negatives, delivered, missed>>

(* A statement throws, or the process dies: the statements so far stand. *)
Interrupt(w) ==
  /\ worker[w].pc \notin {"idle", "record"}
  /\ missed' = missed \cup {worker[w].observation}
  /\ Stop(w)
  /\ UNCHANGED <<routes, observations, correlations, negatives, checkpoints,
                 delivered, concluded>>

ReconciliationNext ==
  \/ \E r \in Routes : CreateRoute(r)
  \/ \E w \in Worker :
       \/ \E o \in Observations, hint \in Hints \cup {None} : Receive(w, o, hint)
       \/ RecordObservation(w) \/ LookUpNegative(w) \/ LookUpCredit(w)
       \/ RecordNegative(w) \/ CorrelateTransaction(w)
       \/ ReadCheckpoint(w) \/ PutCheckpoint(w) \/ Interrupt(w)
ReconciliationSpec == ReconciliationInit /\ [][ReconciliationNext]_reconciliationVars

-----------------------------------------------------------------------------
(* Rows and requests have their shape; keys are unique. *)
ReconciliationTypeOK ==
  /\ routes \subseteq Routes /\ observations \subseteq Observations
  /\ \A o, p \in observations : (o.scope = p.scope /\ o.id = p.id) => o = p
  /\ \A c, d \in checkpoints : (c.scope = d.scope /\ c.tx = d.tx) => c = d
  /\ \A c \in checkpoints : c.state \in FundingObservationState /\ c.attempts >= 1
  /\ \A w \in Worker : worker[w].pc \in {"idle", "record", "lookup", "negative",
                                         "correlate", "read", "write"}

(* Rows keep their shape and keys, and whatever routes were created or passed *)
(* as a hint, and in whatever order workers ran: an account correlates each  *)
(* intent with one transaction and each transaction with one intent, and the *)
(* provider was seen to credit exactly the intent's amount to the intent's   *)
(* destination in it.                                                        *)
CorrelationsJustified ==
  /\ ReconciliationTypeOK
  /\ \A c \in correlations :
       /\ \A d \in correlations :
            (c.scope = d.scope /\ (c.tx = d.tx \/ c.intent = d.intent)) => c = d
       /\ \E o \in observations, i \in Intents :
            /\ i.id = c.intent /\ i.scope = c.scope /\ o.scope = c.scope /\ o.tx = c.tx
            /\ o.direction = "CREDIT" /\ o.destination = i.destination
            /\ o.amount = i.amount /\ o.currency = i.currency

(* The states in which the payer has, or claims, the money again. *)
MoneyTakenBack == {"RETURNED", "REVERSED", "REFUND", "REFUNDED", "DISPUTE", "DISPUTED"}

(* A checkpoint that says the money went back is never on record without the *)
(* negative that blocks the settlement, wherever a worker died.              *)
NegativeBeforeCheckpoint ==
  \A c \in checkpoints : c.state \in MoneyTakenBack =>
    \E n \in negatives : n.scope = c.scope /\ n.tx = c.tx

(* Workers that read and write the same checkpoint concurrently, with older  *)
(* and newer observations: the row ends up no older than any observation     *)
(* they finished with, unless it stands for a further stage of the payment.  *)
CheckpointNotBehind ==
  \A o \in concluded : \E c \in checkpoints :
    /\ c.scope = o.scope /\ c.tx \in {o.tx, o.related}
    /\ o.observedAt <= c.checkedAt \/ CheckpointRank(o.state) < CheckpointRank(c.state)

(* Every recorded reversal leads to a negative of its kind against the       *)
(* intent its transaction paid, unless the worker died first or no           *)
(* correlation existed when it looked: redelivery does not help then, since  *)
(* the second delivery is a duplicate.                                       *)
ReversalsReported ==
  \A o \in observations : o.state \in MoneyTakenBack =>
    \/ o \in missed
    \/ \E w \in Worker : worker[w].pc # "idle" /\ worker[w].observation = o
    \/ \E n \in negatives, c \in GetCorrelation(o.scope, ParentTransaction(o)) :
         /\ n.observation = o.id /\ n.scope = o.scope /\ n.tx = c.tx /\ n.intent = c.intent
         /\ n.kind = NegativeKind(o.state)

(* What a reversal leaves: the negative, before any checkpoint tells of it,  *)
(* and a checkpoint that does not fall behind.                               *)
ReversalsRecorded == NegativeBeforeCheckpoint /\ CheckpointNotBehind /\ ReversalsReported
=============================================================================
