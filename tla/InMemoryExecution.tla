-------------------------- MODULE InMemoryExecution --------------------------
(***************************************************************************)
(* The cell application over the in-memory adapters                         *)
(* (InMemoryPersistenceAdapter).  The handler is CommandExecution's; the     *)
(* stores are objects in one process: commands of one id wait in a chain of *)
(* promises, a write takes effect where it is made and nothing is rolled    *)
(* back.  A step runs up to the next await.                                  *)
(***************************************************************************)
EXTENDS CommandExecution

CONSTANTS
  Reports,       \* observations of disputes that may be recorded
  Findings,      \* dispositions that may be appended: version, status, outcome
  None           \* no transaction, no digest: what the model leaves out

ReportsAssumption == \A o \in Reports : o.version \in Nat

VARIABLES
  tails,         \* per command id, the requests that run or wait, in order
  observations,  \* InMemoryFundingDisputeStore: what was recorded
  negatives,     \* InMemoryProviderFoundationStore: the cells with a reversal
  dispositions   \* per cell, those of its reversal

memory == <<vars, tails, observations, negatives, dispositions>>
evidence == <<observations, negatives, dispositions>>

MemoryInit ==
  /\ Init
  /\ tails = [id \in CommandId |-> <<>>]
  /\ observations = {} /\ negatives = {}
  /\ dispositions = [c \in Cell |-> {}]

IdOf(w) == worker[w].req.id
TurnIgnored(w) == TRUE   \* broken: commands of an id do not wait
Turn(w) == Head(tails[IdOf(w)]) = w
Left(w) == tails' = [tails EXCEPT ![IdOf(w)] = Tail(@)]

-----------------------------------------------------------------------------
(* execute: chained behind the calls of the same id; its turn once they have *)
(* settled, when the records decide.                                         *)
Execute(w, r, now) ==
  /\ Receive(w, r, now)
  /\ tails' = [tails EXCEPT ![r.id] = Append(@, w)]
  /\ UNCHANGED evidence

LookUp(w) ==
  LET record == ledger[IdOf(w)]
      own == Fingerprint(worker[w].req, worker[w].now)
  IN /\ worker[w].pc = "begin" /\ Turn(w)
     /\ IF record = Absent
        THEN worker' = [worker EXCEPT ![w].pc = "load"] /\ UNCHANGED <<replies, tails>>
        ELSE /\ Answer(w, IF record.fingerprint = own THEN record.result
                          ELSE [outcome |-> "IDEMPOTENCY_CONFLICT", version |-> 0])
             /\ Left(w)
     /\ UNCHANGED <<tables, negative, snapshot, sent, evidence>>

GetEvents(w) == LoadCell(w) /\ UNCHANGED <<tails, evidence>>

-----------------------------------------------------------------------------
(* The disputes and the reversals.                                           *)
IsBlockingFundingDispute(outcome) == outcome # "FUNDS_RETAINED"

HasBlockingDispute(c) ==
  \E o \in observations :
    /\ o.cell = c /\ IsBlockingFundingDispute(o.outcome)
    /\ \A q \in observations : q.dispute = o.dispute => q.version <= o.version

Lifts(d) == d.status \in {"RESOLVED", "CLOSED"} /\ d.outcome = "FUNDS_RETAINED"
HasBlockingNegativeForCell(c) ==
  /\ c \in negatives
  /\ \A d \in dispositions[c] :
       (\A e \in dispositions[c] : e.version <= d.version) => ~Lifts(d)

Blocked(c) == HasBlockingDispute(c) \/ HasBlockingNegativeForCell(c)

CheckBlocked(w) ==
  /\ worker[w].pc = "check"
  /\ worker' = [worker EXCEPT ![w] =
       IF Blocked(CellOf(w))
       THEN [@ EXCEPT !.pc = "commit", !.outcome = "FUNDING_DISPUTE_BLOCKED"]
       ELSE Decided(@)]
  /\ UNCHANGED <<tables, negative, snapshot, sent, replies, tails, evidence>>

(* record: one cell per dispute, one observation per version of it, and an   *)
(* outcome that fits the status.                                             *)
Record(o) ==
  /\ o.status \in {"OPEN", "UNDER_REVIEW"} <=> o.outcome = "PENDING"
  /\ \A q \in observations : q.dispute = o.dispute => q.cell = o.cell /\ q.version # o.version
  /\ observations' = observations \cup {o}
  /\ UNCHANGED <<vars, tails, negatives, dispositions>>

AppendNegativeObservation(c) ==
  /\ c \notin negatives
  /\ negatives' = negatives \cup {c}
  /\ UNCHANGED <<vars, tails, observations, dispositions>>

AppendNegativeDisposition(c, d) ==
  /\ c \in negatives
  /\ d.version = Cardinality(dispositions[c]) + 1
  /\ d.status = "PENDING" <=> d.outcome = "PENDING"
  /\ dispositions' = [dispositions EXCEPT ![c] = @ \cup {d}]
  /\ UNCHANGED <<vars, tails, observations, negatives>>

-----------------------------------------------------------------------------
(* claim: kept from here on, whatever becomes of the command.                *)
ConflictsWith(c, left, d, right) == c = d \/ left.tx = right.tx \/ left.id = right.id

Claimed(w) ==
  LET new == [tx |-> worker[w].req.tx, id |-> IdOf(w)]
      taken == \E c \in Cell : receipt[c] # Absent /\ ConflictsWith(c, receipt[c], CellOf(w), new)
  IN IF taken
     THEN /\ worker' = [worker EXCEPT ![w].pc = "commit", ![w].outcome = "FUNDING_RECEIPT_CONFLICT"]
          /\ UNCHANGED receipt
     ELSE /\ worker' = [worker EXCEPT ![w].pc = "append"]
          /\ receipt' = [receipt EXCEPT ![CellOf(w)] = new]
Claim(w) ==
  /\ worker[w].pc = "claim"
  /\ Claimed(w)
  /\ UNCHANGED <<rows, ledger, author, negative, snapshot, sent, replies, tails, evidence>>

(* append: the batch begins at the next version of the stream, or nothing of *)
(* it is written.                                                            *)
StartsAtEnd(w) == FirstVersion(w) = Len(rows[CellOf(w)]) + 1
AppendBatch(w) ==
  LET c == CellOf(w)
      produced == worker[w].produced
  IN /\ worker[w].pc = "append"
     /\ IF StartsAtEnd(w)
        THEN /\ rows' = [rows EXCEPT ![c] = @ \o produced]
             /\ author' = [author EXCEPT ![c] = @ \o [i \in DOMAIN produced |-> IdOf(w)]]
             /\ worker' = [worker EXCEPT ![w].pc = "commit", ![w].outcome = "SUCCESS"]
        ELSE /\ worker' = [worker EXCEPT ![w].pc = "commit", ![w].outcome = "PERSISTENCE_FAILURE"]
             /\ UNCHANGED <<rows, author>>
     /\ UNCHANGED <<ledger, receipt, negative, snapshot, sent, replies, tails, evidence>>

(* The work has a result, a failure included: it is the record of the id.    *)
Settle(w) ==
  /\ worker[w].pc = "commit"
  /\ ledger' = [ledger EXCEPT ![IdOf(w)] =
       [fingerprint |-> Fingerprint(worker[w].req, worker[w].now), result |-> ResultOf(w)]]
  /\ IF worker[w].outcome = "SUCCESS"
     THEN worker' = [worker EXCEPT ![w].pc = "save"] /\ UNCHANGED replies
     ELSE Answer(w, ResultOf(w))
  /\ Left(w)
  /\ UNCHANGED <<rows, receipt, author, negative, snapshot, sent, evidence>>

(* save: the state the answer carries.                                       *)
StateSaved(w) == NextState(w)
Save(w) ==
  /\ worker[w].pc = "save"
  /\ snapshot' = [snapshot EXCEPT ![CellOf(w)] =
       [version |-> ResultOf(w).version, state |-> StateSaved(w)]]
  /\ Answer(w, ResultOf(w))
  /\ UNCHANGED <<tables, negative, sent, tails, evidence>>

-----------------------------------------------------------------------------
MemoryStep(w) ==
  \/ LookUp(w) \/ GetEvents(w) \/ CheckBlocked(w) \/ Claim(w)
  \/ AppendBatch(w) \/ Settle(w) \/ Save(w)

MemoryNext ==
  \/ \E w \in Worker :
       \/ \E r \in Requests, now \in Time : Execute(w, r, now)
       \/ MemoryStep(w)
  \/ \E o \in Reports : Record(o)
  \/ \E c \in Cell : \/ AppendNegativeObservation(c)
                     \/ \E d \in Findings : AppendNegativeDisposition(c, d)

MemorySpec == MemoryInit /\ [][MemoryNext]_memory

-----------------------------------------------------------------------------
(* Every variable has its type.                                              *)
MemoryTypeOK ==
  /\ TypeOK
  /\ \A id \in CommandId : \A i \in DOMAIN tails[id] :
       worker[tails[id][i]] # Idle /\ IdOf(tails[id][i]) = id
  /\ observations \subseteq Reports /\ negatives \subseteq Cell
  /\ \A c \in Cell : dispositions[c] \subseteq Findings

(* Exactly once, when no command of the id runs or waits: its events are all  *)
(* in the stream if its record says SUCCESS, and none of them if it does not. *)
OnceSettled == \A id \in CommandId : tails[id] = <<>> => Whole(id)

(* A funded cell has the receipt of its funding, and one provider's          *)
(* transaction funds one cell, though claims and appends interleave and      *)
(* nothing is undone.                                                        *)
FundingsHaveReceipts ==
  /\ \A c \in Cell : \A v \in DOMAIN rows[c] :
       rows[c][v].type = "CellFunded" => receipt[c] # Absent /\ receipt[c].id = author[c][v]
  /\ \A c, d \in Cell :
       receipt[c] # Absent /\ receipt[d] # Absent /\ receipt[c].tx = receipt[d].tx => c = d

(* "Implementations must commit the command result and every event and       *)
(* funding receipt written through the supplied transaction in one atomic    *)
(* unit" (command-execution-store.ts): a receipt of a command that has ended *)
(* has its event.                                                            *)
OneAtomicUnit ==
  \A c \in Cell : receipt[c] # Absent /\ receipt[c].id # Prelude =>
    \/ \E w \in Worker : worker[w] # Idle /\ IdOf(w) = receipt[c].id
    \/ \E v \in DOMAIN author[c] : author[c][v] = receipt[c].id

(* In memory a cell is blocked exactly when PostgreSQL's queries say so      *)
(* (hasBlockingDispute of PostgresFundingDisputeStore), whatever was reported *)
(* in which order.                                                           *)
InPostgres(c) == INSTANCE FundingDispute WITH
  Resolver <- {}, ReceiptAmount <- 0, Negatives <- {}, Proofs <- {}, Disputes <- {},
  MaxRequests <- 0, Funded <- None, capable <- {}, request <- <<>>, started <- <<>>,
  settlement <- "open", recorded <- {},
  reversals <- negatives \cap {c},
  disputes <- {o \in observations : o.cell = c},
  dispositions <- {[negative |-> c, version |-> d.version, status |-> d.status,
                    outcome |-> d.outcome] : d \in dispositions[c]}
BlockedAlike == \A c \in Cell : Blocked(c) <=> InPostgres(c)!HasBlockingDispute

(* The in-memory adapters keep what PostgreSQL's keep of commands that have   *)
(* ended: streams and snapshots, effects, receipts and answers; and they      *)
(* block the same settlements.                                               *)
MemorySound ==
  /\ MemoryTypeOK /\ StreamsIntact /\ SnapshotsSound
  /\ OnceSettled /\ FundingsHaveReceipts /\ AnswersDurable /\ BlockedAlike
=============================================================================
