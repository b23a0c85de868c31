-------------------------- MODULE CommandExecution --------------------------
(***************************************************************************)
(* How concurrent requests become events: CellApplication.handleCommand     *)
(* over the PostgreSQL adapters.  A worker is one request in flight on some *)
(* replica; it reads its replica's clock, then runs one READ COMMITTED      *)
(* transaction, a statement at a time: claim the command id in the ledger,  *)
(* load and evolve the cell, lock the funding receipt and look for provider *)
(* disputes (settlements), claim a funding receipt (FundCell), append the   *)
(* events, record the result and commit.  A snapshot is saved after the     *)
(* commit, outside the transaction.  Any statement can fail, a commit can   *)
(* take effect and its acknowledgement be lost, a replica can crash         *)
(* anywhere, and clients send the same request again.                       *)
(*                                                                          *)
(* Other transactions see a table only as of its last commit, but wait for  *)
(* an open transaction that holds the row or the unique key they need.      *)
(***************************************************************************)
EXTENDS CellKernel, FiniteSets

CONSTANTS
  Worker,        \* requests in flight at once
  Cell,
  CommandId,
  ProviderTx,    \* identities of transactions at the payment provider
  Requests,      \* the authorised requests clients send
  InitialRows,   \* per cell, the event streams it may start with
  MaxSends,      \* bound: how often a request is sent
  Absent         \* a row that is not there

ASSUME RequestAssumption ==
  \A r \in Requests : r.id \in CommandId /\ r.cell \in Cell
                      /\ (r.command.type = "FundCell" => r.tx \in ProviderTx)
ASSUME BoundAssumption == MaxSends \in Nat

VARIABLES
  rows,       \* events: per cell, version -> event
  ledger,     \* command_executions: per command id, [fingerprint, result]
  receipt,    \* funding_receipts: per cell, [tx, id]
  negative,   \* a provider's dispute or reversal of the cell's funding
  snapshot,   \* snapshots: per cell, [version, state]
  worker,
  author,     \* history: per cell, version -> the command id that appended it
  sent,       \* history: per request, how often it was sent
  replies     \* history: what clients were told, failures left out

vars == <<rows, ledger, receipt, negative, snapshot, worker, author, sent, replies>>
tables == <<rows, ledger, receipt, author>>

CLOCK_ALIGNED_COMMANDS == {"ExpireCell", "ForceRefund", "OpenDispute"}
FINANCIAL_SETTLEMENT_COMMANDS ==
  {"ApproveRelease", "ApproveRefund", "ForceRefund", "ResolveDispute"}

(* The fingerprint covers the command after alignDeadlineCommandTime put the *)
(* clock reading into the payload of a clock-aligned command.                *)
Fingerprint(r, now) ==
  <<r, IF r.command.type \in CLOCK_ALIGNED_COMMANDS THEN now ELSE Never>>

Rejected == {"KERNEL_REJECTION", "FUNDING_DISPUTE_BLOCKED", "FUNDING_RECEIPT_CONFLICT"}
Outcome == {"SUCCESS", "IDEMPOTENCY_CONFLICT", "PERSISTENCE_FAILURE"} \cup Rejected

Idle == [pc |-> "idle"]
Received(r, now) ==
  [pc |-> "begin", req |-> r, now |-> now, loaded |-> <<>>, produced |-> <<>>,
   locked |-> FALSE, outcome |-> "PERSISTENCE_FAILURE"]

InTransaction(w) == worker[w].pc \in {"load", "check", "claim", "append", "commit", "abort"}
CellOf(w) == worker[w].req.cell
TypeOf(w) == worker[w].req.command.type

FirstVersion(w) == Len(worker[w].loaded) + 1
ResultingVersion(loaded, produced) == Len(loaded) + Len(produced)
NextState(w) == Fold(Evolve(worker[w].loaded), worker[w].produced)
ResultOf(w) ==
  [outcome |-> worker[w].outcome,
   version |-> IF worker[w].outcome = "SUCCESS"
               THEN ResultingVersion(worker[w].loaded, worker[w].produced) ELSE 0]

(* Rows and locks of open transactions. *)
HoldsCommand(w, id) == InTransaction(w) /\ worker[w].req.id = id
HoldsReceipt(w, c) == InTransaction(w) /\ worker[w].locked /\ CellOf(w) = c
HoldsRows(w, c) ==
  worker[w].pc = "commit" /\ worker[w].outcome = "SUCCESS" /\ CellOf(w) = c
HoldsClaim(w) ==
  /\ worker[w].pc \in {"append", "commit", "abort"}
  /\ worker[w].pc = "commit" => worker[w].outcome = "SUCCESS"
  /\ TypeOf(w) = "FundCell"
NegativeHoldsReceipt(c) == negative[c].phase = "open" /\ negative[c].locked

NoNegative == [phase |-> "none", locked |-> FALSE]

(* Cells begin with a prelude no command of this run wrote.  A funded one    *)
(* has the receipt of its funding.                                           *)
Prelude == "prelude"
Init ==
  /\ rows \in [Cell -> UNION {InitialRows[c] : c \in Cell}]
  /\ \A c \in Cell : rows[c] \in InitialRows[c]
  /\ ledger = [id \in CommandId |-> Absent]
  /\ receipt = [c \in Cell |->
       IF \E v \in DOMAIN rows[c] : rows[c][v].type = "CellFunded"
       THEN [tx |-> <<Prelude, c>>, id |-> Prelude] ELSE Absent]
  /\ negative = [c \in Cell |-> NoNegative]
  /\ snapshot = [c \in Cell |-> Absent]
  /\ worker = [w \in Worker |-> Idle]
  /\ author = [c \in Cell |-> [v \in DOMAIN rows[c] |-> Prelude]]
  /\ sent = [r \in Requests |-> 0]
  /\ replies = {}

Failure == [outcome |-> "PERSISTENCE_FAILURE", version |-> 0]
Answer(w, result) ==
  /\ replies' = IF result = Failure THEN replies
                ELSE replies \cup {[fingerprint |-> Fingerprint(worker[w].req, worker[w].now),
                                    result |-> result]}
  /\ worker' = [worker EXCEPT ![w] = Idle]

-----------------------------------------------------------------------------
(* handleCommand up to the transaction: the clock is read here, and replicas *)
(* need not agree on the time.                                               *)
Receive(w, r, now) ==
  /\ worker[w].pc = "idle"
  /\ sent[r] < MaxSends
  /\ sent' = [sent EXCEPT ![r] = @ + 1]
  /\ worker' = [worker EXCEPT ![w] = Received(r, now)]
  /\ UNCHANGED <<tables, negative, snapshot, replies>>

(* BEGIN and INSERT INTO command_executions ... ON CONFLICT DO NOTHING: waits *)
(* for an open transaction with the same id; a committed one answers.         *)
ClaimCommand(w) ==
  LET id == worker[w].req.id
      row == ledger[id]
  IN /\ worker[w].pc = "begin"
     /\ \A v \in Worker \ {w} : ~HoldsCommand(v, id)
     /\ \/ /\ row = Absent
           /\ worker' = [worker EXCEPT ![w].pc = "load"]
           /\ UNCHANGED replies
        \/ /\ row # Absent
           /\ row.fingerprint = Fingerprint(worker[w].req, worker[w].now)
           /\ Answer(w, row.result)
        \/ /\ row # Absent
           /\ row.fingerprint # Fingerprint(worker[w].req, worker[w].now)
           /\ Answer(w, [outcome |-> "IDEMPOTENCY_CONFLICT", version |-> 0])
     /\ UNCHANGED <<tables, negative, snapshot, sent>>

(* The synchronous tail of a step: applyCommand on the loaded state, up to    *)
(* the next statement.                                                        *)
Decided(wk) ==
  LET produced == ApplyCommand(Evolve(wk.loaded), wk.req.command, wk.now)
  IN IF produced = <<>> THEN [wk EXCEPT !.pc = "commit", !.outcome = "KERNEL_REJECTION"]
     ELSE [wk EXCEPT !.produced = produced,
                     !.pc = IF wk.req.command.type = "FundCell" THEN "claim" ELSE "append"]

(* getEvents and evolve, which refuses a stream that is not intact. *)
LoadCell(w) ==
  LET loaded == [worker[w] EXCEPT !.loaded = rows[CellOf(w)]]
  IN /\ worker[w].pc = "load"
     /\ worker' = [worker EXCEPT ![w] =
          IF Evolve(rows[CellOf(w)]) = StreamError
          THEN [worker[w] EXCEPT !.pc = "commit", !.outcome = "KERNEL_REJECTION"]
          ELSE IF TypeOf(w) \in FINANCIAL_SETTLEMENT_COMMANDS
          THEN [loaded EXCEPT !.pc = "check"] ELSE Decided(loaded)]
     /\ UNCHANGED <<tables, negative, snapshot, sent, replies>>

(* hasBlockingDispute: SELECT ... FOR UPDATE on the cell's receipt, then look. *)
CheckDisputeUnlocked(w) ==   \* broken: looks without FOR UPDATE
  /\ worker[w].pc = "check"
  /\ worker' = [worker EXCEPT ![w] =
       IF negative[CellOf(w)].phase = "recorded"
       THEN [@ EXCEPT !.pc = "commit", !.outcome = "FUNDING_DISPUTE_BLOCKED"]
       ELSE Decided(@)]
  /\ UNCHANGED <<tables, negative, snapshot, sent, replies>>
CheckDispute(w) ==
  LET c == CellOf(w)
      holding == [worker[w] EXCEPT !.locked = (receipt[c] # Absent)]
  IN /\ worker[w].pc = "check"
     /\ receipt[c] # Absent =>
          ~NegativeHoldsReceipt(c) /\ \A v \in Worker \ {w} : ~HoldsReceipt(v, c)
     /\ worker' = [worker EXCEPT ![w] =
          IF negative[c].phase = "recorded"
          THEN [holding EXCEPT !.pc = "commit", !.outcome = "FUNDING_DISPUTE_BLOCKED"]
          ELSE Decided(holding)]
     /\ UNCHANGED <<tables, negative, snapshot, sent, replies>>

(* INSERT INTO funding_receipts ... ON CONFLICT DO NOTHING: one per cell, one *)
(* per provider transaction.                                                  *)
ReceiptTaken(w) ==
  \/ receipt[CellOf(w)] # Absent
  \/ \E c \in Cell : receipt[c] # Absent /\ receipt[c].tx = worker[w].req.tx
ClaimReceipt(w) ==
  /\ worker[w].pc = "claim"
  /\ \A v \in Worker \ {w} :
       HoldsClaim(v) => CellOf(v) # CellOf(w) /\ worker[v].req.tx # worker[w].req.tx
  /\ worker' = [worker EXCEPT ![w] =
       IF ReceiptTaken(w)
       THEN [@ EXCEPT !.pc = "commit", !.outcome = "FUNDING_RECEIPT_CONFLICT"]
       ELSE [@ EXCEPT !.pc = "append"]]
  /\ UNCHANGED <<tables, negative, snapshot, sent, replies>>

(* INSERT INTO events: the primary key (cell_id, version) decides.  After a   *)
(* violation the transaction is aborted: recording the result fails too.      *)
VersionIgnored(w) == FALSE   \* broken: ON CONFLICT DO NOTHING on events
VersionTaken(w) == FirstVersion(w) \in DOMAIN rows[CellOf(w)]
AppendEventsPatiently(w) ==   \* broken: waits for its version to be free
  /\ worker[w].pc = "append"
  /\ ~VersionTaken(w)
  /\ \A v \in Worker \ {w} : ~HoldsRows(v, CellOf(w))
  /\ worker' = [worker EXCEPT ![w].pc = "commit", ![w].outcome = "SUCCESS"]
  /\ UNCHANGED <<tables, negative, snapshot, sent, replies>>
AppendEvents(w) ==
  /\ worker[w].pc = "append"
  /\ \A v \in Worker \ {w} : ~HoldsRows(v, CellOf(w))
  /\ worker' = [worker EXCEPT ![w] =
       IF VersionTaken(w) THEN [@ EXCEPT !.pc = "abort"]
       ELSE [@ EXCEPT !.pc = "commit", !.outcome = "SUCCESS"]]
  /\ UNCHANGED <<tables, negative, snapshot, sent, replies>>

(* UPDATE command_executions and COMMIT: the result, the events and the       *)
(* receipt become visible together.                                           *)
InsertedOne(table, first, new) ==   \* broken: only the first row of a batch
  [v \in DOMAIN table \cup {first} |-> IF v \in DOMAIN table THEN table[v] ELSE new[1]]
Inserted(table, first, new) ==
  [v \in DOMAIN table \cup first .. first + Len(new) - 1 |->
     IF v \in DOMAIN table THEN table[v] ELSE new[v - first + 1]]
Publish(w) ==
  LET c == CellOf(w)
      id == worker[w].req.id
      first == FirstVersion(w)
  IN /\ ledger' = [ledger EXCEPT ![id] =
          [fingerprint |-> Fingerprint(worker[w].req, worker[w].now), result |-> ResultOf(w)]]
     /\ IF worker[w].outcome = "SUCCESS"
        THEN /\ rows' = [rows EXCEPT ![c] = Inserted(@, first, worker[w].produced)]
             /\ author' = [author EXCEPT ![c] =
                  Inserted(@, first, [i \in DOMAIN worker[w].produced |-> id])]
        ELSE UNCHANGED <<rows, author>>
     /\ IF HoldsClaim(w)
        THEN receipt' = [receipt EXCEPT ![c] = [tx |-> worker[w].req.tx, id |-> id]]
        ELSE UNCHANGED receipt

Commit(w) ==
  /\ worker[w].pc = "commit"
  /\ Publish(w)
  /\ IF worker[w].outcome = "SUCCESS"
     THEN worker' = [worker EXCEPT ![w].pc = "save"] /\ UNCHANGED replies
     ELSE Answer(w, ResultOf(w))
  /\ UNCHANGED <<negative, snapshot, sent>>

(* The commit took effect, its acknowledgement did not arrive. *)
CommitUnacknowledged(w) ==
  /\ worker[w].pc = "commit"
  /\ Publish(w)
  /\ Answer(w, Failure)
  /\ UNCHANGED <<negative, snapshot, sent>>

(* ROLLBACK after an aborted or a failed statement. *)
RollBackAcknowledging(w) ==   \* broken: answers the result that was not committed
  /\ worker[w].pc = "begin" \/ InTransaction(w)
  /\ Answer(w, ResultOf(w))
  /\ UNCHANGED <<tables, negative, snapshot, sent>>
RollBackKeepingReceipt(w) ==   \* broken: the receipt was claimed outside the transaction
  /\ worker[w].pc = "begin" \/ InTransaction(w)
  /\ Answer(w, Failure)
  /\ receipt' = IF HoldsClaim(w)
                THEN [receipt EXCEPT ![CellOf(w)] =
                        [tx |-> worker[w].req.tx, id |-> worker[w].req.id]]
                ELSE receipt
  /\ UNCHANGED <<rows, ledger, author, negative, snapshot, sent>>
RollBack(w) ==
  /\ worker[w].pc = "begin" \/ InTransaction(w)
  /\ Answer(w, Failure)
  /\ UNCHANGED <<tables, negative, snapshot, sent>>

(* The snapshot upsert; its errors are swallowed. *)
SaveSnapshot(w) ==
  /\ worker[w].pc = "save"
  /\ snapshot' \in {snapshot, [snapshot EXCEPT ![CellOf(w)] =
       [version |-> ResultOf(w).version, state |-> NextState(w)]]}
  /\ Answer(w, ResultOf(w))
  /\ UNCHANGED <<tables, negative, sent>>

(* The replica dies: PostgreSQL rolls the open transaction back and the      *)
(* client hears nothing.                                                     *)
Crash(w) ==
  /\ worker[w].pc # "idle"
  /\ worker' = [worker EXCEPT ![w] = Idle]
  /\ UNCHANGED <<tables, negative, snapshot, sent, replies>>

-----------------------------------------------------------------------------
(* A provider reversal arrives: appendNegativeObservation locks the receipt   *)
(* if there is one yet, inserts and commits.  At most one per cell.           *)
OpenNegative(c) ==
  /\ negative[c].phase = "none"
  /\ \A w \in Worker : ~HoldsReceipt(w, c)
  /\ negative' = [negative EXCEPT ![c] = [phase |-> "open", locked |-> receipt[c] # Absent]]
  /\ UNCHANGED <<tables, snapshot, worker, sent, replies>>

RecordNegative(c) ==
  /\ negative[c].phase = "open"
  /\ negative' = [negative EXCEPT ![c].phase = "recorded"]
  /\ UNCHANGED <<tables, snapshot, worker, sent, replies>>

(* A later disposition (FUNDS_RETAINED) lifts the block; it needs the receipt. *)
LiftNegative(c) ==
  /\ negative[c].phase = "recorded"
  /\ receipt[c] # Absent
  /\ \A w \in Worker : ~HoldsReceipt(w, c)
  /\ negative' = [negative EXCEPT ![c].phase = "lifted"]
  /\ UNCHANGED <<tables, snapshot, worker, sent, replies>>

WorkerStep(w) ==
  \/ ClaimCommand(w) \/ LoadCell(w) \/ CheckDispute(w) \/ ClaimReceipt(w)
  \/ AppendEvents(w) \/ Commit(w) \/ SaveSnapshot(w)
  \/ worker[w].pc = "abort" /\ RollBack(w)

Next ==
  \/ \E w \in Worker :
       \/ \E r \in Requests, now \in Time : Receive(w, r, now)
       \/ ClaimCommand(w) \/ LoadCell(w) \/ CheckDispute(w) \/ ClaimReceipt(w)
       \/ AppendEvents(w) \/ Commit(w) \/ CommitUnacknowledged(w) \/ RollBack(w)
       \/ SaveSnapshot(w) \/ Crash(w)
  \/ \E c \in Cell : OpenNegative(c) \/ RecordNegative(c) \/ LiftNegative(c)

Spec == Init /\ [][Next]_vars

(* A request keeps taking its next statement unless the replica dies, and     *)
(* PostgreSQL grants row and key waits in order: a wait that ends again and   *)
(* again is not lost forever.  Nothing forces a client to send, a statement   *)
(* to fail, a replica to crash or a provider to reverse.                      *)
FairSpec ==
  /\ Spec
  /\ \A w \in Worker : SF_vars(WorkerStep(w))
  /\ \A c \in Cell : WF_vars(RecordNegative(c))

-----------------------------------------------------------------------------
(* Properties.                                                               *)

(* The tables, the requests in flight and the answers have their types. *)
Result == [outcome : Outcome, version : Nat]
WorkerState ==
  [pc : {"begin", "load", "check", "claim", "append", "commit", "abort", "save"},
   req : Requests, now : Time, loaded : Seq(Event), produced : Seq(Event),
   locked : BOOLEAN, outcome : Outcome]
TypeOK ==
  /\ \A c \in Cell : rows[c] \in Seq(Event)
  /\ \A id \in CommandId :
       ledger[id] # Absent =>
         /\ ledger[id].fingerprint \in Requests \X (Time \cup {Never})
         /\ ledger[id].result \in Result
  /\ \A c \in Cell : snapshot[c] # Absent =>
       snapshot[c].version \in Nat \ {0} /\ snapshot[c].state \in CellState
  /\ \A w \in Worker : worker[w] = Idle \/ worker[w] \in WorkerState
  /\ negative \in [Cell -> [phase : {"none", "open", "recorded", "lifted"}, locked : BOOLEAN]]
  /\ replies \subseteq [fingerprint : Requests \X (Time \cup {Never}), result : Result]

(* Commands decided on the same loaded version never fork, gap or overwrite  *)
(* the stream, nor write behind a terminal event: evolve accepts every       *)
(* committed stream, whatever the interleaving of PostgresEventStore.append. *)
StreamsIntact == \A c \in Cell : Evolve(rows[c]) # StreamError

(* Exactly once: a command's events are in its cell's stream, contiguous and *)
(* complete, if the ledger says SUCCESS, and none of them anywhere if it does *)
(* not.  Retries, lost acknowledgements and crashes of handleCommand neither  *)
(* repeat nor split an effect.                                                *)
Written(id) == UNION {{c} \X {v \in DOMAIN author[c] : author[c][v] = id} : c \in Cell}
Emitted(type) == IF type = "ResolveDispute" THEN 2 ELSE 1
Whole(id) ==
  IF ledger[id] = Absent \/ ledger[id].result.outcome # "SUCCESS" THEN Written(id) = {}
  ELSE LET r == ledger[id].fingerprint[1]
           last == ledger[id].result.version
       IN Written(id) = {r.cell} \X (last - Emitted(r.command.type) + 1 .. last)
ExactlyOnce == \A id \in CommandId : Whole(id)

(* Money and evidence agree: a cell has a receipt exactly when it was funded, *)
(* from the command that funded it, and one provider transaction funds one    *)
(* cell: the claim in executeOnce and the append succeed or vanish together.  *)
ReceiptBacksFunding ==
  /\ \A c \in Cell :
       {author[c][v] : v \in {v \in DOMAIN rows[c] : rows[c][v].type = "CellFunded"}}
         = IF receipt[c] = Absent THEN {} ELSE {receipt[c].id}
  /\ \A c, d \in Cell :
       receipt[c] # Absent /\ receipt[d] # Absent /\ receipt[c].tx = receipt[d].tx => c = d

(* What a client was told is durable: an answer other than a failure is what *)
(* the ledger holds for that very request, now and for every later retry.    *)
AnswersDurable ==
  \A a \in replies :
    LET row == ledger[a.fingerprint[1].id]
    IN IF a.result.outcome = "IDEMPOTENCY_CONFLICT"
       THEN row # Absent /\ row.fingerprint # a.fingerprint
       ELSE row = a

(* A snapshot, though saved after the commit and in any order, is a state the *)
(* cell really had: never ahead of the events, never a rolled-back state      *)
(* (docs/production-backup.md, restore verification).                         *)
SnapshotsSound ==
  \A c \in Cell : snapshot[c] # Absent =>
    /\ snapshot[c].version <= Len(rows[c])
    /\ snapshot[c].state = Evolve(SubSeq(rows[c], 1, snapshot[c].version))

(* Every command has its whole effect once or none, and the receipts are     *)
(* those of the fundings.                                                    *)
EffectsSound == ExactlyOnce /\ ReceiptBacksFunding

(* What is stored is sound, whatever commands, crashes and retries did to it: *)
(* of its type, readable by evolve, and remembered by snapshots as it was.    *)
StoresSound == TypeOK /\ StreamsIntact /\ SnapshotsSound

(* Once a reversal of a cell's funding is recorded, no settlement commits,   *)
(* even one whose hasBlockingDispute looked before the reversal arrived.  The *)
(* receipt row is what orders the two; a reversal opened before the cell had *)
(* a receipt locks nothing and is not covered.                               *)
Settles(c) ==
  /\ rows[c]' # rows[c]
  /\ Evolve(rows[c]').status \in {"RELEASED", "REFUNDED"}
UnsettledWhileBlocked ==
  \A c \in Cell : negative[c].phase = "recorded" /\ negative[c].locked => ~Settles(c)
BlockedStaysUnsettled == [][UnsettledWhileBlocked]_vars

(* No request hangs: the ledger, receipt and event waits never form a cycle   *)
(* and every wait ends, so that a request is answered unless its replica dies. *)
RequestsEnd == \A w \in Worker : (worker[w].pc # "idle") ~> (worker[w].pc = "idle")

(* "same commandId and content replays without duplicate events"             *)
(* (src/application/cell-application.test.ts): only another content under the *)
(* same id conflicts.                                                        *)
RetryReplays ==
  \A a \in replies :
    a.result.outcome = "IDEMPOTENCY_CONFLICT" =>
      ledger[a.fingerprint[1].id].fingerprint[1] # a.fingerprint[1]
=============================================================================
