-------------------------- MODULE PrototypeFunding --------------------------
(***************************************************************************)
(* The development route that funds a cell without a provider               *)
(* (handlePrototypeFunding): an intent is opened for the command id, its    *)
(* evidence is issued and verified in the process, and FundCell is executed *)
(* as the gateway.  Requests repeat a command id, also at once, and the     *)
(* cell is accepted, settled or expires in between.                         *)
(***************************************************************************)
EXTENDS Naturals, Optional

CONSTANTS
  Request,
  Sent,        \* per request: the actor, the command id and the cell it asks for
  Terms,       \* per cell: payer, payee, funding deadline
  MaxTime      \* bound

VARIABLES
  now, cells,     \* per cell: status and acceptance
  intents,        \* funding_intents
  receipts,       \* funding_receipts
  executions,     \* per command id: fingerprint and result
  request,        \* per request, where it stands
  succeeded       \* history: per request, the commands that had succeeded when it began
prototypeVars == <<now, cells, intents, receipts, executions, request, succeeded>>

Cell == DOMAIN Terms
PrototypeAssumption ==
  /\ MaxTime \in Nat /\ \A r \in Request : Sent[r].cell \in Cell
  /\ \A c \in Cell : Terms[c].deadline \in Nat
  /\ None \notin {"SUCCESS", "KERNEL_REJECTION"}
Command == {Sent[r].command : r \in Request}
NotExecuted == [result |-> None]
PrototypeInit ==
  /\ now = 0 /\ intents = {} /\ receipts = {}
  /\ cells = [c \in Cell |-> [status |-> "CREATED", acceptance |-> "PENDING"]]
  /\ executions = [k \in Command |-> NotExecuted]
  /\ request = [r \in Request |-> [pc |-> "idle"]]
  /\ succeeded = [r \in Request |-> {}]

(* The cell's own life: the kernel's other commands.                         *)
Tick == now < MaxTime /\ now' = now + 1 /\ UNCHANGED <<cells, intents, receipts, executions, request, succeeded>>
Live ==
  /\ \E c \in Cell :
       \/ /\ cells[c] = [status |-> "CREATED", acceptance |-> "PENDING"]
          /\ \E a \in {"ACCEPTED", "REJECTED"} : cells' = [cells EXCEPT ![c].acceptance = a]
       \/ /\ cells[c].status = "CREATED" /\ now > Terms[c].deadline
          /\ cells' = [cells EXCEPT ![c].status = "EXPIRED"]
       \/ /\ cells[c].status = "FUNDED"
          /\ cells' = [cells EXCEPT ![c].status = "RELEASED"]
  /\ UNCHANGED <<now, intents, receipts, executions, request, succeeded>>

---------------------------------------------------------------------------
Proceed(r, next) == request' = [request EXCEPT ![r] = next]
Answer(r, outcome) == Proceed(r, [pc |-> "answered", outcome |-> outcome])
Pure == UNCHANGED <<now, cells, intents, receipts, executions, succeeded>>
IntentOf(r) == {i \in intents : i.id = Sent[r].command}
At(r, pc) == request[r].pc = pc

(* The actor is resolved.  Any await of a request may fail from here on; a
   cell that cannot be read is answered as evidence that is invalid.         *)
ResolveActorPrincipal(r) ==
  /\ At(r, "idle")
  /\ succeeded' = [succeeded EXCEPT ![r] = {k \in Command : executions[k].result = "SUCCESS"}]
  /\ \/ Proceed(r, [pc |-> "cell"])
     \/ \E o \in {"UNAUTHENTICATED", "COMMAND_NOT_PERMITTED"} : Answer(r, o)
  /\ UNCHANGED <<now, cells, intents, receipts, executions>>
Fail(r) ==
  /\ request[r].pc \in {"cell", "intent", "open", "insert", "reread", "fund"}
  /\ Answer(r, IF At(r, "cell") THEN "CELL_UNREADABLE" ELSE "FAILURE") /\ Pure

LoadCell(r) ==
  LET t == Terms[Sent[r].cell] IN
  /\ At(r, "cell")
  /\ IF Sent[r].actor = t.payer THEN Proceed(r, [pc |-> "intent"])
     ELSE Answer(r, IF Sent[r].actor = t.payee THEN "COMMAND_NOT_PERMITTED" ELSE "CELL_NOT_FOUND")
  /\ Pure

(* What the stored intent says is compared with the cell; it is what the     *)
(* evidence is issued for.                                                   *)
MatchesCell(r, i) ==
  /\ i.cell = Sent[r].cell
  /\ i.payer = Terms[Sent[r].cell].payer /\ i.payee = Terms[Sent[r].cell].payee
Continue(r) ==
  IF \E i \in IntentOf(r) : MatchesCell(r, i)
  THEN \E i \in IntentOf(r) : Proceed(r, [pc |-> "fund", intent |-> i])
  ELSE Answer(r, "FUNDING_EVIDENCE_INVALID")
GetFundingIntent(r) ==
  /\ At(r, "intent")
  /\ IF IntentOf(r) = {} THEN Proceed(r, [pc |-> "open"]) ELSE Continue(r)
  /\ Pure

(* createFundingIntent: the cell is read again, then the intent inserted.  Of
   two intents of one id the second is a duplicate only if it is identical. *)
Draft(r) ==
  LET t == Terms[Sent[r].cell] IN
  [id |-> Sent[r].command, cell |-> Sent[r].cell, payer |-> t.payer, payee |-> t.payee,
   createdAt |-> now, expires |-> t.deadline]
CreateFundingIntent(r) ==
  /\ At(r, "open")
  /\ IF cells[Sent[r].cell].status = "CREATED" /\ Terms[Sent[r].cell].deadline > now
     THEN Proceed(r, [pc |-> "insert", draft |-> Draft(r)])
     ELSE Answer(r, "FUNDING_EVIDENCE_INVALID")
  /\ Pure
InsertIntent(r) ==
  LET i == request[r].draft IN
  /\ At(r, "insert")
  /\ IF IntentOf(r) = {} THEN Proceed(r, [pc |-> "reread"]) /\ intents' = intents \cup {i}
     ELSE /\ UNCHANGED intents
          /\ IF i \in intents THEN Continue(r) ELSE Answer(r, "FUNDING_EVIDENCE_INVALID")
  /\ UNCHANGED <<now, cells, receipts, executions, succeeded>>
Reread(r) == At(r, "reread") /\ Continue(r) /\ Pure

---------------------------------------------------------------------------
(* issue, verify and the binding: the evidence is that of the intent, and is
   confirmed at the intent's creation.  Broken: it is confirmed now.         *)
ContextNow(r) ==
  [intent |-> request[r].intent.id, cell |-> Sent[r].cell, payer |-> Terms[Sent[r].cell].payer,
   transaction |-> Sent[r].command, confirmedAt |-> now]
Context(r) ==
  [intent |-> request[r].intent.id, cell |-> Sent[r].cell, payer |-> Terms[Sent[r].cell].payer,
   transaction |-> Sent[r].command, confirmedAt |-> request[r].intent.createdAt]

(* handleCommand: FundCell on the cell as it is now, its receipt and its
   result in one unit; the same command again is told the stored result.     *)
Fundable(c) == cells[c] = [status |-> "CREATED", acceptance |-> "ACCEPTED"] /\ now <= Terms[c].deadline
ReceiptOf(context, command) ==
  [cell |-> context.cell, command |-> command, intent |-> context.intent,
   transaction |-> context.transaction, confirmedAt |-> context.confirmedAt]
HandleCommand(r) ==
  LET k == Sent[r].command
      c == Sent[r].cell
      done == executions[k]
      result == IF Fundable(c) THEN "SUCCESS" ELSE "KERNEL_REJECTION" IN
  /\ At(r, "fund")
  /\ IF done # NotExecuted
     THEN /\ Answer(r, IF done.fingerprint = Context(r) THEN done.result ELSE "IDEMPOTENCY_CONFLICT")
          /\ UNCHANGED <<cells, receipts, executions>>
     ELSE /\ executions' = [executions EXCEPT ![k] = [fingerprint |-> Context(r), result |-> result]]
          /\ Answer(r, result) \/ Answer(r, "FAILURE")
          /\ IF result = "SUCCESS"
             THEN /\ cells' = [cells EXCEPT ![c].status = "FUNDED"]
                  /\ receipts' = receipts \cup {ReceiptOf(Context(r), k)}
             ELSE UNCHANGED <<cells, receipts>>
  /\ UNCHANGED <<now, intents, succeeded>>

PrototypeNext ==
  \/ Tick \/ Live
  \/ \E r \in Request :
       \/ ResolveActorPrincipal(r) \/ Fail(r) \/ LoadCell(r) \/ GetFundingIntent(r)
       \/ CreateFundingIntent(r) \/ InsertIntent(r) \/ Reread(r) \/ HandleCommand(r)
PrototypeSpec == PrototypeInit /\ [][PrototypeNext]_prototypeVars

---------------------------------------------------------------------------
PrototypeTypeOK ==
  /\ now <= MaxTime
  /\ \A i, j \in intents : i.id = j.id => i = j
  /\ \A r \in Request : At(r, "fund") => request[r].intent \in intents

(* A cell has a receipt exactly if money was taken for it: one receipt, of an
   intent opened for this cell and this payer while it could be funded.      *)
FundedByItsIntent ==
  /\ \A c \in Cell : cells[c].status \in {"FUNDED", "RELEASED"} <=> \E p \in receipts : p.cell = c
  /\ \A p, q \in receipts : p.cell = q.cell => p = q
  /\ \A p \in receipts : \E i \in intents :
       /\ i.id = p.intent /\ i.cell = p.cell
       /\ i.createdAt <= p.confirmedAt /\ p.confirmedAt < i.expires

(* Whoever asks, a cell is funded at the request of its payer.               *)
PayerAsked ==
  \A p \in receipts : \E r \in Request :
    Sent[r].command = p.command /\ Sent[r].cell = p.cell /\ Sent[r].actor = Terms[p.cell].payer

(* A repetition is recognised: the fingerprint of a command does not depend on
   when it is executed, so the same command is never told it is another one,
   and one begun after the success is told of it unless something it needs
   failed, whatever became of the cell and its deadline since.               *)
Same(q, r) == Sent[q].cell = Sent[r].cell /\ Sent[q].actor = Sent[r].actor
OnlyAsked(k) == \A q, r \in Request : Sent[q].command = k /\ Sent[r].command = k => Same(q, r)
RepetitionRecognised ==
  \A r \in Request : request[r].pc = "answered" =>
    /\ request[r].outcome # "IDEMPOTENCY_CONFLICT"
    /\ Sent[r].command \in succeeded[r] /\ OnlyAsked(Sent[r].command)
         => request[r].outcome \in {"SUCCESS", "FAILURE", "CELL_UNREADABLE",
                                    "UNAUTHENTICATED", "COMMAND_NOT_PERMITTED"}

(* A funding request, its repetition and others of the same or another cell, *)
(* interleaved at every await: a cell is funded by the intent of its own     *)
(* command, by its payer, and a repetition is told what the first was.       *)
PrototypeSound == PrototypeTypeOK /\ FundedByItsIntent /\ PayerAsked /\ RepetitionRecognised
=============================================================================
