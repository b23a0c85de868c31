----------------------------- MODULE CellKernel -----------------------------
(***************************************************************************)
(* The deterministic escrow kernel: what src/kernel/state-machine.ts and    *)
(* the execution frame src/kernel/kernel.ts compute, as operators without   *)
(* state.  A cell is the record that the kernel folds out of an event       *)
(* stream; a handler is the conjunction of the checks it passes before it   *)
(* emits.  Error codes and texts are abstracted: a rejected command emits   *)
(* nothing.  Versions are positions in the stream, so that the version an   *)
(* event gets is where it lands.                                            *)
(***************************************************************************)
EXTENDS Integers, Sequences

CONSTANTS
  Actor,     \* actor identities
  NoActor,   \* an absent optional actor, and the '' of an unborn cell's payer
  Amount,    \* amounts a command may carry, in minor units
  Time       \* timestamps a clock may read

ASSUME ActorAssumption == NoActor \notin Actor
ASSUME AmountAssumption == Amount \subseteq Nat
ASSUME TimeAssumption == Time \subseteq Nat

Never == -1   \* the timestamp of what has not happened

TERMINAL_STATUSES == {"RELEASED", "REFUNDED", "EXPIRED"}
CellStatus == {"CREATED", "FUNDED", "DISPUTED"} \cup TERMINAL_STATUSES
AcceptanceStatus == {"PENDING", "ACCEPTED", "REJECTED"}

TermsType == [payer : Actor, payee : Actor, arbiter : Actor \cup {NoActor},
              amount : Amount, fundingDeadline : Nat, completionDeadline : Nat]

CellState == [status : CellStatus, acceptanceStatus : AcceptanceStatus,
              payer : Actor \cup {NoActor}, payee : Actor \cup {NoActor},
              arbiter : Actor \cup {NoActor}, amount : Amount \cup {1},
              fundingDeadline : Nat, completionDeadline : Nat,
              fundedAt : Time \cup {Never},
              releaseRequestedBy : Actor \cup {NoActor},
              refundRequestedBy : Actor \cup {NoActor}]

-----------------------------------------------------------------------------
(* Events.  "at" is the timestamp the frame stamps on an event, and the      *)
(* currentTime of the payloads that carry one: the application aligns them.  *)

SimpleEventType == {"CellAccepted", "CellRejected", "ReleaseRequested", "Released",
                    "RefundRequested", "Refunded", "CellExpired", "DisputeOpened"}

Event ==
  [type : SimpleEventType, by : Actor, at : Time]
  \cup [type : {"CellCreated"}, by : Actor, at : Time, terms : TermsType,
        acceptanceRequired : BOOLEAN]
  \cup [type : {"CellFunded"}, by : Actor, at : Time, amount : Amount]
  \cup [type : {"DisputeResolved"}, by : Actor, at : Time, favourOf : {"payer", "payee"}]

SimpleEvent(type, by, now) == [type |-> type, by |-> by, at |-> now]
CellCreated(terms, required, now) ==
  [type |-> "CellCreated", by |-> terms.payer, at |-> now, terms |-> terms,
   acceptanceRequired |-> required]
CellFunded(by, amount, now) ==
  [type |-> "CellFunded", by |-> by, at |-> now, amount |-> amount]
DisputeResolved(by, favourOf, now) ==
  [type |-> "DisputeResolved", by |-> by, at |-> now, favourOf |-> favourOf]
(* Broken: the refund event is misnamed. *)
SettlementMisnamed(favourOf) == IF favourOf = "payee" THEN "Released" ELSE "Refund"
Settlement(favourOf) == IF favourOf = "payee" THEN "Released" ELSE "Refunded"

-----------------------------------------------------------------------------
(* Folding.                                                                  *)

InitialState ==
  [status |-> "CREATED", acceptanceStatus |-> "PENDING",
   payer |-> NoActor, payee |-> NoActor, arbiter |-> NoActor, amount |-> 1,
   fundingDeadline |-> 0, completionDeadline |-> 0, fundedAt |-> Never,
   releaseRequestedBy |-> NoActor, refundRequestedBy |-> NoActor]

CreatedState(e) ==
  [status |-> "CREATED",
   acceptanceStatus |-> IF e.acceptanceRequired THEN "PENDING" ELSE "ACCEPTED",
   payer |-> e.terms.payer, payee |-> e.terms.payee, arbiter |-> e.terms.arbiter,
   amount |-> e.terms.amount, fundingDeadline |-> e.terms.fundingDeadline,
   completionDeadline |-> e.terms.completionDeadline, fundedAt |-> Never,
   releaseRequestedBy |-> NoActor, refundRequestedBy |-> NoActor]

StatusAfter == [CellFunded |-> "FUNDED", DisputeOpened |-> "DISPUTED",
                Released |-> "RELEASED", Refunded |-> "REFUNDED", CellExpired |-> "EXPIRED"]
AcceptanceAfter == [CellAccepted |-> "ACCEPTED", CellRejected |-> "REJECTED"]

(* DisputeResolved, in no branch, leaves the state to the settlement after it. *)
EventFolder(s, e) ==
  IF e.type = "CellCreated" THEN CreatedState(e)
  ELSE [status |-> IF e.type \in DOMAIN StatusAfter THEN StatusAfter[e.type] ELSE s.status,
        acceptanceStatus |->
          IF e.type \in DOMAIN AcceptanceAfter THEN AcceptanceAfter[e.type]
          ELSE s.acceptanceStatus,
        payer |-> s.payer, payee |-> s.payee, arbiter |-> s.arbiter,
        amount |-> IF e.type = "CellFunded" THEN e.amount ELSE s.amount,
        fundingDeadline |-> s.fundingDeadline, completionDeadline |-> s.completionDeadline,
        fundedAt |-> IF e.type = "CellFunded" THEN e.at ELSE s.fundedAt,
        releaseRequestedBy |->
          IF e.type = "ReleaseRequested" THEN e.by ELSE s.releaseRequestedBy,
        refundRequestedBy |->
          IF e.type = "RefundRequested" THEN e.by ELSE s.refundRequestedBy]

Fold(s, events) ==
  LET after[n \in 0 .. Len(events)] ==
        IF n = 0 THEN s ELSE EventFolder(after[n - 1], events[n])
  IN after[Len(events)]

IsOpen(s) == s.status \notin TERMINAL_STATUSES

(* evolve: the fold, which refuses a gap or a duplicate in the versions and   *)
(* any event behind a terminal status.  "stream" maps versions to events.     *)
(* The set of one state binds s, so that TLC evaluates after[n - 1] once.     *)
StreamError == [status |-> "STREAM_INTEGRITY_ERROR"]
EvolveStep(s, e) == IF s.status \in TERMINAL_STATUSES \cup {StreamError.status}
                    THEN StreamError ELSE EventFolder(s, e)
Gapless(stream) == \A v \in DOMAIN stream : v = 1 \/ v - 1 \in DOMAIN stream
Evolve(stream) ==
  LET after[n \in 0 .. Len(stream)] ==
        IF n = 0 THEN InitialState
        ELSE CHOOSE t \in {EvolveStep(s, stream[n]) : s \in {after[n - 1]}} : TRUE
  IN IF Gapless(stream) THEN after[Len(stream)] ELSE StreamError

-----------------------------------------------------------------------------
(* Command handlers: what each accepts.  "by" is the actor field of the      *)
(* command's payload, "now" the context's clock or the aligned currentTime.  *)

(* Broken: a party can be the arbiter. *)
CanCreateCellAnyArbiter(s, terms, textOk) ==
  /\ s.payer = NoActor
  /\ terms.amount > 0
  /\ textOk
  /\ terms.fundingDeadline < terms.completionDeadline
  /\ terms.payer # terms.payee

(* textOk: currency is TRY and the description is bounded plain text. *)
CanCreateCell(s, terms, textOk) ==
  /\ s.payer = NoActor
  /\ terms.amount > 0
  /\ textOk
  /\ terms.fundingDeadline < terms.completionDeadline
  /\ terms.payer # terms.payee
  /\ terms.arbiter \notin {terms.payer, terms.payee}

CanAcceptCell(s, by, now) ==
  /\ s.status = "CREATED"
  /\ s.acceptanceStatus = "PENDING"
  /\ now <= s.fundingDeadline
  /\ by = s.payee

CanRejectCell(s, by) ==
  /\ s.status = "CREATED"
  /\ s.acceptanceStatus = "PENDING"
  /\ by = s.payee

(* Broken: a second funding, a partial funding. *)
CanFundCellAgain(s, by, amount, now) ==
  /\ s.status \in {"CREATED", "FUNDED"}
  /\ s.acceptanceStatus = "ACCEPTED"
  /\ now <= s.fundingDeadline
  /\ by = s.payer
  /\ amount = s.amount
CanFundCellPartly(s, by, amount, now) ==
  /\ s.status = "CREATED"
  /\ s.acceptanceStatus = "ACCEPTED"
  /\ now <= s.fundingDeadline
  /\ by = s.payer
  /\ amount <= s.amount

CanFundCell(s, by, amount, now) ==
  /\ s.status = "CREATED"
  /\ s.acceptanceStatus = "ACCEPTED"
  /\ now <= s.fundingDeadline
  /\ by = s.payer
  /\ amount = s.amount

CanRequestRelease(s, by) ==
  /\ s.status = "FUNDED"
  /\ by \in {s.payer, s.payee}
  /\ s.releaseRequestedBy = NoActor

(* Broken: the requester can approve. *)
CanApproveReleaseEither(s, by) ==
  /\ s.status = "FUNDED"
  /\ s.releaseRequestedBy # NoActor
  /\ by \in {s.payer, s.payee}

CanApproveRelease(s, by) ==
  /\ s.status = "FUNDED"
  /\ s.releaseRequestedBy # NoActor
  /\ \/ s.releaseRequestedBy = s.payer /\ by = s.payee
     \/ s.releaseRequestedBy = s.payee /\ by = s.payer

CanRequestRefund(s, by) ==
  /\ s.status = "FUNDED"
  /\ by = s.payer
  /\ s.refundRequestedBy = NoActor

(* Broken: an approval is honoured during a dispute. *)
CanApproveRefundOpen(s, by) ==
  /\ IsOpen(s)
  /\ by = s.payee
  /\ s.refundRequestedBy # NoActor

CanApproveRefund(s, by) ==
  /\ s.status = "FUNDED"
  /\ by = s.payee
  /\ s.refundRequestedBy # NoActor

(* Broken: the deadline itself counts as past. *)
CanForceRefundOnTime(s, by, now) ==
  /\ s.status = "FUNDED"
  /\ by = s.payer
  /\ now >= s.completionDeadline

CanForceRefund(s, by, now) ==
  /\ s.status = "FUNDED"
  /\ by = s.payer
  /\ now > s.completionDeadline

CanExpireCell(s, now) ==
  /\ s.payer # NoActor
  /\ s.status = "CREATED"
  /\ now > s.fundingDeadline

CanOpenDispute(s, by, now) ==
  /\ s.status = "FUNDED"
  /\ by \in {s.payer, s.payee}
  /\ s.arbiter # NoActor
  /\ now < s.completionDeadline

CanResolveDispute(s, by) ==
  /\ s.status = "DISPUTED"
  /\ s.arbiter # NoActor
  /\ by = s.arbiter

-----------------------------------------------------------------------------
(* The frame: a command against an evolved state.  A command is a record     *)
(* [type, by, ...]; <<>> is a kernel rejection.                              *)

Accepts(s, c, now) ==
  CASE c.type = "CreateCell" -> CanCreateCell(s, c.terms, c.textOk)
    [] c.type = "AcceptCell" -> CanAcceptCell(s, c.by, now)
    [] c.type = "RejectCell" -> CanRejectCell(s, c.by)
    [] c.type = "FundCell" -> CanFundCell(s, c.by, c.amount, now)
    [] c.type = "RequestRelease" -> CanRequestRelease(s, c.by)
    [] c.type = "ApproveRelease" -> CanApproveRelease(s, c.by)
    [] c.type = "RequestRefund" -> CanRequestRefund(s, c.by)
    [] c.type = "ApproveRefund" -> CanApproveRefund(s, c.by)
    [] c.type = "ForceRefund" -> CanForceRefund(s, c.by, now)
    [] c.type = "ExpireCell" -> CanExpireCell(s, now)
    [] c.type = "OpenDispute" -> CanOpenDispute(s, c.by, now)
    [] c.type = "ResolveDispute" -> CanResolveDispute(s, c.by)

SimpleEmission ==
  [AcceptCell |-> "CellAccepted", RejectCell |-> "CellRejected",
   RequestRelease |-> "ReleaseRequested", ApproveRelease |-> "Released",
   RequestRefund |-> "RefundRequested", ApproveRefund |-> "Refunded",
   ForceRefund |-> "Refunded", ExpireCell |-> "CellExpired",
   OpenDispute |-> "DisputeOpened"]

Emissions(c, now) ==
  CASE c.type = "CreateCell" -> <<CellCreated(c.terms, TRUE, now)>>
    [] c.type = "FundCell" -> <<CellFunded(c.by, c.amount, now)>>
    [] c.type = "ResolveDispute" ->
         <<DisputeResolved(c.by, c.favourOf, now),
           SimpleEvent(Settlement(c.favourOf), c.by, now)>>
    [] OTHER -> <<SimpleEvent(SimpleEmission[c.type], c.by, now)>>

ApplyCommand(s, c, now) ==
  IF IsOpen(s) /\ Accepts(s, c, now) THEN Emissions(c, now) ELSE <<>>
=============================================================================
