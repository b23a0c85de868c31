------------------------------- MODULE Escrow -------------------------------
(***************************************************************************)
(* One cell, one command at a time: the serial behaviour of the kernel over *)
(* the cell's event stream.  Each action is a command handler of            *)
(* state-machine.ts run through the frame of kernel.ts, its events appended *)
(* to the authoritative stream.  The kernel owns no clock: "now" is any     *)
(* timestamp, also one before the last event's, since a command reads its   *)
(* clock before it is ordered against other commands (see                   *)
(* CommandExecution, which implements this module).                         *)
(***************************************************************************)
EXTENDS CellKernel, FiniteSets

CONSTANT Terms   \* the terms CreateCell commands offer, valid or not

ASSUME TermsAssumption == Terms \subseteq TermsType

VARIABLES
  stream,   \* the cell's committed events
  state     \* the state the kernel folds out of them

vars == <<stream, state>>

(* A stream is empty, or begins with a CellCreated written before acceptance *)
(* existed: that event lacks acceptanceRequired and folds to ACCEPTED.       *)
Init ==
  \/ stream = <<>> /\ state = InitialState
  \/ \E terms \in Terms, at \in Time :
       /\ CanCreateCell(InitialState, terms, TRUE)
       /\ stream = <<CellCreated(terms, FALSE, at)>>
       /\ state = EventFolder(InitialState, CellCreated(terms, FALSE, at))

Emit(event) ==
  /\ IsOpen(state)
  /\ stream' = Append(stream, event)
  /\ state' = EventFolder(state, event)

CreateCell(terms, textOk, now) ==
  /\ CanCreateCell(state, terms, textOk)
  /\ Emit(CellCreated(terms, TRUE, now))

AcceptCell(by, now) ==
  /\ CanAcceptCell(state, by, now)
  /\ Emit(SimpleEvent("CellAccepted", by, now))

RejectCell(by, now) ==
  /\ CanRejectCell(state, by)
  /\ Emit(SimpleEvent("CellRejected", by, now))

FundCell(by, amount, now) ==
  /\ CanFundCell(state, by, amount, now)
  /\ Emit(CellFunded(by, amount, now))

RequestRelease(by, now) ==
  /\ CanRequestRelease(state, by)
  /\ Emit(SimpleEvent("ReleaseRequested", by, now))

ApproveRelease(by, now) ==
  /\ CanApproveRelease(state, by)
  /\ Emit(SimpleEvent("Released", by, now))

RequestRefund(by, now) ==
  /\ CanRequestRefund(state, by)
  /\ Emit(SimpleEvent("RefundRequested", by, now))

ApproveRefund(by, now) ==
  /\ CanApproveRefund(state, by)
  /\ Emit(SimpleEvent("Refunded", by, now))

ForceRefund(by, now) ==
  /\ CanForceRefund(state, by, now)
  /\ Emit(SimpleEvent("Refunded", by, now))

ExpireCell(by, now) ==
  /\ CanExpireCell(state, now)
  /\ Emit(SimpleEvent("CellExpired", by, now))

OpenDispute(by, now) ==
  /\ CanOpenDispute(state, by, now)
  /\ Emit(SimpleEvent("DisputeOpened", by, now))

(* Broken: the settlement is emitted ahead of the resolution that orders it. *)
ResolveDisputeSwapped(by, favourOf, now) ==
  LET resolved == DisputeResolved(by, favourOf, now)
      settled == SimpleEvent(Settlement(favourOf), by, now)
  IN /\ IsOpen(state)
     /\ CanResolveDispute(state, by)
     /\ stream' = Append(Append(stream, settled), resolved)
     /\ state' = EventFolder(EventFolder(state, settled), resolved)

(* Two events of one command: the resolution and the settlement it orders. *)
ResolveDispute(by, favourOf, now) ==
  LET resolved == DisputeResolved(by, favourOf, now)
      settled == SimpleEvent(Settlement(favourOf), by, now)
  IN /\ IsOpen(state)
     /\ CanResolveDispute(state, by)
     /\ stream' = Append(Append(stream, resolved), settled)
     /\ state' = EventFolder(EventFolder(state, resolved), settled)

Next ==
  \E now \in Time :
    \/ \E terms \in Terms, textOk \in BOOLEAN : CreateCell(terms, textOk, now)
    \/ \E by \in Actor :
         \/ AcceptCell(by, now)
         \/ RejectCell(by, now)
         \/ \E amount \in Amount : FundCell(by, amount, now)
         \/ RequestRelease(by, now)
         \/ ApproveRelease(by, now)
         \/ RequestRefund(by, now)
         \/ ApproveRefund(by, now)
         \/ ForceRefund(by, now)
         \/ ExpireCell(by, now)
         \/ OpenDispute(by, now)
         \/ \E favourOf \in {"payer", "payee"} : ResolveDispute(by, favourOf, now)

Spec == Init /\ [][Next]_vars

-----------------------------------------------------------------------------
(* Properties.                                                               *)

TypeOK ==
  /\ stream \in Seq(Event)
  /\ state \in CellState

Count(type) == Cardinality({i \in DOMAIN stream : stream[i].type = type})
FromEnd(n) == stream[Len(stream) - n]

(* The kernel can read back what it writes: no command emits a stream that   *)
(* evolve refuses (an event behind the one that closes the cell), and the    *)
(* state it computed for the command is the one evolve will reconstruct.     *)
StreamReadable == Evolve(stream) = state

(* A release carries the word of both parties, or of the arbiter answering a *)
(* party's dispute; a refund the payer's request and the payee's approval,   *)
(* the arbiter's, or the payer's own after the completion deadline.  This is *)
(* about handleApproveRelease, handleApproveRefund, handleForceRefund and    *)
(* handleResolveDispute together with the requests that precede them.        *)
AwardedBy(favourOf) ==
  /\ FromEnd(0).by = state.arbiter
  /\ FromEnd(1) = DisputeResolved(state.arbiter, favourOf, FromEnd(0).at)
  /\ \E i \in 1 .. Len(stream) - 2 :
       stream[i].type = "DisputeOpened" /\ stream[i].by \in {state.payer, state.payee}
SettlementAuthorised ==
  /\ state.status = "RELEASED" =>
       \/ AwardedBy("payee")
       \/ \E i \in 1 .. Len(stream) - 1 :
            /\ stream[i].type = "ReleaseRequested"
            /\ {stream[i].by, FromEnd(0).by} = {state.payer, state.payee}
  /\ state.status = "REFUNDED" =>
       \/ AwardedBy("payer")
       \/ FromEnd(0).by = state.payer /\ FromEnd(0).at > state.completionDeadline
       \/ /\ FromEnd(0).by = state.payee
          /\ \E i \in 1 .. Len(stream) - 1 :
               stream[i].type = "RefundRequested" /\ stream[i].by = state.payer

(* No double funding, no double settlement, no amount mismatch, nothing      *)
(* after a terminal event: the list of docs/base-sepolia-contract-design.md. *)
ClosingEvent == {"Released", "Refunded", "CellExpired"}
MoneyMovesOnce ==
  /\ Count("CellCreated") <= 1
  /\ Count("CellFunded") <= 1
  /\ \A i \in DOMAIN stream :
       /\ stream[i].type \in ClosingEvent => i = Len(stream)
       /\ stream[i].type \in {"Released", "Refunded"} => Count("CellFunded") = 1
       /\ stream[i].type = "CellExpired" => Count("CellFunded") = 0
       /\ stream[i].type = "CellFunded" => stream[i].amount = stream[1].terms.amount

(* Money enters only by the payer, inside the funding window, after the      *)
(* payee accepted inside that window (unless the cell predates acceptance)   *)
(* and never after a rejection.                                              *)
FundingFollowsAcceptance ==
  \A i \in DOMAIN stream : stream[i].type = "CellFunded" =>
    /\ stream[i].by = stream[1].terms.payer
    /\ stream[i].at <= stream[1].terms.fundingDeadline
    /\ \/ ~stream[1].acceptanceRequired
       \/ \E j \in 2 .. i - 1 :
            /\ stream[j].type = "CellAccepted"
            /\ stream[j].by = stream[1].terms.payee
            /\ stream[j].at <= stream[1].terms.fundingDeadline
    /\ \A j \in DOMAIN stream : stream[j].type # "CellRejected"

(* The history of a cell is sound, whatever the handlers of state-machine.ts *)
(* were asked: money moves in once, after acceptance, and out once.          *)
HistorySound == MoneyMovesOnce /\ FundingFollowsAcceptance

(* No money is trapped: an open cell can always be closed by one actor alone *)
(* once time has passed, without the consent of the counterparty: by anyone  *)
(* before funding, by the payer after it, by the arbiter in a dispute.       *)
ExitExists ==
  state.payer # NoActor /\ IsOpen(state) =>
    \/ CanExpireCell(state, state.fundingDeadline + 1)
    \/ CanForceRefund(state, state.payer, state.completionDeadline + 1)
    \/ state.arbiter \in Actor \ {state.payer, state.payee}
       /\ CanResolveDispute(state, state.arbiter)

(* Once a dispute is open only its arbiter moves the cell: no pending        *)
(* request can be approved and no deadline refunds past the arbiter.         *)
DisputeFreezes ==
  [][state.status = "DISPUTED" => (FromEnd(0).by)' = state.arbiter]_vars

(* The terms both parties saw are the terms the cell settles under: no event *)
(* of the stream, funding included, rewrites them.                           *)
TermsOf(s) == <<s.payer, s.payee, s.arbiter, s.amount, s.fundingDeadline, s.completionDeadline>>
TermsImmutable ==
  [][state.payer # NoActor => TermsOf(state') = TermsOf(state)]_vars

(* The cell implements the two-of-three escrow: the money is in escrow while *)
(* FUNDED or DISPUTED, with the payee once RELEASED, else with the payer.    *)
deal == [payer |-> state.payer, payee |-> state.payee, arbiter |-> state.arbiter,
         timelock |-> state.completionDeadline]
agreed == state.payer # NoActor /\ state.acceptanceStatus = "ACCEPTED"
holder == IF state.status \in {"FUNDED", "DISPUTED"} THEN "escrow"
          ELSE IF state.status = "RELEASED" THEN "payee" ELSE "payer"
closed == ~IsOpen(state)
consent == [d \in {"payer", "payee"} |->
              (IF d = "payee" THEN {state.releaseRequestedBy}
               ELSE {state.refundRequestedBy}) \ {NoActor}]
seised == state.status = "DISPUTED"
paidAt == IF state.status \in {"RELEASED", "REFUNDED"} THEN FromEnd(0).at ELSE Never
Custody == INSTANCE TwoOfThreeEscrow
ImplementsCustody == Custody!Spec
=============================================================================
