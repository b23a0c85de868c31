---------------------------- MODULE EscrowProofs ----------------------------
(***************************************************************************)
(* Theorems about the serial kernel (module Escrow), for every set of       *)
(* actors, amounts, times and offered terms: its invariants, what its        *)
(* histories tell, and that it implements TwoOfThreeEscrow.                  *)
(***************************************************************************)
EXTENDS Escrow, KernelProofs, FiniteSetTheorems

-----------------------------------------------------------------------------
(* The event constructors build events.                                      *)

(* What emission() stamps for a payload with an actor only is an event. *)
LEMMA SimpleIsEvent ==
  ASSUME NEW type \in SimpleEventType, NEW by \in Actor, NEW now \in Time
  PROVE  /\ SimpleEvent(type, by, now) \in Event
         /\ SimpleEvent(type, by, now).type = type
         /\ SimpleEvent(type, by, now).by = by
         /\ SimpleEvent(type, by, now).at = now
BY DEF SimpleEvent, Event

(* handleCreateCell's emission is an event. *)
LEMMA CreatedIsEvent ==
  ASSUME NEW terms \in TermsType, NEW required \in BOOLEAN, NEW now \in Time
  PROVE  CellCreated(terms, required, now) \in Event
BY DEF CellCreated, Event, TermsType

(* handleFundCell's emission is an event. *)
LEMMA FundedIsEvent ==
  ASSUME NEW by \in Actor, NEW amount \in Amount, NEW now \in Time
  PROVE  CellFunded(by, amount, now) \in Event
BY DEF CellFunded, Event

(* handleResolveDispute's first emission is an event. *)
LEMMA ResolvedIsEvent ==
  ASSUME NEW by \in Actor, NEW favourOf \in {"payer", "payee"}, NEW now \in Time
  PROVE  DisputeResolved(by, favourOf, now) \in Event
BY DEF DisputeResolved, Event

-----------------------------------------------------------------------------
(* The inductive invariant.  SettlementAuthorised is about the stream, the   *)
(* guards read the state: each pending request or dispute of the state must  *)
(* be on record in the stream, from an actor entitled to it.  ExitExists     *)
(* needs the parties of a living cell to be three different actors.          *)

OnRecord(type, by) == \E i \in DOMAIN stream : stream[i].type = type /\ stream[i].by = by

(* ... and before the last event. *)
OnRecordBefore(type, by) ==
  \E i \in 1 .. Len(stream) - 1 : stream[i].type = type /\ stream[i].by = by

PartiesDistinct ==
  IF state.payer = NoActor THEN state = InitialState
  ELSE /\ state.payer # state.payee
       /\ state.payee # NoActor
       /\ state.arbiter \notin {state.payer, state.payee}

RequestsOnRecord ==
  /\ state.releaseRequestedBy # NoActor =>
       OnRecord("ReleaseRequested", state.releaseRequestedBy)
  /\ state.refundRequestedBy # NoActor =>
       /\ state.refundRequestedBy = state.payer
       /\ OnRecord("RefundRequested", state.payer)
  /\ state.status = "DISPUTED" =>
       /\ state.arbiter # NoActor
       /\ OnRecord("DisputeOpened", state.payer) \/ OnRecord("DisputeOpened", state.payee)

IInv == TypeOK /\ PartiesDistinct /\ RequestsOnRecord /\ SettlementAuthorised

(* What appending to a sequence does. *)
LEMMA AppendFacts ==
  ASSUME NEW S, NEW q \in Seq(S), NEW e \in S
  PROVE  /\ Append(q, e) \in Seq(S)
         /\ Len(Append(q, e)) = Len(q) + 1
         /\ Append(q, e)[Len(q) + 1] = e
         /\ \A i \in DOMAIN q : i \in DOMAIN Append(q, e) /\ Append(q, e)[i] = q[i]
         /\ Len(q) \in Nat
         /\ DOMAIN q = 1 .. Len(q)
         /\ DOMAIN Append(q, e) = 1 .. Len(q) + 1
OBVIOUS

(* A stream of one event. *)
LEMMA SingletonTyped ==
  ASSUME NEW S, NEW e \in S
  PROVE  <<e>> \in Seq(S)
OBVIOUS

(* Emit appends a typed event, at the end, and what was on record stays. *)
LEMMA EmitFacts ==
  ASSUME TypeOK, NEW e \in Event, Emit(e)
  PROVE  /\ TypeOK'
         /\ Len(stream)' = Len(stream) + 1
         /\ FromEnd(0)' = e
         /\ state' = EventFolder(state, e)
         /\ OnRecord(e.type, e.by)'
         /\ \A type, by : OnRecord(type, by) => OnRecord(type, by)' /\ OnRecordBefore(type, by)'
<1>1. /\ stream \in Seq(Event)
      /\ state \in CellState
      /\ stream' = Append(stream, e)
      /\ state' = EventFolder(state, e)
  BY DEF TypeOK, Emit
<1>2. TypeOK'
  BY <1>1, AppendFacts, FolderTyped DEF TypeOK
<1>3. /\ Len(stream') = Len(stream) + 1
      /\ stream'[Len(stream')] = e
      /\ Len(stream) \in Nat
      /\ DOMAIN stream' = 1 .. Len(stream) + 1
      /\ \A i \in DOMAIN stream : i \in DOMAIN stream' /\ stream'[i] = stream[i]
  BY <1>1, AppendFacts
<1>4. FromEnd(0)' = e
  BY <1>3 DEF FromEnd
<1>5. OnRecord(e.type, e.by)'
  BY <1>3 DEF OnRecord
<1>6. ASSUME NEW type, NEW by, OnRecord(type, by)
      PROVE  OnRecord(type, by)' /\ OnRecordBefore(type, by)'
  <2>1. PICK i \in DOMAIN stream : stream[i].type = type /\ stream[i].by = by
    BY <1>6 DEF OnRecord
  <2>2. i \in DOMAIN stream' /\ i \in 1 .. Len(stream') - 1
    BY <1>1, <1>3, <2>1, AppendFacts
  <2>. QED
    BY <1>3, <2>1, <2>2 DEF OnRecord, OnRecordBefore
<1>. QED BY <1>1, <1>2, <1>3, <1>4, <1>5, <1>6

(* What each kind of event does to a state, field by field. *)
LEMMA SimpleFold ==
  ASSUME NEW s \in CellState, NEW type \in SimpleEventType, NEW by, NEW now,
         NEW t, t = EventFolder(s, SimpleEvent(type, by, now))
  PROVE  /\ TermsOf(t) = TermsOf(s)
         /\ t.payer = s.payer /\ t.payee = s.payee /\ t.arbiter = s.arbiter
         /\ t.completionDeadline = s.completionDeadline
         /\ t.status = IF type \in DOMAIN StatusAfter THEN StatusAfter[type] ELSE s.status
         /\ t.releaseRequestedBy = IF type = "ReleaseRequested" THEN by ELSE s.releaseRequestedBy
         /\ t.refundRequestedBy = IF type = "RefundRequested" THEN by ELSE s.refundRequestedBy
BY DEF EventFolder, SimpleEvent, SimpleEventType, TermsOf

(* What CellFunded does to a state. *)
LEMMA FundedFold ==
  ASSUME NEW s \in CellState, NEW by, NEW amount, NEW now,
         NEW t, t = EventFolder(s, CellFunded(by, amount, now))
  PROVE  /\ t.payer = s.payer /\ t.payee = s.payee /\ t.arbiter = s.arbiter
         /\ amount = s.amount => TermsOf(t) = TermsOf(s)
         /\ t.status = "FUNDED"
         /\ t.releaseRequestedBy = s.releaseRequestedBy
         /\ t.refundRequestedBy = s.refundRequestedBy
BY DEF EventFolder, CellFunded, TermsOf, StatusAfter

(* CellCreated makes its terms those of the cell, whatever was before. *)
LEMMA CreatedFold ==
  ASSUME NEW s, NEW terms \in TermsType, NEW required, NEW now,
         NEW t, t = EventFolder(s, CellCreated(terms, required, now))
  PROVE  /\ t.payer = terms.payer /\ t.payee = terms.payee /\ t.arbiter = terms.arbiter
         /\ t.status = "CREATED"
         /\ t.releaseRequestedBy = NoActor
         /\ t.refundRequestedBy = NoActor
BY DEF EventFolder, CreatedState, CellCreated

(* A created cell satisfies the invariant, whatever preceded it. *)
LEMMA CreatedSafe ==
  ASSUME NEW s, NEW terms \in TermsType, NEW required, NEW now, NEW textOk,
         CanCreateCell(s, terms, textOk),
         state = EventFolder(s, CellCreated(terms, required, now))
  PROVE  PartiesDistinct /\ RequestsOnRecord /\ SettlementAuthorised
<1>1. /\ state.payer = terms.payer /\ state.payee = terms.payee
      /\ state.arbiter = terms.arbiter /\ state.status = "CREATED"
      /\ state.releaseRequestedBy = NoActor /\ state.refundRequestedBy = NoActor
  BY CreatedFold
<1>2. terms.payer \in Actor /\ terms.payee \in Actor
  BY DEF TermsType
<1>3. PartiesDistinct
  BY <1>1, <1>2, ActorAssumption DEF PartiesDistinct, CanCreateCell
<1>4. RequestsOnRecord
  BY <1>1 DEF RequestsOnRecord
<1>5. SettlementAuthorised
  BY <1>1 DEF SettlementAuthorised
<1>. QED BY <1>3, <1>4, <1>5

(* The streams a cell may start with satisfy the invariant. *)
LEMMA InitSafe == Init => IInv
<1>. SUFFICES ASSUME Init PROVE IInv
  OBVIOUS
<1>1. CASE stream = <<>> /\ state = InitialState
  <2>1. TypeOK
    BY <1>1, InitialStateTyped DEF TypeOK
  <2>2. PartiesDistinct /\ RequestsOnRecord /\ SettlementAuthorised
    BY <1>1 DEF InitialState, PartiesDistinct, RequestsOnRecord, SettlementAuthorised
  <2>. QED BY <2>1, <2>2 DEF IInv
<1>2. ASSUME NEW terms \in Terms, NEW at \in Time,
             CanCreateCell(InitialState, terms, TRUE),
             stream = <<CellCreated(terms, FALSE, at)>>,
             state = EventFolder(InitialState, CellCreated(terms, FALSE, at))
      PROVE  IInv
  <2>1. terms \in TermsType
    BY TermsAssumption
  <2>2. CellCreated(terms, FALSE, at) \in Event
    BY <2>1, CreatedIsEvent
  <2>3. TypeOK
    <3>1. stream \in Seq(Event)
      BY <1>2, <2>2, SingletonTyped
    <3>2. state \in CellState
      BY <1>2, <2>2, InitialStateTyped, FolderTyped
    <3>. QED BY <3>1, <3>2 DEF TypeOK
  <2>. QED BY <1>2, <2>1, <2>3, CreatedSafe DEF IInv
<1>. QED BY <1>1, <1>2 DEF Init

-----------------------------------------------------------------------------
(* Preservation.                                                             *)

(* Until a cell is created its state is the sentinel one. *)
LEMMA Born ==
  ASSUME IInv, state.status # "CREATED" \/ state.payee \in Actor
  PROVE  state.payer # NoActor
BY ActorAssumption DEF IInv, PartiesDistinct, InitialState

(* A one-event command on a born cell that settles nothing preserves the      *)
(* invariant, if a refund is requested by the payer and a dispute opened by a *)
(* party of a cell with an arbiter.                                          *)
LEMMA QuietEmit ==
  ASSUME IInv, state.payer # NoActor,
         NEW type \in SimpleEventType \ {"Released", "Refunded"},
         NEW by \in Actor, NEW now \in Time,
         Emit(SimpleEvent(type, by, now)),
         type = "RefundRequested" => by = state.payer,
         type = "DisputeOpened" => by \in {state.payer, state.payee} /\ state.arbiter # NoActor
  PROVE  IInv'
<1>. DEFINE e == SimpleEvent(type, by, now)
<1>1. e \in Event /\ e.type = type /\ e.by = by
  BY SimpleIsEvent
<1>2. /\ TypeOK'
      /\ state' = EventFolder(state, e)
      /\ OnRecord(type, by)'
      /\ \A ty, b : OnRecord(ty, b) => OnRecord(ty, b)'
  BY <1>1, EmitFacts DEF IInv
<1>3. /\ state'.payer = state.payer /\ state'.payee = state.payee
      /\ state'.arbiter = state.arbiter
      /\ state'.status = IF type \in DOMAIN StatusAfter THEN StatusAfter[type] ELSE state.status
      /\ state'.releaseRequestedBy
           = IF type = "ReleaseRequested" THEN by ELSE state.releaseRequestedBy
      /\ state'.refundRequestedBy
           = IF type = "RefundRequested" THEN by ELSE state.refundRequestedBy
  BY <1>2, SimpleFold DEF IInv, TypeOK
<1>4. state'.status = IF type = "DisputeOpened" THEN "DISPUTED"
                      ELSE IF type = "CellExpired" THEN "EXPIRED" ELSE state.status
  BY <1>3 DEF StatusAfter, SimpleEventType
<1>5. PartiesDistinct'
  BY <1>3, <1>4 DEF IInv, PartiesDistinct
<1>6. RequestsOnRecord'
  BY <1>2, <1>3, <1>4 DEF IInv, RequestsOnRecord
<1>7. SettlementAuthorised'
  BY <1>4 DEF SettlementAuthorised, Emit, IsOpen, TERMINAL_STATUSES
<1>. QED BY <1>2, <1>5, <1>6, <1>7 DEF IInv

(* A one-event settlement of a born cell preserves the invariant, if it is    *)
(* one that SettlementAuthorised allows.                                     *)
LEMMA SettlingEmit ==
  ASSUME IInv, state.payer # NoActor,
         NEW type \in {"Released", "Refunded"}, NEW by \in Actor, NEW now \in Time,
         Emit(SimpleEvent(type, by, now)),
         type = "Released" =>
           \E asker : OnRecord("ReleaseRequested", asker)
                      /\ {asker, by} = {state.payer, state.payee},
         type = "Refunded" =>
           \/ by = state.payer /\ now > state.completionDeadline
           \/ by = state.payee /\ OnRecord("RefundRequested", state.payer)
  PROVE  IInv'
<1>. DEFINE e == SimpleEvent(type, by, now)
<1>1. e \in Event /\ e.type = type /\ e.by = by /\ e.at = now
  BY SimpleIsEvent DEF SimpleEventType
<1>2. /\ TypeOK'
      /\ state' = EventFolder(state, e)
      /\ FromEnd(0)' = e
      /\ \A ty, b : OnRecord(ty, b) => OnRecord(ty, b)' /\ OnRecordBefore(ty, b)'
  BY <1>1, EmitFacts DEF IInv
<1>3. /\ state'.payer = state.payer /\ state'.payee = state.payee
      /\ state'.arbiter = state.arbiter
      /\ state'.completionDeadline = state.completionDeadline
      /\ state'.status = IF type \in DOMAIN StatusAfter THEN StatusAfter[type] ELSE state.status
      /\ state'.releaseRequestedBy = state.releaseRequestedBy
      /\ state'.refundRequestedBy = state.refundRequestedBy
  BY <1>2, SimpleFold DEF IInv, TypeOK, SimpleEventType
<1>4. state'.status = IF type = "Released" THEN "RELEASED" ELSE "REFUNDED"
  BY <1>3 DEF StatusAfter
<1>5. PartiesDistinct'
  BY <1>3 DEF IInv, PartiesDistinct
<1>6. RequestsOnRecord'
  BY <1>2, <1>3, <1>4 DEF IInv, RequestsOnRecord
<1>7. SettlementAuthorised'
  <2>1. CASE type = "Released"
    <3>1. PICK asker : OnRecord("ReleaseRequested", asker)
                       /\ {asker, by} = {state.payer, state.payee}
      BY <2>1
    <3>2. OnRecordBefore("ReleaseRequested", asker)'
      BY <1>2, <3>1
    <3>3. PICK i \in 1 .. Len(stream') - 1 :
            stream'[i].type = "ReleaseRequested" /\ stream'[i].by = asker
      BY <3>2 DEF OnRecordBefore
    <3>4. {stream'[i].by, FromEnd(0)'.by} = {state'.payer, state'.payee}
      BY <1>1, <1>2, <1>3, <3>1, <3>3
    <3>5. state'.status = "RELEASED"
      BY <1>4, <2>1
    <3>. QED
      BY <3>3, <3>4, <3>5 DEF SettlementAuthorised
  <2>2. CASE type = "Refunded"
    <3>1. CASE by = state.payer /\ now > state.completionDeadline
      BY <1>1, <1>2, <1>3, <1>4, <2>2, <3>1 DEF SettlementAuthorised
    <3>2. CASE by = state.payee /\ OnRecord("RefundRequested", state.payer)
      <4>1. OnRecordBefore("RefundRequested", state.payer)'
        BY <1>2, <1>3, <3>2 DEF OnRecordBefore
      <4>. QED
        BY <1>1, <1>2, <1>3, <1>4, <2>2, <3>2, <4>1 DEF SettlementAuthorised, OnRecordBefore
    <3>. QED BY <2>2, <3>1, <3>2
  <2>. QED BY <2>1, <2>2
<1>. QED BY <1>2, <1>5, <1>6, <1>7 DEF IInv

(* The award of the arbiter, two events in one step, preserves the invariant. *)
LEMMA AwardSafe ==
  ASSUME IInv, NEW by \in Actor, NEW favourOf \in {"payer", "payee"}, NEW now \in Time,
         ResolveDispute(by, favourOf, now)
  PROVE  IInv'
<1>. DEFINE resolved == DisputeResolved(by, favourOf, now)
            settled == SimpleEvent(Settlement(favourOf), by, now)
            mid == EventFolder(state, resolved)
<1>1. /\ resolved \in Event
      /\ resolved = DisputeResolved(by, favourOf, now)
  BY ResolvedIsEvent
<1>2. Settlement(favourOf) = IF favourOf = "payee" THEN "Released" ELSE "Refunded"
  BY DEF Settlement
<1>3. settled \in Event /\ settled.by = by /\ settled.at = now
  BY <1>2, SimpleIsEvent DEF SimpleEventType
<1>4. /\ state.status = "DISPUTED" /\ state.arbiter # NoActor /\ by = state.arbiter
      /\ stream' = Append(Append(stream, resolved), settled)
      /\ state' = EventFolder(mid, settled)
  BY DEF ResolveDispute, CanResolveDispute
<1>5. /\ mid \in CellState
      /\ mid.payer = state.payer /\ mid.payee = state.payee /\ mid.arbiter = state.arbiter
      /\ mid.releaseRequestedBy = state.releaseRequestedBy
      /\ mid.refundRequestedBy = state.refundRequestedBy
  <2>1. mid \in CellState
    BY <1>1, FolderTyped DEF IInv, TypeOK
  <2>2. resolved.type = "DisputeResolved"
    BY DEF DisputeResolved
  <2>. QED BY <2>1, <2>2 DEF EventFolder
<1>6. state' \in CellState
  BY <1>3, <1>4, <1>5, FolderTyped
<1>7. /\ state'.payer = state.payer /\ state'.payee = state.payee
      /\ state'.arbiter = state.arbiter
      /\ state'.releaseRequestedBy = state.releaseRequestedBy
      /\ state'.refundRequestedBy = state.refundRequestedBy
      /\ state'.status = IF favourOf = "payee" THEN "RELEASED" ELSE "REFUNDED"
  BY <1>2, <1>4, <1>5, SimpleFold DEF SimpleEventType, StatusAfter
<1>8. /\ Append(stream, resolved) \in Seq(Event)
      /\ Len(Append(stream, resolved)) = Len(stream) + 1
      /\ Append(stream, resolved)[Len(stream) + 1] = resolved
      /\ \A i \in DOMAIN stream : Append(stream, resolved)[i] = stream[i]
      /\ Len(stream) \in Nat
      /\ DOMAIN stream = 1 .. Len(stream)
      /\ DOMAIN Append(stream, resolved) = 1 .. Len(stream) + 1
  BY <1>1, AppendFacts DEF IInv, TypeOK
<1>9. /\ stream' \in Seq(Event)
      /\ Len(stream') = Len(stream) + 2
      /\ stream'[Len(stream) + 2] = settled
      /\ \A i \in 1 .. Len(stream) + 1 : stream'[i] = Append(stream, resolved)[i]
      /\ DOMAIN stream' = 1 .. Len(stream) + 2
  BY <1>3, <1>4, <1>8, AppendFacts
<1>10. \A i \in 1 .. Len(stream) : stream'[i] = stream[i]
  BY <1>8, <1>9
<1>11. FromEnd(0)' = settled /\ FromEnd(1)' = resolved
  BY <1>8, <1>9 DEF FromEnd
<1>12. \A type, b : OnRecord(type, b) => OnRecord(type, b)'
  BY <1>8, <1>9, <1>10 DEF OnRecord
<1>13. TypeOK'
  BY <1>6, <1>9 DEF TypeOK
<1>14. PartiesDistinct'
  BY <1>7, <1>4, Born DEF IInv, PartiesDistinct
<1>15. RequestsOnRecord'
  BY <1>7, <1>12 DEF IInv, RequestsOnRecord
<1>16. AwardedBy(favourOf)'
  <2>1. /\ FromEnd(0)'.by = state'.arbiter
        /\ FromEnd(1)' = DisputeResolved(state'.arbiter, favourOf, FromEnd(0)'.at)
    BY <1>1, <1>3, <1>4, <1>7, <1>11
  <2>2. OnRecord("DisputeOpened", state.payer) \/ OnRecord("DisputeOpened", state.payee)
    BY <1>4 DEF IInv, RequestsOnRecord
  <2>3. PICK i \in 1 .. Len(stream) :
          stream[i].type = "DisputeOpened" /\ stream[i].by \in {state.payer, state.payee}
    BY <1>8, <2>2 DEF OnRecord
  <2>4. /\ i \in 1 .. Len(stream') - 2
        /\ stream'[i].type = "DisputeOpened"
        /\ stream'[i].by \in {state'.payer, state'.payee}
    BY <1>7, <1>8, <1>9, <1>10, <2>3
  <2>. QED BY <2>1, <2>4 DEF AwardedBy
<1>17. SettlementAuthorised'
  BY <1>7, <1>16 DEF SettlementAuthorised
<1>. QED BY <1>13, <1>14, <1>15, <1>17 DEF IInv

(* A funding preserves the invariant. *)
LEMMA FundSafe ==
  ASSUME IInv, NEW by \in Actor, NEW amount \in Amount, NEW now \in Time,
         FundCell(by, amount, now)
  PROVE  IInv'
<1>1. /\ by = state.payer /\ state.status = "CREATED"
      /\ Emit(CellFunded(by, amount, now))
  BY DEF FundCell, CanFundCell
<1>2. /\ TypeOK'
      /\ state' = EventFolder(state, CellFunded(by, amount, now))
      /\ \A ty, b : OnRecord(ty, b) => OnRecord(ty, b)'
  BY <1>1, FundedIsEvent, EmitFacts DEF IInv
<1>3. /\ state'.payer = state.payer /\ state'.payee = state.payee
      /\ state'.arbiter = state.arbiter /\ state'.status = "FUNDED"
      /\ state'.releaseRequestedBy = state.releaseRequestedBy
      /\ state'.refundRequestedBy = state.refundRequestedBy
  BY <1>2, FundedFold DEF IInv, TypeOK
<1>4. PartiesDistinct'
  BY <1>1, <1>3, ActorAssumption DEF IInv, PartiesDistinct, InitialState
<1>5. RequestsOnRecord'
  BY <1>2, <1>3 DEF IInv, RequestsOnRecord
<1>6. SettlementAuthorised'
  BY <1>3 DEF SettlementAuthorised
<1>. QED BY <1>2, <1>4, <1>5, <1>6 DEF IInv

(* A creation preserves the invariant. *)
LEMMA CreateSafe ==
  ASSUME IInv, NEW terms \in Terms, NEW textOk \in BOOLEAN, NEW now \in Time,
         CreateCell(terms, textOk, now)
  PROVE  IInv'
<1>1. /\ terms \in TermsType
      /\ CanCreateCell(state, terms, textOk)
      /\ Emit(CellCreated(terms, TRUE, now))
  BY TermsAssumption DEF CreateCell
<1>2. TypeOK' /\ state' = EventFolder(state, CellCreated(terms, TRUE, now))
  BY <1>1, CreatedIsEvent, EmitFacts DEF IInv
<1>3. /\ state'.payer = terms.payer /\ state'.payee = terms.payee
      /\ state'.arbiter = terms.arbiter /\ state'.status = "CREATED"
      /\ state'.releaseRequestedBy = NoActor /\ state'.refundRequestedBy = NoActor
  BY <1>2 DEF EventFolder, CreatedState, CellCreated
<1>4. PartiesDistinct'
  BY <1>1, <1>3, ActorAssumption DEF PartiesDistinct, CanCreateCell, TermsType
<1>5. RequestsOnRecord'
  BY <1>3 DEF RequestsOnRecord
<1>6. SettlementAuthorised'
  BY <1>3 DEF SettlementAuthorised
<1>. QED BY <1>2, <1>4, <1>5, <1>6 DEF IInv

(* Every command handler preserves the invariant. *)
LEMMA NextSafe == IInv /\ [Next]_vars => IInv'
<1>. SUFFICES ASSUME IInv, [Next]_vars PROVE IInv'
  OBVIOUS
<1>1. CASE UNCHANGED vars
  BY <1>1 DEF vars, IInv, TypeOK, PartiesDistinct, RequestsOnRecord, OnRecord,
              SettlementAuthorised, AwardedBy, FromEnd
<1>2. CASE Next
  <2>. PICK now \in Time :
         \/ \E terms \in Terms, textOk \in BOOLEAN : CreateCell(terms, textOk, now)
         \/ \E by \in Actor :
              \/ AcceptCell(by, now) \/ RejectCell(by, now)
              \/ \E amount \in Amount : FundCell(by, amount, now)
              \/ RequestRelease(by, now) \/ ApproveRelease(by, now)
              \/ RequestRefund(by, now) \/ ApproveRefund(by, now)
              \/ ForceRefund(by, now) \/ ExpireCell(by, now) \/ OpenDispute(by, now)
              \/ \E favourOf \in {"payer", "payee"} : ResolveDispute(by, favourOf, now)
    BY <1>2 DEF Next
  <2>1. CASE \E terms \in Terms, textOk \in BOOLEAN : CreateCell(terms, textOk, now)
    BY <2>1, CreateSafe
  <2>2. ASSUME NEW by \in Actor, AcceptCell(by, now) PROVE IInv'
    BY <2>2, Born, QuietEmit DEF AcceptCell, CanAcceptCell, SimpleEventType
  <2>3. ASSUME NEW by \in Actor, RejectCell(by, now) PROVE IInv'
    BY <2>3, Born, QuietEmit DEF RejectCell, CanRejectCell, SimpleEventType
  <2>4. ASSUME NEW by \in Actor, NEW amount \in Amount, FundCell(by, amount, now) PROVE IInv'
    BY <2>4, FundSafe
  <2>5. ASSUME NEW by \in Actor, RequestRelease(by, now) PROVE IInv'
    BY <2>5, Born, QuietEmit DEF RequestRelease, CanRequestRelease, SimpleEventType
  <2>6. ASSUME NEW by \in Actor, ApproveRelease(by, now) PROVE IInv'
    <3>1. /\ state.status = "FUNDED"
          /\ OnRecord("ReleaseRequested", state.releaseRequestedBy)
          /\ {state.releaseRequestedBy, by} = {state.payer, state.payee}
      BY <2>6 DEF ApproveRelease, CanApproveRelease, IInv, RequestsOnRecord
    <3>2. state.payer # NoActor
      BY <3>1, Born
    <3>. QED BY <2>6, <3>1, <3>2, SettlingEmit DEF ApproveRelease
  <2>7. ASSUME NEW by \in Actor, RequestRefund(by, now) PROVE IInv'
    BY <2>7, Born, QuietEmit DEF RequestRefund, CanRequestRefund, SimpleEventType
  <2>8. ASSUME NEW by \in Actor, ApproveRefund(by, now) PROVE IInv'
    <3>1. /\ state.status = "FUNDED" /\ by = state.payee
          /\ OnRecord("RefundRequested", state.payer)
      BY <2>8 DEF ApproveRefund, CanApproveRefund, IInv, RequestsOnRecord
    <3>2. state.payer # NoActor
      BY <3>1, Born
    <3>. QED BY <2>8, <3>1, <3>2, SettlingEmit DEF ApproveRefund
  <2>9. ASSUME NEW by \in Actor, ForceRefund(by, now) PROVE IInv'
    <3>1. by = state.payer /\ now > state.completionDeadline /\ state.payer # NoActor
      BY <2>9, ActorAssumption DEF ForceRefund, CanForceRefund
    <3>. QED BY <2>9, <3>1, SettlingEmit DEF ForceRefund
  <2>10. ASSUME NEW by \in Actor, ExpireCell(by, now) PROVE IInv'
    BY <2>10, QuietEmit DEF ExpireCell, CanExpireCell, SimpleEventType
  <2>11. ASSUME NEW by \in Actor, OpenDispute(by, now) PROVE IInv'
    <3>1. /\ by \in {state.payer, state.payee} /\ state.arbiter # NoActor
          /\ state.status = "FUNDED"
      BY <2>11 DEF OpenDispute, CanOpenDispute
    <3>2. state.payer # NoActor
      BY <3>1, Born
    <3>. QED BY <2>11, <3>1, <3>2, QuietEmit DEF OpenDispute, SimpleEventType
  <2>12. ASSUME NEW by \in Actor, NEW favourOf \in {"payer", "payee"},
                ResolveDispute(by, favourOf, now)
         PROVE  IInv'
    BY <2>12, AwardSafe
  <2>. QED BY <2>1, <2>2, <2>3, <2>4, <2>5, <2>6, <2>7, <2>8, <2>9, <2>10, <2>11, <2>12
<1>. QED BY <1>1, <1>2

-----------------------------------------------------------------------------
(* The theorems.                                                             *)

(* The invariant holds of every reachable state of the kernel. *)
THEOREM Invariant == Spec => []IInv
BY InitSafe, NextSafe, PTL DEF Spec

(* What the handlers of state-machine.ts write are events and states.        *)
THEOREM TypeCorrect == Spec => []TypeOK
<1>1. IInv => TypeOK
  BY DEF IInv
<1>. QED BY <1>1, Invariant, PTL

(* No settlement without the word of those entitled to it: the handlers of   *)
(* the four settling commands with the requests that precede them.           *)
THEOREM SettlementsAuthorised == Spec => []SettlementAuthorised
<1>1. IInv => SettlementAuthorised
  BY DEF IInv
<1>. QED BY <1>1, Invariant, PTL

(* An open cell can always be closed: handleExpireCell, handleForceRefund or *)
(* handleResolveDispute accepts a single actor.                              *)
THEOREM ExitsExist == Spec => []ExitExists
<1>1. IInv => ExitExists
  <2>. SUFFICES ASSUME IInv, state.payer # NoActor, IsOpen(state)
                PROVE  \/ CanExpireCell(state, state.fundingDeadline + 1)
                       \/ CanForceRefund(state, state.payer, state.completionDeadline + 1)
                       \/ /\ state.arbiter \in Actor \ {state.payer, state.payee}
                          /\ CanResolveDispute(state, state.arbiter)
    BY DEF ExitExists
  <2>1. /\ state \in CellState
        /\ state.fundingDeadline \in Nat /\ state.completionDeadline \in Nat
        /\ state.arbiter \in Actor \cup {NoActor}
        /\ state.status \in {"CREATED", "FUNDED", "DISPUTED"}
    BY DEF IInv, TypeOK, CellState, CellStatus, IsOpen
  <2>2. CASE state.status = "CREATED"
    BY <2>1, <2>2 DEF CanExpireCell
  <2>3. CASE state.status = "FUNDED"
    BY <2>1, <2>3 DEF CanForceRefund
  <2>4. CASE state.status = "DISPUTED"
    BY <2>1, <2>4 DEF CanResolveDispute, IInv, PartiesDistinct, RequestsOnRecord
  <2>. QED BY <2>1, <2>2, <2>3, <2>4
<1>. QED BY <1>1, Invariant, PTL

(* A step creates the cell, emits one event of an undisputed cell, funds the  *)
(* agreed amount, or is an award: what the action properties distinguish.    *)
LEMMA StepShape ==
  ASSUME IInv, Next
  PROVE  \/ state.payer = NoActor /\ state.status = "CREATED"
         \/ \E type \in SimpleEventType, by \in Actor, now \in Time :
              state.status # "DISPUTED" /\ Emit(SimpleEvent(type, by, now))
         \/ \E by \in Actor, now \in Time :
              state.status # "DISPUTED" /\ Emit(CellFunded(by, state.amount, now))
         \/ \E by \in Actor, favourOf \in {"payer", "payee"}, now \in Time :
              ResolveDispute(by, favourOf, now)
<1>1. ASSUME NEW terms, NEW textOk, NEW now, CreateCell(terms, textOk, now)
      PROVE  state.payer = NoActor /\ state.status = "CREATED"
  BY <1>1 DEF CreateCell, CanCreateCell, IInv, PartiesDistinct, InitialState
<1>2. ASSUME NEW by \in Actor, NEW amount, NEW now \in Time, FundCell(by, amount, now)
      PROVE  state.status # "DISPUTED" /\ Emit(CellFunded(by, state.amount, now))
  BY <1>2 DEF FundCell, CanFundCell
<1>3. ASSUME NEW by \in Actor, NEW now \in Time,
             \/ AcceptCell(by, now) \/ RejectCell(by, now)
             \/ RequestRelease(by, now) \/ ApproveRelease(by, now)
             \/ RequestRefund(by, now) \/ ApproveRefund(by, now)
             \/ ForceRefund(by, now) \/ ExpireCell(by, now) \/ OpenDispute(by, now)
      PROVE  \E type \in SimpleEventType :
               state.status # "DISPUTED" /\ Emit(SimpleEvent(type, by, now))
  BY <1>3 DEF SimpleEventType, AcceptCell, CanAcceptCell, RejectCell, CanRejectCell,
              RequestRelease, CanRequestRelease, ApproveRelease, CanApproveRelease,
              RequestRefund, CanRequestRefund, ApproveRefund, CanApproveRefund,
              ForceRefund, CanForceRefund, ExpireCell, CanExpireCell, OpenDispute,
              CanOpenDispute
<1>. QED BY <1>1, <1>2, <1>3 DEF Next

-----------------------------------------------------------------------------
(* What a step writes, evolve reads back.                                    *)

(* A step appends one event, or the two of an award, and folds what it appends. *)
LEMMA StepWrites ==
  ASSUME IInv, Next
  PROVE  \/ \E e \in Event : Emit(e)
         \/ \E by \in Actor, favourOf \in {"payer", "payee"}, now \in Time :
              ResolveDispute(by, favourOf, now)
<1>1. ASSUME NEW terms \in Terms, NEW textOk \in BOOLEAN, NEW now \in Time,
             CreateCell(terms, textOk, now)
      PROVE  \E e \in Event : Emit(e)
  BY <1>1, TermsAssumption, CreatedIsEvent DEF CreateCell
<1>2. ASSUME NEW by \in Actor, NEW amount \in Amount, NEW now \in Time,
             FundCell(by, amount, now)
      PROVE  \E e \in Event : Emit(e)
  BY <1>2, FundedIsEvent DEF FundCell
<1>3. ASSUME NEW by \in Actor, NEW now \in Time,
             \/ AcceptCell(by, now) \/ RejectCell(by, now)
             \/ RequestRelease(by, now) \/ ApproveRelease(by, now)
             \/ RequestRefund(by, now) \/ ApproveRefund(by, now)
             \/ ForceRefund(by, now) \/ ExpireCell(by, now) \/ OpenDispute(by, now)
      PROVE  \E e \in Event : Emit(e)
  <2>1. \E type \in SimpleEventType : Emit(SimpleEvent(type, by, now))
    BY <1>3 DEF SimpleEventType, AcceptCell, RejectCell, RequestRelease, ApproveRelease,
                RequestRefund, ApproveRefund, ForceRefund, ExpireCell, OpenDispute
  <2>. QED BY <2>1, SimpleIsEvent
<1>. QED BY <1>1, <1>2, <1>3 DEF Next

(* Neither event of an award is behind the one that closes the cell. *)
LEMMA AwardReadable ==
  ASSUME TypeOK, StreamReadable,
         NEW by \in Actor, NEW favourOf \in {"payer", "payee"}, NEW now \in Time,
         ResolveDispute(by, favourOf, now)
  PROVE  StreamReadable'
<1>. DEFINE resolved == DisputeResolved(by, favourOf, now)
            settled == SimpleEvent(Settlement(favourOf), by, now)
            mid == EventFolder(state, resolved)
<1>1. resolved \in Event /\ resolved.type = "DisputeResolved"
  BY ResolvedIsEvent DEF DisputeResolved
<1>2. settled \in Event
  BY SimpleIsEvent DEF SimpleEventType, Settlement
<1>3. /\ stream \in Seq(Event) /\ state \in CellState /\ Evolve(stream) = state
      /\ IsOpen(state)
      /\ stream' = Append(Append(stream, resolved), settled)
      /\ state' = EventFolder(mid, settled)
  BY DEF TypeOK, StreamReadable, ResolveDispute
<1>. HIDE DEF resolved, settled
<1>4. mid \in CellState /\ IsOpen(mid)
  <2>1. mid \in CellState
    BY <1>1, <1>3, FolderTyped
  <2>2. mid.status = state.status
    BY <1>1 DEF EventFolder, StatusAfter
  <2>. QED BY <1>3, <2>1, <2>2 DEF IsOpen
<1>5. Append(stream, resolved) \in Seq(Event) /\ Evolve(Append(stream, resolved)) = mid
  BY <1>1, <1>3, AppendFacts, EvolveAppend, OpenStep
<1>6. Evolve(stream') = EventFolder(mid, settled)
  BY <1>2, <1>3, <1>4, <1>5, EvolveAppend, OpenStep
<1>. QED BY <1>3, <1>6 DEF StreamReadable

(* The frame of kernel.ts and evolve of state-machine.ts agree on every       *)
(* stream the handlers write, and no handler emits behind a closing event.    *)
THEOREM StreamsReadable == Spec => []StreamReadable
<1>1. Init => StreamReadable
  <2>1. ASSUME NEW terms \in Terms, NEW at \in Time,
               stream = <<CellCreated(terms, FALSE, at)>>,
               state = EventFolder(InitialState, CellCreated(terms, FALSE, at))
        PROVE  StreamReadable
    BY <2>1, TermsAssumption, CreatedIsEvent, EvolveSingle DEF StreamReadable
  <2>. QED BY <2>1, EvolveEmpty DEF Init, StreamReadable
<1>2. IInv /\ StreamReadable /\ [Next]_vars => StreamReadable'
  <2>. SUFFICES ASSUME IInv, StreamReadable, Next PROVE StreamReadable'
    BY DEF StreamReadable, vars
  <2>1. ASSUME NEW e \in Event, Emit(e)
        PROVE  StreamReadable'
    BY <2>1, EvolveAppend, OpenStep DEF Emit, IInv, TypeOK, StreamReadable
  <2>. QED BY <2>1, StepWrites, AwardReadable DEF IInv
<1>. QED BY <1>1, <1>2, Invariant, PTL DEF Spec

-----------------------------------------------------------------------------
(* Action properties.                                                        *)

(* While the arbiter is seised of the cell, nobody else moves it: only        *)
(* handleResolveDispute accepts a disputed cell.                             *)
THEOREM DisputesFreeze == Spec => DisputeFreezes
<1>. DEFINE Frozen == state.status = "DISPUTED" => (FromEnd(0).by)' = state.arbiter
<1>1. IInv /\ [Next]_vars => [Frozen]_vars
  <2>. SUFFICES ASSUME IInv, Next, state.status = "DISPUTED"
                PROVE  (FromEnd(0).by)' = state.arbiter
    OBVIOUS
  <2>1. PICK by \in Actor, favourOf \in {"payer", "payee"}, now \in Time :
               ResolveDispute(by, favourOf, now)
    BY StepShape
  <2>. DEFINE settled == SimpleEvent(Settlement(favourOf), by, now)
              resolved == DisputeResolved(by, favourOf, now)
  <2>2. resolved \in Event
    BY ResolvedIsEvent
  <2>3. settled \in Event /\ settled.by = by
    BY SimpleIsEvent DEF SimpleEventType, Settlement
  <2>4. stream' = Append(Append(stream, resolved), settled) /\ by = state.arbiter
    BY <2>1 DEF ResolveDispute, CanResolveDispute
  <2>5. Append(stream, resolved) \in Seq(Event)
    BY <2>2, AppendFacts DEF IInv, TypeOK
  <2>6. stream'[Len(stream')] = settled
    BY <2>3, <2>4, <2>5, AppendFacts
  <2>7. FromEnd(0)' = settled
    BY <2>6, <2>3, <2>4, <2>5, AppendFacts DEF FromEnd
  <2>. QED BY <2>3, <2>4, <2>7
<1>. QED BY <1>1, Invariant, PTL DEF Spec, DisputeFreezes

(* No handler rewrites the terms of a cell: handleFundCell, the one handler   *)
(* whose event carries an amount, insists on the agreed one.                 *)
THEOREM TermsAreImmutable == Spec => TermsImmutable
<1>. DEFINE Kept == state.payer # NoActor => TermsOf(state') = TermsOf(state)
<1>1. IInv /\ [Next]_vars => [Kept]_vars
  <2>. SUFFICES ASSUME IInv, Next, state.payer # NoActor
                PROVE  TermsOf(state') = TermsOf(state)
    OBVIOUS
  <2>1. state \in CellState
    BY DEF IInv, TypeOK
  <2>2. ASSUME NEW type \in SimpleEventType, NEW by \in Actor, NEW now \in Time,
               Emit(SimpleEvent(type, by, now))
        PROVE  TermsOf(state') = TermsOf(state)
    BY <2>1, <2>2, SimpleFold DEF Emit
  <2>3. ASSUME NEW by \in Actor, NEW now \in Time, Emit(CellFunded(by, state.amount, now))
        PROVE  TermsOf(state') = TermsOf(state)
    BY <2>1, <2>3, FundedFold DEF Emit
  <2>4. ASSUME NEW by \in Actor, NEW favourOf \in {"payer", "payee"}, NEW now \in Time,
               ResolveDispute(by, favourOf, now)
        PROVE  TermsOf(state') = TermsOf(state)
    <3>. DEFINE mid == EventFolder(state, DisputeResolved(by, favourOf, now))
    <3>1. mid \in CellState
      BY <2>1, ResolvedIsEvent, FolderTyped
    <3>2. TermsOf(mid) = TermsOf(state)
      BY <2>1 DEF DisputeResolved, EventFolder, TermsOf
    <3>3. state' = EventFolder(mid, SimpleEvent(Settlement(favourOf), by, now))
      BY <2>4 DEF ResolveDispute
    <3>4. Settlement(favourOf) \in SimpleEventType
      BY DEF Settlement, SimpleEventType
    <3>5. TermsOf(state') = TermsOf(mid)
      BY <3>1, <3>3, <3>4, SimpleFold
    <3>. QED BY <3>2, <3>5
  <2>. QED BY <2>2, <2>3, <2>4, StepShape
<1>. QED BY <1>1, Invariant, PTL DEF Spec, TermsImmutable

-----------------------------------------------------------------------------
(* HistorySound: the invariant says of the stream what handlers read off the *)
(* state.                                                                    *)

(* A cell that has parties has a stream, which opens with its terms.         *)
Opened(q, s) ==
  /\ s.payer = NoActor <=> Len(q) = 0
  /\ Len(q) # 0 =>
       /\ q[1].type = "CellCreated"
       /\ q[1].terms.payer = s.payer /\ q[1].terms.payee = s.payee
       /\ q[1].terms.amount = s.amount /\ q[1].terms.fundingDeadline = s.fundingDeadline
  /\ \A i \in DOMAIN q : q[i].type = "CellCreated" => i = 1

(* The acceptance of the state is on record, as is a rejection.              *)
Accepting(q, j) ==
  /\ q[j].type = "CellAccepted"
  /\ q[j].by = q[1].terms.payee
  /\ q[j].at <= q[1].terms.fundingDeadline
Unrejected(q) == \A i \in DOMAIN q : q[i].type # "CellRejected"
Consented(q, s) ==
  /\ s.acceptanceStatus # "REJECTED" => Unrejected(q)
  /\ s.acceptanceStatus = "ACCEPTED" /\ Len(q) # 0 =>
       ~q[1].acceptanceRequired \/ \E j \in 2 .. Len(q) : Accepting(q, j)

(* The status knows whether the cell was funded, and how it was closed.      *)
FundedAt(q) == {i \in DOMAIN q : q[i].type = "CellFunded"}
Deposited(q, s) ==
  /\ s.status \in {"CREATED", "EXPIRED"} => FundedAt(q) = {}
  /\ s.status \in {"FUNDED", "DISPUTED", "RELEASED", "REFUNDED"} => \E k : FundedAt(q) = {k}
Closed(q, s) ==
  \A i \in DOMAIN q : q[i].type \in ClosingEvent =>
    i = Len(q) /\ s.status = StatusAfter[q[i].type]

(* Every funding was the payer's, of the amount, in time and consented to.   *)
Funded(q) ==
  \A i \in FundedAt(q) :
    /\ q[i].amount = q[1].terms.amount
    /\ q[i].by = q[1].terms.payer
    /\ q[i].at <= q[1].terms.fundingDeadline
    /\ ~q[1].acceptanceRequired \/ \E j \in 2 .. i - 1 : Accepting(q, j)
    /\ Unrejected(q)

Story(q, s) ==
  Opened(q, s) /\ Consented(q, s) /\ Deposited(q, s) /\ Closed(q, s) /\ Funded(q)

-----------------------------------------------------------------------------
(* What the handlers check before they emit an event other than CellCreated. *)
Allowed(s, e) ==
  /\ e.type # "CellCreated"
  /\ s.payer # NoActor
  /\ s.status \in {"CREATED", "FUNDED", "DISPUTED"}
  /\ e.type \in {"CellAccepted", "CellRejected", "CellExpired", "CellFunded"} => s.status = "CREATED"
  /\ e.type \in {"Released", "Refunded", "DisputeOpened"} => s.status \in {"FUNDED", "DISPUTED"}
  /\ e.type \in {"CellAccepted", "CellRejected"} => s.acceptanceStatus = "PENDING"
  /\ e.type = "CellAccepted" => e.by = s.payee /\ e.at <= s.fundingDeadline
  /\ e.type = "CellFunded" =>
       /\ s.acceptanceStatus = "ACCEPTED"
       /\ e.by = s.payer /\ e.amount = s.amount /\ e.at <= s.fundingDeadline

LEMMA AllowedFold ==
  ASSUME NEW s \in CellState, NEW e \in Event, Allowed(s, e), NEW t, t = EventFolder(s, e)
  PROVE  /\ t.payer = s.payer /\ t.payee = s.payee /\ t.amount = s.amount
         /\ t.fundingDeadline = s.fundingDeadline
         /\ e.type \in DOMAIN StatusAfter => t.status = StatusAfter[e.type]
         /\ e.type \notin DOMAIN StatusAfter => t.status = s.status
         /\ t.acceptanceStatus = IF e.type = "CellAccepted" THEN "ACCEPTED"
                                 ELSE IF e.type = "CellRejected" THEN "REJECTED" ELSE s.acceptanceStatus
BY DEF EventFolder, Allowed, AcceptanceAfter

LEMMA ClosingStatus ==
  /\ DOMAIN StatusAfter = {"CellFunded", "DisputeOpened", "Released", "Refunded", "CellExpired"}
  /\ StatusAfter["CellFunded"] = "FUNDED" /\ StatusAfter["DisputeOpened"] = "DISPUTED"
  /\ StatusAfter["Released"] = "RELEASED" /\ StatusAfter["Refunded"] = "REFUNDED"
  /\ StatusAfter["CellExpired"] = "EXPIRED"
BY DEF StatusAfter

(* Such an event continues the story.                                        *)
LEMMA Continues ==
  ASSUME NEW s \in CellState, NEW e \in Event, Allowed(s, e), NEW t, t = EventFolder(s, e),
         NEW q, NEW m \in Nat, Len(q) = m, DOMAIN q = 1 .. m,
         NEW r, Len(r) = m + 1, DOMAIN r = 1 .. m + 1, r[m + 1] = e,
         \A i \in 1 .. m : r[i] = q[i],
         Story(q, s)
  PROVE  Story(r, t)
<1> DEFINE n == m + 1
<1>1. n \in Nat /\ n # 0 /\ n \notin 1 .. m /\ 1 .. n = (1 .. m) \cup {n} /\ m # 0 /\ 1 \in 1 .. m /\ n # 1
  <2>1. m # 0
    BY DEF Story, Opened, Allowed
  <2> QED
    BY <2>1
<1>2. /\ Len(r) = n /\ DOMAIN r = (1 .. m) \cup {n} /\ r[n] = e /\ r[1] = q[1]
      /\ \A i \in 1 .. m : r[i] = q[i]
  BY <1>1
<1>3. /\ t.payer = s.payer /\ t.payee = s.payee /\ t.amount = s.amount
      /\ t.fundingDeadline = s.fundingDeadline
      /\ e.type \in DOMAIN StatusAfter => t.status = StatusAfter[e.type]
      /\ e.type \notin DOMAIN StatusAfter => t.status = s.status
      /\ t.acceptanceStatus = IF e.type = "CellAccepted" THEN "ACCEPTED"
                              ELSE IF e.type = "CellRejected" THEN "REJECTED" ELSE s.acceptanceStatus
  BY AllowedFold
<1> HIDE DEF n
<1>4. Opened(r, t)
  BY <1>1, <1>2, <1>3 DEF Story, Opened, Allowed
<1>5. /\ q[1].terms.payer = s.payer /\ q[1].terms.payee = s.payee
      /\ q[1].terms.amount = s.amount /\ q[1].terms.fundingDeadline = s.fundingDeadline
  BY <1>1 DEF Story, Opened
<1>6. Consented(r, t)
  <2>1. ASSUME t.acceptanceStatus # "REJECTED"
        PROVE  Unrejected(r)
    <3>1. e.type # "CellRejected" /\ s.acceptanceStatus # "REJECTED"
      BY <1>3, <2>1 DEF Allowed
    <3> QED
      BY <1>2, <3>1 DEF Story, Consented, Unrejected
  <2>2. ASSUME t.acceptanceStatus = "ACCEPTED", q[1].acceptanceRequired
        PROVE  \E j \in 2 .. n : Accepting(r, j)
    <3>1. CASE e.type = "CellAccepted"
      <4>1. Accepting(r, n)
        BY <1>2, <1>5, <3>1 DEF Accepting, Allowed
      <4>2. n \in 2 .. n
        BY <1>1
      <4> QED
        BY <4>1, <4>2
    <3>2. CASE e.type # "CellAccepted"
      <4>1. s.acceptanceStatus = "ACCEPTED"
        BY <1>3, <2>2, <3>2
      <4>2. PICK j \in 2 .. m : Accepting(q, j)
        BY <1>1, <2>2, <4>1 DEF Story, Consented
      <4>3. j \in 1 .. m /\ j \in 2 .. n
        BY <1>1 DEF n
      <4>4. Accepting(r, j)
        BY <1>2, <4>2, <4>3 DEF Accepting
      <4> QED
        BY <4>3, <4>4
    <3> QED
      BY <3>1, <3>2
  <2> QED
    BY <1>2, <2>1, <2>2 DEF Consented
<1>7. FundedAt(r) = IF e.type = "CellFunded" THEN FundedAt(q) \cup {n} ELSE FundedAt(q)
  BY <1>1, <1>2 DEF FundedAt
<1>8. Deposited(r, t)
  <2>1. CASE e.type = "CellFunded"
    <3>1. FundedAt(q) = {} /\ t.status = "FUNDED"
      BY <1>3, <2>1, ClosingStatus DEF Story, Deposited, Allowed
    <3> QED
      BY <1>7, <2>1, <3>1 DEF Deposited
  <2>2. CASE e.type # "CellFunded"
    <3>1. FundedAt(r) = FundedAt(q)
      BY <1>7, <2>2
    <3>2. t.status \in {"CREATED", "EXPIRED"} => s.status = "CREATED"
      BY <1>3, ClosingStatus, <2>2 DEF Allowed
    <3>3. t.status \in {"FUNDED", "DISPUTED", "RELEASED", "REFUNDED"} => s.status \in {"FUNDED", "DISPUTED"}
      BY <1>3, ClosingStatus, <2>2 DEF Allowed
    <3> QED
      BY <3>1, <3>2, <3>3 DEF Story, Deposited
  <2> QED
    BY <2>1, <2>2
<1>9. Closed(r, t)
  <2>1. ASSUME NEW i \in 1 .. m
        PROVE  q[i].type \notin ClosingEvent
    BY ClosingStatus DEF Story, Closed, ClosingEvent, Allowed
  <2>2. e.type \in ClosingEvent => t.status = StatusAfter[e.type]
    BY <1>3, ClosingStatus DEF ClosingEvent
  <2> QED
    BY <1>2, <2>1, <2>2 DEF Closed
<1>10. Funded(r)
  <2>1. ASSUME NEW i \in FundedAt(q)
        PROVE  /\ i \in 1 .. m
               /\ e.type # "CellRejected"
               /\ r[i].amount = r[1].terms.amount
               /\ r[i].by = r[1].terms.payer
               /\ r[i].at <= r[1].terms.fundingDeadline
               /\ ~r[1].acceptanceRequired \/ \E j \in 2 .. i - 1 : Accepting(r, j)
               /\ Unrejected(r)
    <3>1. i \in 1 .. m
      BY DEF FundedAt
    <3>2. /\ q[i].amount = q[1].terms.amount /\ q[i].by = q[1].terms.payer
          /\ q[i].at <= q[1].terms.fundingDeadline
          /\ ~q[1].acceptanceRequired \/ \E j \in 2 .. i - 1 : Accepting(q, j)
          /\ Unrejected(q)
      BY DEF Story, Funded
    <3>3. e.type # "CellRejected"
      BY DEF Story, Deposited, Allowed
    <3>4. Unrejected(r)
      BY <1>2, <3>2, <3>3 DEF Unrejected
    <3>5. ASSUME NEW j \in 2 .. i - 1, Accepting(q, j)
          PROVE  Accepting(r, j)
      <4>1. j \in 1 .. m
        BY <3>1
      <4> QED
        BY <1>2, <3>5, <4>1 DEF Accepting
    <3> QED
      BY <1>2, <3>1, <3>2, <3>3, <3>4, <3>5
  <2>2. ASSUME e.type = "CellFunded"
        PROVE  /\ e.amount = r[1].terms.amount
               /\ e.by = r[1].terms.payer
               /\ e.at <= r[1].terms.fundingDeadline
               /\ ~r[1].acceptanceRequired \/ \E j \in 2 .. n - 1 : Accepting(r, j)
               /\ Unrejected(r)
    <3>1. s.acceptanceStatus = "ACCEPTED" /\ e.by = s.payer /\ e.amount = s.amount /\ e.at <= s.fundingDeadline
      BY <2>2 DEF Allowed
    <3>2. Unrejected(r)
      BY <1>2, <2>2, <3>1 DEF Story, Consented, Unrejected
    <3>3. ASSUME q[1].acceptanceRequired
          PROVE  \E j \in 2 .. n - 1 : Accepting(r, j)
      <4>1. PICK j \in 2 .. m : Accepting(q, j)
        BY <1>1, <3>1, <3>3 DEF Story, Consented
      <4>2. j \in 1 .. m /\ j \in 2 .. n - 1
        BY DEF n
      <4>3. Accepting(r, j)
        BY <1>2, <4>1, <4>2 DEF Accepting
      <4> QED
        BY <4>2, <4>3
    <3> QED
      BY <1>2, <1>5, <3>1, <3>2, <3>3
  <2> QED
    BY <1>2, <1>7, <2>1, <2>2 DEF Funded
<1> QED
  BY <1>4, <1>6, <1>8, <1>9, <1>10 DEF Story

(* A creation begins one.                                                    *)
LEMMA Begins ==
  ASSUME NEW terms \in TermsType, NEW required \in BOOLEAN, NEW now \in Time, NEW s,
         NEW r, Len(r) = 1, DOMAIN r = {1}, r[1] = CellCreated(terms, required, now)
  PROVE  Story(r, EventFolder(s, CellCreated(terms, required, now)))
<1> DEFINE t == EventFolder(s, CellCreated(terms, required, now))
<1>1. /\ r[1].type = "CellCreated" /\ r[1].terms = terms /\ r[1].acceptanceRequired = required
      /\ t.payer = terms.payer /\ t.payee = terms.payee /\ t.amount = terms.amount
      /\ t.fundingDeadline = terms.fundingDeadline /\ t.status = "CREATED"
      /\ t.acceptanceStatus = IF required THEN "PENDING" ELSE "ACCEPTED"
  BY DEF CellCreated, EventFolder, CreatedState
<1>2. terms.payer # NoActor
  BY ActorAssumption DEF TermsType
<1> HIDE DEF t
<1>3. Opened(r, t)
  BY <1>1, <1>2 DEF Opened
<1>4. Consented(r, t)
  BY <1>1 DEF Consented, Unrejected
<1>5. FundedAt(r) = {}
  BY <1>1 DEF FundedAt
<1>6. Deposited(r, t) /\ Funded(r)
  BY <1>1, <1>5 DEF Deposited, Funded
<1>7. Closed(r, t)
  BY <1>1 DEF Closed, ClosingEvent
<1> QED
  BY <1>3, <1>4, <1>6, <1>7 DEF Story, t

-----------------------------------------------------------------------------
(* Every handler continues the story.                                        *)
LEMMA AppendContinues ==
  ASSUME NEW q \in Seq(Event), NEW s \in CellState, Story(q, s), NEW e \in Event, Allowed(s, e)
  PROVE  Story(Append(q, e), EventFolder(s, e))
<1>1. /\ Len(q) \in Nat /\ DOMAIN q = 1 .. Len(q)
      /\ Len(Append(q, e)) = Len(q) + 1 /\ DOMAIN Append(q, e) = 1 .. Len(q) + 1
      /\ Append(q, e)[Len(q) + 1] = e
      /\ \A i \in 1 .. Len(q) : Append(q, e)[i] = q[i]
  BY AppendFacts
<1> QED
  BY <1>1, Continues

LEMMA EmitContinues ==
  ASSUME TypeOK, Story(stream, state), NEW e \in Event, Allowed(state, e), Emit(e)
  PROVE  Story(stream', state')
BY AppendContinues DEF TypeOK, Emit

LEMMA CreateContinues ==
  ASSUME IInv, Story(stream, state), NEW terms \in Terms, NEW textOk \in BOOLEAN, NEW now \in Time,
         CreateCell(terms, textOk, now)
  PROVE  Story(stream', state')
<1> DEFINE e == CellCreated(terms, TRUE, now)
<1>1. terms \in TermsType /\ e \in Event
  BY TermsAssumption, CreatedIsEvent
<1>2. stream \in Seq(Event) /\ Len(stream) = 0
  BY DEF IInv, TypeOK, CreateCell, CanCreateCell, Story, Opened
<1>3. /\ Len(Append(stream, e)) = 1 /\ DOMAIN Append(stream, e) = {1} /\ Append(stream, e)[1] = e
  <2> HIDE DEF e
  <2>1. /\ Len(Append(stream, e)) = 0 + 1 /\ DOMAIN Append(stream, e) = 1 .. 0 + 1
        /\ Append(stream, e)[0 + 1] = e
    BY <1>1, <1>2, AppendFacts
  <2> QED
    BY <2>1
<1>4. stream' = Append(stream, e) /\ state' = EventFolder(state, e)
  BY DEF CreateCell, Emit
<1> QED
  BY <1>1, <1>3, <1>4, Begins

LEMMA AwardContinues ==
  ASSUME IInv, Story(stream, state), NEW by \in Actor, NEW favourOf \in {"payer", "payee"},
         NEW now \in Time, ResolveDispute(by, favourOf, now)
  PROVE  Story(stream', state')
<1> DEFINE resolved == DisputeResolved(by, favourOf, now)
           settled == SimpleEvent(Settlement(favourOf), by, now)
           mid == EventFolder(state, resolved)
<1>1. /\ stream' = Append(Append(stream, resolved), settled)
      /\ state' = EventFolder(mid, settled)
      /\ state.status = "DISPUTED" /\ state.payer # NoActor
      /\ stream \in Seq(Event) /\ state \in CellState
  BY Born DEF ResolveDispute, CanResolveDispute, IInv, TypeOK
<1>2. resolved \in Event /\ resolved.type = "DisputeResolved"
  BY ResolvedIsEvent DEF DisputeResolved
<1>3. Settlement(favourOf) \in {"Released", "Refunded"}
  BY DEF Settlement
<1>4. settled \in Event /\ settled.type \in {"Released", "Refunded"}
  BY <1>3, SimpleIsEvent DEF SimpleEventType
<1>5. /\ mid \in CellState
      /\ mid.payer = state.payer /\ mid.status = "DISPUTED"
  BY <1>1, <1>2, FolderTyped DEF EventFolder, StatusAfter
<1> HIDE DEF resolved, settled
<1>6. Allowed(state, resolved)
  BY <1>1, <1>2 DEF Allowed
<1>7. Story(Append(stream, resolved), mid) /\ Append(stream, resolved) \in Seq(Event)
  BY <1>1, <1>2, <1>6, AppendContinues
<1> HIDE DEF mid
<1>8. Allowed(mid, settled)
  BY <1>1, <1>4, <1>5 DEF Allowed
<1> QED
  BY <1>1, <1>4, <1>5, <1>7, <1>8, AppendContinues

LEMMA StoryStep ==
  ASSUME IInv, Story(stream, state), [Next]_vars
  PROVE  Story(stream', state')
<1>1. CASE UNCHANGED vars
  BY <1>1 DEF vars
<1>2. ASSUME NEW now \in Time, NEW terms \in Terms, NEW textOk \in BOOLEAN,
             CreateCell(terms, textOk, now)
      PROVE  Story(stream', state')
  BY <1>2, CreateContinues
<1>3. ASSUME NEW now \in Time, NEW by \in Actor, NEW amount \in Amount, FundCell(by, amount, now)
      PROVE  Story(stream', state')
  <2>1. CellFunded(by, amount, now) \in Event /\ Emit(CellFunded(by, amount, now))
    BY <1>3, FundedIsEvent DEF FundCell
  <2>2. Allowed(state, CellFunded(by, amount, now))
    BY <1>3, ActorAssumption DEF FundCell, CanFundCell, CellFunded, Allowed
  <2> QED
    BY <2>1, <2>2, EmitContinues DEF IInv
<1>4. ASSUME NEW now \in Time, NEW by \in Actor, NEW type \in SimpleEventType,
             Emit(SimpleEvent(type, by, now)), Allowed(state, SimpleEvent(type, by, now))
      PROVE  Story(stream', state')
  BY <1>4, SimpleIsEvent, EmitContinues DEF IInv
<1>5. ASSUME NEW now \in Time, NEW by \in Actor,
             \/ AcceptCell(by, now) \/ RejectCell(by, now)
             \/ RequestRelease(by, now) \/ ApproveRelease(by, now)
             \/ RequestRefund(by, now) \/ ApproveRefund(by, now)
             \/ ForceRefund(by, now) \/ ExpireCell(by, now) \/ OpenDispute(by, now)
      PROVE  Story(stream', state')
  <2>1. state.payer # NoActor
    BY <1>5, ActorAssumption
    DEF IInv, PartiesDistinct, InitialState, AcceptCell, CanAcceptCell, RejectCell, CanRejectCell,
        RequestRelease, CanRequestRelease, ApproveRelease, CanApproveRelease,
        RequestRefund, CanRequestRefund, ApproveRefund, CanApproveRefund,
        ForceRefund, CanForceRefund, ExpireCell, CanExpireCell, OpenDispute, CanOpenDispute
  <2>2. CASE AcceptCell(by, now)
    BY <1>4, <2>1, <2>2 DEF AcceptCell, CanAcceptCell, Allowed, SimpleEvent, SimpleEventType
  <2>3. CASE RejectCell(by, now)
    BY <1>4, <2>1, <2>3 DEF RejectCell, CanRejectCell, Allowed, SimpleEvent, SimpleEventType
  <2>4. CASE RequestRelease(by, now)
    BY <1>4, <2>1, <2>4 DEF RequestRelease, CanRequestRelease, Allowed, SimpleEvent, SimpleEventType
  <2>5. CASE ApproveRelease(by, now)
    BY <1>4, <2>1, <2>5 DEF ApproveRelease, CanApproveRelease, Allowed, SimpleEvent, SimpleEventType
  <2>6. CASE RequestRefund(by, now)
    BY <1>4, <2>1, <2>6 DEF RequestRefund, CanRequestRefund, Allowed, SimpleEvent, SimpleEventType
  <2>7. CASE ApproveRefund(by, now)
    BY <1>4, <2>1, <2>7 DEF ApproveRefund, CanApproveRefund, Allowed, SimpleEvent, SimpleEventType
  <2>8. CASE ForceRefund(by, now)
    BY <1>4, <2>1, <2>8 DEF ForceRefund, CanForceRefund, Allowed, SimpleEvent, SimpleEventType
  <2>9. CASE ExpireCell(by, now)
    BY <1>4, <2>1, <2>9 DEF ExpireCell, CanExpireCell, Allowed, SimpleEvent, SimpleEventType
  <2>10. CASE OpenDispute(by, now)
    BY <1>4, <2>1, <2>10 DEF OpenDispute, CanOpenDispute, Allowed, SimpleEvent, SimpleEventType
  <2> QED
    BY <1>5, <2>2, <2>3, <2>4, <2>5, <2>6, <2>7, <2>8, <2>9, <2>10
<1>6. ASSUME NEW now \in Time, NEW by \in Actor, NEW favourOf \in {"payer", "payee"},
             ResolveDispute(by, favourOf, now)
      PROVE  Story(stream', state')
  BY <1>6, AwardContinues
<1> QED
  BY <1>1, <1>2, <1>3, <1>5, <1>6 DEF Next

LEMMA StoryInit == Init => Story(stream, state)
<1> SUFFICES ASSUME Init PROVE Story(stream, state)
  OBVIOUS
<1>1. CASE stream = <<>> /\ state = InitialState
  <2>1. Len(stream) = 0 /\ DOMAIN stream = {}
    BY <1>1
  <2>2. state.payer = NoActor /\ state.status = "CREATED"
    BY <1>1 DEF InitialState
  <2> HIDE <1>1
  <2>3. FundedAt(stream) = {}
    BY <2>1 DEF FundedAt
  <2> QED
    BY <2>1, <2>2, <2>3 DEF Story, Opened, Consented, Unrejected, Deposited, Closed, Funded
<1>2. ASSUME NEW terms \in Terms, NEW at \in Time,
             stream = <<CellCreated(terms, FALSE, at)>>,
             state = EventFolder(InitialState, CellCreated(terms, FALSE, at))
      PROVE  Story(stream, state)
  <2>1. terms \in TermsType
    BY TermsAssumption
  <2>2. Len(stream) = 1 /\ DOMAIN stream = {1} /\ stream[1] = CellCreated(terms, FALSE, at)
    BY <1>2
  <2> QED
    BY <1>2, <2>1, <2>2, Begins
<1> QED
  BY <1>1, <1>2 DEF Init

-----------------------------------------------------------------------------
(* What the story implies.                                                   *)
LEMMA StoryCounts ==
  ASSUME TypeOK, Story(stream, state)
  PROVE  MoneyMovesOnce
<1>1. \A k : Cardinality({k}) = 1
  BY FS_Singleton
<1>2. Cardinality({}) = 0
  BY FS_EmptySet
<1>3. Count("CellCreated") <= 1
  <2> DEFINE S == {i \in DOMAIN stream : stream[i].type = "CellCreated"}
  <2>1. S = {} \/ S = {1}
    BY DEF Story, Opened
  <2>2. Cardinality(S) \in {0, 1}
    BY <1>1, <1>2, <2>1
  <2> QED
    BY <2>2 DEF Count
<1>4. Count("CellFunded") = Cardinality(FundedAt(stream))
  BY DEF Count, FundedAt
<1>5. /\ state.status \in {"CREATED", "EXPIRED"} => Count("CellFunded") = 0
      /\ state.status \in {"FUNDED", "DISPUTED", "RELEASED", "REFUNDED"} => Count("CellFunded") = 1
  BY <1>1, <1>2, <1>4 DEF Story, Deposited
<1>6. Count("CellFunded") <= 1
  <2>1. state.status \in {"CREATED", "EXPIRED", "FUNDED", "DISPUTED", "RELEASED", "REFUNDED"}
    BY DEF TypeOK, CellState, CellStatus, TERMINAL_STATUSES
  <2> QED
    BY <1>5, <2>1
<1>7. ASSUME NEW i \in DOMAIN stream
      PROVE  /\ stream[i].type \in ClosingEvent => i = Len(stream)
             /\ stream[i].type \in {"Released", "Refunded"} => Count("CellFunded") = 1
             /\ stream[i].type = "CellExpired" => Count("CellFunded") = 0
             /\ stream[i].type = "CellFunded" => stream[i].amount = stream[1].terms.amount
  <2>1. stream[i].type \in ClosingEvent => i = Len(stream) /\ state.status = StatusAfter[stream[i].type]
    BY DEF Story, Closed
  <2>2. stream[i].type = "CellFunded" => stream[i].amount = stream[1].terms.amount
    BY DEF Story, Funded, FundedAt
  <2> QED
    BY <1>5, <2>1, <2>2, ClosingStatus DEF ClosingEvent
<1> QED
  BY <1>3, <1>6, <1>7 DEF MoneyMovesOnce

LEMMA StoryConsents ==
  ASSUME Story(stream, state)
  PROVE  FundingFollowsAcceptance
BY DEF Story, Funded, FundedAt, Accepting, Unrejected, FundingFollowsAcceptance

(* The history of a cell is sound: whatever commands the handlers accept, in *)
(* any order and at any times, a cell is created once, funded at most once,  *)
(* with the agreed amount, by the payer, in time and (unless it predates     *)
(* acceptance) after the payee accepted, and closed at most once, by a       *)
(* settlement if it was funded and by an expiry if not; nothing follows.     *)
THEOREM HistoriesSound == Spec => []HistorySound
<1>1. Init => IInv /\ Story(stream, state)
  BY InitSafe, StoryInit
<1>2. IInv /\ Story(stream, state) /\ [Next]_vars => IInv' /\ Story(stream, state)'
  BY NextSafe, StoryStep
<1>3. IInv /\ Story(stream, state) => HistorySound
  BY StoryCounts, StoryConsents DEF IInv, HistorySound
<1> QED
  BY <1>1, <1>2, <1>3, PTL DEF Spec

-----------------------------------------------------------------------------
(* The kernel implements the two-of-three escrow: its initial states map to  *)
(* initial states and each of its steps to a step or a stutter.              *)

(* The initial states of a cell are initial states of the escrow. *)
LEMMA InitRefines == Init => Custody!Init
<1>. SUFFICES ASSUME Init PROVE Custody!Init
  OBVIOUS
<1>1. CASE stream = <<>> /\ state = InitialState
  BY <1>1 DEF InitialState, IsOpen, TERMINAL_STATUSES, Custody!Init, Custody!NoDeal,
              Custody!NotPaid, Never, deal, agreed, holder, closed, consent, seised, paidAt
<1>2. ASSUME NEW terms \in Terms, NEW at \in Time,
             CanCreateCell(InitialState, terms, TRUE),
             state = EventFolder(InitialState, CellCreated(terms, FALSE, at))
      PROVE  Custody!Init
  <2>1. terms \in TermsType
    BY TermsAssumption
  <2>2. /\ state.payer = terms.payer /\ state.payee = terms.payee
        /\ state.arbiter = terms.arbiter /\ state.status = "CREATED"
        /\ state.acceptanceStatus = "ACCEPTED"
        /\ state.completionDeadline = terms.completionDeadline
        /\ state.releaseRequestedBy = NoActor /\ state.refundRequestedBy = NoActor
    BY <1>2 DEF EventFolder, CreatedState, CellCreated
  <2>3. state.payer \in Actor /\ state.payer # NoActor
    BY <2>1, <2>2, ActorAssumption DEF TermsType
  <2>4. deal \in Custody!Deal /\ deal # Custody!NoDeal
    BY <2>1, <2>2, <2>3 DEF TermsType, deal, Custody!Deal, Custody!NoDeal
  <2>. QED
    BY <2>2, <2>3, <2>4 DEF Custody!Init, Custody!NotPaid, Never, IsOpen, TERMINAL_STATUSES,
                            agreed, holder, closed, consent, seised, paidAt
<1>. QED BY <1>1, <1>2 DEF Init

(* What a one-event command leaves alone, and what it does to the rest. *)
LEMMA SimpleStep ==
  ASSUME IInv, NEW type \in SimpleEventType, NEW by \in Actor, NEW now \in Time,
         Emit(SimpleEvent(type, by, now))
  PROVE  /\ state'.payer = state.payer
         /\ deal' = deal
         /\ state'.status = IF type \in DOMAIN StatusAfter THEN StatusAfter[type] ELSE state.status
         /\ state'.acceptanceStatus = IF type \in DOMAIN AcceptanceAfter
                                      THEN AcceptanceAfter[type] ELSE state.acceptanceStatus
         /\ state'.releaseRequestedBy
              = IF type = "ReleaseRequested" THEN by ELSE state.releaseRequestedBy
         /\ state'.refundRequestedBy
              = IF type = "RefundRequested" THEN by ELSE state.refundRequestedBy
         /\ (type \notin {"ReleaseRequested", "RefundRequested"} => consent' = consent)
BY SimpleFold DEF Emit, EventFolder, SimpleEvent, SimpleEventType, deal, consent, IInv, TypeOK

(* Unborn cells have no deal, born ones do. *)
LEMMA DealWhenBorn ==
  ASSUME IInv
  PROVE  /\ state.payer = NoActor => deal = Custody!NoDeal /\ state = InitialState
         /\ state.payer # NoActor => deal \in Custody!Deal /\ deal # Custody!NoDeal
BY ActorAssumption
   DEF IInv, TypeOK, CellState, PartiesDistinct, InitialState, deal, Custody!Deal, Custody!NoDeal

(* CreateCell strikes the deal. *)
LEMMA CreateRefines ==
  ASSUME IInv, NEW terms \in Terms, NEW textOk, NEW now \in Time, CreateCell(terms, textOk, now)
  PROVE  Custody!Strike
<1>1. /\ terms \in TermsType
      /\ state = InitialState
      /\ deal = Custody!NoDeal
      /\ state' = EventFolder(state, CellCreated(terms, TRUE, now))
  BY TermsAssumption, DealWhenBorn DEF CreateCell, CanCreateCell, Emit
<1>2. /\ state'.payer = terms.payer /\ state'.payee = terms.payee
      /\ state'.arbiter = terms.arbiter /\ state'.status = "CREATED"
      /\ state'.acceptanceStatus = "PENDING"
      /\ state'.completionDeadline = terms.completionDeadline
      /\ state'.releaseRequestedBy = NoActor /\ state'.refundRequestedBy = NoActor
  BY <1>1 DEF EventFolder, CreatedState, CellCreated
<1>3. deal' \in Custody!Deal
  BY <1>1, <1>2 DEF TermsType, deal, Custody!Deal
<1>4. agreed' = agreed /\ holder' = holder /\ closed' = closed
      /\ consent' = consent /\ seised' = seised /\ paidAt' = paidAt
  BY <1>1, <1>2 DEF InitialState, IsOpen, agreed, holder, closed, consent, seised, paidAt
<1>. QED BY <1>1, <1>3, <1>4 DEF Custody!Strike

(* AcceptCell agrees to the deal. *)
LEMMA AcceptRefines ==
  ASSUME IInv, NEW by \in Actor, NEW now \in Time, AcceptCell(by, now)
  PROVE  Custody!Agree
<1>1. /\ state.status = "CREATED" /\ state.payer # NoActor
      /\ Emit(SimpleEvent("CellAccepted", by, now))
  BY Born DEF AcceptCell, CanAcceptCell
<1>2. /\ deal' = deal /\ state'.payer = state.payer /\ consent' = consent
      /\ state'.status = state.status /\ state'.acceptanceStatus = "ACCEPTED"
  BY <1>1, SimpleStep DEF SimpleEventType, StatusAfter, AcceptanceAfter
<1>. QED
  BY <1>1, <1>2, DealWhenBorn DEF Custody!Agree, IsOpen, TERMINAL_STATUSES, agreed, holder,
                                  closed, seised, paidAt

(* RejectCell changes nothing about the money. *)
LEMMA RejectRefines ==
  ASSUME IInv, NEW by \in Actor, NEW now \in Time, RejectCell(by, now)
  PROVE  UNCHANGED Custody!vars
<1>1. /\ state.status = "CREATED" /\ state.acceptanceStatus = "PENDING"
      /\ Emit(SimpleEvent("CellRejected", by, now))
  BY DEF RejectCell, CanRejectCell
<1>2. /\ deal' = deal /\ state'.payer = state.payer /\ consent' = consent
      /\ state'.status = state.status /\ state'.acceptanceStatus = "REJECTED"
  BY <1>1, SimpleStep DEF SimpleEventType, StatusAfter, AcceptanceAfter
<1>. QED
  BY <1>1, <1>2 DEF Custody!vars, IsOpen, agreed, holder, closed, seised, paidAt

(* FundCell deposits the money. *)
LEMMA FundRefines ==
  ASSUME IInv, NEW by \in Actor, NEW amount \in Amount, NEW now \in Time,
         FundCell(by, amount, now)
  PROVE  Custody!Deposit
<1>1. /\ state.status = "CREATED" /\ state.acceptanceStatus = "ACCEPTED"
      /\ state.payer # NoActor
      /\ state' = EventFolder(state, CellFunded(by, amount, now))
  BY ActorAssumption DEF FundCell, CanFundCell, Emit
<1>2. /\ deal' = deal /\ state'.payer = state.payer /\ consent' = consent
      /\ state'.status = "FUNDED" /\ state'.acceptanceStatus = state.acceptanceStatus
  BY <1>1 DEF EventFolder, CellFunded, StatusAfter, AcceptanceAfter, deal, consent
<1>. QED
  BY <1>1, <1>2 DEF Custody!Deposit, IsOpen, TERMINAL_STATUSES, agreed, holder, closed, seised,
                    paidAt

(* RequestRelease asks that the money go to the payee. *)
LEMMA RequestReleaseRefines ==
  ASSUME IInv, NEW by \in Actor, NEW now \in Time, RequestRelease(by, now)
  PROVE  Custody!Ask("payee", by)
<1>1. /\ state.status = "FUNDED" /\ by \in {state.payer, state.payee}
      /\ state.releaseRequestedBy = NoActor
      /\ Emit(SimpleEvent("ReleaseRequested", by, now))
  BY DEF RequestRelease, CanRequestRelease
<1>2. /\ deal' = deal /\ state'.payer = state.payer
      /\ state'.status = state.status /\ state'.acceptanceStatus = state.acceptanceStatus
      /\ state'.releaseRequestedBy = by
      /\ state'.refundRequestedBy = state.refundRequestedBy
  BY <1>1, SimpleStep DEF SimpleEventType, StatusAfter, AcceptanceAfter
<1>3. consent' = [consent EXCEPT !["payee"] = @ \cup {by}]
  BY <1>1, <1>2, ActorAssumption DEF consent
<1>4. by \in {deal.payer, deal.payee}
  BY <1>1 DEF deal
<1>. QED
  BY <1>1, <1>2, <1>3, <1>4 DEF Custody!Ask, Custody!Parties, IsOpen, agreed, holder, closed,
                                seised, paidAt

(* RequestRefund asks that the money go back to the payer. *)
LEMMA RequestRefundRefines ==
  ASSUME IInv, NEW by \in Actor, NEW now \in Time, RequestRefund(by, now)
  PROVE  Custody!Ask("payer", by)
<1>1. /\ state.status = "FUNDED" /\ by = state.payer
      /\ state.refundRequestedBy = NoActor
      /\ Emit(SimpleEvent("RefundRequested", by, now))
  BY DEF RequestRefund, CanRequestRefund
<1>2. /\ deal' = deal /\ state'.payer = state.payer
      /\ state'.status = state.status /\ state'.acceptanceStatus = state.acceptanceStatus
      /\ state'.refundRequestedBy = by
      /\ state'.releaseRequestedBy = state.releaseRequestedBy
  BY <1>1, SimpleStep DEF SimpleEventType, StatusAfter, AcceptanceAfter
<1>3. consent' = [consent EXCEPT !["payer"] = @ \cup {by}]
  BY <1>1, <1>2, ActorAssumption DEF consent
<1>4. by \in {deal.payer, deal.payee}
  BY <1>1 DEF deal
<1>. QED
  BY <1>1, <1>2, <1>3, <1>4 DEF Custody!Ask, Custody!Parties, IsOpen, agreed, holder, closed,
                                seised, paidAt

(* Whatever settles an undisputed cell pays the money out of the escrow. *)
LEMMA SettlementPays ==
  ASSUME IInv, NEW favourOf \in {"payer", "payee"}, NEW by \in Actor, NEW now \in Time,
         state.status = "FUNDED",
         Emit(SimpleEvent(Settlement(favourOf), by, now))
  PROVE  Custody!Pay(favourOf, now)
<1>1. Settlement(favourOf) = IF favourOf = "payee" THEN "Released" ELSE "Refunded"
  BY DEF Settlement
<1>2. /\ deal' = deal /\ state'.payer = state.payer /\ consent' = consent
      /\ state'.status = IF favourOf = "payee" THEN "RELEASED" ELSE "REFUNDED"
      /\ state'.acceptanceStatus = state.acceptanceStatus
  BY <1>1, SimpleStep DEF SimpleEventType, StatusAfter, AcceptanceAfter
<1>3. (FromEnd(0).at)' = now
  <2>1. SimpleEvent(Settlement(favourOf), by, now) \in Event
    BY <1>1, SimpleIsEvent DEF SimpleEventType
  <2>2. FromEnd(0)' = SimpleEvent(Settlement(favourOf), by, now)
    BY <2>1, EmitFacts DEF IInv
  <2>. QED BY <2>2 DEF SimpleEvent
<1>. QED
  BY <1>2, <1>3 DEF Custody!Pay, IsOpen, TERMINAL_STATUSES, agreed, holder, closed, seised, paidAt

(* ApproveRelease pays the payee by consent of both parties. *)
LEMMA ApproveReleaseRefines ==
  ASSUME IInv, NEW by \in Actor, NEW now \in Time, ApproveRelease(by, now)
  PROVE  Custody!PayByConsent("payee", by, now)
<1>1. /\ state.status = "FUNDED" /\ state.releaseRequestedBy # NoActor
      /\ {state.releaseRequestedBy} \cup {by} = {state.payer, state.payee}
      /\ Emit(SimpleEvent("Released", by, now))
  BY DEF ApproveRelease, CanApproveRelease
<1>2. Custody!Pay("payee", now)
  BY <1>1, SettlementPays DEF Settlement
<1>3. /\ consent["payee"] = {state.releaseRequestedBy}
      /\ deal.payer = state.payer /\ deal.payee = state.payee
      /\ deal.payer # deal.payee
  BY <1>1, Born DEF consent, deal, IInv, PartiesDistinct
<1>4. ~seised
  BY <1>1 DEF seised
<1>. QED
  BY <1>1, <1>2, <1>3, <1>4 DEF Custody!PayByConsent, Custody!Parties

(* ApproveRefund pays the payer by consent of both parties. *)
LEMMA ApproveRefundRefines ==
  ASSUME IInv, NEW by \in Actor, NEW now \in Time, ApproveRefund(by, now)
  PROVE  Custody!PayByConsent("payer", by, now)
<1>1. /\ state.status = "FUNDED" /\ by = state.payee
      /\ state.refundRequestedBy = state.payer /\ state.refundRequestedBy # NoActor
      /\ Emit(SimpleEvent("Refunded", by, now))
  BY DEF ApproveRefund, CanApproveRefund, IInv, RequestsOnRecord
<1>2. Custody!Pay("payer", now)
  BY <1>1, SettlementPays DEF Settlement
<1>3. /\ consent["payer"] = {state.payer}
      /\ deal.payer = state.payer /\ deal.payee = state.payee
      /\ deal.payer # deal.payee
  BY <1>1, Born DEF consent, deal, IInv, PartiesDistinct
<1>4. ~seised
  BY <1>1 DEF seised
<1>. QED
  BY <1>1, <1>2, <1>3, <1>4 DEF Custody!PayByConsent, Custody!Parties

(* ForceRefund pays back after the timelock. *)
LEMMA ForceRefundRefines ==
  ASSUME IInv, NEW by \in Actor, NEW now \in Time, ForceRefund(by, now)
  PROVE  Custody!PayBack(now)
<1>1. /\ state.status = "FUNDED" /\ now > state.completionDeadline
      /\ Emit(SimpleEvent("Refunded", by, now))
  BY DEF ForceRefund, CanForceRefund
<1>2. Custody!Pay("payer", now)
  BY <1>1, SettlementPays DEF Settlement
<1>. QED
  BY <1>1, <1>2 DEF Custody!PayBack, deal, seised

(* ExpireCell lapses a deal without a deposit. *)
LEMMA ExpireRefines ==
  ASSUME IInv, NEW by \in Actor, NEW now \in Time, ExpireCell(by, now)
  PROVE  Custody!Lapse
<1>1. /\ state.status = "CREATED" /\ state.payer # NoActor
      /\ Emit(SimpleEvent("CellExpired", by, now))
  BY DEF ExpireCell, CanExpireCell
<1>2. /\ deal' = deal /\ state'.payer = state.payer /\ consent' = consent
      /\ state'.status = "EXPIRED" /\ state'.acceptanceStatus = state.acceptanceStatus
  BY <1>1, SimpleStep DEF SimpleEventType, StatusAfter, AcceptanceAfter
<1>. QED
  BY <1>1, <1>2, DealWhenBorn DEF Custody!Lapse, IsOpen, TERMINAL_STATUSES, agreed, holder,
                                  closed, seised, paidAt

(* OpenDispute calls the arbiter. *)
LEMMA OpenDisputeRefines ==
  ASSUME IInv, NEW by \in Actor, NEW now \in Time, OpenDispute(by, now)
  PROVE  Custody!CallArbiter(by)
<1>1. /\ state.status = "FUNDED" /\ by \in {state.payer, state.payee}
      /\ state.arbiter # NoActor
      /\ Emit(SimpleEvent("DisputeOpened", by, now))
  BY DEF OpenDispute, CanOpenDispute
<1>2. /\ deal' = deal /\ state'.payer = state.payer /\ consent' = consent
      /\ state'.status = "DISPUTED" /\ state'.acceptanceStatus = state.acceptanceStatus
  BY <1>1, SimpleStep DEF SimpleEventType, StatusAfter, AcceptanceAfter
<1>3. by \in {deal.payer, deal.payee} /\ deal.arbiter # NoActor
  BY <1>1 DEF deal
<1>. QED
  BY <1>1, <1>2, <1>3 DEF Custody!CallArbiter, Custody!Parties, IsOpen, TERMINAL_STATUSES,
                          agreed, holder, closed, seised, paidAt

(* ResolveDispute pays by award. *)
LEMMA ResolveRefines ==
  ASSUME IInv, NEW by \in Actor, NEW favourOf \in {"payer", "payee"}, NEW now \in Time,
         ResolveDispute(by, favourOf, now)
  PROVE  Custody!PayByAward(favourOf, now)
<1>. DEFINE mid == EventFolder(state, DisputeResolved(by, favourOf, now))
            settled == SimpleEvent(Settlement(favourOf), by, now)
<1>1. /\ state.status = "DISPUTED" /\ state.arbiter = by
      /\ state' = EventFolder(mid, settled)
  BY DEF ResolveDispute, CanResolveDispute
<1>2. /\ mid.payer = state.payer /\ mid.payee = state.payee /\ mid.arbiter = state.arbiter
      /\ mid.completionDeadline = state.completionDeadline
      /\ mid.acceptanceStatus = state.acceptanceStatus
      /\ mid.releaseRequestedBy = state.releaseRequestedBy
      /\ mid.refundRequestedBy = state.refundRequestedBy
  BY DEF DisputeResolved, EventFolder, AcceptanceAfter
<1>3. settled.type = IF favourOf = "payee" THEN "Released" ELSE "Refunded"
  BY DEF SimpleEvent, Settlement
<1>4. /\ state'.payer = state.payer /\ state'.payee = state.payee
      /\ state'.arbiter = state.arbiter
      /\ state'.completionDeadline = state.completionDeadline
      /\ state'.acceptanceStatus = state.acceptanceStatus
      /\ state'.releaseRequestedBy = state.releaseRequestedBy
      /\ state'.refundRequestedBy = state.refundRequestedBy
      /\ state'.status = IF favourOf = "payee" THEN "RELEASED" ELSE "REFUNDED"
  <2>. HIDE DEF mid, settled
  <2>1. /\ state'.payer = mid.payer /\ state'.payee = mid.payee /\ state'.arbiter = mid.arbiter
        /\ state'.completionDeadline = mid.completionDeadline
        /\ state'.acceptanceStatus = mid.acceptanceStatus
        /\ state'.releaseRequestedBy = mid.releaseRequestedBy
        /\ state'.refundRequestedBy = mid.refundRequestedBy
    BY <1>1, <1>3 DEF EventFolder, AcceptanceAfter
  <2>2. state'.status = IF favourOf = "payee" THEN "RELEASED" ELSE "REFUNDED"
    BY <1>1, <1>3 DEF EventFolder, StatusAfter
  <2>. QED BY <1>2, <2>1, <2>2
<1>5. deal' = deal /\ consent' = consent /\ agreed' = agreed
  BY <1>4 DEF deal, consent, agreed
<1>6. /\ holder = "escrow" /\ holder' = favourOf
      /\ closed' = TRUE /\ seised = TRUE /\ seised' = FALSE
  BY <1>1, <1>4 DEF IsOpen, TERMINAL_STATUSES, holder, closed, seised
<1>7. deal.arbiter \in Actor \ {deal.payer, deal.payee}
  BY <1>1, Born DEF deal, IInv, PartiesDistinct
<1>8. paidAt' = now
  <2>1. /\ DisputeResolved(by, favourOf, now) \in Event
        /\ settled \in Event /\ settled.at = now
    BY <1>3, ResolvedIsEvent, SimpleIsEvent DEF SimpleEvent, Settlement, SimpleEventType
  <2>2. stream' = Append(Append(stream, DisputeResolved(by, favourOf, now)), settled)
    BY DEF ResolveDispute
  <2>3. stream'[Len(stream')] = settled
    BY <2>1, <2>2, AppendFacts DEF IInv, TypeOK
  <2>4. (FromEnd(0).at)' = now
    BY <2>1, <2>2, <2>3 DEF FromEnd, IInv, TypeOK
  <2>. QED BY <1>4, <2>4 DEF paidAt
<1>. QED
  BY <1>5, <1>6, <1>7, <1>8 DEF Custody!PayByAward, Custody!Pay, Custody!Parties

(* Every command is a step of the escrow or leaves it alone. *)
LEMMA NextRefines == IInv /\ [Next]_vars => [Custody!Next]_(Custody!vars)
<1>. SUFFICES ASSUME IInv, [Next]_vars PROVE [Custody!Next]_(Custody!vars)
  OBVIOUS
<1>1. CASE UNCHANGED vars
  BY <1>1 DEF vars, Custody!vars, deal, agreed, holder, closed, consent, seised, paidAt, FromEnd
<1>2. ASSUME NEW terms \in Terms, NEW textOk, NEW now \in Time, CreateCell(terms, textOk, now)
      PROVE  Custody!Next
  BY <1>2, CreateRefines DEF Custody!Next
<1>3. ASSUME NEW by \in Actor, NEW now \in Time, NEW amount \in Amount,
             FundCell(by, amount, now)
      PROVE  Custody!Next
  BY <1>3, FundRefines DEF Custody!Next
<1>4. ASSUME NEW by \in Actor, NEW now \in Time, RejectCell(by, now)
      PROVE  UNCHANGED Custody!vars
  BY <1>4, RejectRefines
<1>5. ASSUME NEW by \in Actor, NEW now \in Time,
             RequestRelease(by, now) \/ RequestRefund(by, now)
      PROVE  Custody!Next
  BY <1>5, RequestReleaseRefines, RequestRefundRefines DEF Custody!Next
<1>6. ASSUME NEW by \in Actor, NEW now \in Time,
             ApproveRelease(by, now) \/ ApproveRefund(by, now)
      PROVE  Custody!Next
  BY <1>6, ApproveReleaseRefines, ApproveRefundRefines DEF Custody!Next
<1>7. ASSUME NEW by \in Actor, NEW now \in Time, ForceRefund(by, now) \/ OpenDispute(by, now)
      PROVE  Custody!Next
  BY <1>7, ForceRefundRefines, OpenDisputeRefines DEF Custody!Next
<1>8. ASSUME NEW by \in Actor, NEW favourOf \in {"payer", "payee"}, NEW now \in Time,
             ResolveDispute(by, favourOf, now)
      PROVE  Custody!Next
  BY <1>8, ResolveRefines DEF Custody!Next
<1>9. ASSUME NEW by \in Actor, NEW now \in Time, AcceptCell(by, now) \/ ExpireCell(by, now)
      PROVE  Custody!Next
  BY <1>9, AcceptRefines, ExpireRefines DEF Custody!Next
<1>. QED BY <1>1, <1>2, <1>3, <1>4, <1>5, <1>6, <1>7, <1>8, <1>9 DEF Next

(* The handlers of state-machine.ts keep the promise of TwoOfThreeEscrow. *)
THEOREM KernelImplementsCustody == Spec => ImplementsCustody
BY InitRefines, NextRefines, Invariant, PTL DEF Spec, ImplementsCustody, Custody!Spec

=============================================================================
