------------------------- MODULE DevelopmentProofs -------------------------
(***************************************************************************)
(* Theorems about the development stack: prototype funding, the bootstrap   *)
(* of its actors and the page.                                              *)
(***************************************************************************)
EXTENDS FrontendSession, DevelopmentProvisioning, PrototypeFunding, TLAPS

(* Prototype funding.  The invariant: an intent is dated before its expiry   *)
(* and made for the cell of some request of its id; a request that got past  *)
(* its cell is its payer's, and funds with the intent of its command; what   *)
(* the ledger keeps of a command is the context of the one intent of its id, *)
(* so that it does not depend on who executes it and when; a receipt is that *)
(* of a command that succeeded; and who repeats one never opens an intent.   *)
Paying(r) == Sent[r].actor = Terms[Sent[r].cell].payer
Fits(i, r) == i.id = Sent[r].command /\ MatchesCell(r, i)
Dated(i, t) == i.createdAt \in Nat /\ i.createdAt <= t /\ i.createdAt < i.expires
ContextOf(i) ==
  [intent |-> i.id, cell |-> i.cell, payer |-> i.payer,
   transaction |-> i.id, confirmedAt |-> i.createdAt]

PrototypeTyped ==
  /\ now \in Nat /\ now <= MaxTime
  /\ cells \in [Cell -> [status : {"CREATED", "FUNDED", "RELEASED", "EXPIRED"},
                         acceptance : {"PENDING", "ACCEPTED", "REJECTED"}]]
  /\ DOMAIN executions = Command /\ DOMAIN request = Request /\ DOMAIN succeeded = Request

IntentsSound ==
  /\ \A i, j \in intents : i.id = j.id => i = j
  /\ \A i \in intents : Dated(i, now) /\ \E r \in Request : Fits(i, r)

Placed(r) ==
  /\ request[r].pc \in {"intent", "open", "insert", "reread", "fund"} => Paying(r)
  /\ request[r].pc = "insert" => Fits(request[r].draft, r) /\ Dated(request[r].draft, now)
  /\ request[r].pc = "fund" => request[r].intent \in intents /\ Fits(request[r].intent, r)
  /\ request[r].pc = "reread" => \E i \in intents : i.id = Sent[r].command

Executed(k) ==
  /\ executions[k].result \in {"SUCCESS", "KERNEL_REJECTION"}
  /\ \E i \in intents, r \in Request :
       Fits(i, r) /\ Paying(r) /\ i.id = k /\ executions[k].fingerprint = ContextOf(i)
LedgerSound == \A k \in Command : executions[k] = NotExecuted \/ Executed(k)

ReceiptsSound ==
  /\ \A p \in receipts :
       /\ p.command \in Command /\ executions[p.command].result = "SUCCESS"
       /\ p = ReceiptOf(executions[p.command].fingerprint, p.command)
  /\ \A c \in Cell : cells[c].status \in {"FUNDED", "RELEASED"} <=> \E p \in receipts : p.cell = c
  /\ \A p, q \in receipts : p.cell = q.cell => p = q

Repeats(r) == Sent[r].command \in succeeded[r] /\ OnlyAsked(Sent[r].command)
Told ==
  {"SUCCESS", "FAILURE", "CELL_UNREADABLE", "UNAUTHENTICATED", "COMMAND_NOT_PERMITTED"}
RepeatedSoundly(r) ==
  /\ \A k \in succeeded[r] : k \in Command /\ executions[k].result = "SUCCESS"
  /\ Repeats(r) => request[r].pc \notin {"open", "insert"}
  /\ request[r].pc = "answered" =>
       /\ request[r].outcome # "IDEMPOTENCY_CONFLICT"
       /\ Repeats(r) => request[r].outcome \in Told

PrototypeInv ==
  /\ PrototypeTyped /\ IntentsSound /\ LedgerSound /\ ReceiptsSound
  /\ \A r \in Request : Placed(r) /\ RepeatedSoundly(r)

(* The invariant gives what the run checks: intents, receipts and what       *)
(* repetitions are told.                                                     *)
LEMMA PrototypeInvGives ==
  ASSUME PrototypeAssumption, PrototypeInv PROVE PrototypeSound
<1>1. PrototypeTypeOK
  BY DEF PrototypeInv, PrototypeTyped, IntentsSound, Placed, PrototypeTypeOK, At
<1>2. ASSUME NEW p \in receipts
      PROVE \E i \in intents, r \in Request :
              /\ Fits(i, r) /\ Paying(r) /\ i.id = p.command /\ i.id = p.intent /\ i.cell = p.cell
              /\ p.confirmedAt = i.createdAt /\ Dated(i, now)
  <2>1. p.command \in Command /\ executions[p.command].result = "SUCCESS"
        /\ p = ReceiptOf(executions[p.command].fingerprint, p.command)
    BY DEF PrototypeInv, ReceiptsSound
  <2>2. executions[p.command] # NotExecuted
    BY <2>1 DEF NotExecuted, PrototypeAssumption
  <2>3. PICK i \in intents, r \in Request :
          Fits(i, r) /\ Paying(r) /\ i.id = p.command
          /\ executions[p.command].fingerprint = ContextOf(i)
    BY <2>1, <2>2 DEF PrototypeInv, LedgerSound, Executed
  <2>4. p.intent = i.id /\ p.cell = i.cell /\ p.confirmedAt = i.createdAt
    BY <2>1, <2>3 DEF ReceiptOf, ContextOf
  <2> QED BY <2>3, <2>4 DEF PrototypeInv, IntentsSound
<1>3. FundedByItsIntent
  <2>1. ASSUME NEW p \in receipts
        PROVE \E i \in intents :
                /\ i.id = p.intent /\ i.cell = p.cell
                /\ i.createdAt <= p.confirmedAt /\ p.confirmedAt < i.expires
    BY <1>2 DEF Dated
  <2> QED BY <2>1 DEF FundedByItsIntent, PrototypeInv, ReceiptsSound
<1>4. PayerAsked
  BY <1>2 DEF PayerAsked, Fits, MatchesCell, Paying
<1>5. RepetitionRecognised
  BY DEF PrototypeInv, RepeatedSoundly, RepetitionRecognised, Repeats, Told
<1> QED BY <1>1, <1>3, <1>4, <1>5 DEF PrototypeSound

(* Where it begins nothing was asked.                                        *)
LEMMA PrototypeInvInit ==
  ASSUME PrototypeAssumption, PrototypeInit PROVE PrototypeInv
<1>1. PrototypeTyped /\ IntentsSound /\ LedgerSound
  BY DEF PrototypeInit, PrototypeAssumption, PrototypeTyped, IntentsSound, LedgerSound
<1>2. ReceiptsSound
  BY DEF PrototypeInit, ReceiptsSound
<1>3. ASSUME NEW r \in Request PROVE Placed(r) /\ RepeatedSoundly(r)
  BY DEF PrototypeInit, Placed, RepeatedSoundly, Repeats
<1> QED BY <1>1, <1>2, <1>3 DEF PrototypeInv

(* A step that moves one request and leaves the stores keeps the invariant   *)
(* if the request is where it may be.                                        *)
LEMMA RequestMoves ==
  ASSUME PrototypeInv, NEW r \in Request, NEW next, Proceed(r, next),
         UNCHANGED <<now, cells, intents, receipts, executions>>,
         \A q \in Request \ {r} : succeeded'[q] = succeeded[q], DOMAIN succeeded' = Request,
         Placed(r)', RepeatedSoundly(r)'
  PROVE PrototypeInv'
<1>1. PrototypeTyped' /\ IntentsSound' /\ LedgerSound' /\ ReceiptsSound'
  <2>1. PrototypeTyped'
    BY DEF PrototypeInv, PrototypeTyped, Proceed
  <2>2. IntentsSound'
    BY DEF PrototypeInv, IntentsSound
  <2>3. LedgerSound'
    BY DEF PrototypeInv, LedgerSound, Executed
  <2>4. ReceiptsSound'
    BY DEF PrototypeInv, ReceiptsSound
  <2> QED BY <2>1, <2>2, <2>3, <2>4
<1>2. ASSUME NEW q \in Request, q # r PROVE Placed(q)' /\ RepeatedSoundly(q)'
  <2>1. request'[q] = request[q] /\ succeeded'[q] = succeeded[q]
    BY <1>2 DEF Proceed, PrototypeInv, PrototypeTyped
  <2> QED BY <2>1 DEF PrototypeInv, Placed, RepeatedSoundly, Repeats
<1> QED BY <1>1, <1>2 DEF PrototypeInv

(* Who repeats a command that succeeded pays for the cell of its intent.     *)
LEMMA RepeaterPays ==
  ASSUME PrototypeAssumption, PrototypeInv, NEW r \in Request, Repeats(r)
  PROVE /\ Paying(r)
        /\ \E i \in intents : Fits(i, r)
        /\ executions[Sent[r].command] # NotExecuted
        /\ executions[Sent[r].command].result = "SUCCESS"
<1> DEFINE k == Sent[r].command
<1>1. k \in Command /\ executions[k].result = "SUCCESS"
  BY DEF PrototypeInv, RepeatedSoundly, Repeats
<1>2. executions[k] # NotExecuted
  BY <1>1 DEF NotExecuted, PrototypeAssumption
<1>3. PICK i \in intents, q \in Request : Fits(i, q) /\ Paying(q) /\ i.id = k
  BY <1>1, <1>2 DEF PrototypeInv, LedgerSound, Executed
<1>4. Same(q, r)
  BY <1>3 DEF Repeats, OnlyAsked, Fits
<1>5. Paying(r) /\ Fits(i, r)
  BY <1>3, <1>4 DEF Same, Paying, Fits, MatchesCell
<1> QED BY <1>1, <1>2, <1>5

(* Going on with the stored intent: the request funds with it, or is told    *)
(* that it does not fit, which a repetition is not.                          *)
LEMMA ContinueKeeps ==
  ASSUME PrototypeAssumption, PrototypeInv, NEW r \in Request, Paying(r), Continue(r),
         UNCHANGED <<now, cells, intents, receipts, executions, succeeded>>
  PROVE PrototypeInv'
<1>1. CASE \E i \in IntentOf(r) : MatchesCell(r, i)
  <2>1. PICK i \in IntentOf(r) : Proceed(r, [pc |-> "fund", intent |-> i])
    BY <1>1 DEF Continue
  <2>2. MatchesCell(r, i) /\ i \in intents /\ i.id = Sent[r].command
    BY <1>1 DEF IntentOf, PrototypeInv, IntentsSound
  <2>3. request'[r] = [pc |-> "fund", intent |-> i]
    BY <2>1 DEF Proceed, PrototypeInv, PrototypeTyped
  <2>4. Placed(r)'
    BY <2>2, <2>3 DEF Placed, Fits
  <2>5. RepeatedSoundly(r)'
    BY <2>3 DEF PrototypeInv, RepeatedSoundly, Repeats
  <2> QED BY <2>1, <2>4, <2>5, RequestMoves DEF PrototypeInv, PrototypeTyped
<1>2. CASE ~\E i \in IntentOf(r) : MatchesCell(r, i)
  <2>1. Proceed(r, [pc |-> "answered", outcome |-> "FUNDING_EVIDENCE_INVALID"])
    BY <1>2 DEF Continue, Answer
  <2>2. request'[r] = [pc |-> "answered", outcome |-> "FUNDING_EVIDENCE_INVALID"]
    BY <2>1 DEF Proceed, PrototypeInv, PrototypeTyped
  <2>3. ~Repeats(r)
    BY <1>2, RepeaterPays DEF Fits, IntentOf
  <2>4. Placed(r)'
    BY <2>2 DEF Placed
  <2>5. RepeatedSoundly(r)'
    BY <2>2, <2>3 DEF PrototypeInv, RepeatedSoundly, Repeats
  <2> QED BY <2>1, <2>4, <2>5, RequestMoves DEF PrototypeInv, PrototypeTyped
<1> QED BY <1>1, <1>2

(* An answer that is neither a conflict nor, to a repetition, unfounded.     *)
LEMMA AnswerKeeps ==
  ASSUME PrototypeInv, NEW r \in Request, NEW o, Answer(r, o),
         o # "IDEMPOTENCY_CONFLICT", Repeats(r) => o \in Told,
         UNCHANGED <<now, cells, intents, receipts, executions, succeeded>>
  PROVE PrototypeInv'
<1>1. Proceed(r, [pc |-> "answered", outcome |-> o])
  BY DEF Answer
<1>2. request'[r] = [pc |-> "answered", outcome |-> o]
  BY <1>1 DEF Proceed, PrototypeInv, PrototypeTyped
<1>3. Placed(r)'
  BY <1>2 DEF Placed
<1>4. RepeatedSoundly(r)'
  BY <1>2 DEF PrototypeInv, RepeatedSoundly, Repeats
<1> QED BY <1>1, <1>3, <1>4, RequestMoves DEF PrototypeInv, PrototypeTyped

(* The actor is resolved, and what had succeeded is noted.                   *)
LEMMA ResolveActorPrincipalKeeps ==
  ASSUME PrototypeInv, NEW r \in Request, ResolveActorPrincipal(r) PROVE PrototypeInv'
<1>1. /\ succeeded' = [succeeded EXCEPT ![r] = {k \in Command : executions[k].result = "SUCCESS"}]
      /\ UNCHANGED <<now, cells, intents, receipts, executions>>
  BY DEF ResolveActorPrincipal
<1>2. DOMAIN succeeded' = Request /\ \A q \in Request \ {r} : succeeded'[q] = succeeded[q]
  BY <1>1 DEF PrototypeInv, PrototypeTyped
<1>3. \A k \in succeeded'[r] : k \in Command /\ executions'[k].result = "SUCCESS"
  BY <1>1 DEF PrototypeInv, PrototypeTyped
<1>4. CASE Proceed(r, [pc |-> "cell"])
  <2>1. request'[r] = [pc |-> "cell"]
    BY <1>4 DEF Proceed, PrototypeInv, PrototypeTyped
  <2>2. Placed(r)' /\ RepeatedSoundly(r)'
    BY <1>3, <2>1 DEF Placed, RepeatedSoundly
  <2> QED BY <1>1, <1>2, <1>4, <2>2, RequestMoves
<1>5. ASSUME NEW o \in {"UNAUTHENTICATED", "COMMAND_NOT_PERMITTED"}, Answer(r, o) PROVE PrototypeInv'
  <2>1. Proceed(r, [pc |-> "answered", outcome |-> o])
    BY <1>5 DEF Answer
  <2>2. request'[r] = [pc |-> "answered", outcome |-> o]
    BY <2>1 DEF Proceed, PrototypeInv, PrototypeTyped
  <2>3. Placed(r)' /\ RepeatedSoundly(r)'
    BY <1>3, <2>2 DEF Placed, RepeatedSoundly, Told
  <2> QED BY <1>1, <1>2, <2>1, <2>3, RequestMoves
<1> QED BY <1>4, <1>5 DEF ResolveActorPrincipal

(* The stages that only read, and the failure of any of them.                *)
LEMMA ReadingKeeps ==
  ASSUME PrototypeAssumption, PrototypeInv, NEW r \in Request,
         Fail(r) \/ LoadCell(r) \/ GetFundingIntent(r) \/ CreateFundingIntent(r) \/ Reread(r)
  PROVE PrototypeInv'
<1>1. UNCHANGED <<now, cells, intents, receipts, executions, succeeded>>
  BY DEF Fail, LoadCell, GetFundingIntent, CreateFundingIntent, Reread, Pure
<1>2. CASE Fail(r)
  BY <1>1, <1>2, AnswerKeeps DEF Fail, Told
<1>3. CASE LoadCell(r)
  <2>1. CASE Paying(r)
    <3>1. Proceed(r, [pc |-> "intent"])
      BY <1>3, <2>1 DEF LoadCell, Paying
    <3>2. request'[r] = [pc |-> "intent"]
      BY <3>1 DEF Proceed, PrototypeInv, PrototypeTyped
    <3>3. Placed(r)' /\ RepeatedSoundly(r)'
      BY <1>1, <2>1, <3>2 DEF Placed, PrototypeInv, RepeatedSoundly
    <3> QED BY <1>1, <3>1, <3>3, RequestMoves DEF PrototypeInv, PrototypeTyped
  <2>2. CASE ~Paying(r)
    <3>1. PICK o \in {"COMMAND_NOT_PERMITTED", "CELL_NOT_FOUND"} : Answer(r, o)
      BY <1>3, <2>2 DEF LoadCell, Paying
    <3> QED BY <1>1, <2>2, <3>1, RepeaterPays, AnswerKeeps
  <2> QED BY <2>1, <2>2
<1>4. CASE GetFundingIntent(r)
  <2>1. Paying(r)
    BY <1>4 DEF GetFundingIntent, At, PrototypeInv, Placed
  <2>2. CASE IntentOf(r) = {}
    <3>1. Proceed(r, [pc |-> "open"])
      BY <1>4, <2>2 DEF GetFundingIntent
    <3>2. request'[r] = [pc |-> "open"]
      BY <3>1 DEF Proceed, PrototypeInv, PrototypeTyped
    <3>3. ~Repeats(r)
      BY <2>2, RepeaterPays DEF Fits, IntentOf
    <3>4. Placed(r)' /\ RepeatedSoundly(r)'
      BY <1>1, <2>1, <3>2, <3>3 DEF Placed, PrototypeInv, RepeatedSoundly, Repeats
    <3> QED BY <1>1, <3>1, <3>4, RequestMoves DEF PrototypeInv, PrototypeTyped
  <2>3. CASE IntentOf(r) # {}
    <3>1. Continue(r)
      BY <1>4, <2>3 DEF GetFundingIntent
    <3> QED BY <1>1, <2>1, <3>1, ContinueKeeps
  <2> QED BY <2>2, <2>3
<1>5. CASE CreateFundingIntent(r)
  <2>1. Paying(r) /\ ~Repeats(r)
    BY <1>5 DEF CreateFundingIntent, At, PrototypeInv, Placed, RepeatedSoundly
  <2>2. CASE Proceed(r, [pc |-> "insert", draft |-> Draft(r)]) /\ Terms[Sent[r].cell].deadline > now
    <3>1. request'[r] = [pc |-> "insert", draft |-> Draft(r)]
      BY <2>2 DEF Proceed, PrototypeInv, PrototypeTyped
    <3>2. Fits(Draft(r), r)
      BY DEF Fits, MatchesCell, Draft
    <3>3. Dated(Draft(r), now)
      <4>1. now \in Nat /\ Terms[Sent[r].cell].deadline \in Nat
        BY DEF PrototypeInv, PrototypeTyped, PrototypeAssumption
      <4>2. Draft(r).createdAt = now /\ Draft(r).expires = Terms[Sent[r].cell].deadline
        BY DEF Draft
      <4> QED BY <2>2, <4>1, <4>2 DEF Dated
    <3>4. Fits(request'[r].draft, r) /\ Dated(request'[r].draft, now')
      BY <1>1, <3>1, <3>2, <3>3 DEF Dated, Fits
    <3>5. Placed(r)' /\ RepeatedSoundly(r)'
      BY <1>1, <2>1, <3>1, <3>4 DEF Placed, PrototypeInv, RepeatedSoundly, Repeats
    <3> QED BY <1>1, <2>2, <3>5, RequestMoves DEF PrototypeInv, PrototypeTyped
  <2>3. CASE Answer(r, "FUNDING_EVIDENCE_INVALID")
    BY <1>1, <2>1, <2>3, AnswerKeeps
  <2> QED BY <1>5, <2>2, <2>3 DEF CreateFundingIntent
<1>6. CASE Reread(r)
  <2>1. Paying(r) /\ Continue(r)
    BY <1>6 DEF Reread, At, PrototypeInv, Placed
  <2> QED BY <1>1, <2>1, ContinueKeeps
<1> QED BY <1>2, <1>3, <1>4, <1>5, <1>6

(* The intent is inserted if none of its id is there.                        *)
LEMMA InsertIntentKeeps ==
  ASSUME PrototypeAssumption, PrototypeInv, NEW r \in Request, InsertIntent(r) PROVE PrototypeInv'
<1> DEFINE i == request[r].draft
<1>1. /\ Paying(r) /\ ~Repeats(r) /\ Fits(i, r) /\ Dated(i, now)
      /\ UNCHANGED <<now, cells, receipts, executions, succeeded>>
  BY DEF InsertIntent, At, PrototypeInv, Placed, RepeatedSoundly
<1>2. CASE IntentOf(r) = {}
  <2>1. Proceed(r, [pc |-> "reread"]) /\ intents' = intents \cup {i}
    BY <1>2 DEF InsertIntent
  <2>2. request'[r] = [pc |-> "reread"] /\ DOMAIN request' = Request
        /\ \A q \in Request \ {r} : request'[q] = request[q]
    BY <2>1 DEF Proceed, PrototypeInv, PrototypeTyped
  <2>3. PrototypeTyped'
    BY <1>1, <2>2 DEF PrototypeInv, PrototypeTyped
  <2>4. IntentsSound'
    <3>1. \A j \in intents : j.id # i.id
      BY <1>1, <1>2 DEF IntentOf, Fits
    <3>2. \A j, k \in intents' : j.id = k.id => j = k
      BY <2>1, <3>1 DEF PrototypeInv, IntentsSound
    <3>3. \A j \in intents' : Dated(j, now) /\ \E q \in Request : Fits(j, q)
      BY <1>1, <2>1 DEF PrototypeInv, IntentsSound
    <3> QED BY <1>1, <3>2, <3>3 DEF IntentsSound
  <2>5. LedgerSound'
    BY <1>1, <2>1 DEF PrototypeInv, LedgerSound, Executed
  <2>6. ReceiptsSound'
    BY <1>1 DEF PrototypeInv, ReceiptsSound
  <2>7. Placed(r)' /\ RepeatedSoundly(r)'
    <3>1. i \in intents' /\ i.id = Sent[r].command
      BY <1>1, <2>1 DEF Fits
    <3> QED BY <1>1, <2>2, <3>1 DEF PrototypeInv, Placed, RepeatedSoundly, Repeats
  <2>8. ASSUME NEW q \in Request, q # r PROVE Placed(q)' /\ RepeatedSoundly(q)'
    <3>1. request'[q] = request[q] /\ intents \subseteq intents'
      BY <2>1, <2>2, <2>8
    <3> QED BY <1>1, <3>1 DEF PrototypeInv, Placed, RepeatedSoundly, Repeats
  <2> QED BY <2>3, <2>4, <2>5, <2>6, <2>7, <2>8 DEF PrototypeInv
<1>3. CASE IntentOf(r) # {}
  <2>1. UNCHANGED intents /\ (Continue(r) \/ Answer(r, "FUNDING_EVIDENCE_INVALID"))
    BY <1>3 DEF InsertIntent
  <2>2. CASE Continue(r)
    BY <1>1, <2>1, <2>2, ContinueKeeps
  <2>3. CASE Answer(r, "FUNDING_EVIDENCE_INVALID")
    BY <1>1, <2>1, <2>3, AnswerKeeps
  <2> QED BY <2>1, <2>2, <2>3
<1> QED BY <1>2, <1>3

(* The command is executed, or was, with the context of its intent.          *)
LEMMA HandleCommandKeeps ==
  ASSUME PrototypeAssumption, PrototypeInv, NEW r \in Request, HandleCommand(r) PROVE PrototypeInv'
<1> DEFINE k == Sent[r].command
           c == Sent[r].cell
           i == request[r].intent
           result == IF Fundable(c) THEN "SUCCESS" ELSE "KERNEL_REJECTION"
<1>1. /\ Paying(r) /\ Fits(i, r) /\ i \in intents /\ k \in Command /\ c \in Cell
      /\ UNCHANGED <<now, intents, succeeded>>
  BY DEF HandleCommand, At, PrototypeInv, Placed, Command, PrototypeAssumption
<1>2. Context(r) = ContextOf(i)
  BY <1>1 DEF Context, ContextOf, Fits, MatchesCell
<1>3. CASE executions[k] # NotExecuted
  <2>1. Executed(k)
    BY <1>1, <1>3 DEF PrototypeInv, LedgerSound
  <2>2. executions[k].fingerprint = Context(r)
    <3>1. PICK j \in intents, q \in Request : j.id = k /\ executions[k].fingerprint = ContextOf(j)
      BY <2>1 DEF Executed
    <3>2. j = i
      BY <1>1, <3>1 DEF PrototypeInv, IntentsSound, Fits
    <3> QED BY <1>2, <3>1, <3>2
  <2>3. Answer(r, executions[k].result) /\ UNCHANGED <<cells, receipts, executions>>
    BY <1>3, <2>2 DEF HandleCommand
  <2>4. executions[k].result # "IDEMPOTENCY_CONFLICT" /\ (Repeats(r) => executions[k].result \in Told)
    BY <2>1, RepeaterPays DEF Executed, Told
  <2> QED BY <1>1, <2>3, <2>4, AnswerKeeps
<1>4. CASE executions[k] = NotExecuted
  <2>1. /\ executions' = [executions EXCEPT ![k] = [fingerprint |-> Context(r), result |-> result]]
        /\ \E o \in {result, "FAILURE"} : Answer(r, o)
        /\ IF result = "SUCCESS"
           THEN /\ cells' = [cells EXCEPT ![c].status = "FUNDED"]
                /\ receipts' = receipts \cup {ReceiptOf(Context(r), k)}
           ELSE UNCHANGED <<cells, receipts>>
    BY <1>4 DEF HandleCommand
  <2>2. PICK o \in {result, "FAILURE"} : Answer(r, o)
    BY <2>1
  <2>3. ~Repeats(r)
    BY <1>4, RepeaterPays
  <2>4. /\ request'[r] = [pc |-> "answered", outcome |-> o] /\ DOMAIN request' = Request
        /\ \A q \in Request \ {r} : request'[q] = request[q]
    BY <2>2 DEF Answer, Proceed, PrototypeInv, PrototypeTyped
  <2>5. /\ executions'[k] = [fingerprint |-> ContextOf(i), result |-> result]
        /\ DOMAIN executions' = Command
        /\ \A j \in Command \ {k} : executions'[j] = executions[j]
    BY <1>1, <1>2, <2>1 DEF PrototypeInv, PrototypeTyped
  <2>6. PrototypeTyped'
    BY <1>1, <2>1, <2>4, <2>5 DEF PrototypeInv, PrototypeTyped
  <2>7. IntentsSound'
    BY <1>1 DEF PrototypeInv, IntentsSound
  <2>8. LedgerSound'
    <3>1. Executed(k)'
      BY <1>1, <2>5 DEF Executed, Fits
    <3>2. ASSUME NEW j \in Command, j # k PROVE executions'[j] = NotExecuted \/ Executed(j)'
      BY <1>1, <2>5, <3>2 DEF PrototypeInv, LedgerSound, Executed
    <3> QED BY <3>1, <3>2 DEF LedgerSound
  <2>9. ReceiptsSound'
    <3>1. \A p \in receipts : p.command # k
      BY <1>4 DEF PrototypeInv, ReceiptsSound, NotExecuted, PrototypeAssumption
    <3>2. ASSUME NEW p \in receipts
          PROVE /\ p.command \in Command /\ executions'[p.command].result = "SUCCESS"
                /\ p = ReceiptOf(executions'[p.command].fingerprint, p.command)
      BY <2>5, <3>1 DEF PrototypeInv, ReceiptsSound
    <3>3. CASE result # "SUCCESS"
      <4>1. UNCHANGED <<cells, receipts>>
        BY <2>1, <3>3
      <4> QED BY <3>2, <4>1 DEF PrototypeInv, ReceiptsSound
    <3>4. CASE result = "SUCCESS"
      <4> DEFINE new == ReceiptOf(ContextOf(i), k)
      <4>1. cells[c].status = "CREATED" /\ cells' = [cells EXCEPT ![c].status = "FUNDED"]
            /\ receipts' = receipts \cup {new}
        BY <1>2, <2>1, <3>4 DEF Fundable
      <4>2. new.command = k /\ new.cell = c /\ \A p \in receipts : p.cell # c
        <5>1. new.command = k /\ new.cell = c
          BY <1>1 DEF ReceiptOf, ContextOf, Fits, MatchesCell
        <5> QED BY <1>1, <4>1, <5>1 DEF PrototypeInv, ReceiptsSound
      <4>3. cells'[c].status = "FUNDED" /\ \A d \in Cell \ {c} : cells'[d] = cells[d]
        BY <1>1, <4>1 DEF PrototypeInv, PrototypeTyped
      <4>4. \A p \in receipts' :
              /\ p.command \in Command /\ executions'[p.command].result = "SUCCESS"
              /\ p = ReceiptOf(executions'[p.command].fingerprint, p.command)
        BY <1>1, <2>5, <3>2, <3>4, <4>1, <4>2
      <4>5. \A d \in Cell : cells'[d].status \in {"FUNDED", "RELEASED"} <=> \E p \in receipts' : p.cell = d
        BY <4>1, <4>2, <4>3 DEF PrototypeInv, ReceiptsSound
      <4>6. \A p, q \in receipts' : p.cell = q.cell => p = q
        BY <4>1, <4>2 DEF PrototypeInv, ReceiptsSound
      <4> QED BY <4>4, <4>5, <4>6 DEF ReceiptsSound
    <3> QED BY <3>3, <3>4
  <2>10. Placed(r)' /\ RepeatedSoundly(r)'
    <3>1. \A j \in succeeded'[r] : j \in Command /\ executions'[j].result = "SUCCESS"
      BY <1>1, <1>4, <2>5 DEF PrototypeInv, RepeatedSoundly, NotExecuted, PrototypeAssumption
    <3> QED BY <1>1, <2>3, <2>4, <3>1 DEF Placed, RepeatedSoundly, Repeats
  <2>11. ASSUME NEW q \in Request, q # r PROVE Placed(q)' /\ RepeatedSoundly(q)'
    <3>1. request'[q] = request[q]
      BY <2>4, <2>11
    <3>2. \A j \in succeeded'[q] : j \in Command /\ executions'[j].result = "SUCCESS"
      BY <1>1, <1>4, <2>5 DEF PrototypeInv, RepeatedSoundly, NotExecuted, PrototypeAssumption
    <3> QED BY <1>1, <3>1, <3>2 DEF PrototypeInv, Placed, RepeatedSoundly, Repeats
  <2> QED BY <2>6, <2>7, <2>8, <2>9, <2>10, <2>11 DEF PrototypeInv
<1> QED BY <1>3, <1>4

(* Time passes, and cells are accepted, settled and expire on their own.     *)
LEMMA OthersKeep ==
  ASSUME PrototypeAssumption, PrototypeInv, Tick \/ Live PROVE PrototypeInv'
<1>1. UNCHANGED <<intents, receipts, executions, request, succeeded>> /\ now \in Nat
  BY DEF Tick, Live, PrototypeInv, PrototypeTyped
<1>2. now' \in Nat /\ now <= now' /\ now' <= MaxTime
  BY <1>1 DEF Tick, Live, PrototypeInv, PrototypeTyped, PrototypeAssumption
<1>3. PrototypeTyped'
  BY <1>1, <1>2 DEF Tick, Live, PrototypeInv, PrototypeTyped
<1>4. ASSUME NEW i, Dated(i, now) PROVE Dated(i, now')
  BY <1>1, <1>2, <1>4 DEF Dated
<1>5. IntentsSound'
  BY <1>1, <1>4 DEF PrototypeInv, IntentsSound
<1>6. LedgerSound'
  BY <1>1 DEF PrototypeInv, LedgerSound, Executed
<1>7. ReceiptsSound'
  <2>1. \A c \in Cell : cells'[c].status \in {"FUNDED", "RELEASED"}
                          <=> cells[c].status \in {"FUNDED", "RELEASED"}
    BY DEF Tick, Live, PrototypeInv, PrototypeTyped
  <2> QED BY <1>1, <2>1 DEF PrototypeInv, ReceiptsSound
<1>8. ASSUME NEW r \in Request PROVE Placed(r)' /\ RepeatedSoundly(r)'
  BY <1>1, <1>4 DEF PrototypeInv, Placed, RepeatedSoundly, Repeats
<1> QED BY <1>3, <1>5, <1>6, <1>7, <1>8 DEF PrototypeInv

(* Every step of prototype funding keeps the invariant.                      *)
LEMMA PrototypeInvStep ==
  ASSUME PrototypeAssumption, PrototypeInv, [PrototypeNext]_prototypeVars PROVE PrototypeInv'
<1>1. CASE Tick \/ Live
  BY <1>1, OthersKeep
<1>2. ASSUME NEW r \in Request,
             \/ ResolveActorPrincipal(r) \/ Fail(r) \/ LoadCell(r) \/ GetFundingIntent(r)
             \/ CreateFundingIntent(r) \/ InsertIntent(r) \/ Reread(r) \/ HandleCommand(r)
      PROVE PrototypeInv'
  BY <1>2, ResolveActorPrincipalKeeps, ReadingKeeps, InsertIntentKeeps, HandleCommandKeeps
<1>3. CASE UNCHANGED prototypeVars
  BY <1>3 DEF prototypeVars, PrototypeInv, PrototypeTyped, IntentsSound, LedgerSound, Executed,
     ReceiptsSound, Placed, RepeatedSoundly, Repeats
<1> QED BY <1>1, <1>2, <1>3 DEF PrototypeNext

(* Of prototype funding (handlePrototypeFunding): whatever is asked, repeated *)
(* and interleaved, a cell that was funded has one receipt, of an intent that *)
(* was opened for it in time and asked for by its payer; the same command is  *)
(* never told that it is another one, and who repeats one that succeeded is   *)
(* told so unless something failed.                                          *)
THEOREM PrototypeFundsOnce ==
  ASSUME PrototypeAssumption PROVE PrototypeSpec => []PrototypeSound
<1>1. PrototypeInit => PrototypeInv
  BY PrototypeInvInit
<1>2. PrototypeInv /\ [PrototypeNext]_prototypeVars => PrototypeInv'
  BY PrototypeInvStep
<1>3. PrototypeInv => PrototypeSound
  BY PrototypeInvGives
<1> QED BY <1>1, <1>2, <1>3, PTL DEF PrototypeSpec

-----------------------------------------------------------------------------
(* The bootstrap of the development principals.  The invariant: rows do not  *)
(* clash and are never lost; every row that is exact while a run goes on was  *)
(* witnessed; what an operator found of a principal that was exact since it   *)
(* came to it is exact; of one name one operator at most has created or       *)
(* reported a creation; and without an administrator all rows are fixed.      *)
RowOk(r) ==
  /\ r.enabled \in BOOLEAN
  /\ r = [principal |-> r.principal, identity |-> r.identity, actor |-> r.actor,
          enabled |-> r.enabled, capabilities |-> r.capabilities]
RowsSound(rows) ==
  /\ \A r \in rows : RowOk(r)
  /\ \A p, q \in rows : p # q => ~Clash(p, {q})
Present(n, rows) == \E r \in rows : r.principal = n

ProvisioningTyped ==
  /\ DOMAIN operator = Operator /\ DOMAIN runs = Operator
  /\ DOMAIN steady = Operator /\ DOMAIN witnessed = Operator
  /\ changes \in Nat
  /\ \A o \in Operator : operator[o].at \in DOMAIN SPECS /\ runs[o] \in Nat /\ runs[o] <= MaxRuns

Witnesses(o) ==
  /\ operator[o].pc # "idle" => ExactIn(principals) \subseteq witnessed[o]
  /\ operator[o].pc = "get" /\ AllSame(operator[o].found, Current(o)) => Current(o) \in witnessed[o]
  /\ operator[o].pc = "created" => Current(o) \in witnessed[o]
  /\ operator[o].pc = "recheck" /\ "identity" \in DOMAIN operator[o].seen =>
       (AllSame(operator[o].seen["identity"], Current(o)) => Current(o) \in witnessed[o])

Steady(o) ==
  steady[o] /\ operator[o].pc \notin {"idle", "crashed"} =>
    /\ Exact(Current(o), principals)
    /\ operator[o].pc \in {"resolve", "get", "done"}
    /\ operator[o].pc = "get" => AllSame(operator[o].found, Current(o))

Created(o) == operator[o].pc = "created"
CreatedOnce ==
  /\ \A o \in Operator : Created(o) => Present(Current(o), principals)
  /\ \A o, q \in Operator : Created(o) /\ Created(q) /\ Current(o) = Current(q) => o = q
  /\ \A r \in reported : r.outcome = "CREATED" =>
       /\ Present(r.name, principals)
       /\ \A o \in Operator : Created(o) => Current(o) # r.name
  /\ \A q, r \in reported : q.outcome = "CREATED" /\ r.outcome = "CREATED" /\ q.name = r.name => q = r

Reported ==
  \A r \in reported :
    /\ r.by \in Operator /\ r.run \in Nat /\ r.run <= runs[r.by]
    /\ r.run = runs[r.by] => r.name \in witnessed[r.by] /\ operator[r.by].pc # "idle"

Alone(o) ==
  /\ operator[o].pc \in {"created", "recheck"} => Exact(Current(o), principals)
  /\ operator[o].pc = "recheck" =>
       \A k \in DOMAIN operator[o].seen : AllSame(operator[o].seen[k], Current(o))
  /\ operator[o].pc = "conflict" => operator[o].after = "get"
Undisturbed ==
  changes = 0 =>
    /\ \A r \in principals : r = Fixed(r.principal)
    /\ \A o \in Operator : Alone(o)

ProvisioningInv ==
  /\ ProvisioningTyped /\ RowsSound(principals) /\ CreatedOnce /\ Reported /\ Undisturbed
  /\ \A o \in Operator : Witnesses(o) /\ Steady(o)

(* The invariant gives what the run checks of the bootstrap.                 *)
LEMMA ProvisioningInvGives ==
  ASSUME ProvisioningInv PROVE ProvisioningSound
<1>1. ProvisioningTypeOK
  BY DEF ProvisioningInv, ProvisioningTyped, RowsSound, ProvisioningTypeOK
<1>2. ReportsTrue
  BY DEF ProvisioningInv, Reported, CreatedOnce, ReportsTrue
<1>3. ConflictExplained
  BY DEF ProvisioningInv, Steady, ConflictExplained
<1>4. LostRaceAccepted
  BY DEF ProvisioningInv, Undisturbed, Alone, LostRaceAccepted
<1> QED BY <1>1, <1>2, <1>3, <1>4 DEF ProvisioningSound

(* A row that is as expected under its identity is the fixed one, and the    *)
(* fixed row is alone under its identity and its principal.                  *)
LEMMA FixedRow ==
  ASSUME NEW n, NEW rows, RowsSound(rows)
  PROVE /\ AllSame(ByIdentity(n, rows), n) => Exact(n, rows)
        /\ Exact(n, rows) => AllSame(ByIdentity(n, rows), n) /\ AllSame(ByPrincipal(n, rows), n)
        /\ RowOk(Fixed(n)) /\ Fixed(n).principal = n /\ Fixed(n).identity = n
<1>1. RowOk(Fixed(n)) /\ Fixed(n).principal = n /\ Fixed(n).identity = n /\ SameExpectedPrincipal(Fixed(n), n)
  BY DEF RowOk, Fixed, SameExpectedPrincipal
<1>2. ASSUME AllSame(ByIdentity(n, rows), n) PROVE Exact(n, rows)
  <2>1. PICK r \in rows : r.identity = n /\ SameExpectedPrincipal(r, n)
    BY <1>2 DEF AllSame, ByIdentity
  <2>2. r = Fixed(n)
    BY <2>1 DEF RowsSound, RowOk, SameExpectedPrincipal, Fixed
  <2> QED BY <2>1, <2>2 DEF Exact
<1>3. ASSUME Exact(n, rows)
      PROVE AllSame(ByIdentity(n, rows), n) /\ AllSame(ByPrincipal(n, rows), n)
  <2>1. Fixed(n) \in rows
    BY <1>3 DEF Exact
  <2>2. ASSUME NEW r \in rows, r.identity = n \/ r.principal = n PROVE r = Fixed(n)
    BY <1>1, <2>1, <2>2 DEF RowsSound, Clash
  <2> QED BY <1>1, <2>1, <2>2 DEF AllSame, ByIdentity, ByPrincipal
<1> QED BY <1>1, <1>2, <1>3

(* Where it begins no operator has run.                                      *)
LEMMA ProvisioningInvInit ==
  ASSUME ProvisioningAssumption, ProvisioningInit PROVE ProvisioningInv
<1>1. \A o \in Operator : operator[o] = Idle /\ Idle.pc = "idle" /\ Idle.at = 1
  BY DEF ProvisioningInit, Idle
<1>2. 1 \in DOMAIN SPECS
  BY DEF ProvisioningAssumption
<1>3. ProvisioningTyped
  BY <1>1, <1>2 DEF ProvisioningInit, ProvisioningTyped, ProvisioningAssumption
<1>4. RowsSound(principals)
  <2>1. RowsSound({})
    BY DEF RowsSound
  <2>2. RowOk(Fixed(SPECS[1]))
    BY <2>1, FixedRow
  <2>3. \A r \in principals : r = Fixed(SPECS[1])
    BY DEF ProvisioningInit
  <2> QED BY <2>2, <2>3 DEF RowsSound
<1>5. CreatedOnce /\ Reported
  BY <1>1 DEF ProvisioningInit, CreatedOnce, Reported, Created
<1>6. Undisturbed
  BY <1>1 DEF ProvisioningInit, Undisturbed, Alone, Fixed
<1>7. ASSUME NEW o \in Operator PROVE Witnesses(o) /\ Steady(o)
  BY <1>1 DEF Witnesses, Steady
<1> QED BY <1>3, <1>4, <1>5, <1>6, <1>7 DEF ProvisioningInv

(* A step of one operator that only reads keeps the invariant, if it is where *)
(* it may be and created nothing.                                            *)
LEMMA OperatorMoves ==
  ASSUME ProvisioningAssumption, ProvisioningInv, NEW o \in Operator, NEW next, Goto(o, next), Reading,
         next.at \in DOMAIN SPECS, next.pc \notin {"idle", "created"}, operator[o].pc # "idle",
         Witnesses(o)', Steady(o)', changes = 0 => Alone(o)'
  PROVE ProvisioningInv'
<1>1. /\ operator'[o] = next /\ DOMAIN operator' = Operator
      /\ \A q \in Operator \ {o} : operator'[q] = operator[q]
  BY DEF Goto, ProvisioningInv, ProvisioningTyped
<1>2. UNCHANGED <<principals, changes, runs, steady, witnessed, reported>>
  BY DEF Reading
<1>3. ProvisioningTyped'
  BY <1>1, <1>2 DEF ProvisioningInv, ProvisioningTyped
<1>4. RowsSound(principals)'
  BY <1>2 DEF ProvisioningInv, RowsSound
<1>5. CreatedOnce'
  BY <1>1, <1>2 DEF ProvisioningInv, CreatedOnce, Created, Current
<1>6. Reported'
  BY <1>1, <1>2 DEF ProvisioningInv, Reported
<1>7. ASSUME NEW q \in Operator, q # o PROVE Witnesses(q)' /\ Steady(q)'
  BY <1>1, <1>2, <1>7 DEF ProvisioningInv, Witnesses, Steady, Current
<1>8. Undisturbed'
  BY <1>1, <1>2 DEF ProvisioningInv, Undisturbed, Alone, Current
<1> QED BY <1>3, <1>4, <1>5, <1>6, <1>7, <1>8 DEF ProvisioningInv

(* A crash, and the first read.                                              *)
LEMMA CrashKeeps ==
  ASSUME ProvisioningAssumption, ProvisioningInv, NEW o \in Operator, Crash(o) PROVE ProvisioningInv'
<1>1. Goto(o, [pc |-> "crashed", at |-> 1]) /\ Reading /\ operator[o].pc # "idle"
  BY DEF Crash
<1>2. operator'[o] = [pc |-> "crashed", at |-> 1]
  BY <1>1 DEF Goto, ProvisioningInv, ProvisioningTyped
<1>3. Witnesses(o)' /\ Steady(o)' /\ Alone(o)'
  BY <1>1, <1>2 DEF ProvisioningInv, Witnesses, Steady, Alone, Reading
<1> QED BY <1>1, <1>3, OperatorMoves DEF ProvisioningAssumption

(* The identity is resolved: what is found is exact if the principal is.     *)
LEMMA ResolveExistingKeeps ==
  ASSUME ProvisioningAssumption, ProvisioningInv, NEW o \in Operator, ResolveExisting(o) PROVE ProvisioningInv'
<1> DEFINE n == Current(o)
           found == ByIdentity(n, principals)
           next == [pc |-> "get", at |-> operator[o].at, found |-> found]
<1>1. Goto(o, next) /\ Reading /\ operator[o].pc = "resolve" /\ operator[o].at \in DOMAIN SPECS
  BY DEF ResolveExisting, ProvisioningInv, ProvisioningTyped
<1>2. operator'[o] = next /\ Current(o)' = n
  BY <1>1 DEF Goto, ProvisioningInv, ProvisioningTyped, Current
<1>3. Exact(n, principals) <=> AllSame(found, n)
  BY FixedRow DEF ProvisioningInv
<1>4. Exact(n, principals) => n \in witnessed[o]
  BY <1>1 DEF ProvisioningInv, Witnesses, ExactIn, Current
<1>5. Witnesses(o)'
  BY <1>1, <1>2, <1>3, <1>4 DEF ProvisioningInv, Witnesses, Reading
<1>6. Steady(o)'
  BY <1>1, <1>2, <1>3 DEF ProvisioningInv, Steady, Reading
<1>7. Alone(o)'
  BY <1>2 DEF Alone
<1> QED BY <1>1, <1>5, <1>6, <1>7, OperatorMoves

(* A conflict of an operator whose principal was not exact all along, found  *)
(* before a creation unless an administrator came between.                   *)
LEMMA ConflictKeeps ==
  ASSUME ProvisioningAssumption, ProvisioningInv, NEW o \in Operator, Conflict(o),
         operator[o].pc # "idle", ~steady[o], changes = 0 => operator[o].pc = "get"
  PROVE ProvisioningInv'
<1> DEFINE next == [pc |-> "conflict", at |-> operator[o].at, after |-> operator[o].pc]
<1>1. Goto(o, next) /\ Reading /\ operator[o].at \in DOMAIN SPECS
  BY DEF Conflict, ProvisioningInv, ProvisioningTyped
<1>2. operator'[o] = next
  BY <1>1 DEF Goto, ProvisioningInv, ProvisioningTyped
<1>3. Witnesses(o)' /\ Steady(o)' /\ (changes = 0 => Alone(o)')
  BY <1>1, <1>2 DEF ProvisioningInv, Witnesses, Steady, Alone, Reading
<1> QED BY <1>1, <1>3, OperatorMoves

(* An operator comes to a principal it has not looked at.                    *)
LEMMA Comes ==
  ASSUME ProvisioningInv, NEW o \in Operator, NEW i \in DOMAIN SPECS, Come(o, i),
         UNCHANGED <<principals, changes>>, ExactIn(principals) \subseteq witnessed'[o]
  PROVE /\ operator'[o] = [pc |-> "resolve", at |-> i] /\ DOMAIN operator' = Operator
        /\ \A q \in Operator \ {o} : operator'[q] = operator[q] /\ steady'[q] = steady[q]
        /\ DOMAIN steady' = Operator
        /\ Witnesses(o)' /\ Steady(o)' /\ Alone(o)'
<1>1. /\ operator'[o] = [pc |-> "resolve", at |-> i] /\ DOMAIN operator' = Operator
      /\ \A q \in Operator \ {o} : operator'[q] = operator[q] /\ steady'[q] = steady[q]
      /\ DOMAIN steady' = Operator /\ steady'[o] = Exact(SPECS[i], principals)
  BY DEF Come, Goto, ProvisioningInv, ProvisioningTyped
<1>2. Current(o)' = SPECS[i]
  BY <1>1 DEF Current
<1>3. Witnesses(o)' /\ Steady(o)' /\ Alone(o)'
  <2>1. ExactIn(principals)' = ExactIn(principals)
    OBVIOUS
  <2> QED BY <1>1, <1>2, <2>1 DEF Witnesses, Steady, Alone
<1> QED BY <1>1, <1>3

(* A run starts at the first principal.                                      *)
LEMMA StartKeeps ==
  ASSUME ProvisioningAssumption, ProvisioningInv, NEW o \in Operator, Start(o) PROVE ProvisioningInv'
<1>1. /\ runs' = [runs EXCEPT ![o] = @ + 1] /\ runs[o] < MaxRuns /\ Come(o, 1) /\ 1 \in DOMAIN SPECS
      /\ witnessed' = [witnessed EXCEPT ![o] = ExactIn(principals)]
      /\ UNCHANGED <<principals, changes, reported>> /\ ~Created(o)
  BY DEF Start, Created, ProvisioningAssumption
<1>2. /\ witnessed'[o] = ExactIn(principals) /\ DOMAIN witnessed' = Operator
      /\ runs'[o] = runs[o] + 1 /\ DOMAIN runs' = Operator /\ runs[o] \in Nat
      /\ \A q \in Operator \ {o} : witnessed'[q] = witnessed[q] /\ runs'[q] = runs[q]
  BY <1>1 DEF ProvisioningInv, ProvisioningTyped
<1>3. /\ operator'[o] = [pc |-> "resolve", at |-> 1] /\ DOMAIN operator' = Operator
      /\ \A q \in Operator \ {o} : operator'[q] = operator[q] /\ steady'[q] = steady[q]
      /\ DOMAIN steady' = Operator
      /\ Witnesses(o)' /\ Steady(o)' /\ Alone(o)'
  BY <1>1, <1>2, Comes
<1>4. ProvisioningTyped'
  BY <1>1, <1>2, <1>3 DEF ProvisioningInv, ProvisioningTyped, ProvisioningAssumption
<1>5. RowsSound(principals)'
  BY <1>1 DEF ProvisioningInv, RowsSound
<1>6. CreatedOnce'
  BY <1>1, <1>3 DEF ProvisioningInv, CreatedOnce, Created, Current
<1>7. Reported'
  BY <1>1, <1>2, <1>3 DEF ProvisioningInv, Reported
<1>8. ASSUME NEW q \in Operator, q # o PROVE Witnesses(q)' /\ Steady(q)'
  BY <1>1, <1>2, <1>3, <1>8 DEF ProvisioningInv, Witnesses, Steady, Current
<1>9. Undisturbed'
  BY <1>1, <1>3 DEF ProvisioningInv, Undisturbed, Alone, Current
<1> QED BY <1>3, <1>4, <1>5, <1>6, <1>7, <1>8, <1>9 DEF ProvisioningInv

(* A principal that was witnessed in this run is reported; if as created, by  *)
(* the operator that created it.                                             *)
LEMMA ReportKeeps ==
  ASSUME ProvisioningAssumption, ProvisioningInv, NEW o \in Operator, NEW outcome, Report(o, outcome),
         operator[o].pc \in {"get", "created", "recheck"}, Current(o) \in witnessed[o],
         outcome = "CREATED" <=> Created(o),
         Exact(Current(o), principals) \/ ~steady[o]
  PROVE ProvisioningInv'
<1> DEFINE i == operator[o].at
           n == Current(o)
           new == [by |-> o, run |-> runs[o], name |-> n, outcome |-> outcome]
<1>1. /\ reported' = reported \cup {new}
      /\ UNCHANGED <<principals, changes, runs, witnessed>>
      /\ IF i < Len(SPECS) THEN Come(o, i + 1)
         ELSE Goto(o, [pc |-> "done", at |-> i]) /\ UNCHANGED steady
  BY DEF Report
<1>2. i \in DOMAIN SPECS /\ runs[o] \in Nat /\ ExactIn(principals) \subseteq witnessed[o]
  BY DEF ProvisioningInv, ProvisioningTyped, Witnesses
<1>3. /\ operator'[o].pc \in {"resolve", "done"} /\ operator'[o].at \in DOMAIN SPECS
      /\ DOMAIN operator' = Operator /\ DOMAIN steady' = Operator
      /\ \A q \in Operator \ {o} : operator'[q] = operator[q] /\ steady'[q] = steady[q]
      /\ Witnesses(o)' /\ Steady(o)' /\ Alone(o)'
  <2>1. CASE i < Len(SPECS)
    <3>1. i + 1 \in DOMAIN SPECS
      BY <1>2, <2>1 DEF ProvisioningAssumption
    <3>2. Come(o, i + 1)
      BY <1>1, <2>1
    <3>3. UNCHANGED <<principals, changes>> /\ ExactIn(principals) \subseteq witnessed'[o]
      BY <1>1, <1>2
    <3>4. /\ operator'[o] = [pc |-> "resolve", at |-> i + 1] /\ DOMAIN operator' = Operator
          /\ \A q \in Operator \ {o} : operator'[q] = operator[q] /\ steady'[q] = steady[q]
          /\ DOMAIN steady' = Operator
          /\ Witnesses(o)' /\ Steady(o)' /\ Alone(o)'
      <4> HIDE DEF i
      <4> QED BY <3>1, <3>2, <3>3, Comes
    <3>5. operator'[o].pc = "resolve" /\ operator'[o].at = i + 1
      BY <3>4
    <3> QED BY <3>1, <3>4, <3>5
  <2>2. CASE ~(i < Len(SPECS))
    <3>1. Goto(o, [pc |-> "done", at |-> i]) /\ UNCHANGED steady
      BY <1>1, <2>2
    <3>2. /\ operator'[o] = [pc |-> "done", at |-> i] /\ DOMAIN operator' = Operator
          /\ \A q \in Operator \ {o} : operator'[q] = operator[q]
      BY <3>1 DEF Goto, ProvisioningInv, ProvisioningTyped
    <3>3. Current(o)' = n
      BY <3>2 DEF Current
    <3>4. Witnesses(o)' /\ Steady(o)' /\ Alone(o)'
      BY <1>1, <1>2, <3>1, <3>2, <3>3 DEF Witnesses, Steady, Alone
    <3> QED BY <1>2, <3>1, <3>2, <3>4 DEF ProvisioningInv, ProvisioningTyped
  <2> QED BY <2>1, <2>2
<1>4. ProvisioningTyped'
  BY <1>1, <1>3 DEF ProvisioningInv, ProvisioningTyped
<1>5. RowsSound(principals)'
  BY <1>1 DEF ProvisioningInv, RowsSound
<1>6. CreatedOnce'
  <2>1. ~Created(o)' /\ \A q \in Operator : Created(q)' => q # o /\ Created(q) /\ Current(q)' = Current(q)
    BY <1>3 DEF Created, Current
  <2>2. \A r \in reported : r.outcome = "CREATED" /\ new.outcome = "CREATED" => r.name # new.name
    BY DEF ProvisioningInv, CreatedOnce
  <2>3. ASSUME NEW r \in reported', r.outcome = "CREATED"
        PROVE Present(r.name, principals) /\ \A q \in Operator : Created(q)' => Current(q)' # r.name
    <3>1. CASE r \in reported
      BY <2>1, <2>3, <3>1 DEF ProvisioningInv, CreatedOnce
    <3>2. CASE r = new
      BY <2>1, <2>3, <3>2 DEF ProvisioningInv, CreatedOnce
    <3> QED BY <1>1, <3>1, <3>2
  <2>4. \A q, r \in reported' : q.outcome = "CREATED" /\ r.outcome = "CREATED" /\ q.name = r.name => q = r
    BY <1>1, <2>2 DEF ProvisioningInv, CreatedOnce
  <2>5. \A q \in Operator : Created(q)' => Present(Current(q)', principals)
    BY <2>1 DEF ProvisioningInv, CreatedOnce
  <2>6. \A p, q \in Operator : Created(p)' /\ Created(q)' /\ Current(p)' = Current(q)' => p = q
    BY <2>1 DEF ProvisioningInv, CreatedOnce
  <2> QED BY <1>1, <2>3, <2>4, <2>5, <2>6 DEF CreatedOnce
<1>7. Reported'
  <2>1. ASSUME NEW r \in reported'
        PROVE /\ r.by \in Operator /\ r.run \in Nat /\ r.run <= runs[r.by]
              /\ r.run = runs[r.by] => r.name \in witnessed[r.by] /\ operator'[r.by].pc # "idle"
    <3>1. CASE r \in reported
      BY <1>3, <3>1 DEF ProvisioningInv, Reported
    <3>2. CASE r = new
      BY <1>2, <1>3, <3>2
    <3> QED BY <1>1, <3>1, <3>2
  <2> QED BY <1>1, <2>1 DEF Reported
<1>8. ASSUME NEW q \in Operator, q # o PROVE Witnesses(q)' /\ Steady(q)'
  BY <1>1, <1>3, <1>8 DEF ProvisioningInv, Witnesses, Steady, Current
<1>9. Undisturbed'
  BY <1>1, <1>3 DEF ProvisioningInv, Undisturbed, Alone, Current
<1> QED BY <1>3, <1>4, <1>5, <1>6, <1>7, <1>8, <1>9 DEF ProvisioningInv

(* What both reads found is compared: of a principal that was exact since the *)
(* operator came to it both found the fixed row.                             *)
LEMMA GetExistingKeeps ==
  ASSUME ProvisioningAssumption, ProvisioningInv, NEW o \in Operator, GetExisting(o) PROVE ProvisioningInv'
<1> DEFINE n == Current(o)
           identity == operator[o].found
           principal == ByPrincipal(n, principals)
<1>1. operator[o].pc = "get" /\ operator[o].at \in DOMAIN SPECS
  BY DEF GetExisting, ProvisioningInv, ProvisioningTyped
<1>2. steady[o] => Exact(n, principals) /\ AllSame(identity, n) /\ AllSame(principal, n)
  BY <1>1, FixedRow DEF ProvisioningInv, Steady
<1>3. CASE identity \cup principal = {}
  <2> DEFINE next == [pc |-> "create", at |-> operator[o].at]
  <2>1. Goto(o, next) /\ Reading
    BY <1>3 DEF GetExisting
  <2>2. operator'[o] = next
    BY <2>1 DEF Goto, ProvisioningInv, ProvisioningTyped
  <2>3. ~steady[o]
    BY <1>2, <1>3 DEF AllSame
  <2>4. Witnesses(o)' /\ Steady(o)' /\ Alone(o)'
    BY <1>1, <2>1, <2>2, <2>3 DEF ProvisioningInv, Witnesses, Steady, Alone, Reading
  <2> QED BY <1>1, <2>1, <2>4, OperatorMoves
<1>4. CASE identity \cup principal # {} /\ AllSame(identity, n) /\ AllSame(principal, n)
  <2>1. Report(o, "UNCHANGED")
    BY <1>4 DEF GetExisting
  <2>2. n \in witnessed[o]
    BY <1>1, <1>4 DEF ProvisioningInv, Witnesses
  <2> QED BY <1>1, <1>2, <2>1, <2>2, ReportKeeps DEF Created
<1>5. CASE identity \cup principal # {} /\ ~(AllSame(identity, n) /\ AllSame(principal, n))
  <2>1. Conflict(o)
    BY <1>5 DEF GetExisting
  <2> QED BY <1>1, <1>2, <1>5, <2>1, ConflictKeeps
<1> QED BY <1>3, <1>4, <1>5

(* The creation: it happens when no row has the principal, so nobody created *)
(* it before; who finds it taken looks again.                                *)
LEMMA CreateKeeps ==
  ASSUME ProvisioningAssumption, ProvisioningInv, NEW o \in Operator, Create(o) PROVE ProvisioningInv'
<1> DEFINE n == Current(o)
           rows == principals \cup {Fixed(n)}
<1>1. operator[o].pc = "create" /\ operator[o].at \in DOMAIN SPECS /\ ~steady[o]
  BY DEF Create, ProvisioningInv, ProvisioningTyped, Steady
<1>2. CASE Clash(Fixed(n), principals)
  <2> DEFINE next == [pc |-> "recheck", at |-> operator[o].at, seen |-> [k \in {} |-> {}]]
  <2>1. Goto(o, next) /\ Reading
    BY <1>2 DEF Create
  <2>2. operator'[o] = next /\ DOMAIN next.seen = {} /\ Current(o)' = n
    BY <2>1 DEF Goto, ProvisioningInv, ProvisioningTyped, Current
  <2>3. changes = 0 => Exact(n, principals)
    <3>1. PICK q \in principals : q.principal = n \/ q.identity = n \/ q.actor = n
      BY <1>2 DEF Clash, Fixed
    <3>2. changes = 0 => q = Fixed(q.principal)
      BY DEF ProvisioningInv, Undisturbed
    <3>3. changes = 0 => q.principal = n
      BY <3>1, <3>2 DEF Fixed
    <3> QED BY <3>2, <3>3 DEF Exact
  <2>4. Witnesses(o)' /\ Steady(o)' /\ (changes = 0 => Alone(o)')
    BY <1>1, <2>1, <2>2, <2>3 DEF ProvisioningInv, Witnesses, Steady, Alone, Reading
  <2> QED BY <1>1, <2>1, <2>4, OperatorMoves
<1>3. CASE ~Clash(Fixed(n), principals)
  <2> DEFINE next == [pc |-> "created", at |-> operator[o].at]
  <2>1. Goto(o, next) /\ Store(rows) /\ UNCHANGED <<changes, runs, reported>>
    BY <1>3 DEF Create
  <2>2. /\ operator'[o] = next /\ DOMAIN operator' = Operator /\ Current(o)' = n
        /\ \A q \in Operator \ {o} : operator'[q] = operator[q]
    BY <2>1 DEF Goto, ProvisioningInv, ProvisioningTyped, Current
  <2>3. /\ principals' = rows /\ DOMAIN steady' = Operator /\ DOMAIN witnessed' = Operator
        /\ \A q \in Operator :
             /\ steady'[q] = (steady[q] /\ Current(q) \in ExactIn(rows))
             /\ witnessed'[q] = witnessed[q] \cup ExactIn(rows)
    BY <2>1 DEF Store, Current
  <2>4. n \in ExactIn(rows) /\ ~steady'[o] /\ RowOk(Fixed(n)) /\ Fixed(n).principal = n
    BY <1>1, <2>3 DEF ExactIn, Exact, Current, RowOk, Fixed
  <2>5. ProvisioningTyped'
    BY <1>1, <2>1, <2>2, <2>3 DEF ProvisioningInv, ProvisioningTyped
  <2>6. RowsSound(principals)'
    <3>1. \A q \in principals : ~Clash(q, {Fixed(n)}) /\ ~Clash(Fixed(n), {q})
      BY <1>3 DEF Clash
    <3>2. \A p, q \in rows : p # q => ~Clash(p, {q})
      BY <3>1 DEF ProvisioningInv, RowsSound
    <3> QED BY <2>3, <2>4, <3>2 DEF ProvisioningInv, RowsSound
  <2>7. ~Present(n, principals) /\ \A m : Present(m, principals) \/ m = n => Present(m, rows)
    BY <1>3, <2>4 DEF Present, Clash
  <2>8. CreatedOnce'
    <3>1. /\ \A q \in Operator : Created(q) => Present(Current(q), principals)
          /\ \A q, p \in Operator : Created(q) /\ Created(p) /\ Current(q) = Current(p) => q = p
          /\ \A r \in reported : r.outcome = "CREATED" =>
               /\ Present(r.name, principals)
               /\ \A q \in Operator : Created(q) => Current(q) # r.name
          /\ \A q, r \in reported : q.outcome = "CREATED" /\ r.outcome = "CREATED" /\ q.name = r.name => q = r
      BY DEF ProvisioningInv, CreatedOnce
    <3>2. \A q \in Operator : q # o => (Created(q)' <=> Created(q)) /\ Current(q)' = Current(q)
      BY <2>2 DEF Created, Current
    <3>3. \A q \in Operator : Created(q)' => Present(Current(q)', rows)
      BY <2>2, <2>7, <3>1, <3>2
    <3>4. \A q, p \in Operator : Created(q)' /\ Created(p)' /\ Current(q)' = Current(p)' => q = p
      BY <2>2, <2>7, <3>1, <3>2
    <3>5. \A r \in reported : r.outcome = "CREATED" =>
            /\ Present(r.name, rows)
            /\ \A q \in Operator : Created(q)' => Current(q)' # r.name
      BY <2>2, <2>7, <3>1, <3>2
    <3> QED BY <2>1, <2>3, <3>1, <3>3, <3>4, <3>5 DEF CreatedOnce
  <2>9. Reported'
    BY <2>1, <2>2, <2>3 DEF ProvisioningInv, Reported
  <2>10. ASSUME NEW q \in Operator PROVE Witnesses(q)' /\ Steady(q)'
    <3>1. CASE q = o
      BY <2>2, <2>3, <2>4, <3>1 DEF Witnesses, Steady
    <3>2. CASE q # o
      <4>1. operator'[q] = operator[q] /\ Current(q)' = Current(q)
        BY <2>2, <3>2 DEF Current
      <4>2. Witnesses(q)'
        BY <2>3, <4>1 DEF ProvisioningInv, Witnesses
      <4>3. Steady(q)'
        BY <2>3, <4>1 DEF ProvisioningInv, Steady, ExactIn
      <4> QED BY <4>2, <4>3
    <3> QED BY <3>1, <3>2
  <2>11. Undisturbed'
    <3>1. ASSUME changes = 0, NEW q \in Operator PROVE Alone(q)'
      <4>1. CASE q = o
        BY <2>2, <2>3, <4>1 DEF Alone, Exact
      <4>2. CASE q # o
        <5>1. operator'[q] = operator[q] /\ Current(q)' = Current(q)
          BY <2>2, <4>2 DEF Current
        <5> QED BY <2>3, <3>1, <5>1 DEF ProvisioningInv, Undisturbed, Alone, Exact
      <4> QED BY <4>1, <4>2
    <3>2. changes = 0 => \A r \in rows : r = Fixed(r.principal)
      BY <2>4 DEF ProvisioningInv, Undisturbed
    <3> QED BY <2>1, <2>3, <3>1, <3>2 DEF Undisturbed
  <2> QED BY <2>5, <2>6, <2>8, <2>9, <2>10, <2>11 DEF ProvisioningInv
<1> QED BY <1>2, <1>3

(* What was created is read again; without an administrator it is still so.  *)
LEMMA ReadCreatedKeeps ==
  ASSUME ProvisioningAssumption, ProvisioningInv, NEW o \in Operator, ReadCreated(o) PROVE ProvisioningInv'
<1> DEFINE n == Current(o)
           same == AllSame(ByPrincipal(n, principals), n)
<1>1. operator[o].pc = "created" /\ ~steady[o] /\ n \in witnessed[o]
  BY DEF ReadCreated, ProvisioningInv, Steady, Witnesses
<1>2. changes = 0 => same
  BY <1>1, FixedRow DEF ProvisioningInv, Undisturbed, Alone
<1>3. CASE same
  <2>1. Report(o, "CREATED")
    BY <1>3 DEF ReadCreated
  <2> QED BY <1>1, <2>1, ReportKeeps DEF Created
<1>4. CASE ~same
  <2>1. Conflict(o)
    BY <1>4 DEF ReadCreated
  <2> QED BY <1>1, <1>2, <1>4, <2>1, ConflictKeeps
<1> QED BY <1>3, <1>4

(* The two reads after a lost race, and what is made of them.                *)
LEMMA RecheckKeeps ==
  ASSUME ProvisioningAssumption, ProvisioningInv, NEW o \in Operator, Recheck(o) PROVE ProvisioningInv'
<1> DEFINE n == Current(o)
           seen == operator[o].seen
           read(k) == IF k = "identity" THEN ByIdentity(n, principals) ELSE ByPrincipal(n, principals)
           same == \A k \in DOMAIN seen : AllSame(seen[k], n)
<1>1. operator[o].pc = "recheck" /\ ~steady[o] /\ operator[o].at \in DOMAIN SPECS
  BY DEF Recheck, ProvisioningInv, ProvisioningTyped, Steady
<1>2. changes = 0 => same /\ Exact(n, principals)
  BY <1>1 DEF ProvisioningInv, Undisturbed, Alone
<1>3. CASE DOMAIN seen = {"identity", "principal"} /\ same
  <2>1. Report(o, "UNCHANGED")
    BY <1>3 DEF Recheck
  <2>2. n \in witnessed[o]
    BY <1>1, <1>3 DEF ProvisioningInv, Witnesses
  <2> QED BY <1>1, <2>1, <2>2, ReportKeeps DEF Created
<1>4. CASE DOMAIN seen = {"identity", "principal"} /\ ~same
  <2>1. Conflict(o)
    BY <1>4 DEF Recheck
  <2> QED BY <1>1, <1>2, <1>4, <2>1, ConflictKeeps
<1>5. CASE DOMAIN seen # {"identity", "principal"}
  <2>1. PICK k \in {"identity", "principal"} \ DOMAIN seen :
          Goto(o, [pc |-> "recheck", at |-> operator[o].at,
                   seen |-> [j \in DOMAIN seen \cup {k} |-> IF j = k THEN read(k) ELSE seen[j]]])
    BY <1>5 DEF Recheck
  <2> DEFINE both == [j \in DOMAIN seen \cup {k} |-> IF j = k THEN read(k) ELSE seen[j]]
             next == [pc |-> "recheck", at |-> operator[o].at, seen |-> both]
  <2>2. Goto(o, next) /\ Reading
    BY <1>5, <2>1 DEF Recheck
  <2>3. operator'[o] = next /\ Current(o)' = n
    BY <2>2 DEF Goto, ProvisioningInv, ProvisioningTyped, Current
  <2>4. /\ DOMAIN both = DOMAIN seen \cup {k} /\ both[k] = read(k)
        /\ \A j \in DOMAIN seen : both[j] = seen[j]
    BY <2>1
  <2>5. Exact(n, principals) => AllSame(read(k), n) /\ n \in witnessed[o]
    BY <1>1, FixedRow DEF ProvisioningInv, ProvisioningTyped, Witnesses, ExactIn, Current
  <2>6. AllSame(ByIdentity(n, principals), n) => Exact(n, principals)
    BY FixedRow DEF ProvisioningInv
  <2>7. "identity" \in DOMAIN both /\ AllSame(both["identity"], n) => n \in witnessed[o]
    <3>1. CASE k = "identity"
      BY <2>4, <2>5, <2>6, <3>1
    <3>2. CASE k # "identity"
      BY <1>1, <2>1, <2>4, <3>2 DEF ProvisioningInv, Witnesses
    <3> QED BY <3>1, <3>2
  <2>8. Witnesses(o)'
    <3>1. ExactIn(principals)' \subseteq witnessed'[o]
      BY <1>1, <2>2 DEF ProvisioningInv, Witnesses, Reading
    <3> HIDE DEF both
    <3> QED BY <2>2, <2>3, <2>7, <3>1 DEF Witnesses, Reading
  <2>9. Steady(o)'
    BY <1>1, <2>2 DEF Steady, Reading
  <2>10. changes = 0 => \A j \in DOMAIN both : AllSame(both[j], n)
    BY <1>2, <2>4, <2>5
  <2>11. changes = 0 => Alone(o)'
    <3> HIDE DEF both
    <3> QED BY <1>2, <2>2, <2>3, <2>10 DEF Alone, Reading
  <2>12. next.at \in DOMAIN SPECS /\ next.pc = "recheck"
    BY <1>1
  <2> HIDE DEF next
  <2> QED BY <1>1, <2>2, <2>8, <2>9, <2>11, <2>12, OperatorMoves
<1> QED BY <1>3, <1>4, <1>5

(* An administrator changes a row, or adds one that clashes with none: what  *)
(* was exact need not be, and every operator's history says so.              *)
LEMMA AdministerKeeps ==
  ASSUME ProvisioningAssumption, ProvisioningInv, Administer PROVE ProvisioningInv'
<1>1. changes' = changes + 1 /\ changes \in Nat /\ UNCHANGED <<operator, runs, reported>>
  BY DEF Administer, ProvisioningInv, ProvisioningTyped
<1>2. PICK rows : /\ Store(rows) /\ RowsSound(rows)
                  /\ \A n : Present(n, principals) => Present(n, rows)
  <2>1. CASE \E r \in Foreign : ~Clash(r, principals) /\ Store(principals \cup {r})
    <3>1. PICK r \in Foreign : ~Clash(r, principals) /\ Store(principals \cup {r})
      BY <2>1
    <3>2. RowOk(r)
      BY DEF ProvisioningAssumption, RowOk
    <3>3. \A q \in principals : ~Clash(q, {r}) /\ ~Clash(r, {q})
      BY <3>1 DEF Clash
    <3>4. RowsSound(principals \cup {r})
      BY <3>2, <3>3 DEF ProvisioningInv, RowsSound
    <3>5. \A n : Present(n, principals) => Present(n, principals \cup {r})
      BY DEF Present
    <3> QED BY <3>1, <3>4, <3>5
  <2>2. ASSUME NEW r \in principals, NEW s, Store((principals \ {r}) \cup {s}), RowOk(s),
               s.principal = r.principal, s.identity = r.identity, s.actor = r.actor
        PROVE \E rows : /\ Store(rows) /\ RowsSound(rows)
                        /\ \A n : Present(n, principals) => Present(n, rows)
    <3> DEFINE rows == (principals \ {r}) \cup {s}
    <3>1. \A q \in principals \ {r} : ~Clash(q, {s}) /\ ~Clash(s, {q})
      BY <2>2 DEF ProvisioningInv, RowsSound, Clash
    <3>2. RowsSound(rows)
      BY <2>2, <3>1 DEF ProvisioningInv, RowsSound
    <3>3. \A n : Present(n, principals) => Present(n, rows)
      BY <2>2 DEF Present
    <3> QED BY <2>2, <3>2, <3>3
  <2>3. ASSUME NEW r \in principals
        PROVE LET s == [r EXCEPT !.enabled = ~r.enabled] IN
              RowOk(s) /\ s.principal = r.principal /\ s.identity = r.identity /\ s.actor = r.actor
    <3>1. RowOk(r)
      BY DEF ProvisioningInv, RowsSound
    <3> QED BY <3>1 DEF RowOk
  <2>4. ASSUME NEW r \in principals
        PROVE LET s == [r EXCEPT !.capabilities = {"ACT_AS_SELF"} \ r.capabilities] IN
              RowOk(s) /\ s.principal = r.principal /\ s.identity = r.identity /\ s.actor = r.actor
    <3>1. RowOk(r)
      BY DEF ProvisioningInv, RowsSound
    <3> QED BY <3>1 DEF RowOk
  <2>5. CASE \E r \in principals : Store((principals \ {r}) \cup {[r EXCEPT !.enabled = ~r.enabled]})
    BY <2>2, <2>3, <2>5
  <2>6. CASE \E r \in principals :
               Store((principals \ {r}) \cup {[r EXCEPT !.capabilities = {"ACT_AS_SELF"} \ r.capabilities]})
    BY <2>2, <2>4, <2>6
  <2> QED BY <2>1, <2>5, <2>6 DEF Administer
<1>3. /\ principals' = rows /\ DOMAIN steady' = Operator /\ DOMAIN witnessed' = Operator
      /\ \A q \in Operator :
           /\ steady'[q] = (steady[q] /\ Current(q) \in ExactIn(rows))
           /\ witnessed'[q] = witnessed[q] \cup ExactIn(rows)
  BY <1>2 DEF Store, Current
<1>4. ProvisioningTyped'
  BY <1>1, <1>3 DEF ProvisioningInv, ProvisioningTyped
<1>5. RowsSound(principals)'
  BY <1>2, <1>3
<1>6. CreatedOnce'
  BY <1>1, <1>2, <1>3 DEF ProvisioningInv, CreatedOnce, Created, Current
<1>7. Reported'
  BY <1>1, <1>3 DEF ProvisioningInv, Reported
<1>8. ASSUME NEW q \in Operator PROVE Witnesses(q)' /\ Steady(q)'
  <2>1. operator'[q] = operator[q] /\ Current(q)' = Current(q)
    BY <1>1 DEF Current
  <2>2. Witnesses(q)'
    BY <1>3, <2>1 DEF ProvisioningInv, Witnesses
  <2>3. Steady(q)'
    BY <1>3, <2>1 DEF ProvisioningInv, Steady, ExactIn
  <2> QED BY <2>2, <2>3
<1>9. Undisturbed'
  BY <1>1 DEF Undisturbed
<1> QED BY <1>4, <1>5, <1>6, <1>7, <1>8, <1>9 DEF ProvisioningInv

(* Every step of the bootstrap keeps the invariant.                          *)
LEMMA ProvisioningInvStep ==
  ASSUME ProvisioningAssumption, ProvisioningInv, [ProvisioningNext]_provisioningVars PROVE ProvisioningInv'
<1>1. CASE Administer
  BY <1>1, AdministerKeeps
<1>2. ASSUME NEW o \in Operator,
             \/ Start(o) \/ Crash(o) \/ ResolveExisting(o) \/ GetExisting(o)
             \/ Create(o) \/ ReadCreated(o) \/ Recheck(o)
      PROVE ProvisioningInv'
  BY <1>2, StartKeeps, CrashKeeps, ResolveExistingKeeps, GetExistingKeeps, CreateKeeps,
     ReadCreatedKeeps, RecheckKeeps
<1>3. CASE UNCHANGED provisioningVars
  BY <1>3 DEF provisioningVars, ProvisioningInv, ProvisioningTyped, RowsSound, CreatedOnce, Created,
     Reported, Undisturbed, Alone, Witnesses, Steady, Current
<1> QED BY <1>1, <1>2, <1>3 DEF ProvisioningNext

(* Of the bootstrap of the development principals                            *)
(* (provision-development-actors.ts), for any operators, principals and       *)
(* records of administrators: a report was true while its run went on and a   *)
(* creation is reported once; a refused principal was not exact all along;    *)
(* and who lost the race of a creation accepts the mapping that won it.       *)
THEOREM BootstrapAgrees ==
  ASSUME ProvisioningAssumption PROVE ProvisioningSpec => []ProvisioningSound
<1>1. ProvisioningInit => ProvisioningInv
  BY ProvisioningInvInit
<1>2. ProvisioningInv /\ [ProvisioningNext]_provisioningVars => ProvisioningInv'
  BY ProvisioningInvStep
<1>3. ProvisioningInv => ProvisioningSound
  BY ProvisioningInvGives
<1> QED BY <1>1, <1>2, <1>3, PTL DEF ProvisioningSpec

-----------------------------------------------------------------------------
(* The page.  The invariant: every call is of the counts it was made at; a   *)
(* load that would be shown is the only one, is of the scope the room waits   *)
(* for, was made with a token of the role on screen if it is of that role,    *)
(* and is not behind what was shown; and while the page and the selection    *)
(* differ a switch is on its way.                                            *)
CallType ==
  [n : Nat, kind : {"switch", "load", "act"}, pc : {"token", "send", "answered"}, as : Role,
   retried : BOOLEAN, answer : {"ok", "failed", "401"} \cup {None}, cell : Nat \cup {None},
   scope : Role \cup {None}, mount : Nat, id : Nat, payload : Role \cup {None, "acted"}]
Loads == {c \in calls : c.kind = "load" /\ Latest(c)}

FrontendTyped ==
  /\ issued \in Nat /\ mount \in Nat /\ requestId \in Nat /\ version \in Nat /\ clicks \in Nat
  /\ newest \in Nat /\ newest <= version
  /\ role \in Role \cup {None} /\ session \in Role \cup {None} /\ shown \in Role \cup {None}
  /\ view.scope \in Role \cup {None} /\ view.by \in Role \cup {None}
  /\ view.loading \in BOOLEAN /\ busy \in BOOLEAN
CallsSound ==
  /\ calls \subseteq CallType
  /\ \A c, d \in calls : c.n = d.n => c = d
  /\ \A c \in calls :
       /\ c.n < issued /\ c.mount <= mount
       /\ c.kind = "switch" => c.pc = "token" /\ c.payload = None
       /\ c.kind = "load" /\ c.mount = mount => c.id <= requestId
       /\ c.kind = "load" /\ c.pc = "answered" /\ ~Failed(c) => c.cell \in Nat /\ c.cell <= version
SessionSound ==
  /\ session # None => role = session /\ shown = session
  /\ role = None => shown = None
  /\ shown = role \/ \E c \in calls : c.kind = "switch"
LoadsSound ==
  /\ \A c, d \in Loads : c = d
  /\ \A c \in Loads :
       /\ view.loading /\ view.scope = c.scope
       /\ c.scope = shown /\ c.pc # "token" => c.as = shown
       /\ c.pc = "answered" /\ ~Failed(c) => newest <= c.cell
ViewSound ==
  ~view.loading /\ view.cell # None =>
    view.cell = newest /\ (view.scope = shown => view.by = shown)
RoomSound == OneCommandAtATime /\ (shown = None => InRoom = {})
SettledSound ==
  clicks = 0 =>
    /\ \A c \in calls : c.kind # "act"
    /\ shown # None => view.scope = shown /\ (view.loading => Loads # {})
FrontendInv ==
  /\ FrontendTyped /\ CallsSound /\ SessionSound /\ LoadsSound /\ ViewSound /\ RoomSound /\ SettledSound

SameCall(c, d) ==
  /\ d.n = c.n /\ d.kind = c.kind /\ d.as = c.as /\ d.scope = c.scope
  /\ d.mount = c.mount /\ d.id = c.id /\ d.payload = c.payload

(* The invariant gives what the run checks of the page.                      *)
LEMMA FrontendInvGives ==
  ASSUME FrontendAssumption, FrontendInv PROVE FrontendSound
<1>1. FrontendTypeOK
  BY DEF FrontendInv, FrontendTyped, CallsSound, CallType, FrontendTypeOK
<1>2. SessionOfRole
  BY DEF FrontendInv, SessionSound, SessionOfRole, Quiet
<1>3. CellOfShownRole /\ NeverOlder
  BY DEF FrontendInv, FrontendTyped, ViewSound, CellOfShownRole, NeverOlder, Visible, IsLoading
<1>4. OneCommandAtATime
  BY DEF FrontendInv, RoomSound
<1>5. clicks = 0 => RoomSettled
  BY DEF FrontendInv, SettledSound, RoomSettled, Quiet, IsLoading, Loads
<1> QED BY <1>1, <1>2, <1>3, <1>4, <1>5 DEF FrontendSound

(* Where the page begins nothing is selected, shown or waited for.           *)
LEMMA FrontendInvInit ==
  ASSUME FrontendAssumption, FrontendInit PROVE FrontendInv
<1>1. FrontendTyped /\ ViewSound
  <2>1. view.scope = None /\ view.by = None /\ view.loading = TRUE
    BY DEF FrontendInit, Blank
  <2>2. ViewSound
    BY <2>1 DEF ViewSound
  <2>3. busy \in BOOLEAN /\ view.loading \in BOOLEAN
    BY <2>1 DEF FrontendInit
  <2>4. newest <= version
    BY DEF FrontendInit
  <2> QED BY <2>1, <2>2, <2>3, <2>4 DEF FrontendInit, FrontendTyped
<1>2. CallsSound /\ SessionSound /\ LoadsSound
  BY DEF FrontendInit, CallsSound, SessionSound, LoadsSound, Loads
<1>3. RoomSound /\ SettledSound
  BY DEF FrontendInit, RoomSound, OneCommandAtATime, InRoom, SettledSound
<1> QED BY <1>1, <1>2, <1>3 DEF FrontendInv

(* A call as it is made.                                                     *)
LEMMA CallMade ==
  ASSUME NEW n \in Nat, NEW kind \in {"switch", "load", "act"}, NEW held \in Role \cup {None},
         NEW selected \in Role, NEW scope \in Role \cup {None}, NEW in \in Nat, NEW id \in Nat,
         NEW payload \in Role \cup {None, "acted"},
         NEW c, c = Call(n, kind, Api(held, selected), scope, in, id, payload)
  PROVE /\ c \in CallType /\ c.n = n /\ c.kind = kind /\ c.scope = scope
        /\ c.mount = in /\ c.id = id /\ c.payload = payload /\ c.pc # "answered"
        /\ c.pc = "token" <=> held = None
        /\ c.as = IF held = None THEN selected ELSE held
<1> DEFINE api == Api(held, selected)
<1>1. /\ api.pc \in {"token", "send"} /\ api.as \in Role /\ (api.pc = "token" <=> held = None)
      /\ api.as = IF held = None THEN selected ELSE held
  BY DEF Api
<1>2. c = [n |-> n, kind |-> kind, pc |-> api.pc, as |-> api.as, retried |-> FALSE, answer |-> None,
           cell |-> None, scope |-> scope, mount |-> in, id |-> id, payload |-> payload]
  BY DEF Call
<1> HIDE DEF api
<1> QED BY <1>1, <1>2 DEF CallType

(* A call that moves on stays the call it is.                                *)
Sends(c) == [c EXCEPT !.pc = "send"]
Retries(c) == [c EXCEPT !.pc = "token", !.retried = TRUE, !.answer = None]
Answers(c, a, v) == [c EXCEPT !.pc = "answered", !.answer = a, !.cell = v]

(* A call that is sent, retried or answered is still the same call.         *)
LEMMA CallMoved ==
  ASSUME NEW c \in CallType, NEW a \in {"ok", "failed", "401"}, NEW v \in Nat \cup {None}
  PROVE /\ Sends(c) \in CallType /\ SameCall(c, Sends(c)) /\ Sends(c).pc = "send"
        /\ Retries(c) \in CallType /\ SameCall(c, Retries(c)) /\ Retries(c).pc = "token"
        /\ Answers(c, a, v) \in CallType /\ SameCall(c, Answers(c, a, v))
        /\ Answers(c, a, v).pc = "answered" /\ Answers(c, a, v).answer = a /\ Answers(c, a, v).cell = v
<1>1. Sends(c) \in CallType /\ SameCall(c, Sends(c)) /\ Sends(c).pc = "send"
  BY DEF CallType, SameCall, Sends
<1>2. Retries(c) \in CallType /\ SameCall(c, Retries(c)) /\ Retries(c).pc = "token"
  BY DEF CallType, SameCall, Retries
<1>3. /\ Answers(c, a, v) \in CallType /\ SameCall(c, Answers(c, a, v))
      /\ Answers(c, a, v).pc = "answered" /\ Answers(c, a, v).answer = a /\ Answers(c, a, v).cell = v
  BY DEF CallType, SameCall, Answers
<1> QED BY <1>1, <1>2, <1>3

(* A call that moves on while the page stays as it is.                       *)
LEMMA MovesOn ==
  ASSUME FrontendAssumption, FrontendInv, NEW c \in calls, NEW d \in CallType, SameCall(c, d),
         calls' = (calls \ {c}) \cup {d}, UNCHANGED <<client, issued, newest, clicks>>,
         version' \in Nat, version <= version', c.kind # "switch", d.pc = "token" \/ c.pc # "token",
         d.pc = "answered" /\ ~Failed(d) => d.cell \in Nat /\ newest <= d.cell /\ d.cell <= version'
  PROVE FrontendInv'
<1>1. UNCHANGED <<role, session, shown, mount, requestId, view, busy, issued, newest, clicks>>
  BY DEF client
<1>2. \A e \in calls' : e = d \/ (e \in calls /\ e # c)
  OBVIOUS
<1>3. \A e \in calls : e # c => e \in calls' /\ d \in calls' /\ e.n # d.n
  BY DEF FrontendInv, CallsSound, SameCall
<1>4. FrontendTyped'
  BY <1>1 DEF FrontendInv, FrontendTyped
<1>5. CallsSound'
  BY <1>1, <1>2, <1>3 DEF FrontendInv, FrontendTyped, CallsSound, SameCall, Failed, CallType
<1>6. SessionSound'
  BY <1>1, <1>3 DEF FrontendInv, SessionSound
<1>7. \A e \in Loads' : (e = d /\ c \in Loads) \/ (e \in Loads /\ e # c)
  BY <1>1, <1>2 DEF Loads, Latest, SameCall
<1>8. Loads # {} => Loads' # {}
  BY <1>1, <1>3 DEF Loads, Latest, SameCall
<1>9. LoadsSound'
  <2>1. \A e, f \in Loads' : e = f
    BY <1>7 DEF FrontendInv, LoadsSound
  <2>2. ASSUME NEW e \in Loads'
        PROVE /\ view.loading /\ view.scope = e.scope
              /\ e.scope = shown /\ e.pc # "token" => e.as = shown
              /\ e.pc = "answered" /\ ~Failed(e) => newest <= e.cell
    BY <1>7 DEF FrontendInv, LoadsSound, SameCall
  <2> QED BY <1>1, <2>1, <2>2 DEF LoadsSound, Failed
<1>10. ViewSound'
  BY <1>1 DEF FrontendInv, ViewSound
<1>11. RoomSound'
  <2>1. \A e \in InRoom' : (e = d /\ c \in InRoom) \/ (e \in InRoom /\ e # c)
    BY <1>1, <1>2 DEF InRoom, SameCall
  <2>2. InRoom # {} => InRoom' # {}
    BY <1>1, <1>3 DEF InRoom, SameCall
  <2>3. (\A e, f \in InRoom' : e = f) /\ (InRoom' # {} <=> InRoom # {})
    BY <2>1, <2>2 DEF FrontendInv, RoomSound, OneCommandAtATime
  <2> QED BY <1>1, <2>3 DEF FrontendInv, RoomSound, OneCommandAtATime
<1>12. SettledSound'
  BY <1>1, <1>2, <1>8 DEF FrontendInv, SettledSound, SameCall
<1> QED BY <1>4, <1>5, <1>6, <1>9, <1>10, <1>11, <1>12 DEF FrontendInv

(* The server does what is asked, and a 401 is followed by a new token.      *)
LEMMA ServeKeeps ==
  ASSUME FrontendAssumption, FrontendInv, NEW c \in calls, Serve(c) PROVE FrontendInv'
<1>1. PICK a \in {"ok", "failed", "401"} : Answered(c, a)
  BY DEF Serve
<1>2. /\ c.pc = "send" /\ c.kind # "switch" /\ c \in CallType /\ UNCHANGED <<client, issued, newest, clicks>>
      /\ version \in Nat /\ version' \in Nat /\ version <= version' /\ newest <= version /\ newest \in Nat
  BY DEF Serve, NoFault, Fault, counts, history, Execute, FrontendInv, FrontendTyped, CallsSound
<1> DEFINE v == IF a = "ok" THEN version ELSE None
           d == Answers(c, a, v)
<1>3. calls' = (calls \ {c}) \cup {d} /\ v \in Nat \cup {None} /\ (a = "ok" => v = version)
  BY <1>1, <1>2 DEF Answered, Answers
<1> HIDE DEF v
<1>4. d \in CallType /\ SameCall(c, d) /\ d.pc = "answered" /\ d.answer = a /\ d.cell = v
  BY <1>2, <1>3, CallMoved
<1> HIDE DEF d
<1>5. ~Failed(d) => d.cell \in Nat /\ newest <= d.cell /\ d.cell <= version'
  BY <1>2, <1>3, <1>4 DEF Failed
<1> QED BY <1>2, <1>3, <1>4, <1>5, MovesOn

(* A call refused with 401 is tried once more, with nothing else changed.   *)
LEMMA RetryKeeps ==
  ASSUME FrontendAssumption, FrontendInv, NEW c \in calls, Retry(c) PROVE FrontendInv'
<1> DEFINE d == Retries(c)
<1>1. /\ c.pc = "answered" /\ calls' = (calls \ {c}) \cup {d} /\ c \in CallType /\ c.kind # "switch"
      /\ UNCHANGED <<client, version, issued, newest, clicks>> /\ version \in Nat
  BY DEF Retry, Retries, counts, history, FrontendInv, FrontendTyped, CallsSound
<1>2. d \in CallType /\ SameCall(c, d) /\ d.pc = "token"
  BY <1>1, 0 \in Nat \cup {None}, CallMoved
<1> HIDE DEF d
<1> QED BY <1>1, <1>2, MovesOn

(* A switch of the role waits for its token.                                 *)
LEMMA SwitchRoleKeeps ==
  ASSUME FrontendAssumption, FrontendInv, NEW r \in Role, SwitchRole(r) PROVE FrontendInv'
<1> DEFINE new == Call(issued, "switch", Api(None, r), None, 0, 0, None)
<1>1. /\ session' = None /\ role' = r /\ issued' = issued + 1 /\ calls' = calls \cup {new}
      /\ UNCHANGED <<shown, mount, requestId, view, busy, version, clicks, newest>> /\ issued \in Nat
  BY DEF SwitchRole, FrontendInv, FrontendTyped
<1>2. new \in CallType /\ new.n = issued /\ new.kind = "switch" /\ new.mount = 0 /\ new.payload = None
      /\ new.pc = "token"
  BY <1>1, CallMade DEF FrontendAssumption
<1> HIDE DEF new
<1>3. FrontendTyped'
  BY <1>1 DEF FrontendInv, FrontendTyped
<1>4. CallsSound'
  BY <1>1, <1>2 DEF FrontendInv, FrontendTyped, CallsSound, CallType, Failed
<1>5. SessionSound'
  BY <1>1, <1>2 DEF SessionSound, FrontendAssumption
<1>6. Loads' = Loads /\ InRoom' = InRoom
  BY <1>1, <1>2 DEF Loads, Latest, InRoom, FrontendAssumption
<1>7. LoadsSound' /\ ViewSound'
  BY <1>1, <1>6 DEF FrontendInv, LoadsSound, ViewSound, Failed
<1>8. RoomSound'
  BY <1>1, <1>6 DEF FrontendInv, RoomSound, OneCommandAtATime
<1>9. SettledSound'
  BY <1>1, <1>2, <1>6 DEF FrontendInv, SettledSound
<1> QED BY <1>3, <1>4, <1>5, <1>7, <1>8, <1>9 DEF FrontendInv

(* The token expires.                                                        *)
LEMMA ExpireKeeps ==
  ASSUME FrontendAssumption, FrontendInv, Expire PROVE FrontendInv'
<1>1. session' = None
      /\ UNCHANGED <<role, shown, mount, requestId, view, busy, calls, version, issued, clicks, newest>>
  BY DEF Expire, Fault, history
<1>2. FrontendTyped' /\ CallsSound' /\ SessionSound'
  BY <1>1 DEF FrontendInv, FrontendTyped, CallsSound, SessionSound, Failed
<1>3. Loads' = Loads /\ InRoom' = InRoom
  BY <1>1 DEF Loads, Latest, InRoom
<1>4. LoadsSound' /\ ViewSound'
  BY <1>1, <1>3 DEF FrontendInv, LoadsSound, ViewSound, Failed
<1>5. RoomSound'
  BY <1>1, <1>3 DEF FrontendInv, RoomSound, OneCommandAtATime
<1>6. SettledSound'
  BY <1>1, <1>3 DEF FrontendInv, SettledSound
<1> QED BY <1>2, <1>4, <1>5, <1>6 DEF FrontendInv

(* A click sends the command of a room that waits for none.                  *)
LEMMA ActKeeps ==
  ASSUME FrontendAssumption, FrontendInv, Act PROVE FrontendInv'
<1> DEFINE new == Call(issued, "act", Api(session, role), shown, mount, 0, role)
<1>1. /\ clicks' = clicks + 1 /\ issued' = issued + 1 /\ calls' = calls \cup {new}
      /\ UNCHANGED <<role, session, shown, mount, requestId, view, version, newest>>
      /\ issued \in Nat /\ clicks \in Nat /\ mount \in Nat /\ shown # None
      /\ role \in Role /\ session \in Role \cup {None} /\ shown \in Role \cup {None}
  BY DEF Act, Visible, history, FrontendInv, FrontendTyped, SessionSound
<1>2. busy' = TRUE /\ ~busy
  BY DEF Act
<1>3. new \in CallType /\ new.n = issued /\ new.kind = "act" /\ new.mount = mount /\ new.pc # "answered"
  <2>1. 0 \in Nat /\ role \in Role \cup {None, "acted"} /\ "act" \in {"switch", "load", "act"}
    BY <1>1
  <2>2. issued \in Nat /\ session \in Role \cup {None} /\ role \in Role /\ shown \in Role \cup {None} /\ mount \in Nat
    BY <1>1
  <2> QED BY <2>1, <2>2 DEF Call, Api, CallType
<1> HIDE DEF new
<1>4. FrontendTyped'
  BY <1>1, <1>2 DEF FrontendInv, FrontendTyped
<1>5. CallsSound' /\ SessionSound'
  BY <1>1, <1>3 DEF FrontendInv, FrontendTyped, CallsSound, CallType, Failed, SessionSound
<1>6. Loads' = Loads
  BY <1>1, <1>3 DEF Loads, Latest
<1>7. LoadsSound' /\ ViewSound'
  BY <1>1, <1>6 DEF FrontendInv, LoadsSound, ViewSound, Failed
<1>8. RoomSound'
  <2>1. InRoom = {} /\ InRoom' = {new}
    BY <1>1, <1>2, <1>3 DEF FrontendInv, RoomSound, OneCommandAtATime, InRoom
  <2> QED BY <1>1, <1>2, <2>1 DEF RoomSound, OneCommandAtATime
<1>9. SettledSound'
  BY <1>1 DEF SettledSound
<1> QED BY <1>4, <1>5, <1>7, <1>8, <1>9 DEF FrontendInv

(* A token is granted: a role that was not on screen drops the load the room  *)
(* waits for and starts its own.                                             *)
LEMMA GrantedKeeps ==
  ASSUME FrontendAssumption, FrontendInv, NEW c \in calls, c.pc = "token", Granted(c),
         UNCHANGED <<version, history>>
  PROVE FrontendInv'
<1> DEFINE r == c.as
           rest == (calls \ {c}) \cup Ready(c)
<1>1. /\ session' = r /\ role' = r /\ shown' = r /\ r \in Role /\ r # None /\ c \in CallType
      /\ UNCHANGED <<version, newest, clicks>> /\ Publish(r, rest)
      /\ issued \in Nat /\ requestId \in Nat /\ mount \in Nat /\ newest \in Nat /\ version \in Nat
  BY DEF Granted, Publish, NoFault, counts, history, FrontendInv, FrontendTyped, CallsSound, CallType,
     FrontendAssumption
<1>a. /\ Ready(c) = IF c.kind = "switch" THEN {} ELSE {Sends(c)}
      /\ Sends(c) \in CallType /\ SameCall(c, Sends(c)) /\ Sends(c).pc = "send"
  BY <1>1, 0 \in Nat \cup {None}, CallMoved DEF Ready, Sends
<1>2. \A e \in rest : e \in CallType /\ \E f \in calls :
        SameCall(f, e) /\ (e = f \/ (f = c /\ e.pc = "send" /\ e.kind # "switch"))
  <2>1. \A e \in Ready(c) : e \in CallType /\ SameCall(c, e) /\ e.pc = "send" /\ e.kind # "switch"
    BY <1>a DEF SameCall
  <2>2. ASSUME NEW e \in calls PROVE e \in CallType /\ SameCall(e, e)
    BY DEF FrontendInv, CallsSound, SameCall
  <2> QED BY <2>1, <2>2
<1>3. \A f \in calls : f.kind # "switch" => \E e \in rest : SameCall(f, e)
  <2>1. c.kind # "switch" => \E e \in Ready(c) : SameCall(c, e)
    BY <1>a
  <2>2. \A f \in calls : f # c => f \in rest /\ SameCall(f, f)
    BY DEF SameCall
  <2> QED BY <2>1, <2>2
<1>4. \A e, f \in rest : e.n = f.n => e = f
  <2>1. \A e, f \in Ready(c) : e = f
    BY DEF Ready
  <2>2. \A e \in Ready(c) : e.n = c.n
    BY <1>a DEF SameCall
  <2> QED BY <2>1, <2>2 DEF FrontendInv, CallsSound
<1> HIDE DEF rest
<1>5. SessionSound'
  BY <1>1 DEF SessionSound
<1>6. CASE r = shown
  <2>1. calls' = rest /\ UNCHANGED <<requestId, issued, mount, view, busy, shown>>
    BY <1>1, <1>6 DEF Publish
  <2>2. FrontendTyped'
    BY <1>1, <2>1 DEF FrontendInv, FrontendTyped
  <2>3. CallsSound'
    BY <1>1, <1>2, <1>4, <2>1 DEF FrontendInv, FrontendTyped, CallsSound, SameCall, Failed
  <2>4. \A e \in Loads' : \E f \in Loads : SameCall(f, e) /\ (e = f \/ (f = c /\ e.pc = "send"))
    BY <1>2, <2>1 DEF Loads, Latest, SameCall
  <2>5. LoadsSound'
    <3>1. \A e, f \in Loads' : e = f
      BY <1>4, <2>1, <2>4 DEF FrontendInv, LoadsSound, Loads, SameCall
    <3>2. ASSUME NEW e \in Loads'
          PROVE /\ view.loading /\ view.scope = e.scope
                /\ e.scope = shown /\ e.pc # "token" => e.as = shown
                /\ e.pc = "answered" /\ ~Failed(e) => newest <= e.cell
      BY <1>6, <2>4 DEF FrontendInv, LoadsSound, SameCall
    <3> QED BY <1>1, <2>1, <3>1, <3>2 DEF LoadsSound, Failed
  <2>6. ViewSound'
    BY <1>1, <2>1 DEF FrontendInv, ViewSound
  <2>7. RoomSound'
    <3>1. \A e \in InRoom' : \E f \in InRoom : SameCall(f, e)
      BY <1>2, <2>1 DEF InRoom, SameCall
    <3>2. \A f \in InRoom : f.kind # "switch"
      BY DEF InRoom, FrontendInv, CallsSound, FrontendAssumption
    <3>3. InRoom # {} => InRoom' # {}
      BY <1>3, <2>1, <3>2 DEF InRoom, SameCall
    <3>4. \A e, f \in InRoom' : e = f
      BY <1>4, <2>1, <3>1 DEF FrontendInv, RoomSound, OneCommandAtATime, InRoom, SameCall
    <3>5. InRoom' = {} <=> InRoom = {}
      BY <3>1, <3>3
    <3> QED BY <1>1, <2>1, <3>4, <3>5 DEF FrontendInv, RoomSound, OneCommandAtATime
  <2>8. SettledSound'
    <3>1. Loads # {} => Loads' # {}
      BY <1>3, <2>1 DEF Loads, Latest, SameCall
    <3> QED BY <1>1, <1>2, <2>1, <3>1 DEF FrontendInv, SettledSound, SameCall
  <2> QED BY <1>5, <2>2, <2>3, <2>5, <2>6, <2>7, <2>8 DEF FrontendInv
<1>7. CASE r # shown
  <2> DEFINE new == Call(issued, "load", Api(r, r), r, mount, requestId', None)
  <2>1. /\ requestId' = requestId + 1 /\ issued' = issued + 1 /\ view' = OnLoad(r)
        /\ calls' = rest \cup {new} /\ UNCHANGED <<mount, busy>>
    BY <1>1, <1>7 DEF Publish
  <2>2. /\ view'.scope = r /\ view'.cell = None /\ view'.by = None /\ view'.loading = TRUE
    BY <2>1 DEF OnLoad
  <2>3. /\ new \in CallType /\ new.n = issued /\ new.kind = "load" /\ new.scope = r /\ new.mount = mount
        /\ new.id = requestId + 1 /\ new.payload = None /\ new.pc # "answered" /\ new.as = r
    <3>1. /\ requestId' \in Nat /\ None \in Role \cup {None, "acted"} /\ "load" \in {"switch", "load", "act"}
          /\ r \in Role \cup {None} /\ requestId' = requestId + 1
      BY <1>1, <2>1
    <3>2. new = Call(issued, "load", Api(r, r), r, mount, requestId', None)
      OBVIOUS
    <3> HIDE DEF new
    <3> QED BY <1>1, <3>1, <3>2, CallMade
  <2> HIDE DEF new
  <2>4. FrontendTyped'
    <3>1. view'.loading \in BOOLEAN
      BY <2>2
    <3> QED BY <1>1, <2>1, <2>2, <3>1 DEF FrontendInv, FrontendTyped
  <2>5. CallsSound'
    <3>1. \A e \in rest : e.n < issued
      BY <1>2 DEF FrontendInv, CallsSound, SameCall
    <3>2. \A e, f \in calls' : e.n = f.n => e = f
      BY <1>2, <1>4, <2>1, <2>3, <3>1 DEF FrontendInv, FrontendTyped, CallType
    <3> QED BY <1>1, <1>2, <2>1, <2>3, <3>2 DEF FrontendInv, FrontendTyped, CallsSound, CallType, SameCall, Failed
  <2>6. Loads' = {new}
    <3>1. \A e \in rest : ~(e.kind = "load" /\ e.mount = mount /\ e.id = requestId + 1)
      BY <1>1, <1>2 DEF FrontendInv, CallsSound, CallType, SameCall
    <3> QED BY <2>1, <2>3, <3>1 DEF Loads, Latest
  <2>7. LoadsSound'
    BY <1>1, <2>2, <2>3, <2>6 DEF LoadsSound
  <2>8. ViewSound'
    BY <2>2 DEF ViewSound
  <2>9. RoomSound'
    <3>1. \A e \in InRoom' : \E f \in InRoom : SameCall(f, e) /\ e \in rest
      BY <1>2, <2>1, <2>3 DEF InRoom, SameCall, FrontendAssumption
    <3>2. \A f \in InRoom : f.kind # "switch"
      BY DEF InRoom, FrontendInv, CallsSound, FrontendAssumption
    <3>3. InRoom # {} => InRoom' # {}
      BY <1>3, <2>1, <3>2 DEF InRoom, SameCall
    <3>4. \A e, f \in InRoom' : e = f
      BY <1>4, <3>1 DEF FrontendInv, RoomSound, OneCommandAtATime, InRoom, SameCall
    <3>5. InRoom' = {} <=> InRoom = {}
      BY <3>1, <3>3
    <3> QED BY <1>1, <2>1, <3>4, <3>5 DEF FrontendInv, RoomSound, OneCommandAtATime
  <2>10. SettledSound'
    BY <1>1, <1>2, <2>1, <2>2, <2>3, <2>6 DEF FrontendInv, SettledSound, SameCall
  <2> QED BY <1>5, <2>4, <2>5, <2>7, <2>8, <2>9, <2>10 DEF FrontendInv
<1> QED BY <1>6, <1>7

(* A token is refused: no role is selected and none is shown.                *)
LEMMA RefusedKeeps ==
  ASSUME FrontendAssumption, FrontendInv, NEW c \in calls, c.pc = "token", Refused(c),
         UNCHANGED <<version, history>>
  PROVE FrontendInv'
<1>1. /\ session' = None /\ role' = None /\ shown' = None /\ Publish(None, calls \ {c})
      /\ UNCHANGED <<version, newest, clicks>> /\ calls' = calls \ {c} /\ UNCHANGED <<requestId, issued>>
      /\ issued \in Nat /\ requestId \in Nat /\ mount \in Nat /\ newest \in Nat /\ version \in Nat
  BY DEF Refused, Publish, Fault, history, FrontendInv, FrontendTyped
<1>2. SessionSound'
  BY <1>1 DEF SessionSound
<1>3. CASE shown = None
  <2>1. UNCHANGED <<mount, view, busy>>
    BY <1>1, <1>3 DEF Publish
  <2>2. FrontendTyped'
    BY <1>1, <2>1 DEF FrontendInv, FrontendTyped
  <2>3. CallsSound'
    BY <1>1, <2>1 DEF FrontendInv, FrontendTyped, CallsSound, Failed
  <2>4. Loads' = Loads \ {c} /\ InRoom' = InRoom \ {c} /\ InRoom = {}
    BY <1>1, <1>3, <2>1 DEF Loads, Latest, InRoom, FrontendInv, RoomSound
  <2>5. LoadsSound' /\ ViewSound'
    BY <1>1, <1>3, <2>1, <2>4 DEF FrontendInv, LoadsSound, ViewSound, Failed
  <2>6. RoomSound'
    BY <1>1, <2>1, <2>4 DEF FrontendInv, RoomSound, OneCommandAtATime
  <2>7. SettledSound'
    BY <1>1 DEF FrontendInv, SettledSound
  <2> QED BY <1>2, <2>2, <2>3, <2>5, <2>6, <2>7 DEF FrontendInv
<1>4. CASE shown # None
  <2>1. mount' = mount + 1 /\ view' = Blank /\ busy' = FALSE
    BY <1>1, <1>4 DEF Publish
  <2>2. view'.scope = None /\ view'.by = None /\ view'.loading = TRUE
    BY <2>1 DEF Blank
  <2>3. FrontendTyped'
    <3>1. view'.loading \in BOOLEAN /\ busy' \in BOOLEAN
      BY <2>1, <2>2
    <3> QED BY <1>1, <2>1, <2>2, <3>1 DEF FrontendInv, FrontendTyped
  <2>4. \A e \in calls : e.mount \in Nat /\ e.mount <= mount /\ e.mount # mount'
    BY <1>1, <2>1 DEF FrontendInv, CallsSound, CallType
  <2>5. CallsSound'
    BY <1>1, <2>1, <2>4 DEF FrontendInv, FrontendTyped, CallsSound, Failed
  <2>6. Loads' = {} /\ InRoom' = {}
    BY <1>1, <2>4 DEF Loads, Latest, InRoom
  <2>7. LoadsSound' /\ ViewSound'
    BY <2>2, <2>6 DEF LoadsSound, ViewSound
  <2>8. RoomSound'
    BY <2>1, <2>6 DEF RoomSound, OneCommandAtATime
  <2>9. SettledSound'
    BY <1>1 DEF FrontendInv, SettledSound
  <2> QED BY <1>2, <2>3, <2>5, <2>7, <2>8, <2>9 DEF FrontendInv
<1> QED BY <1>3, <1>4

(* A load is answered: only the latest of the room is shown, and it is not   *)
(* behind what was.                                                          *)
LEMMA LoadedKeeps ==
  ASSUME FrontendAssumption, FrontendInv, NEW c \in calls, Loaded(c) PROVE FrontendInv'
<1> DEFINE ok == Latest(c) /\ ~Failed(c)
<1>1. /\ c.pc = "answered" /\ c.kind = "load" /\ c \in CallType /\ calls' = calls \ {c}
      /\ UNCHANGED <<role, session, shown, mount, requestId, version, issued, clicks>>
      /\ newest \in Nat /\ version \in Nat /\ newest <= version
      /\ c.as \in Role /\ c.scope \in Role \cup {None}
  BY DEF Loaded, Final, counts, FrontendInv, FrontendTyped, CallsSound, CallType
<1>2. /\ ~Latest(c) => UNCHANGED <<view, newest>>
      /\ Latest(c) /\ Failed(c) => view' = OnFailure(c) /\ UNCHANGED newest
      /\ ok => view' = OnSuccess(c)
  BY DEF Loaded
<1>3. ok => c.cell \in Nat /\ newest <= c.cell /\ c.cell <= version /\ newest' = c.cell
  <2>1. ok => c \in Loads
    BY <1>1 DEF Loads
  <2>2. ok => c.cell \in Nat /\ newest <= c.cell /\ c.cell <= version
    BY <1>1, <2>1 DEF FrontendInv, CallsSound, LoadsSound
  <2>3. ok => newest' = IF c.cell > newest THEN c.cell ELSE newest
    BY DEF Loaded
  <2> QED BY <1>1, <2>2, <2>3
<1>4. /\ Latest(c) => view'.scope = c.scope /\ view'.loading = FALSE
      /\ ok => view'.cell = c.cell /\ view'.by = c.as
      /\ Latest(c) /\ Failed(c) => view'.cell = None /\ view'.by = None
  BY <1>2 DEF OnSuccess, OnFailure
<1>5. busy' = IF c.payload = "acted" /\ c.mount = mount THEN FALSE ELSE busy
  BY DEF Loaded
<1>6. newest' \in Nat /\ newest' <= version /\ (newest' = newest \/ ok)
  BY <1>1, <1>2, <1>3
<1>7. FrontendTyped'
  <2>1. busy' \in BOOLEAN
    BY <1>5 DEF FrontendInv, FrontendTyped
  <2>2. view'.loading \in BOOLEAN
    <3>1. CASE Latest(c)
      BY <1>4, <3>1
    <3>2. CASE ~Latest(c)
      BY <1>2, <3>2 DEF FrontendInv, FrontendTyped
    <3> QED BY <3>1, <3>2
  <2>3. view'.scope \in Role \cup {None} /\ view'.by \in Role \cup {None}
    BY <1>1, <1>2, <1>4 DEF FrontendInv, FrontendTyped
  <2> QED BY <1>1, <1>6, <2>1, <2>2, <2>3 DEF FrontendInv, FrontendTyped
<1>8. CallsSound' /\ SessionSound'
  BY <1>1 DEF FrontendInv, CallsSound, SessionSound, Failed
<1>9. Loads' = Loads \ {c} /\ InRoom' = InRoom \ {c} /\ (Latest(c) => c \in Loads)
  BY <1>1 DEF Loads, Latest, InRoom
<1>10. LoadsSound'
  <2>1. CASE Latest(c)
    <3>1. Loads' = {}
      BY <1>9, <2>1 DEF FrontendInv, LoadsSound
    <3> QED BY <3>1 DEF LoadsSound
  <2>2. CASE ~Latest(c)
    BY <1>1, <1>2, <1>9, <2>2 DEF FrontendInv, LoadsSound, Failed
  <2> QED BY <2>1, <2>2
<1>11. ViewSound'
  <2>1. CASE ok
    <3>1. c.scope = shown => c.as = shown
      BY <1>1, <1>9, <2>1 DEF FrontendInv, LoadsSound
    <3> QED BY <1>1, <1>3, <1>4, <2>1, <3>1 DEF ViewSound
  <2>2. CASE Latest(c) /\ Failed(c)
    BY <1>4, <2>2 DEF ViewSound
  <2>3. CASE ~Latest(c)
    BY <1>1, <1>2, <2>3 DEF FrontendInv, ViewSound
  <2> QED BY <2>1, <2>2, <2>3
<1>12. RoomSound'
  <2>1. CASE c \in InRoom
    <3>1. InRoom' = {}
      BY <1>9, <2>1 DEF FrontendInv, RoomSound, OneCommandAtATime
    <3>2. c.payload = "acted" /\ c.mount = mount
      BY <1>1, <2>1 DEF InRoom
    <3>3. busy' = FALSE
      BY <1>5, <3>2
    <3> QED BY <3>1, <3>3 DEF RoomSound, OneCommandAtATime
  <2>2. CASE c \notin InRoom
    <3>1. InRoom' = InRoom /\ ~(c.payload = "acted" /\ c.mount = mount)
      BY <1>9, <2>2 DEF InRoom
    <3>2. UNCHANGED <<busy, shown>>
      BY <1>1, <1>5, <3>1
    <3> QED BY <3>1, <3>2 DEF FrontendInv, RoomSound, OneCommandAtATime
  <2> QED BY <2>1, <2>2
<1>13. SettledSound'
  <2>1. CASE Latest(c)
    <3>1. c \in Loads
      BY <1>9, <2>1
    <3>2. view.scope = c.scope /\ view'.scope = c.scope /\ ~view'.loading
      BY <1>4, <2>1, <3>1 DEF FrontendInv, LoadsSound
    <3> QED BY <1>1, <3>2 DEF FrontendInv, SettledSound
  <2>2. CASE ~Latest(c)
    <3>1. UNCHANGED view /\ Loads' = Loads
      BY <1>2, <1>9, <2>2 DEF Loads
    <3> QED BY <1>1, <3>1 DEF FrontendInv, SettledSound
  <2> QED BY <2>1, <2>2
<1> QED BY <1>7, <1>8, <1>10, <1>11, <1>12, <1>13 DEF FrontendInv

(* A command is answered: if it succeeded the room reloads, and until then   *)
(* takes no other.                                                           *)
LEMMA ActedKeeps ==
  ASSUME FrontendAssumption, FrontendInv, NEW c \in calls, Acted(c) PROVE FrontendInv'
<1> DEFINE reload == Call(issued, "load", Api(session, role), c.scope, c.mount, requestId + 1, "acted")
           here == c.mount = mount
<1>1. /\ c.kind = "act" /\ c \in CallType
      /\ UNCHANGED <<role, session, shown, mount, version, clicks, newest>>
      /\ issued \in Nat /\ requestId \in Nat /\ mount \in Nat /\ newest \in Nat /\ version \in Nat
      /\ c.scope \in Role \cup {None} /\ c.mount \in Nat /\ c.mount <= mount
  BY DEF Acted, counts, history, FrontendInv, FrontendTyped, CallsSound, CallType
<1>2. clicks # 0
  BY <1>1 DEF FrontendInv, SettledSound
<1>3. SettledSound'
  BY <1>1, <1>2 DEF SettledSound
<1>4. here <=> c \in InRoom
  BY <1>1 DEF InRoom
<1>5. here => shown # None /\ role # None /\ busy /\ InRoom = {c}
  BY <1>4 DEF FrontendInv, RoomSound, OneCommandAtATime, SessionSound
<1>6. CASE Failed(c)
  <2>1. calls' = calls \ {c} /\ busy' = (busy /\ ~here) /\ UNCHANGED <<requestId, view, issued>>
    BY <1>6 DEF Acted
  <2>2. busy' \in BOOLEAN /\ (here => ~busy') /\ (~here => (busy' <=> busy))
    BY <2>1 DEF FrontendInv, FrontendTyped
  <2>3. FrontendTyped'
    BY <1>1, <2>1, <2>2 DEF FrontendInv, FrontendTyped
  <2>4. CallsSound' /\ SessionSound'
    BY <1>1, <2>1 DEF FrontendInv, CallsSound, SessionSound, Failed
  <2>5. Loads' = Loads /\ InRoom' = InRoom \ {c}
    BY <1>1, <2>1 DEF Loads, Latest, InRoom
  <2>6. LoadsSound' /\ ViewSound'
    BY <1>1, <2>1, <2>5 DEF FrontendInv, LoadsSound, ViewSound, Failed
  <2>7. RoomSound'
    <3>1. CASE here
      BY <1>1, <1>5, <2>2, <2>5, <3>1 DEF RoomSound, OneCommandAtATime
    <3>2. CASE ~here
      <4>1. InRoom' = InRoom
        BY <1>4, <2>5, <3>2
      <4> QED BY <1>1, <2>2, <3>2, <4>1 DEF FrontendInv, RoomSound, OneCommandAtATime
    <3> QED BY <3>1, <3>2
  <2> QED BY <1>3, <2>3, <2>4, <2>6, <2>7 DEF FrontendInv
<1>7. CASE ~Failed(c)
  <2>1. /\ calls' = (calls \ {c}) \cup (IF role # None THEN {reload} ELSE {})
        /\ issued' = issued + 1 /\ UNCHANGED busy
        /\ here => requestId' = requestId + 1 /\ view' = OnLoad(c.scope)
        /\ ~here => UNCHANGED <<requestId, view>>
    BY <1>7 DEF Acted
  <2>2. here => view'.scope = c.scope /\ view'.cell = None /\ view'.by = None /\ view'.loading = TRUE
    BY <2>1 DEF OnLoad
  <2>3. role # None =>
          /\ reload \in CallType /\ reload.n = issued /\ reload.kind = "load" /\ reload.scope = c.scope
          /\ reload.mount = c.mount /\ reload.id = requestId + 1 /\ reload.payload = "acted"
          /\ reload.pc # "answered" /\ (reload.pc # "token" => session # None /\ reload.as = session)
    <3>1. requestId + 1 \in Nat /\ session \in Role \cup {None} /\ role \in Role \cup {None}
      BY <1>1 DEF FrontendInv, FrontendTyped
    <3> QED BY <1>1, <3>1 DEF Call, Api, CallType
  <2> HIDE DEF reload
  <2>4. FrontendTyped'
    <3>1. view'.loading \in BOOLEAN /\ view'.scope \in Role \cup {None} /\ view'.by \in Role \cup {None}
      <4>1. CASE here
        BY <1>1, <2>2, <4>1
      <4>2. CASE ~here
        BY <2>1, <4>2 DEF FrontendInv, FrontendTyped
      <4> QED BY <4>1, <4>2
    <3> QED BY <1>1, <2>1, <3>1 DEF FrontendInv, FrontendTyped
  <2>5. \A e \in calls' : (e \in calls /\ e # c) \/ (role # None /\ e = reload)
    BY <2>1
  <2>6. CallsSound'
    <3>1. \A e, f \in calls' : e.n = f.n => e = f
      BY <1>1, <2>3, <2>5 DEF FrontendInv, CallsSound, CallType
    <3> QED BY <1>1, <2>1, <2>3, <2>5, <3>1 DEF FrontendInv, CallsSound, CallType, Failed
  <2>7. SessionSound'
    BY <1>1, <2>1 DEF FrontendInv, SessionSound
  <2>8. CASE here
    <3>1. \A e \in calls : e.kind = "load" /\ e.mount = mount => e.id \in Nat /\ e.id <= requestId
      BY DEF FrontendInv, CallsSound, CallType
    <3>2. Loads' = {reload}
      BY <1>1, <1>5, <2>1, <2>3, <2>8, <3>1 DEF Loads, Latest
    <3>3. reload.scope = shown /\ reload.pc # "token" => reload.as = shown
      BY <1>5, <2>3, <2>8 DEF FrontendInv, SessionSound
    <3>4. LoadsSound' /\ ViewSound'
      BY <1>1, <1>5, <2>2, <2>3, <2>8, <3>2, <3>3 DEF LoadsSound, ViewSound
    <3>5. InRoom' = {reload}
      BY <1>1, <1>5, <2>1, <2>3, <2>8 DEF InRoom
    <3>6. RoomSound'
      BY <1>1, <1>5, <2>1, <2>8, <3>5 DEF RoomSound, OneCommandAtATime
    <3> QED BY <1>3, <2>4, <2>6, <2>7, <3>4, <3>6 DEF FrontendInv
  <2>9. CASE ~here
    <3>1. Loads' = Loads /\ InRoom' = InRoom
      BY <1>1, <2>1, <2>3, <2>9 DEF Loads, Latest, InRoom
    <3>2. LoadsSound' /\ ViewSound'
      BY <1>1, <2>1, <2>9, <3>1 DEF FrontendInv, LoadsSound, ViewSound, Failed
    <3>3. RoomSound'
      BY <1>1, <2>1, <3>1 DEF FrontendInv, RoomSound, OneCommandAtATime
    <3> QED BY <1>3, <2>4, <2>6, <2>7, <3>2, <3>3 DEF FrontendInv
  <2> QED BY <2>8, <2>9
<1> QED BY <1>6, <1>7

(* Every step of the page keeps the invariant.                               *)
LEMMA FrontendInvStep ==
  ASSUME FrontendAssumption, FrontendInv, [FrontendNext]_frontendVars PROVE FrontendInv'
<1>1. ASSUME NEW r \in Role, SwitchRole(r) PROVE FrontendInv'
  BY <1>1, SwitchRoleKeeps
<1>2. CASE Expire \/ Act
  BY <1>2, ExpireKeeps, ActKeeps
<1>3. ASSUME NEW c \in calls, RequestRoleToken(c) PROVE FrontendInv'
  BY <1>3, GrantedKeeps, RefusedKeeps DEF RequestRoleToken
<1>4. ASSUME NEW c \in calls, Serve(c) \/ Retry(c) \/ Loaded(c) \/ Acted(c) PROVE FrontendInv'
  BY <1>4, ServeKeeps, RetryKeeps, LoadedKeeps, ActedKeeps
<1>5. CASE UNCHANGED frontendVars
  <2>1. /\ UNCHANGED <<role, session, shown, mount, requestId, view, busy, calls, version, issued,
                       clicks, newest>>
    BY <1>5 DEF frontendVars, client, counts, history
  <2>2. FrontendTyped' /\ CallsSound' /\ SessionSound' /\ ViewSound'
    BY <2>1 DEF FrontendInv, FrontendTyped, CallsSound, SessionSound, ViewSound, Failed
  <2>3. Loads' = Loads /\ InRoom' = InRoom
    BY <2>1 DEF Loads, Latest, InRoom
  <2>4. LoadsSound' /\ RoomSound' /\ SettledSound'
    BY <2>1, <2>3 DEF FrontendInv, LoadsSound, Failed, RoomSound, OneCommandAtATime, SettledSound
  <2> QED BY <2>2, <2>4 DEF FrontendInv
<1> QED BY <1>1, <1>2, <1>3, <1>4, <1>5 DEF FrontendNext

(* Of the page (api.ts, ui.tsx), for any roles and however many switches,    *)
(* clicks and failures, in whatever order tokens, loads and commands are     *)
(* answered: the token held is of the role selected and shown; a cell on     *)
(* screen was fetched with a token of that role and is the newest that was   *)
(* shown; the commands of a room follow one another; and a room nobody has   *)
(* clicked in settles.                                                       *)
THEOREM PageSound ==
  ASSUME FrontendAssumption PROVE FrontendSpec => []FrontendSound
<1>1. FrontendInit => FrontendInv
  BY FrontendInvInit
<1>2. FrontendInv /\ [FrontendNext]_frontendVars => FrontendInv'
  BY FrontendInvStep
<1>3. FrontendInv => FrontendSound
  BY FrontendInvGives
<1> QED BY <1>1, <1>2, <1>3, PTL DEF FrontendSpec

=============================================================================
