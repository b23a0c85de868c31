--------------------------- MODULE ProviderInbox ---------------------------
(***************************************************************************)
(* The inbox of provider events (PostgresProviderFoundationStore) and the   *)
(* workers that process it under a lease (FundingReconciliationService.     *)
(* processInboxEvent).  A call reads its clock once, before the claim, so   *)
(* its `now' is old when the claim is executed.  Time is relative: a lease  *)
(* is what is left of it, a `now' is its age.                               *)
(***************************************************************************)
EXTENDS Integers, FiniteSets

CONSTANTS
  Caller,      \* calls of processInboxEvent that may be under way at once
  WorkerOf,    \* the worker id a caller uses
  Deliveries,  \* events as delivered: identity, replay identity, payload
  LeaseMs,     \* the lease a claim takes, in ticks
  MaxAge,      \* bound: ticks between the clock reading and the claim
  MaxTroubles  \* bound: crashes, failed callbacks and statements, ticks in
               \* which work outlives its lease

LeaseAssumption ==
  /\ LeaseMs \in Nat /\ MaxAge \in Nat /\ MaxTroubles \in Nat
  /\ MaxAge < LeaseMs

VARIABLES
  inbox,       \* provider_event_inbox
  processing,  \* provider_event_processing, by event identity
  call,        \* per caller, the call it is in
  troubles,
  performed,   \* history: events whose callback has returned
  answered     \* history: events for which PROCESSED was answered
inboxVars == <<inbox, processing, call, troubles, performed, answered>>

NoWorker == "none"
Event == {d.identity : d \in Deliveries}
Recorded == {d.identity : d \in inbox}
NoCall == [pc |-> "idle"]
Row(state, worker, left) == [state |-> state, worker |-> worker, left |-> left]
NoRow == Row("ABSENT", NoWorker, 0)
Received == Row("RECEIVED", NoWorker, 0)

InboxInit ==
  /\ inbox = {} /\ processing = [e \in Event |-> NoRow]
  /\ call = [c \in Caller |-> NoCall]
  /\ troubles = 0 /\ performed = {} /\ answered = {}

(* One transaction: the inbox row and its processing row, or neither.        *)
Known(d) == \E e \in inbox : e.identity = d.identity \/ e.replay = d.replay
RecordEvent(d) ==
  /\ ~Known(d)
  /\ inbox' = inbox \cup {d}
  /\ processing' = [processing EXCEPT ![d.identity] = Received]
  /\ UNCHANGED <<call, troubles, performed, answered>>

(* Whoever polls for claimable events starts a call; the call reads the      *)
(* clock.                                                                    *)
Claimable(e) ==
  \/ processing[e].state \in {"RECEIVED", "FAILED"}
  \/ processing[e].state = "CLAIMED" /\ processing[e].left <= 0
Start(c, e) ==
  /\ call[c] = NoCall /\ Claimable(e)
  /\ call' = [call EXCEPT ![c] = [pc |-> "claim", event |-> e, age |-> 0]]
  /\ UNCHANGED <<inbox, processing, troubles, performed, answered>>

(* Broken: what is claimed may be claimed again. *)
MayClaimHeld(e, age) == processing[e].state # "PROCESSED"
MayClaim(e, age) ==
  /\ processing[e].state # "PROCESSED"
  /\ processing[e].state = "CLAIMED" => processing[e].left <= -age
ClaimEvent(c) ==
  LET e == call[c].event  age == call[c].age IN
  /\ call[c].pc = "claim"
  /\ IF MayClaim(e, age)
     THEN /\ processing' = [processing EXCEPT ![e] = Row("CLAIMED", WorkerOf[c], LeaseMs - age)]
          /\ call' = [call EXCEPT ![c] = [pc |-> "work", event |-> e, left |-> LeaseMs - age]]
          /\ UNCHANGED answered
     ELSE /\ call' = [call EXCEPT ![c] = NoCall]
          /\ answered' = answered \cup (IF processing[e].state = "PROCESSED" THEN {e} ELSE {})
          /\ UNCHANGED processing
  /\ UNCHANGED <<inbox, troubles, performed>>

(* The callback returns. *)
Process(c) ==
  /\ call[c].pc = "work"
  /\ performed' = performed \cup {call[c].event}
  /\ call' = [call EXCEPT ![c].pc = "complete"]
  /\ UNCHANGED <<inbox, processing, troubles, answered>>

Trouble == troubles < MaxTroubles /\ troubles' = troubles + 1

(* The callback throws. *)
ProcessFails(c) ==
  /\ call[c].pc = "work" /\ Trouble
  /\ call' = [call EXCEPT ![c].pc = "fail"]
  /\ UNCHANGED <<inbox, processing, performed, answered>>

(* Fenced by worker id and state, not by time. *)
Holds(c, e) == processing[e].state = "CLAIMED" /\ processing[e].worker = WorkerOf[c]
FinishEvent(c, e, state) ==
  processing' = IF Holds(c, e) THEN [processing EXCEPT ![e] = Row(state, NoWorker, 0)]
                ELSE processing
CompleteEvent(c) ==
  LET e == call[c].event IN
  /\ call[c].pc = "complete"
  /\ FinishEvent(c, e, "PROCESSED")
  /\ call' = [call EXCEPT ![c] = NoCall]
  /\ answered' = answered \cup (IF processing'[e].state = "PROCESSED" THEN {e} ELSE {})
  /\ UNCHANGED <<inbox, troubles, performed>>
(* The statement fails, or took effect and its answer is lost: the same catch. *)
CompleteThrows(c) ==
  /\ call[c].pc = "complete" /\ Trouble
  /\ FinishEvent(c, call[c].event, "PROCESSED") \/ UNCHANGED processing
  /\ call' = [call EXCEPT ![c].pc = "fail"]
  /\ UNCHANGED <<inbox, performed, answered>>
FailEvent(c) ==
  /\ call[c].pc = "fail"
  /\ FinishEvent(c, call[c].event, "FAILED")
  /\ call' = [call EXCEPT ![c] = NoCall]
  /\ UNCHANGED <<inbox, troubles, performed, answered>>

(* The worker dies; what it claimed stays claimed. *)
Crash(c) ==
  /\ call[c] # NoCall /\ Trouble
  /\ call' = [call EXCEPT ![c] = NoCall]
  /\ UNCHANGED <<inbox, processing, performed, answered>>

(* A lease over for MaxAge ticks is over for every call that may be under way. *)
Lapsing == {c \in Caller : call[c].pc \in {"work", "complete", "fail"} /\ call[c].left = 1}
Tick ==
  /\ \A c \in Caller : call[c].pc = "claim" => call[c].age < MaxAge
  /\ IF Lapsing = {} THEN UNCHANGED troubles ELSE Trouble
  /\ processing' = [e \in Event |->
       IF processing[e].state = "CLAIMED" /\ processing[e].left > -MaxAge
       THEN [processing[e] EXCEPT !.left = @ - 1] ELSE processing[e]]
  /\ call' = [c \in Caller |->
       IF call[c].pc = "claim" THEN [call[c] EXCEPT !.age = @ + 1]
       ELSE IF call[c].pc # "idle" /\ call[c].left > 0 THEN [call[c] EXCEPT !.left = @ - 1]
       ELSE call[c]]
  /\ UNCHANGED <<inbox, performed, answered>>

CallerStep(c) == ClaimEvent(c) \/ Process(c) \/ CompleteEvent(c) \/ FailEvent(c)
InboxNext ==
  \/ \E d \in Deliveries : RecordEvent(d)
  \/ \E c \in Caller :
       \/ \E e \in Event : Start(c, e)
       \/ CallerStep(c) \/ ProcessFails(c) \/ CompleteThrows(c) \/ Crash(c)
  \/ Tick
InboxSpec == InboxInit /\ [][InboxNext]_inboxVars
(* Time passes, calls under way go on, and workers keep polling every event. *)
Fairness ==
  /\ WF_inboxVars(Tick)
  /\ \A c \in Caller : WF_inboxVars(CallerStep(c))
  /\ \A e \in Event : SF_inboxVars(\E c \in Caller : Start(c, e))
FairSpec == InboxSpec /\ Fairness

-----------------------------------------------------------------------------
CallOK(c) ==
  \/ c = NoCall
  \/ c.pc = "claim" /\ c.event \in Event /\ c.age \in 0 .. MaxAge
  \/ c.pc \in {"work", "complete", "fail"} /\ c.event \in Event /\ c.left \in 0 .. LeaseMs
InboxTypeOK ==
  /\ inbox \subseteq Deliveries
  /\ \A e \in Event :
       /\ processing[e].state \in
            (IF e \in Recorded THEN {"RECEIVED", "CLAIMED", "PROCESSED", "FAILED"} ELSE {"ABSENT"})
       /\ processing[e].left \in -MaxAge .. LeaseMs
       /\ processing[e].worker # NoWorker <=> processing[e].state = "CLAIMED"
  /\ \A c \in Caller : CallOK(call[c])
  /\ \A d, e \in inbox : d.replay = e.replay \/ d.identity = e.identity => d = e

(* An event counts as processed only after a callback for it returned, by    *)
(* whomever and however long ago: crashes, lost answers and workers that     *)
(* lost their lease included; and what was answered PROCESSED is.            *)
ProcessedAfterWork ==
  /\ \A e \in Event : processing[e].state = "PROCESSED" => e \in performed
  /\ \A e \in answered : processing[e].state = "PROCESSED"

(* A worker whose lease has not run out still holds the event, although      *)
(* others claim with old clock readings and late finishes arrive from        *)
(* workers whose lease is over: no two work on one event within their lease. *)
LeaseHeld ==
  \A c \in Caller : call[c].pc \in {"work", "complete"} /\ call[c].left > 0 =>
    /\ processing[call[c].event].state = "CLAIMED"
    /\ processing[call[c].event].worker = WorkerOf[c]

(* What the inbox promises: rows of their types, one for each event; leases  *)
(* that hold; nothing processed that no callback worked on.                  *)
InboxSound == InboxTypeOK /\ LeaseHeld /\ ProcessedAfterWork
=============================================================================
