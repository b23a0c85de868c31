--------------------------- MODULE ProviderStores ---------------------------
(***************************************************************************)
(* The two implementations of ProviderFoundationStore side by side: the     *)
(* event inbox and the cursor of an account, in PostgreSQL and in memory.    *)
(* Every call is made of both.  Tests of the reconciliation run on the one, *)
(* production on the other.  The cursor is moved by writers that read it,    *)
(* write the next revision and may repeat a write whose answer was lost.     *)
(***************************************************************************)
EXTENDS Integers, FiniteSets

CONSTANTS
  Deliveries,  \* events as delivered: identity, replay identity, payload
  Worker,      \* worker ids
  Writer,      \* processes that move the cursor
  Clock,       \* what their clocks read
  LeaseMs,
  MaxAttempts, \* bound: claims of an event
  MaxRevision, \* bound on the cursor's revision
  None

StoresAssumption ==
  Clock \subseteq Nat /\ LeaseMs \in Nat /\ MaxAttempts \in Nat /\ MaxRevision \in Nat

VARIABLES
  durable, memory, \* the stores: events, rows by identity, the cursor
  answers,         \* what both answered to the last call
  writer,          \* per writer, the checkpoint it writes, or None
  accepted         \* history: the checkpoints writers were told are written
vars == <<durable, memory, answers, writer, accepted>>

Identity == {d.identity : d \in Deliveries}
NoRow == [state |-> None]
Empty == [events |-> {}, row |-> [e \in Identity |-> NoRow], cursor |-> None]
Init ==
  /\ durable = Empty /\ memory = Empty
  /\ answers = <<None, None>>
  /\ writer = [w \in Writer |-> None] /\ accepted = {}

Row(state, worker, until, attempts) ==
  [state |-> state, worker |-> worker, until |-> until, attempts |-> attempts]
Does(store, answer) == [store |-> store, answer |-> answer]
Asks(inPostgres, inMemory) ==
  /\ durable' = inPostgres.store /\ memory' = inMemory.store
  /\ answers' = <<inPostgres.answer, inMemory.answer>>

---------------------------------------------------------------------------
(* recordEvent.                                                              *)
Inserted(s, d) ==
  Does([s EXCEPT !.events = @ \cup {d}, !.row[d.identity] = Row("RECEIVED", None, 0, 0)],
       "FIRST_SEEN")
Clashes(s, d) == {e \in s.events : e.identity = d.identity \/ e.replay = d.replay}
Told(clashes, d) ==
  CASE d \in clashes -> "DUPLICATE"
    [] d \notin clashes /\ \E e \in clashes : e.replay = d.replay /\ e.payload # d.payload
         -> "REPLAY_PAYLOAD_CONFLICT"
    [] OTHER -> "CONFLICTING_DUPLICATE"

(* The rows' two unique keys decide.                                         *)
PostgresRecord(s, d) ==
  IF s.row[d.identity] = NoRow /\ d.replay \notin {e.replay : e \in s.events}
  THEN Inserted(s, d) ELSE Does(s, Told(Clashes(s, d), d))
MemoryRecord(s, d) ==
  IF Clashes(s, d) # {} THEN Does(s, Told(Clashes(s, d), d)) ELSE Inserted(s, d)
RecordEvent(d) ==
  /\ Asks(PostgresRecord(durable, d), MemoryRecord(memory, d))
  /\ UNCHANGED <<writer, accepted>>

(* listClaimableEvents, without its order and its limit.                     *)
PostgresClaimable(s, now) ==
  {e \in Identity : \/ s.row[e].state \in {"RECEIVED", "FAILED"}
                    \/ s.row[e].state = "CLAIMED" /\ s.row[e].until <= now}
MemoryClaimable(s, now) ==
  {e \in Identity : /\ s.row[e] # NoRow /\ s.row[e].state # "PROCESSED"
                    /\ s.row[e].state = "CLAIMED" => s.row[e].until <= now}
List(now) ==
  /\ answers' = <<PostgresClaimable(durable, now), MemoryClaimable(memory, now)>>
  /\ UNCHANGED <<durable, memory, writer, accepted>>

(* claimEvent: an update that matches a row or not; a cascade of answers.    *)
Taken(s, e, w, now) ==
  Does([s EXCEPT !.row[e] = Row("CLAIMED", w, now + LeaseMs, @.attempts + 1)], "CLAIMED")
PostgresClaim(s, e, w, now) ==
  IF e \in PostgresClaimable(s, now) THEN Taken(s, e, w, now)
  ELSE Does(s, CASE s.row[e] = NoRow -> "NOT_FOUND"
                 [] s.row[e].state = "PROCESSED" -> "PROCESSED"
                 [] OTHER -> "BUSY")
MemoryClaim(s, e, w, now) ==
  CASE s.row[e].state \in {None, "PROCESSED"} ->
         Does(s, IF s.row[e].state = None THEN "NOT_FOUND" ELSE "PROCESSED")
    [] s.row[e].state = "CLAIMED" /\ s.row[e].until > now -> Does(s, "BUSY")
    [] s.row[e].state \in {"RECEIVED", "FAILED"}
         \/ (s.row[e].state = "CLAIMED" /\ s.row[e].until <= now) -> Taken(s, e, w, now)
ClaimEvent(e, w, now) ==
  /\ durable.row[e] # NoRow => durable.row[e].attempts < MaxAttempts
  /\ Asks(PostgresClaim(durable, e, w, now), MemoryClaim(memory, e, w, now))
  /\ UNCHANGED <<writer, accepted>>

(* completeEvent and failEvent.                                              *)
Finished(s, e, state) ==
  Does([s EXCEPT !.row[e] = Row(state, None, 0, @.attempts)], state)
PostgresFinish(s, e, w, state) ==
  IF s.row[e].state = "CLAIMED" /\ s.row[e].worker = w THEN Finished(s, e, state)
  ELSE Does(s, CASE s.row[e] = NoRow -> "NOT_FOUND"
                 [] s.row[e].state = "PROCESSED" -> "PROCESSED"
                 [] OTHER -> "NOT_CLAIMED")
MemoryFinish(s, e, w, state) ==
  CASE s.row[e].state \in {None, "PROCESSED"} ->
         Does(s, IF s.row[e].state = None THEN "NOT_FOUND" ELSE "PROCESSED")
    [] s.row[e].state \in {"RECEIVED", "FAILED", "CLAIMED"} ->
         IF s.row[e].state # "CLAIMED" \/ s.row[e].worker # w THEN Does(s, "NOT_CLAIMED")
         ELSE Finished(s, e, state)
FinishEvent(e, w, state) ==
  /\ Asks(PostgresFinish(durable, e, w, state), MemoryFinish(memory, e, w, state))
  /\ UNCHANGED <<writer, accepted>>

---------------------------------------------------------------------------
(* putAccountCheckpoint.  PostgreSQL takes any first revision, memory only 1;*)
(* a writer that read no checkpoint writes 1.                                *)
Write(s, value) == Does([s EXCEPT !.cursor = value], TRUE)

PostgresPut(s, value) ==
  IF s.cursor = None THEN Write(s, value)
  ELSE IF s.cursor.revision = value.revision - 1 /\ s.cursor.checkedAt <= value.checkedAt
  THEN Write(s, value) ELSE Does(s, s.cursor = value)
MemoryPut(s, value) ==
  LET existing == s.cursor
      expected == IF existing = None THEN 1 ELSE existing.revision + 1
  IN IF existing = value THEN Does(s, TRUE)
     ELSE IF value.revision # expected THEN Does(s, FALSE)
     ELSE IF existing = None THEN Write(s, value)
     ELSE IF value.checkedAt < existing.checkedAt THEN Does(s, FALSE) ELSE Write(s, value)

GetAccountCheckpoint(w, now) ==
  LET revision == IF durable.cursor = None THEN 1 ELSE durable.cursor.revision + 1 IN
  /\ writer[w] = None /\ revision <= MaxRevision
  /\ writer' = [writer EXCEPT ![w] = [cursor |-> w, checkedAt |-> now, revision |-> revision]]
  /\ UNCHANGED <<durable, memory, answers, accepted>>

(* The answer arrives, or is lost and the writer writes again or gives up.   *)
PutAccountCheckpoint(w, arrives) ==
  LET value == writer[w] IN
  /\ value # None
  /\ Asks(PostgresPut(durable, value), MemoryPut(memory, value))
  /\ accepted' = IF arrives /\ answers'[1] = TRUE THEN accepted \cup {value} ELSE accepted
  /\ writer' \in (IF arrives THEN {[writer EXCEPT ![w] = None]}
                  ELSE {writer, [writer EXCEPT ![w] = None]})

Next ==
  \/ \E d \in Deliveries : RecordEvent(d)
  \/ \E now \in Clock : \/ List(now)
                        \/ \E e \in Identity, w \in Worker : ClaimEvent(e, w, now)
                        \/ \E w \in Writer : GetAccountCheckpoint(w, now)
  \/ \E e \in Identity, w \in Worker, state \in {"PROCESSED", "FAILED"} : FinishEvent(e, w, state)
  \/ \E w \in Writer, arrives \in BOOLEAN : PutAccountCheckpoint(w, arrives)
Spec == Init /\ [][Next]_vars

---------------------------------------------------------------------------
(* Whatever calls were made before, both stores answer the next one alike    *)
(* and hold the same: what the tests see in memory, production sees.         *)
StoresAgree == durable = memory /\ answers[1] = answers[2]

(* Of the writers that start from one revision at most one is told it wrote  *)
(* the next, however often they repeat; and the cursor's time never goes     *)
(* back.                                                                     *)
CursorNotForked == \A a, b \in accepted :
  /\ a.revision = b.revision => a = b
  /\ a.revision < b.revision => a.checkedAt <= b.checkedAt
=============================================================================
