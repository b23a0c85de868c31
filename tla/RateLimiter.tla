----------------------------- MODULE RateLimiter -----------------------------
(***************************************************************************)
(* The fixed-window rate limiter that all replicas share: one statement of  *)
(* PostgresRateLimitStore.consume reads the database's clock, counts the    *)
(* attempt in the row of its window, and deletes the rows that expired.     *)
(* Statements overlap; each may be as slow as MaxLatency, and its caller    *)
(* may give up before it ends (query_timeout is the client's).              *)
(***************************************************************************)
EXTENDS Integers, FiniteSets, FiniteSetsExt, Optional

CONSTANTS
  Call,        \* calls of consume
  Bucket,      \* category and key
  KeyOf(_),    \* the key of a call
  Limit, Window, Retention,
  Second,      \* clock readings in one second
  MaxLatency,  \* bound: clock readings a statement lasts
  LastReading  \* bound

RateAssumption ==
  /\ Limit \in Nat \ {0} /\ Window \in Nat \ {0} /\ Retention \in Nat /\ Second \in Nat \ {0}
  /\ Retention >= Window /\ Window >= Second
  /\ MaxLatency \in Nat /\ LastReading \in Nat /\ \A c \in Call : KeyOf(c) \in Bucket
  /\ IsFiniteSet(Call) /\ None \notin {"allowed", "rejected", "unavailable"} /\ None \notin BOOLEAN

VARIABLES
  time,     \* the database's clock
  rows,     \* rate_limit_windows: a partial function from key and window to count and expiry
  pc,       \* per call: idle, timed, counted, done
  read,     \* per call, the clock its statement read
  verdict,  \* per call, what its statement decided
  answer,   \* per call: allowed, rejected, or unavailable
  wait,     \* per call, the seconds it is told to wait
  tries     \* history: how often a window of a key was attempted before each call
rateVars == <<time, rows, pc, read, verdict, answer, wait, tries>>

WindowStart(t) == (t \div Window) * Window
RowOf(c) == <<KeyOf(c), WindowStart(read[c])>>
RateInit ==
  /\ time = 0 /\ rows = [k \in {} |-> None]
  /\ pc = [c \in Call |-> "idle"] /\ read = [c \in Call |-> None]
  /\ verdict = [c \in Call |-> None] /\ answer = [c \in Call |-> None]
  /\ wait = [c \in Call |-> None] /\ tries = [c \in Call |-> None]
OpenCalls == {c \in Call : pc[c] \in {"timed", "counted"}}

---------------------------------------------------------------------------
(* The clock goes on while every open statement is within its latency.      *)
ClockTicks ==
  /\ time < LastReading /\ \A c \in OpenCalls : time < read[c] + MaxLatency
  /\ time' = time + 1
  /\ UNCHANGED <<rows, pc, read, verdict, answer, wait, tries>>
ReadClock(c) ==
  /\ pc[c] = "idle"
  /\ pc' = [pc EXCEPT ![c] = "timed"] /\ read' = [read EXCEPT ![c] = time]
  /\ UNCHANGED <<time, rows, verdict, answer, wait, tries>>

Put(key, row) == [k \in DOMAIN rows \cup {key} |-> IF k = key THEN row ELSE rows[k]]
Attempts(key) == Cardinality({d \in Call : pc[d] \in {"counted", "done"} /\ RowOf(d) = key})
Decides(c, yes) ==
  /\ verdict' = [verdict EXCEPT ![c] = yes]
  /\ tries' = [tries EXCEPT ![c] = Attempts(RowOf(c))]
  /\ pc' = [pc EXCEPT ![c] = "counted"]
Locked(key, c) == \E d \in Call \ {c} : pc[d] = "counted" /\ verdict[d] /\ RowOf(d) = key
(* INSERT .. ON CONFLICT DO UPDATE .. WHERE: waits for the row's holder.      *)
Attempt(c) ==
  LET key == RowOf(c) IN
  /\ pc[c] = "timed" /\ ~Locked(key, c)
  /\ IF key \notin DOMAIN rows
     THEN Decides(c, TRUE) /\ rows' = Put(key, [count |-> 1, expires |-> key[2] + Retention])
     ELSE IF rows[key].count < Limit
          THEN Decides(c, TRUE) /\ rows' = [rows EXCEPT ![key].count = @ + 1]
          ELSE Decides(c, FALSE) /\ UNCHANGED rows
  /\ UNCHANGED <<time, read, answer, wait>>

(* DELETE of what expired, and the commit.                                   *)
(* greatest(1, ceil(what is left of the window in seconds)).                 *)
RetryAfterSeconds(t) == Max({1, (WindowStart(t) + Window - t + Second - 1) \div Second})
Expired(t) == {k \in DOMAIN rows : rows[k].expires < t}
Cleanup(c) ==
  /\ pc[c] = "counted" /\ \A k \in Expired(read[c]) : ~Locked(k, c)
  /\ rows' = [k \in DOMAIN rows \ Expired(read[c]) |-> rows[k]]
  /\ pc' = [pc EXCEPT ![c] = "done"]
  /\ answer' = [answer EXCEPT ![c] = IF @ # None THEN @ ELSE IF verdict[c] THEN "allowed" ELSE "rejected"]
  /\ wait' = [wait EXCEPT ![c] = RetryAfterSeconds(read[c])]
  /\ UNCHANGED <<time, read, verdict, tries>>

(* Broken: a call whose storage does not answer is let pass.                 *)
UnavailableLetsPass(c) ==
  /\ c \in OpenCalls /\ answer[c] = None
  /\ answer' = [answer EXCEPT ![c] = "allowed"]
  /\ UNCHANGED <<time, rows, pc, read, verdict, wait, tries>>
(* The storage fails, or the client's timer: the statement may still run.    *)
Unavailable(c) ==
  /\ c \in OpenCalls /\ answer[c] = None
  /\ answer' = [answer EXCEPT ![c] = "unavailable"]
  /\ UNCHANGED <<time, rows, pc, read, verdict, wait, tries>>

RateNext == ClockTicks \/ \E c \in Call : ReadClock(c) \/ Attempt(c) \/ Cleanup(c) \/ Unavailable(c)
RateSpec == RateInit /\ [][RateNext]_rateVars
(* The database ends what it began.                                          *)
RateFairSpec == RateSpec /\ \A c \in Call : WF_rateVars(ReadClock(c)) /\ WF_rateVars(Attempt(c)) /\ WF_rateVars(Cleanup(c))

---------------------------------------------------------------------------
(* Every variable has its type; a window's count is within its limit.        *)
RateTypeOK ==
  /\ time \in 0..LastReading
  /\ \A k \in DOMAIN rows : k[1] \in Bucket /\ rows[k].count \in 1..Limit
  /\ pc \in [Call -> {"idle", "timed", "counted", "done"}]
  /\ read \in [Call -> 0..LastReading \cup {None}]
  /\ verdict \in [Call -> BOOLEAN \cup {None}]
  /\ answer \in [Call -> {None, "allowed", "rejected", "unavailable"}]
  /\ tries \in [Call -> Nat \cup {None}] /\ wait \in [Call -> Nat \cup {None}]

(* Over all replicas no more calls of a key are allowed in one window than   *)
(* the limit, however the statements overlap.                                *)
ExactBoundary ==
  \A key \in Bucket, w \in {WindowStart(t) : t \in 0..LastReading} :
    Cardinality({c \in Call : answer[c] = "allowed" /\ RowOf(c) = <<key, w>>}) <= Limit

(* A call is only rejected in a window that was tried as often as the limit: *)
(* other keys and earlier windows never count against it.                    *)
RejectedAtLimit ==
  \A c \in Call : verdict[c] = FALSE => tries[c] >= Limit

(* Who waits as long as it was told comes into a new window, and is not told  *)
(* to wait longer than a window and a second.                                 *)
RetryInTime ==
  \A c \in Call : answer[c] = "rejected" =>
    /\ WindowStart(read[c] + wait[c] * Second) > WindowStart(read[c])
    /\ wait[c] * Second < Window + Second

(* Calls of one key overlap, wait for its row and are cleaned up after: no   *)
(* window admits more than the limit, a call is rejected only at the limit,  *)
(* and who waits as long as told finds a new window.                         *)
RateSound == RateTypeOK /\ ExactBoundary /\ RejectedAtLimit /\ RetryInTime

=============================================================================
