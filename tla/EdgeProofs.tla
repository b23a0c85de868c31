----------------------------- MODULE EdgeProofs -----------------------------
(***************************************************************************)
(* What a request passes before the application sees it: that the limiter   *)
(* counts every call of a window (RateLimiter), that credentials are        *)
(* accepted under keys their issuer published lately and in their time      *)
(* (JwksCache), that an admitted request is taken for the client's that     *)
(* sent it (PublicIngress), and that a body reaches the application in      *)
(* order or not at all (CommandIntake).  And before any request: that what  *)
(* is composed stands on an environment that is right.                      *)
(***************************************************************************)
EXTENDS RateLimiter, JwksCache, PublicIngress, CommandIntake, RuntimeConfiguration, Functions,
        FiniteSetTheorems, FunctionTheorems, WellFoundedInduction, TLAPS

Decided == {"counted", "done"}

(* The calls a window of a key has allowed, answered or not.                 *)
AllowedIn(key) == {c \in Call : pc[c] \in Decided /\ verdict[c] = TRUE /\ RowOf(c) = key}

(* What the variables of a call hold, by how far it is.                      *)
CallTyped ==
  /\ time \in Nat
  /\ pc \in [Call -> {"idle", "timed", "counted", "done"}]
  /\ read \in [Call -> Nat \cup {None}] /\ verdict \in [Call -> BOOLEAN \cup {None}]
  /\ answer \in [Call -> {None, "allowed", "rejected", "unavailable"}]
  /\ tries \in [Call -> Nat \cup {None}] /\ wait \in [Call -> Nat \cup {None}]
CallTimed ==
  \A c \in Call :
    /\ IF pc[c] = "idle" THEN read[c] = None ELSE read[c] \in Nat /\ read[c] <= time
    /\ pc[c] \in {"timed", "counted"} => time <= read[c] + MaxLatency
CallDecided ==
  \A c \in Call :
    /\ pc[c] \in Decided => verdict[c] \in BOOLEAN /\ tries[c] \in Nat
    /\ pc[c] \notin Decided => verdict[c] = None
    /\ verdict[c] = FALSE => tries[c] \in Nat /\ tries[c] >= Limit
CallAnswered ==
  \A c \in Call :
    /\ answer[c] = "allowed" => pc[c] = "done" /\ verdict[c] = TRUE
    /\ answer[c] = "rejected" => pc[c] = "done" /\ wait[c] = RetryAfterSeconds(read[c])
    /\ pc[c] = "idle" => answer[c] = None

(* A row counts no more calls than its window allowed, and is kept for the   *)
(* retention.                                                                *)
RowsTyped ==
  /\ rows = [k \in DOMAIN rows |-> rows[k]]
  /\ DOMAIN rows \subseteq Bucket \X Nat
  /\ \A k \in DOMAIN rows :
       rows[k] \in [count : 1..Limit, expires : Nat] /\ rows[k].expires = k[2] + Retention
RowsCounted == \A k \in DOMAIN rows : rows[k].count <= Cardinality(AllowedIn(k))

(* A window that allowed calls still has its row, which counts them all, or  *)
(* is older than the retention.                                              *)
RowsExact ==
  \A k \in Bucket \X Nat :
    /\ Cardinality(AllowedIn(k)) <= Limit
    /\ AllowedIn(k) # {} =>
         IF k \in DOMAIN rows THEN rows[k].count = Cardinality(AllowedIn(k)) ELSE time > k[2] + Retention

(* Rows outlive every statement that read the clock within their window.     *)
RowsOutlive == Retention >= Window + MaxLatency

RateInv ==
  /\ time <= LastReading
  /\ CallTyped /\ CallTimed /\ CallDecided /\ CallAnswered /\ RowsTyped /\ RowsCounted
  /\ RowsOutlive => RowsExact

-----------------------------------------------------------------------------
(* Products grow with their factors.                                         *)
LEMMA ProductGrows ==
  ASSUME NEW w \in Nat \ {0}, NEW a \in Nat, NEW b \in Nat, a <= b
  PROVE  a * w <= b * w
OBVIOUS

(* A clock reading lies in the window that starts at or before it.           *)
LEMMA WindowOfReading ==
  ASSUME RateAssumption, NEW t \in Nat
  PROVE  /\ t \div Window \in Nat
         /\ WindowStart(t) \in Nat
         /\ WindowStart(t) <= t /\ t < WindowStart(t) + Window
BY SMTT(30) DEF RateAssumption, WindowStart

(* Window starts do not fall as the clock goes on, and rise with a window.   *)
LEMMA NextWindow ==
  ASSUME RateAssumption, NEW t \in Nat, NEW u \in Nat, u >= WindowStart(t) + Window
  PROVE  WindowStart(u) > WindowStart(t)
<1>1. WindowStart(u) \in Nat /\ WindowStart(t) \in Nat /\ u < WindowStart(u) + Window
  BY WindowOfReading
<1>2. u \div Window \in Nat /\ t \div Window \in Nat
  BY WindowOfReading
<1>3. SUFFICES ASSUME u \div Window <= t \div Window PROVE FALSE
  <2>1. CASE u \div Window > t \div Window
    <3>1. u \div Window >= (t \div Window) + 1
      BY <1>2, <2>1
    <3>2. ((t \div Window) + 1) * Window <= (u \div Window) * Window
      BY <1>2, <3>1, ProductGrows DEF RateAssumption
    <3>3. ((t \div Window) + 1) * Window = (t \div Window) * Window + Window
      BY <1>2 DEF RateAssumption
    <3> QED BY <1>1, <3>2, <3>3 DEF RateAssumption, WindowStart
  <2> QED BY <1>2, <2>1, <1>3
<1>4. (u \div Window) * Window <= (t \div Window) * Window
  BY <1>2, <1>3, ProductGrows DEF RateAssumption
<1> QED BY <1>1, <1>4 DEF RateAssumption, WindowStart

(* The greater of one and another number.                                    *)
LEMMA MaxOfOneAnd ==
  ASSUME NEW x \in Int
  PROVE  Max({1, x}) \in Nat /\ Max({1, x}) >= 1 /\ Max({1, x}) >= x /\ Max({1, x}) \in {1, x}
<1>1. \E m \in {1, x} : \A y \in {1, x} : m >= y
  OBVIOUS
<1>2. Max({1, x}) \in {1, x} /\ \A y \in {1, x} : Max({1, x}) >= y
  BY <1>1 DEF Max
<1> QED BY <1>2

(* What a call is told to wait, in clock readings, reaches into the next     *)
(* window and is less than a window and a second.                            *)
LEMMA RetryIsInTime ==
  ASSUME RateAssumption, NEW t \in Nat
  PROVE  /\ RetryAfterSeconds(t) \in Nat
         /\ t + RetryAfterSeconds(t) * Second >= WindowStart(t) + Window
         /\ RetryAfterSeconds(t) * Second < Window + Second
<1> DEFINE left == WindowStart(t) + Window - t
           s == (left + Second - 1) \div Second
<1>1. left \in Nat /\ left >= 1 /\ left <= Window
  BY WindowOfReading DEF RateAssumption
<1>2. s \in Nat /\ s * Second >= left /\ s * Second < left + Second
  <2> HIDE DEF left
  <2> QED BY <1>1, SMTT(30) DEF RateAssumption
<1>3. s >= 1
  BY <1>1, <1>2 DEF RateAssumption
<1>4. RetryAfterSeconds(t) = Max({1, s})
  BY DEF RetryAfterSeconds
<1> HIDE DEF s
<1>5. RetryAfterSeconds(t) = s
  BY <1>2, <1>3, <1>4, MaxOfOneAnd
<1>6. s * Second \in Nat /\ WindowStart(t) \in Nat /\ Second \in Nat /\ Window \in Nat
  BY <1>2, WindowOfReading DEF RateAssumption
<1>7. t + s * Second >= WindowStart(t) + Window
  BY <1>2, <1>6
<1>8. s * Second < Window + Second
  <2> HIDE DEF left
  <2> QED BY <1>1, <1>2, <1>6
<1> QED BY <1>2, <1>5, <1>7, <1>8

-----------------------------------------------------------------------------
(* The calls a window allowed are finitely many.                             *)
LEMMA AllowedFinite ==
  ASSUME RateAssumption, NEW key
  PROVE  IsFiniteSet(AllowedIn(key)) /\ Cardinality(AllowedIn(key)) \in Nat
<1>1. AllowedIn(key) \in SUBSET Call
  BY DEF AllowedIn
<1> QED BY <1>1, FS_Subset, FS_CardinalityType DEF RateAssumption

(* The key and window of a call that read the clock.                         *)
LEMMA RowOfCall ==
  ASSUME RateAssumption, NEW c \in Call, read[c] \in Nat
  PROVE  /\ RowOf(c) \in Bucket \X Nat /\ RowOf(c)[2] = WindowStart(read[c])
         /\ RowOf(c)[2] <= read[c] /\ read[c] < RowOf(c)[2] + Window
BY WindowOfReading DEF RateAssumption, RowOf

(* A call keeps its window from its clock reading on.                        *)
LEMMA WindowKept ==
  ASSUME NEW c \in Call, UNCHANGED read[c]
  PROVE  RowOf(c)' = RowOf(c)
BY DEF RowOf, WindowStart

(* What decides a call is the only step that adds to what was allowed: a     *)
(* call that is allowed is added to its window.                              *)
LEMMA AllowedKept ==
  ASSUME CallTyped, CallTimed, CallDecided, NEW key,
         \/ UNCHANGED <<read, verdict>> /\ \A c \in Call : pc'[c] \in Decided <=> pc[c] \in Decided
         \/ \E c \in Call : ReadClock(c)
         \/ \E c \in Call : Attempt(c) /\ (verdict'[c] # TRUE \/ RowOf(c) # key)
  PROVE  AllowedIn(key)' = AllowedIn(key)
<1>1. CASE UNCHANGED <<read, verdict>> /\ \A c \in Call : pc'[c] \in Decided <=> pc[c] \in Decided
  BY <1>1 DEF AllowedIn, RowOf, WindowStart
<1>2. ASSUME NEW c \in Call, ReadClock(c)
      PROVE  AllowedIn(key)' = AllowedIn(key)
  <2>1. pc[c] = "idle" /\ pc'[c] = "timed" /\ UNCHANGED verdict
        /\ \A d \in Call \ {c} : pc'[d] = pc[d] /\ read'[d] = read[d]
    BY <1>2 DEF ReadClock, CallTyped
  <2> QED BY <2>1 DEF AllowedIn, RowOf, WindowStart, Decided
<1>3. ASSUME NEW c \in Call, Attempt(c), verdict'[c] # TRUE \/ RowOf(c) # key
      PROVE  AllowedIn(key)' = AllowedIn(key)
  <2>1. pc[c] = "timed" /\ pc'[c] = "counted" /\ UNCHANGED read
        /\ \A d \in Call \ {c} : pc'[d] = pc[d] /\ verdict'[d] = verdict[d]
    BY <1>3 DEF Attempt, Decides, CallTyped
  <2> QED BY <1>3, <2>1 DEF AllowedIn, RowOf, WindowStart, Decided
<1> QED BY <1>1, <1>2, <1>3

(* A call that is let pass is one more of its window.                        *)
LEMMA AllowedAdded ==
  ASSUME RateAssumption, CallTyped, NEW key, NEW c \in Call, RowOf(c) = key, Attempt(c), verdict'[c] = TRUE
  PROVE  /\ AllowedIn(key)' = AllowedIn(key) \cup {c}
         /\ Cardinality(AllowedIn(key)') = Cardinality(AllowedIn(key)) + 1
<1>1. pc[c] = "timed" /\ pc'[c] = "counted" /\ UNCHANGED read
      /\ \A d \in Call \ {c} : pc'[d] = pc[d] /\ verdict'[d] = verdict[d]
  BY DEF Attempt, Decides, CallTyped
<1>2. AllowedIn(key)' = AllowedIn(key) \cup {c} /\ c \notin AllowedIn(key)
  BY <1>1 DEF AllowedIn, RowOf, WindowStart, Decided
<1> QED BY <1>2, AllowedFinite, FS_AddElement

-----------------------------------------------------------------------------
(* The types of what a call holds are kept by every step.                    *)
LEMMA CallTypedKept ==
  ASSUME RateAssumption, RateInv, [RateNext]_rateVars
  PROVE  CallTyped'
<1> USE DEF RateInv, CallTyped
<1>1. CASE ClockTicks
  BY <1>1 DEF ClockTicks
<1>2. ASSUME NEW c \in Call, ReadClock(c) PROVE CallTyped'
  BY <1>2 DEF ReadClock
<1>3. ASSUME NEW c \in Call, Attempt(c) PROVE CallTyped'
  <2>1. Attempts(RowOf(c)) \in Nat
    <3>1. {d \in Call : pc[d] \in {"counted", "done"} /\ RowOf(d) = RowOf(c)} \in SUBSET Call
      OBVIOUS
    <3> QED BY <3>1, FS_Subset, FS_CardinalityType DEF Attempts, RateAssumption
  <2>2. PICK yes \in BOOLEAN : Decides(c, yes) /\ UNCHANGED <<time, read, answer, wait>>
    BY <1>3 DEF Attempt
  <2> QED BY <2>1, <2>2 DEF Decides
<1>4. ASSUME NEW c \in Call, Cleanup(c) PROVE CallTyped'
  <2>1. read[c] \in Nat
    BY <1>4 DEF Cleanup, CallTimed
  <2>2. RetryAfterSeconds(read[c]) \in Nat
    BY <2>1, RetryIsInTime
  <2> QED BY <1>4, <2>2 DEF Cleanup
<1>5. ASSUME NEW c \in Call, Unavailable(c) PROVE CallTyped'
  BY <1>5 DEF Unavailable
<1>6. CASE UNCHANGED rateVars
  BY <1>6 DEF rateVars
<1> QED BY <1>1, <1>2, <1>3, <1>4, <1>5, <1>6 DEF RateNext

(* The clock is never behind a reading, nor a latency ahead of an open one.  *)
LEMMA CallTimedKept ==
  ASSUME RateAssumption, RateInv, [RateNext]_rateVars
  PROVE  CallTimed' /\ time' <= LastReading
<1> USE DEF RateInv, CallTyped, CallTimed
<1> MaxLatency \in Nat /\ LastReading \in Nat
  BY DEF RateAssumption
<1>1. CASE ClockTicks
  BY <1>1 DEF ClockTicks, OpenCalls
<1>2. ASSUME NEW c \in Call, ReadClock(c) PROVE CallTimed' /\ time' <= LastReading
  BY <1>2 DEF ReadClock
<1>3. ASSUME NEW c \in Call, Attempt(c) PROVE CallTimed' /\ time' <= LastReading
  BY <1>3 DEF Attempt, Decides
<1>4. ASSUME NEW c \in Call, Cleanup(c) PROVE CallTimed' /\ time' <= LastReading
  BY <1>4 DEF Cleanup
<1>5. ASSUME NEW c \in Call, Unavailable(c) PROVE CallTimed' /\ time' <= LastReading
  BY <1>5 DEF Unavailable
<1>6. CASE UNCHANGED rateVars
  BY <1>6 DEF rateVars
<1> QED BY <1>1, <1>2, <1>3, <1>4, <1>5, <1>6 DEF RateNext

(* A call is rejected only by a row that counts the limit, which is at most  *)
(* what its window was tried.                                                *)
LEMMA CallDecidedKept ==
  ASSUME RateAssumption, RateInv, [RateNext]_rateVars
  PROVE  CallDecided'
<1> USE DEF RateInv, CallTyped, CallDecided, Decided
<1>1. CASE ClockTicks
  BY <1>1 DEF ClockTicks
<1>2. ASSUME NEW c \in Call, ReadClock(c) PROVE CallDecided'
  BY <1>2 DEF ReadClock
<1>3. ASSUME NEW c \in Call, Attempt(c) PROVE CallDecided'
  <2> DEFINE tried == {d \in Call : pc[d] \in {"counted", "done"} /\ RowOf(d) = RowOf(c)}
  <2>1. tried \in SUBSET Call /\ AllowedIn(RowOf(c)) \in SUBSET tried
    BY DEF AllowedIn
  <2>2. Attempts(RowOf(c)) \in Nat /\ Cardinality(AllowedIn(RowOf(c))) <= Attempts(RowOf(c))
    BY <2>1, FS_Subset, FS_CardinalityType DEF Attempts, RateAssumption
  <2>3. PICK yes \in BOOLEAN : Decides(c, yes)
    BY <1>3 DEF Attempt
  <2>4. CASE verdict'[c] = FALSE
    <3>1. RowOf(c) \in DOMAIN rows /\ ~(rows[RowOf(c)].count < Limit)
      BY <1>3, <2>4 DEF Attempt, Decides
    <3>2. rows[RowOf(c)].count \in 1..Limit /\ rows[RowOf(c)].count <= Cardinality(AllowedIn(RowOf(c)))
      BY <3>1 DEF RowsTyped, RowsCounted
    <3>3. Attempts(RowOf(c)) >= Limit
      BY <2>2, <3>1, <3>2, AllowedFinite DEF RateAssumption
    <3> QED BY <2>2, <2>3, <3>3 DEF Decides
  <2>5. CASE verdict'[c] # FALSE
    BY <2>2, <2>3, <2>5 DEF Decides
  <2> QED BY <2>4, <2>5
<1>4. ASSUME NEW c \in Call, Cleanup(c) PROVE CallDecided'
  BY <1>4 DEF Cleanup
<1>5. ASSUME NEW c \in Call, Unavailable(c) PROVE CallDecided'
  BY <1>5 DEF Unavailable
<1>6. CASE UNCHANGED rateVars
  BY <1>6 DEF rateVars
<1> QED BY <1>1, <1>2, <1>3, <1>4, <1>5, <1>6 DEF RateNext

(* An answer is the decision, and tells the time to wait of the reading.     *)
LEMMA CallAnsweredKept ==
  ASSUME RateAssumption, RateInv, [RateNext]_rateVars
  PROVE  CallAnswered'
<1> USE DEF RateInv, CallTyped, CallAnswered
<1>1. CASE ClockTicks
  BY <1>1 DEF ClockTicks, RetryAfterSeconds, WindowStart
<1>2. ASSUME NEW c \in Call, ReadClock(c) PROVE CallAnswered'
  BY <1>2 DEF ReadClock, RetryAfterSeconds, WindowStart, RateAssumption
<1>3. ASSUME NEW c \in Call, Attempt(c) PROVE CallAnswered'
  BY <1>3 DEF Attempt, Decides, RetryAfterSeconds, WindowStart, RateAssumption
<1>4. ASSUME NEW c \in Call, Cleanup(c) PROVE CallAnswered'
  BY <1>4 DEF Cleanup, RetryAfterSeconds, WindowStart, RateAssumption
<1>5. ASSUME NEW c \in Call, Unavailable(c) PROVE CallAnswered'
  BY <1>5 DEF Unavailable, OpenCalls, RetryAfterSeconds, WindowStart, RateAssumption
<1>6. CASE UNCHANGED rateVars
  BY <1>6 DEF rateVars, RetryAfterSeconds, WindowStart
<1> QED BY <1>1, <1>2, <1>3, <1>4, <1>5, <1>6 DEF RateNext

(* Rows keep their expiry, and their count within the limit.                 *)
LEMMA RowsTypedKept ==
  ASSUME RateAssumption, RateInv, [RateNext]_rateVars
  PROVE  RowsTyped'
<1> USE DEF RateInv, CallTyped, RowsTyped
<1>1. ASSUME UNCHANGED rows PROVE RowsTyped'
  BY <1>1
<1>2. ASSUME NEW c \in Call, Attempt(c) PROVE RowsTyped'
  <2> DEFINE key == RowOf(c)
  <2>1. key \in Bucket \X Nat
    BY <1>2, RowOfCall DEF Attempt, CallTimed
  <2>2. Limit \in Nat /\ 1 <= Limit /\ Retention \in Nat
    BY DEF RateAssumption
  <2>3. CASE key \notin DOMAIN rows
    <3>1. rows' = Put(key, [count |-> 1, expires |-> key[2] + Retention])
      BY <1>2, <2>3 DEF Attempt
    <3> HIDE DEF key
    <3> QED BY <2>1, <2>2, <3>1 DEF Put
  <2>4. CASE key \in DOMAIN rows /\ rows[key].count < Limit
    <3>1. rows' = [rows EXCEPT ![key].count = @ + 1]
      BY <1>2, <2>4 DEF Attempt
    <3> HIDE DEF key
    <3>2. rows[key] \in [count : 1..Limit, expires : Nat] /\ rows[key].expires = key[2] + Retention
      BY <2>4
    <3>3. rows[key].count + 1 \in 1..Limit
      BY <2>2, <2>4, <3>2
    <3>4. [rows[key] EXCEPT !.count = @ + 1] \in [count : 1..Limit, expires : Nat]
          /\ [rows[key] EXCEPT !.count = @ + 1].expires = key[2] + Retention
      BY <3>2, <3>3
    <3>5. rows' = [rows EXCEPT ![key] = [rows[key] EXCEPT !.count = @ + 1]]
      BY <3>1
    <3>6. DOMAIN rows' = DOMAIN rows /\ rows'[key] = [rows[key] EXCEPT !.count = @ + 1]
          /\ rows' = [k \in DOMAIN rows' |-> rows'[k]]
      BY <2>4, <3>5
    <3>7. \A k \in DOMAIN rows \ {key} : rows'[k] = rows[k]
      BY <3>5
    <3>8. \A k \in DOMAIN rows' :
            rows'[k] \in [count : 1..Limit, expires : Nat] /\ rows'[k].expires = k[2] + Retention
      BY <3>4, <3>6, <3>7
    <3> QED BY <3>6, <3>8
  <2>5. CASE key \in DOMAIN rows /\ ~(rows[key].count < Limit)
    BY <1>1, <1>2, <2>5 DEF Attempt
  <2> QED BY <2>3, <2>4, <2>5
<1>3. ASSUME NEW c \in Call, Cleanup(c) PROVE RowsTyped'
  BY <1>3 DEF Cleanup
<1> QED BY <1>1, <1>2, <1>3 DEF RateNext, ClockTicks, ReadClock, Unavailable, rateVars

(* What a row counts was allowed in its window.                              *)
LEMMA RowsCountedKept ==
  ASSUME RateAssumption, RateInv, [RateNext]_rateVars
  PROVE  RowsCounted'
<1> USE DEF RateInv
<1>1. SUFFICES ASSUME NEW k \in DOMAIN rows' PROVE rows'[k].count <= Cardinality(AllowedIn(k)')
  BY DEF RowsCounted
<1>2. ASSUME AllowedIn(k)' = AllowedIn(k), k \in DOMAIN rows, rows'[k] = rows[k]
      PROVE  rows'[k].count <= Cardinality(AllowedIn(k)')
  BY <1>2 DEF RowsCounted
<1>3. CASE ClockTicks
  BY <1>2, <1>3, AllowedKept DEF ClockTicks
<1>4. ASSUME NEW c \in Call, ReadClock(c) PROVE rows'[k].count <= Cardinality(AllowedIn(k)')
  BY <1>2, <1>4, AllowedKept DEF ReadClock
<1>5. ASSUME NEW c \in Call, Attempt(c) PROVE rows'[k].count <= Cardinality(AllowedIn(k)')
  <2>1. CASE verdict'[c] = TRUE /\ RowOf(c) = k
    <3>1. Cardinality(AllowedIn(k)') = Cardinality(AllowedIn(k)) + 1 /\ Cardinality(AllowedIn(k)) \in Nat
      BY <1>5, <2>1, AllowedAdded, AllowedFinite
    <3>2. CASE k \notin DOMAIN rows
      BY <1>5, <2>1, <3>1, <3>2 DEF Attempt, Put
    <3>3. CASE k \in DOMAIN rows
      <4>1. rows' = [rows EXCEPT ![k].count = @ + 1]
        BY <1>5, <2>1, <3>3 DEF Attempt, Decides, CallTyped
      <4>2. rows[k].count \in Nat /\ rows[k].count <= Cardinality(AllowedIn(k))
        BY <3>3 DEF RowsTyped, RowsCounted
      <4> QED BY <3>1, <3>3, <4>1, <4>2 DEF RowsTyped
    <3> QED BY <3>2, <3>3
  <2>2. CASE ~(verdict'[c] = TRUE /\ RowOf(c) = k)
    <3>1. AllowedIn(k)' = AllowedIn(k)
      BY <1>5, <2>2, AllowedKept
    <3>2. k \in DOMAIN rows /\ rows'[k] = rows[k]
      BY <1>5, <2>2 DEF Attempt, Put, Decides, CallTyped, RowsTyped
    <3> QED BY <1>2, <3>1, <3>2
  <2> QED BY <2>1, <2>2
<1>6. ASSUME NEW c \in Call, Cleanup(c) PROVE rows'[k].count <= Cardinality(AllowedIn(k)')
  <2>1. UNCHANGED <<read, verdict>> /\ \A d \in Call : pc'[d] \in Decided <=> pc[d] \in Decided
    BY <1>6 DEF Cleanup, CallTyped, Decided
  <2> QED BY <1>2, <1>6, <2>1, AllowedKept DEF Cleanup
<1>7. ASSUME NEW c \in Call, Unavailable(c) PROVE rows'[k].count <= Cardinality(AllowedIn(k)')
  BY <1>2, <1>7, AllowedKept DEF Unavailable
<1>8. CASE UNCHANGED rateVars
  BY <1>2, <1>8, AllowedKept DEF rateVars
<1> QED BY <1>3, <1>4, <1>5, <1>6, <1>7, <1>8 DEF RateNext

(* A window keeps its row as long as a statement of it may come.             *)
LEMMA RowsExactKept ==
  ASSUME RateAssumption, RateInv, [RateNext]_rateVars, RowsOutlive
  PROVE  RowsExact'
<1> USE DEF RateInv
<1> DEFINE Exact(k) ==
      /\ Cardinality(AllowedIn(k)) <= Limit
      /\ AllowedIn(k) # {} =>
           IF k \in DOMAIN rows THEN rows[k].count = Cardinality(AllowedIn(k)) ELSE time > k[2] + Retention
<1>1. SUFFICES ASSUME NEW k \in Bucket \X Nat PROVE Exact(k)'
  BY DEF RowsExact
<1>2. Exact(k)
  BY DEF RowsExact
<1>3. Cardinality(AllowedIn(k)) \in Nat /\ Limit \in Nat /\ 1 <= Limit /\ Retention \in Nat
      /\ time \in Nat /\ k[2] \in Nat
  BY AllowedFinite DEF RateAssumption, CallTyped
<1>4. CASE ClockTicks
  <2>1. AllowedIn(k)' = AllowedIn(k)
    BY <1>4, AllowedKept DEF ClockTicks
  <2> QED BY <1>2, <1>3, <1>4, <2>1 DEF ClockTicks
<1>5. ASSUME UNCHANGED <<rows, time>>, AllowedIn(k)' = AllowedIn(k) PROVE Exact(k)'
  BY <1>2, <1>5
<1>6. ASSUME NEW c \in Call, ReadClock(c) PROVE Exact(k)'
  BY <1>5, <1>6, AllowedKept DEF ReadClock
<1>7. ASSUME NEW c \in Call, Attempt(c) PROVE Exact(k)'
  <2>1. time' = time
    BY <1>7 DEF Attempt
  <2>2. CASE verdict'[c] = TRUE /\ RowOf(c) = k
    <3>1. Cardinality(AllowedIn(k)') = Cardinality(AllowedIn(k)) + 1
      BY <1>7, <2>2, AllowedAdded
    <3>2. CASE k \notin DOMAIN rows
      <4>1. k[2] + Window > read[c] /\ read[c] \in Nat /\ time <= read[c] + MaxLatency
        BY <1>7, <2>2, RowOfCall DEF Attempt, CallTimed
      <4>2. AllowedIn(k) = {}
        BY <1>2, <1>3, <3>2, <4>1 DEF RowsOutlive, RateAssumption
      <4>3. Cardinality(AllowedIn(k)') = 1
        BY <3>1, <4>2, FS_EmptySet
      <4>4. k \in DOMAIN rows' /\ rows'[k].count = 1
        BY <1>7, <2>2, <3>2 DEF Attempt, Put
      <4> QED BY <1>3, <4>3, <4>4
    <3>3. CASE k \in DOMAIN rows
      <4>1. rows' = [rows EXCEPT ![k].count = @ + 1] /\ rows[k].count < Limit
        BY <1>7, <2>2, <3>3 DEF Attempt, Decides, CallTyped
      <4>2. rows[k].count \in Nat /\ 1 <= rows[k].count /\ rows[k].count <= Cardinality(AllowedIn(k))
        BY <1>3, <3>3 DEF RowsTyped, RowsCounted
      <4>3. rows[k].count = Cardinality(AllowedIn(k))
        <5>1. AllowedIn(k) # {}
          BY <1>3, <4>2, FS_EmptySet
        <5> QED BY <1>2, <3>3, <5>1
      <4>4. k \in DOMAIN rows' /\ rows'[k].count = rows[k].count + 1
        BY <3>3, <4>1 DEF RowsTyped
      <4>5. Cardinality(AllowedIn(k)') <= Limit
        BY <1>3, <3>1, <4>1, <4>3
      <4> QED BY <3>1, <4>3, <4>4, <4>5
    <3> QED BY <3>2, <3>3
  <2>3. CASE ~(verdict'[c] = TRUE /\ RowOf(c) = k)
    <3>1. AllowedIn(k)' = AllowedIn(k)
      BY <1>7, <2>3, AllowedKept
    <3>2. (k \in DOMAIN rows' <=> k \in DOMAIN rows) /\ (k \in DOMAIN rows => rows'[k] = rows[k])
      BY <1>7, <2>3 DEF Attempt, Put, Decides, CallTyped, RowsTyped
    <3> QED BY <1>2, <2>1, <3>1, <3>2
  <2> QED BY <2>2, <2>3
<1>8. ASSUME NEW c \in Call, Cleanup(c) PROVE Exact(k)'
  <2>1. UNCHANGED <<read, verdict, time>> /\ \A d \in Call : pc'[d] \in Decided <=> pc[d] \in Decided
    BY <1>8 DEF Cleanup, CallTyped, Decided
  <2>2. AllowedIn(k)' = AllowedIn(k)
    BY <2>1, AllowedKept
  <2>3. rows' = [x \in DOMAIN rows \ Expired(read[c]) |-> rows[x]]
    BY <1>8 DEF Cleanup
  <2>4. ASSUME k \in Expired(read[c]) PROVE time > k[2] + Retention
    BY <1>3, <1>8, <2>4 DEF Expired, RowsTyped, CallTimed, Cleanup
  <2> QED BY <1>2, <2>1, <2>2, <2>3, <2>4
<1>9. ASSUME NEW c \in Call, Unavailable(c) PROVE Exact(k)'
  BY <1>5, <1>9, AllowedKept DEF Unavailable
<1>10. CASE UNCHANGED rateVars
  BY <1>5, <1>10, AllowedKept DEF rateVars
<1> QED BY <1>4, <1>6, <1>7, <1>8, <1>9, <1>10 DEF RateNext

-----------------------------------------------------------------------------
(* Nothing was counted before the first call.                                *)
LEMMA RateInitially ==
  ASSUME RateAssumption, RateInit
  PROVE  RateInv
<1>1. CallTyped /\ CallTimed /\ CallDecided /\ CallAnswered /\ RowsTyped /\ RowsCounted
  BY DEF RateAssumption, RateInit, CallTyped, CallTimed, CallDecided, CallAnswered, RowsTyped,
         RowsCounted, Decided
<1>2. \A key \in Bucket \X Nat : AllowedIn(key) = {}
  BY DEF RateInit, AllowedIn, Decided
<1>3. Cardinality({}) = 0 /\ 0 <= Limit
  BY FS_EmptySet DEF RateAssumption
<1>4. RowsExact
  BY <1>2, <1>3, Zenon DEF RowsExact
<1> QED BY <1>1, <1>4 DEF RateInv, RateInit, RateAssumption

(* The invariant of the limiter, with any calls, limits and times: rows      *)
(* count what was allowed, and all of it where they outlive the statements.  *)
THEOREM RateInvariant ==
  ASSUME RateAssumption
  PROVE  RateSpec => []RateInv
<1>1. RateInit => RateInv
  BY RateInitially
<1>2. RateInv /\ [RateNext]_rateVars => RateInv'
  <2> SUFFICES ASSUME RateInv, [RateNext]_rateVars PROVE RateInv'
    OBVIOUS
  <2>1. CallTyped' /\ CallTimed' /\ time' <= LastReading
    BY CallTypedKept, CallTimedKept
  <2>2. CallDecided' /\ CallAnswered' /\ RowsTyped' /\ RowsCounted'
    BY CallDecidedKept, CallAnsweredKept, RowsTypedKept, RowsCountedKept
  <2>3. RowsOutlive => RowsExact'
    BY RowsExactKept
  <2> QED BY <2>1, <2>2, <2>3 DEF RateInv, RowsOutlive
<1> QED BY <1>1, <1>2, PTL DEF RateSpec

(* Whatever the retention: who is rejected was rejected at the limit, and    *)
(* who waits as long as told comes into a new window.                        *)
THEOREM RejectionsAreFair ==
  ASSUME RateAssumption
  PROVE  RateSpec => [](RateTypeOK /\ RejectedAtLimit /\ RetryInTime)
<1>1. RateInv => RateTypeOK
  BY DEF RateInv, CallTyped, CallTimed, CallAnswered, RowsTyped, RateTypeOK, RateAssumption
<1>2. RateInv => RejectedAtLimit
  BY DEF RateInv, CallDecided, RejectedAtLimit, RateAssumption
<1>3. RateInv => RetryInTime
  <2> SUFFICES ASSUME RateInv, NEW c \in Call, answer[c] = "rejected"
               PROVE  /\ WindowStart(read[c] + wait[c] * Second) > WindowStart(read[c])
                      /\ wait[c] * Second < Window + Second
    BY DEF RetryInTime
  <2>1. read[c] \in Nat /\ wait[c] = RetryAfterSeconds(read[c])
    BY DEF RateInv, CallAnswered, CallTimed
  <2>2. wait[c] \in Nat /\ wait[c] * Second < Window + Second
        /\ read[c] + wait[c] * Second >= WindowStart(read[c]) + Window
    BY <2>1, RetryIsInTime
  <2>3. read[c] + wait[c] * Second \in Nat
    BY <2>1, <2>2, SMTT(30) DEF RateAssumption
  <2> QED BY <2>1, <2>2, <2>3, NextWindow
<1> QED BY <1>1, <1>2, <1>3, RateInvariant, PTL

(* Where rows outlive the statements that may count in them, the limit is    *)
(* exact: over all replicas no window allows more calls of a key, however    *)
(* the statements overlap, wait for each other and clean up.                 *)
THEOREM RateIsSound ==
  ASSUME RateAssumption, RowsOutlive
  PROVE  RateSpec => []RateSound
<1>1. RateInv => ExactBoundary
  <2> SUFFICES ASSUME RateInv, NEW key \in Bucket, NEW t \in 0..LastReading
               PROVE  Cardinality({c \in Call : answer[c] = "allowed" /\ RowOf(c) = <<key, WindowStart(t)>>}) <= Limit
    BY DEF ExactBoundary
  <2> DEFINE row == <<key, WindowStart(t)>>
             allowed == {c \in Call : answer[c] = "allowed" /\ RowOf(c) = row}
  <2>1. row \in Bucket \X Nat
    BY WindowOfReading
  <2>2. IsFiniteSet(AllowedIn(row)) /\ Cardinality(AllowedIn(row)) \in Nat
    BY AllowedFinite
  <2>3. Cardinality(AllowedIn(row)) <= Limit
    BY <2>1 DEF RateInv, RowsExact
  <2>4. allowed \in SUBSET AllowedIn(row)
    BY DEF RateInv, CallAnswered, AllowedIn, Decided
  <2>5. Cardinality(allowed) <= Cardinality(AllowedIn(row)) /\ Cardinality(allowed) \in Nat
    BY <2>2, <2>4, FS_Subset, FS_CardinalityType
  <2> QED BY <2>2, <2>3, <2>5 DEF RateAssumption
<1> QED BY <1>1, RateInvariant, RejectionsAreFair, PTL DEF RateSound

-----------------------------------------------------------------------------
(* The keys: what is kept, under way, asked and answered.                    *)
Stamp == [since : Int, until : Int]
KeySet == [expiresAt : Int, keys : SUBSET Key, of : Int]
Document == [keys : SUBSET Key, of : Int]
Flight == [began : Int, document : Document \cup {None}, waiting : SUBSET Request]
Outcome ==
  Refusals \cup {"OK", "UNKNOWN_KEY", "INVALID_SIGNATURE", "AUTHENTICATION_DEPENDENCY_FAILURE"}
Standing ==
  {Idle} \cup [pc : {"wait"}, token : Token]
         \cup [pc : {"done"}, token : Token, outcome : Outcome, at : Int]
KeysTyped ==
  /\ now \in 0..MaxTime /\ changes \in 0..MaxChanges
  /\ published \in [Issuer -> SUBSET Key]
  /\ cache \in [Issuer -> KeySet \cup {None}] /\ flights \in [Issuer -> SUBSET Flight]
  /\ lastUnknown \in [Issuer -> Int] /\ lastFailed \in [Issuer -> Int]
  /\ fetches \in [Issuer -> SUBSET Int]
  /\ requests \in [Request -> Standing]

(* What is published is known to be so until now.                            *)
Seen ==
  /\ DOMAIN seen = Issuer /\ seen = [i \in Issuer |-> seen[i]]
  /\ \A i \in Issuer :
       /\ seen[i] = [k \in DOMAIN seen[i] |-> seen[i][k]] /\ published[i] \subseteq DOMAIN seen[i]
       /\ \A k \in DOMAIN seen[i] :
            /\ seen[i][k] \in Stamp /\ seen[i][k].since <= now /\ seen[i][k].until <= now
            /\ k \in published[i] => seen[i][k].until = now

(* A set was published at its moment, and what is published and not in it    *)
(* came later.                                                               *)
PublishedAt(i, keys, of) ==
  /\ of <= now /\ keys \subseteq DOMAIN seen[i]
  /\ \A k \in keys : seen[i][k].until >= of
  /\ \A k \in published[i] \ keys : seen[i][k].since >= of

(* A kept set is valid, of a moment, and expires a cache and a fetch time    *)
(* after that at the latest.                                                 *)
Kept ==
  \A i \in Issuer : cache[i] # None =>
    /\ ~Invalid(cache[i].keys) /\ PublishedAt(i, cache[i].keys, cache[i].of)
    /\ cache[i].expiresAt \in 1..now + Ttl /\ cache[i].expiresAt <= cache[i].of + Timeout + Ttl

(* A credential that waits was not refused when its fetch was already out.   *)
Verified(t, i) ==
  t.iss = i /\ audienceMatches(t.aud, Config[i].audiences)
Fly ==
  \A i \in Issuer :
    /\ \A f, g \in flights[i] : f = g
    /\ \A f \in flights[i] :
         /\ f.began <= now /\ now <= f.began + Timeout
         /\ cache[i] # None => cache[i].of <= f.began
         /\ f.document # None => /\ f.began <= f.document.of
                                 /\ PublishedAt(i, f.document.keys, f.document.of)
Waits ==
  /\ \A i \in Issuer : \A f \in flights[i] : \A r \in f.waiting :
       LET t == requests[r].token IN
       /\ requests[r].pc = "wait" /\ Verified(t, i)
       /\ f.began < t.exp + ClockSkew /\ (t.nbf # None => now + ClockSkew >= t.nbf)
  /\ \A r \in Request : requests[r].pc = "wait" =>
       /\ requests[r].token.iss \in Issuer
       /\ \E f \in flights[requests[r].token.iss] : r \in f.waiting

(* The last fetch for an unknown key is out, failed, or brought a set of its *)
(* time.                                                                     *)
Asked ==
  \A i \in Issuer :
    /\ lastUnknown[i] = Never \/ lastUnknown[i] \in 0..now
    /\ \A a \in fetches[i] : a <= lastUnknown[i]
    /\ \A a, b \in fetches[i] : a < b => b - a >= Cooldown
    /\ flights[i] = {} /\ lastUnknown[i] # Never =>
         \/ lastFailed[i] >= lastUnknown[i]
         \/ (cache[i] # None => cache[i].of + Timeout >= lastUnknown[i])

(* What an accepted credential was accepted under.                           *)
AcceptedSound(q) ==
  LET t == q.token
      i == t.iss
      k == t.signer IN
  /\ i \in Issuer /\ k \in DOMAIN seen[i] /\ q.at - seen[i][k].until < Ttl + Timeout
  /\ q.at < t.exp + ClockSkew + Timeout /\ (t.nbf # None => q.at + ClockSkew >= t.nbf)
  /\ audienceMatches(t.aud, Config[i].audiences)
  /\ k.kty = "RSA" /\ k.use # "enc" /\ k.bits >= MinBits
Answers == \A r \in Accepted : AcceptedSound(requests[r])

KeysInv == KeysTyped /\ Seen /\ Kept /\ Fly /\ Waits /\ Asked /\ Answers

-----------------------------------------------------------------------------
(* The steps of a request: it is answered at once, or waits for a fetch; and *)
(* those of a fetch: it brings a set that is kept, or is dropped.            *)
AnswersAtOnce(r, t) ==
  /\ requests[r] = Idle
  /\ \/ Refused(t) # None /\ requests' = [requests EXCEPT ![r] = Done(t, Refused(t))]
     \/ /\ Refused(t) = None /\ Current(t.iss) /\ (Known(t.iss, t) \/ Cooling(t.iss))
        /\ requests' = [requests EXCEPT ![r] = Done(t, WithSet(t, cache[t.iss].keys))]
  /\ UNCHANGED <<now, published, seen, changes, cache, lastFailed, flights, lastUnknown, fetches>>
Asks(r, t) ==
  /\ requests[r] = Idle /\ Refused(t) = None
  /\ ~(Current(t.iss) /\ (Known(t.iss, t) \/ Cooling(t.iss)))
  /\ Ask(t.iss, r, t)
  /\ UNCHANGED <<now, published, seen, changes, cache, lastFailed>>
Fills(i, f) ==
  /\ f \in flights[i] /\ f.document # None /\ ~Invalid(f.document.keys)
  /\ cache' = [cache EXCEPT ![i] = [expiresAt |-> now + Ttl, keys |-> f.document.keys,
                                    of |-> f.document.of]]
  /\ Land(i, f, [t \in Token |-> WithSet(t, f.document.keys)])
  /\ UNCHANGED <<now, published, seen, changes, lastUnknown, fetches, lastFailed>>
Drops(i, f) ==
  /\ f \in flights[i] /\ Dropped(i, f)
  /\ UNCHANGED <<now, published, seen, changes, lastUnknown, fetches>>

(* Every step is one of the clock, of an issuer, of a request or of a fetch. *)
LEMMA KeySteps ==
  ASSUME JwksNext
  PROVE  \/ Tick
         \/ \E i \in Issuer, k \in Key : Publish(i, k)
         \/ \E i \in Issuer : \E f \in flights[i] : Answer(i, f) \/ Fills(i, f) \/ Drops(i, f)
         \/ \E r \in Request, t \in Token : AnswersAtOnce(r, t) \/ Asks(r, t)
<1>1. ASSUME NEW i \in Issuer, NEW f \in flights[i], Arrive(i, f) \/ Fail(i, f)
      PROVE  Fills(i, f) \/ Drops(i, f)
  BY <1>1, Zenon DEF Arrive, Fail, Fills, Drops
<1>2. ASSUME NEW r \in Request, NEW t \in Token, authenticate(r, t)
      PROVE  AnswersAtOnce(r, t) \/ Asks(r, t)
  BY <1>2, Zenon DEF authenticate, resolve, AnswersAtOnce, Asks
<1> QED BY <1>1, <1>2, Zenon DEF JwksNext

(* What a credential that is not refused fulfils, and what a refusal is.     *)
LEMMA RefusedOrPermitted ==
  ASSUME ConfigAssumption, KeysTyped, NEW t \in Token
  PROVE  /\ Refused(t) # None => Refused(t) \in Refusals
         /\ Refused(t) = None =>
              /\ t.iss \in Issuer /\ Verified(t, t.iss)
              /\ now < t.exp + ClockSkew /\ (t.nbf # None => now + ClockSkew >= t.nbf)
<1>1. t.exp \in Int /\ (t.nbf # None => t.nbf \in Int) /\ now \in Int /\ ClockSkew \in Int
  BY DEF ConfigAssumption, KeysTyped
<1>2. ActiveAt(t) # None => ActiveAt(t) \in Refusals
  BY DEF ActiveAt, Refusals
<1>3. ActiveAt(t) = None => now < t.exp + ClockSkew /\ (t.nbf # None => now + ClockSkew >= t.nbf)
  BY <1>1 DEF ActiveAt, ConfigAssumption, Refusals
<1>4. Refused(t) # None => Refused(t) \in Refusals
  BY <1>2 DEF Refused, Refusals
<1>5. Refused(t) = None => t.iss \in Issuer /\ Verified(t, t.iss) /\ ActiveAt(t) = None
  BY DEF Refused, Verified, ConfigAssumption, Refusals
<1> QED BY <1>3, <1>4, <1>5

(* What the decision with a set says.                                        *)
LEMMA DecidedWithSet ==
  ASSUME ConfigAssumption, NEW t \in Token, NEW keys
  PROVE  /\ WithSet(t, keys) \in {"OK", "UNKNOWN_KEY", "INVALID_SIGNATURE"}
         /\ WithSet(t, keys) = "UNKNOWN_KEY" => \A k \in keys : k.kid # t.kid
         /\ WithSet(t, keys) = "OK" =>
              t.signer \in keys /\ t.signer.kty = "RSA" /\ t.signer.use # "enc" /\ t.signer.bits >= MinBits
<1> DEFINE found == {k \in keys : k.kid = t.kid}
           key == CHOOSE k \in found : TRUE
<1>1. found # {} => key \in found
  OBVIOUS
<1>2. WithSet(t, keys) = IF found = {} THEN "UNKNOWN_KEY" ELSE Verify(t, key)
  BY DEF WithSet
<1>3. Verify(t, key) \in {"OK", "INVALID_SIGNATURE"}
  BY DEF Verify
<1>4. Verify(t, key) = "OK" => t.signer = key /\ key.kty = "RSA" /\ key.use \in {None, "sig"} /\ key.bits >= MinBits
  BY DEF Verify
<1> HIDE DEF key
<1>5. WithSet(t, keys) = "UNKNOWN_KEY" => found = {}
  BY <1>2, <1>3
<1>6. WithSet(t, keys) = "OK" => found # {} /\ Verify(t, key) = "OK"
  BY <1>2
<1> QED BY <1>1, <1>2, <1>3, <1>4, <1>5, <1>6 DEF ConfigAssumption

(* The cooldown is a positive time.                                          *)
LEMMA CooldownPositive ==
  ASSUME ConfigAssumption
  PROVE  /\ Cooldown \in Nat /\ Cooldown >= 1 /\ Cooldown <= UnknownCooldown
         /\ {Ttl, Timeout, UnknownCooldown, ClockSkew} \subseteq Nat /\ Ttl > 0 /\ Timeout > 0
<1>1. Ttl \in Nat /\ UnknownCooldown \in Nat /\ Ttl >= 1 /\ UnknownCooldown >= 1
  BY DEF ConfigAssumption, validateConfig
<1>2. \E m \in {Ttl, UnknownCooldown} : \A y \in {Ttl, UnknownCooldown} : m <= y
  BY <1>1
<1>3. Cooldown \in {Ttl, UnknownCooldown} /\ \A y \in {Ttl, UnknownCooldown} : Cooldown <= y
  BY <1>2 DEF Cooldown, Min
<1> QED BY <1>1, <1>3 DEF ConfigAssumption, validateConfig

-----------------------------------------------------------------------------
(* The types of what is kept, under way and answered.                        *)
LEMMA KeysTypedKept ==
  ASSUME ConfigAssumption, KeysTyped, Waits, [JwksNext]_jwksVars
  PROVE  KeysTyped'
<1> USE DEF KeysTyped
<1> now \in Int /\ Ttl \in Int
  BY DEF ConfigAssumption
<1>1. CASE Tick
  BY <1>1 DEF Tick, ConfigAssumption
<1>2. ASSUME NEW i \in Issuer, NEW k \in Key, Publish(i, k) PROVE KeysTyped'
  <2>1. changes' \in 0..MaxChanges
    BY <1>2 DEF Publish, ConfigAssumption
  <2>2. published' \in [Issuer -> SUBSET Key]
    BY <1>2 DEF Publish
  <2> QED BY <1>2, <2>1, <2>2 DEF Publish
<1>3. ASSUME NEW i \in Issuer, NEW f \in flights[i], Answer(i, f) PROVE KeysTyped'
  <2>1. f \in Flight
    OBVIOUS
  <2>2. [f EXCEPT !.document = [keys |-> published[i], of |-> now]] \in Flight
    BY <2>1 DEF Flight, Document
  <2> QED BY <1>3, <2>2 DEF Answer
<1>4. ASSUME NEW i \in Issuer, NEW f \in flights[i], NEW out \in [Token -> Outcome], Land(i, f, out)
      PROVE  requests' \in [Request -> Standing] /\ flights' \in [Issuer -> SUBSET Flight]
  <2>1. \A r \in f.waiting : requests[r].pc = "wait"
    BY DEF Waits
  <2>2. \A r \in f.waiting : r \in Request /\ requests[r].token \in Token
    BY <2>1 DEF Flight, Standing, Idle
  <2>3. \A r \in f.waiting : Done(requests[r].token, out[requests[r].token]) \in Standing
    BY <2>2 DEF Done, Standing
  <2> QED BY <1>4, <2>3 DEF Land
<1>5. ASSUME NEW i \in Issuer, NEW f \in flights[i], Fills(i, f) PROVE KeysTyped'
  <2>1. [t \in Token |-> WithSet(t, f.document.keys)] \in [Token -> Outcome]
    BY DecidedWithSet DEF Outcome
  <2>2. f.document \in Document
    BY <1>5 DEF Fills, Flight
  <2>3. [expiresAt |-> now + Ttl, keys |-> f.document.keys, of |-> f.document.of] \in KeySet
    BY <2>2 DEF KeySet, Document
  <2>4. requests' \in [Request -> Standing] /\ flights' \in [Issuer -> SUBSET Flight]
    BY <1>4, <1>5, <2>1 DEF Fills
  <2> QED BY <1>5, <2>3, <2>4 DEF Fills
<1>6. ASSUME NEW i \in Issuer, NEW f \in flights[i], Drops(i, f) PROVE KeysTyped'
  <2>1. [t \in Token |-> "AUTHENTICATION_DEPENDENCY_FAILURE"] \in [Token -> Outcome]
    BY DEF Outcome
  <2>2. requests' \in [Request -> Standing] /\ flights' \in [Issuer -> SUBSET Flight]
    BY <1>4, <1>6, <2>1 DEF Drops, Dropped
  <2> QED BY <1>6, <2>2 DEF Drops, Dropped
<1>7. ASSUME NEW r \in Request, NEW t \in Token, AnswersAtOnce(r, t) PROVE KeysTyped'
  <2>1. PICK out \in Outcome : requests' = [requests EXCEPT ![r] = Done(t, out)]
    BY <1>7, RefusedOrPermitted, DecidedWithSet DEF AnswersAtOnce, Outcome
  <2>2. Done(t, out) \in Standing
    BY DEF Done, Standing
  <2> QED BY <1>7, <2>1, <2>2 DEF AnswersAtOnce
<1>8. ASSUME NEW r \in Request, NEW t \in Token, Asks(r, t) PROVE KeysTyped'
  <2>1. t.iss \in Issuer
    BY <1>8, RefusedOrPermitted DEF Asks
  <2>2. requests' \in [Request -> Standing]
    BY <1>8 DEF Asks, Ask, Standing
  <2>3. flights' \in [Issuer -> SUBSET Flight]
    <3>1. [began |-> now, document |-> None, waiting |-> {r}] \in Flight
      BY DEF Flight
    <3>2. \A f \in flights[t.iss] : [f EXCEPT !.waiting = @ \cup {r}] \in Flight
      BY <2>1 DEF Flight
    <3> QED BY <1>8, <2>1, <3>1, <3>2 DEF Asks, Ask, Refresh
  <2>4. fetches' \in [Issuer -> SUBSET Int] /\ lastUnknown' \in [Issuer -> Int]
    BY <1>8, <2>1 DEF Asks, Ask
  <2> QED BY <1>8, <2>2, <2>3, <2>4 DEF Asks
<1>9. CASE UNCHANGED jwksVars
  BY <1>9 DEF jwksVars
<1> QED BY <1>1, <1>2, <1>3, <1>5, <1>6, <1>7, <1>8, <1>9, KeySteps

(* What publishing or withdrawing a key changes.                             *)
LEMMA PublishStep ==
  ASSUME KeysTyped, Seen, NEW i \in Issuer, NEW k \in Key, Publish(i, k)
  PROVE  /\ now' = now /\ DOMAIN seen' = Issuer /\ seen' = [j \in Issuer |-> seen'[j]]
         /\ \A j \in Issuer \ {i} : seen'[j] = seen[j] /\ published'[j] = published[j]
         /\ k \in published[i] => seen'[i] = seen[i] /\ published'[i] = published[i] \ {k}
         /\ k \notin published[i] =>
              /\ published'[i] = published[i] \cup {k}
              /\ seen'[i] = [x \in DOMAIN seen[i] \cup {k} |->
                              IF x = k THEN [since |-> now, until |-> now] ELSE seen[i][x]]
<1>1. now' = now /\ published \in [Issuer -> SUBSET Key] /\ DOMAIN seen = Issuer
      /\ seen = [j \in Issuer |-> seen[j]]
  BY DEF Publish, KeysTyped, Seen
<1>2. CASE k \in published[i]
  <2>1. published' = [published EXCEPT ![i] = @ \ {k}] /\ seen' = seen
    BY <1>2 DEF Publish
  <2> QED BY <1>1, <1>2, <2>1
<1>3. CASE k \notin published[i]
  <2> DEFINE new == [x \in DOMAIN seen[i] \cup {k} |->
                      IF x = k THEN [since |-> now, until |-> now] ELSE seen[i][x]]
  <2>1. published' = [published EXCEPT ![i] = @ \cup {k}] /\ seen' = [seen EXCEPT ![i] = new]
    BY <1>3 DEF Publish
  <2> HIDE DEF new
  <2>2. DOMAIN seen' = Issuer /\ seen' = [j \in Issuer |-> seen'[j]] /\ seen'[i] = new
        /\ \A j \in Issuer \ {i} : seen'[j] = seen[j]
    BY <1>1, <2>1
  <2>3. published'[i] = published[i] \cup {k} /\ \A j \in Issuer \ {i} : published'[j] = published[j]
    BY <1>1, <2>1
  <2> QED BY <1>1, <1>3, <2>2, <2>3 DEF new
<1> QED BY <1>2, <1>3

(* What is known of published keys only grows, and stays true.               *)
LEMMA SeenKept ==
  ASSUME ConfigAssumption, KeysTyped, Seen, [JwksNext]_jwksVars
  PROVE  Seen'
<1> now \in Int /\ published \in [Issuer -> SUBSET Key]
  BY DEF KeysTyped
<1>1. CASE Tick
  BY <1>1 DEF Tick, Seen, Stamp
<1>2. ASSUME NEW i \in Issuer, NEW k \in Key, Publish(i, k) PROVE Seen'
  <2>1. ASSUME NEW j \in Issuer
        PROVE  /\ seen'[j] = [x \in DOMAIN seen'[j] |-> seen'[j][x]]
               /\ published'[j] \subseteq DOMAIN seen'[j]
               /\ \A x \in DOMAIN seen'[j] :
                    /\ seen'[j][x] \in Stamp /\ seen'[j][x].since <= now' /\ seen'[j][x].until <= now'
                    /\ x \in published'[j] => seen'[j][x].until = now'
    <3>1. CASE j # i
      <4>1. now' = now /\ seen'[j] = seen[j] /\ published'[j] = published[j]
        BY <1>2, <3>1, PublishStep
      <4> QED BY <4>1 DEF Seen
    <3>2. CASE j = i /\ k \in published[i]
      <4>1. now' = now /\ seen'[j] = seen[j] /\ published'[j] = published[j] \ {k}
        BY <1>2, <3>2, PublishStep
      <4> QED BY <4>1 DEF Seen
    <3>3. CASE j = i /\ k \notin published[i]
      <4>1. [since |-> now, until |-> now] \in Stamp
        BY DEF Stamp
      <4>2. /\ now' = now /\ published'[j] = published[j] \cup {k}
            /\ seen'[j] = [x \in DOMAIN seen[j] \cup {k} |->
                            IF x = k THEN [since |-> now, until |-> now] ELSE seen[j][x]]
        BY <1>2, <3>3, PublishStep
      <4> QED BY <4>1, <4>2 DEF Seen
    <3> QED BY <3>1, <3>2, <3>3
  <2> QED BY <1>2, <2>1, PublishStep DEF Seen
<1>3. ASSUME UNCHANGED <<now, published, seen>> PROVE Seen'
  BY <1>3 DEF Seen
<1>4. CASE UNCHANGED jwksVars
  BY <1>3, <1>4 DEF jwksVars
<1> QED BY <1>1, <1>2, <1>3, <1>4, KeySteps DEF Answer, Fills, Drops, AnswersAtOnce, Asks

(* PublishedAt, as the next state has it.                                    *)
PublishedNext(i, keys, of) ==
  /\ of <= now' /\ keys \subseteq DOMAIN seen'[i]
  /\ \A k \in keys : seen'[i][k].until >= of
  /\ \A k \in published'[i] \ keys : seen'[i][k].since >= of
(* What was published at a moment was so for ever after.                     *)
LEMMA PublishedKept ==
  ASSUME ConfigAssumption, KeysTyped, Seen, [JwksNext]_jwksVars, NEW i \in Issuer, NEW keys, NEW of \in Int,
         PublishedAt(i, keys, of)
  PROVE  PublishedNext(i, keys, of)
<1> now \in Int /\ published \in [Issuer -> SUBSET Key]
  BY DEF KeysTyped
<1>1. ASSUME UNCHANGED <<now, published, seen>>
      PROVE  PublishedNext(i, keys, of)
  BY <1>1 DEF PublishedNext, PublishedAt, Seen, Stamp
<1>2. CASE Tick
  BY <1>2 DEF Tick, PublishedNext, PublishedAt, Seen, Stamp
<1>3. ASSUME NEW j \in Issuer, NEW k \in Key, Publish(j, k)
      PROVE  PublishedNext(i, keys, of)
  <2>1. CASE j # i
    <3>1. now' = now /\ seen'[i] = seen[i] /\ published'[i] = published[i]
      BY <1>3, <2>1, PublishStep
    <3> QED BY <3>1 DEF PublishedNext, PublishedAt, Seen, Stamp
  <2>2. CASE j = i /\ k \in published[j]
    <3>1. now' = now /\ seen'[i] = seen[i] /\ published'[i] = published[i] \ {k}
      BY <1>3, <2>2, PublishStep
    <3> QED BY <3>1 DEF PublishedNext, PublishedAt, Seen, Stamp
  <2>3. CASE j = i /\ k \notin published[j]
    <3>1. /\ now' = now /\ published'[i] = published[i] \cup {k}
          /\ seen'[i] = [x \in DOMAIN seen[i] \cup {k} |->
                          IF x = k THEN [since |-> now, until |-> now] ELSE seen[i][x]]
      BY <1>3, <2>3, PublishStep
    <3> QED BY <3>1 DEF PublishedNext, PublishedAt, Seen, Stamp
  <2> QED BY <2>1, <2>2, <2>3
<1>4. CASE UNCHANGED jwksVars
  BY <1>1, <1>4 DEF jwksVars
<1> QED BY <1>1, <1>2, <1>3, <1>4, KeySteps DEF Answer, Fills, Drops, AnswersAtOnce, Asks

(* Every key seen is seen in the next state, until no earlier a time.        *)
Later(i) ==
  /\ DOMAIN seen[i] \subseteq DOMAIN seen'[i]
  /\ \A k \in DOMAIN seen[i] : seen'[i][k].until >= seen[i][k].until
(* A key once seen stays so, until no earlier a time.                        *)
LEMMA SeenGrows ==
  ASSUME ConfigAssumption, KeysTyped, Seen, [JwksNext]_jwksVars, NEW i \in Issuer
  PROVE  Later(i)
<1> now \in Int /\ published \in [Issuer -> SUBSET Key]
  BY DEF KeysTyped
<1>1. ASSUME UNCHANGED <<now, published, seen>>
      PROVE  Later(i)
  BY <1>1 DEF Later, Seen, Stamp
<1>2. CASE Tick
  BY <1>2 DEF Tick, Later, Seen, Stamp
<1>3. ASSUME NEW j \in Issuer, NEW k \in Key, Publish(j, k)
      PROVE  Later(i)
  <2>1. CASE j # i
    <3>1. now' = now /\ seen'[i] = seen[i] /\ published'[i] = published[i]
      BY <1>3, <2>1, PublishStep
    <3> QED BY <3>1 DEF Later, Seen, Stamp
  <2>2. CASE j = i /\ k \in published[j]
    <3>1. now' = now /\ seen'[i] = seen[i] /\ published'[i] = published[i] \ {k}
      BY <1>3, <2>2, PublishStep
    <3> QED BY <3>1 DEF Later, Seen, Stamp
  <2>3. CASE j = i /\ k \notin published[j]
    <3>1. /\ now' = now /\ published'[i] = published[i] \cup {k}
          /\ seen'[i] = [x \in DOMAIN seen[i] \cup {k} |->
                          IF x = k THEN [since |-> now, until |-> now] ELSE seen[i][x]]
      BY <1>3, <2>3, PublishStep
    <3> QED BY <3>1 DEF Later, Seen, Stamp
  <2> QED BY <2>1, <2>2, <2>3
<1>4. CASE UNCHANGED jwksVars
  BY <1>1, <1>4 DEF jwksVars
<1> QED BY <1>1, <1>2, <1>3, <1>4, KeySteps DEF Answer, Fills, Drops, AnswersAtOnce, Asks

-----------------------------------------------------------------------------
(* What a step makes of the fetches of an issuer: it leaves them, or one     *)
(* ends, is answered, is joined or begins.                                   *)
LEMMA FlightSteps ==
  ASSUME ConfigAssumption, KeysTyped, Fly, [JwksNext]_jwksVars, NEW i \in Issuer
  PROVE  \/ flights'[i] = flights[i]
         \/ flights'[i] = {} /\ \E f \in flights[i] : flights[i] = {f} /\ (Fills(i, f) \/ Drops(i, f))
         \/ \E f \in flights[i] :
              /\ Answer(i, f)
              /\ flights'[i] = {[f EXCEPT !.document = [keys |-> published[i], of |-> now]]}
         \/ \E r \in Request, t \in Token :
              /\ Asks(r, t) /\ t.iss = i
              /\ \/ /\ flights[i] = {}
                    /\ flights'[i] = {[began |-> now, document |-> None, waiting |-> {r}]}
                 \/ \E f \in flights[i] : flights'[i] = {[f EXCEPT !.waiting = @ \cup {r}]}
<1> flights \in [Issuer -> SUBSET Flight]
  BY DEF KeysTyped
<1>1. ASSUME NEW f \in flights[i] PROVE flights[i] = {f}
  BY DEF Fly
<1>2. ASSUME NEW j \in Issuer, NEW f \in flights[j], Fills(j, f) \/ Drops(j, f)
      PROVE  \/ flights'[i] = flights[i]
             \/ flights'[i] = {} /\ flights[i] = {f} /\ j = i
  <2>1. flights' = [flights EXCEPT ![j] = @ \ {f}]
    BY <1>2 DEF Fills, Drops, Dropped, Land
  <2> QED BY <1>1, <2>1
<1>3. ASSUME NEW j \in Issuer, NEW f \in flights[j], Answer(j, f)
      PROVE  \/ flights'[i] = flights[i]
             \/ j = i /\ flights'[i] = {[f EXCEPT !.document = [keys |-> published[i], of |-> now]]}
  <2>1. CASE j # i
    BY <1>3, <2>1 DEF Answer
  <2>2. CASE j = i
    <3> DEFINE g == [f EXCEPT !.document = [keys |-> published[i], of |-> now]]
    <3>1. flights' = [flights EXCEPT ![i] = (@ \ {f}) \cup {g}] /\ flights[i] = {f}
      BY <1>1, <1>3, <2>2 DEF Answer
    <3> HIDE DEF g
    <3>2. flights'[i] = {g}
      BY <3>1
    <3> QED BY <2>2, <3>2 DEF g
  <2> QED BY <2>1, <2>2
<1>4. ASSUME NEW r \in Request, NEW t \in Token, Asks(r, t)
      PROVE  \/ flights'[i] = flights[i]
             \/ /\ t.iss = i
                /\ \/ /\ flights[i] = {}
                      /\ flights'[i] = {[began |-> now, document |-> None, waiting |-> {r}]}
                   \/ \E f \in flights[i] : flights'[i] = {[f EXCEPT !.waiting = @ \cup {r}]}
  <2>1. flights' = [flights EXCEPT ![t.iss] =
                     IF @ = {} THEN {[began |-> now, document |-> None, waiting |-> {r}]}
                     ELSE {[f EXCEPT !.waiting = @ \cup {r}] : f \in @}]
    BY <1>4 DEF Asks, Ask, Refresh
  <2>2. CASE t.iss # i
    BY <2>1, <2>2
  <2>3. CASE t.iss = i /\ flights[i] = {}
    BY <2>1, <2>3
  <2>4. CASE t.iss = i /\ flights[i] # {}
    <3>1. PICK f \in flights[i] : flights[i] = {f}
      BY <1>1, <2>4
    <3>2. flights'[i] = {[g EXCEPT !.waiting = @ \cup {r}] : g \in {f}}
      BY <2>1, <2>4, <3>1
    <3>3. flights'[i] = {[f EXCEPT !.waiting = @ \cup {r}]}
      BY <3>2
    <3> QED BY <2>4, <3>1, <3>3
  <2> QED BY <2>2, <2>3, <2>4
<1>5. CASE Tick
  BY <1>5 DEF Tick
<1>6. ASSUME NEW j \in Issuer, NEW k \in Key, Publish(j, k) PROVE flights' = flights
  BY <1>6 DEF Publish
<1>7. ASSUME NEW r \in Request, NEW t \in Token, AnswersAtOnce(r, t) PROVE flights' = flights
  BY <1>7 DEF AnswersAtOnce
<1>8. CASE UNCHANGED jwksVars
  BY <1>8 DEF jwksVars
<1>9. ASSUME NEW j \in Issuer, NEW f \in flights[j], Fills(j, f) \/ Drops(j, f)
      PROVE  \/ flights'[i] = flights[i]
             \/ flights'[i] = {} /\ \E g \in flights[i] : flights[i] = {g} /\ (Fills(i, g) \/ Drops(i, g))
  BY <1>2, <1>9, Zenon
<1>10. ASSUME NEW j \in Issuer, NEW f \in flights[j], Answer(j, f)
       PROVE  \/ flights'[i] = flights[i]
              \/ \E g \in flights[i] :
                   /\ Answer(i, g)
                   /\ flights'[i] = {[g EXCEPT !.document = [keys |-> published[i], of |-> now]]}
  BY <1>3, <1>10, Zenon
<1>11. CASE JwksNext
  BY <1>4, <1>5, <1>6, <1>7, <1>9, <1>10, <1>11, KeySteps, Zenon
<1> QED BY <1>8, <1>11

(* The clock moves only when every fetch has time left.                      *)
LEMMA ClockStep ==
  ASSUME ConfigAssumption, KeysTyped, [JwksNext]_jwksVars
  PROVE  /\ now' \in Int /\ now <= now' /\ (now' = now \/ Tick)
<1> now \in Int
  BY DEF KeysTyped
<1>1. CASE Tick
  BY <1>1 DEF Tick
<1>2. ASSUME UNCHANGED now PROVE now' \in Int /\ now <= now' /\ (now' = now \/ Tick)
  BY <1>2
<1>3. CASE UNCHANGED jwksVars
  BY <1>2, <1>3 DEF jwksVars
<1> QED BY <1>1, <1>2, <1>3, KeySteps DEF Publish, Answer, Fills, Drops, Dropped, AnswersAtOnce, Asks

(* What a step makes of the set kept for an issuer: it is kept, or that of   *)
(* the fetch that ends is.                                                   *)
LEMMA CacheStep ==
  ASSUME ConfigAssumption, KeysTyped, [JwksNext]_jwksVars, NEW i \in Issuer
  PROVE  \/ cache'[i] = cache[i]
         \/ \E f \in flights[i] :
              /\ Fills(i, f)
              /\ cache'[i] = [expiresAt |-> now + Ttl, keys |-> f.document.keys, of |-> f.document.of]
<1> cache \in [Issuer -> KeySet \cup {None}]
  BY DEF KeysTyped
<1>1. ASSUME NEW j \in Issuer, NEW f \in flights[j], Fills(j, f)
      PROVE  \/ cache'[i] = cache[i]
             \/ j = i /\ cache'[i] = [expiresAt |-> now + Ttl, keys |-> f.document.keys, of |-> f.document.of]
  BY <1>1 DEF Fills
<1>2. ASSUME UNCHANGED cache PROVE cache'[i] = cache[i]
  BY <1>2
<1>3. ASSUME NEW j \in Issuer, NEW f \in flights[j], Answer(j, f) \/ Drops(j, f) PROVE UNCHANGED cache
  BY <1>3 DEF Answer, Drops, Dropped
<1>4. ASSUME NEW r \in Request, NEW t \in Token, AnswersAtOnce(r, t) \/ Asks(r, t) PROVE UNCHANGED cache
  BY <1>4 DEF AnswersAtOnce, Asks
<1>5. ASSUME NEW j \in Issuer, NEW k \in Key, Publish(j, k) PROVE UNCHANGED cache
  BY <1>5 DEF Publish
<1>6. CASE Tick \/ UNCHANGED jwksVars
  BY <1>2, <1>6 DEF Tick, jwksVars
<1>7. ASSUME NEW j \in Issuer, NEW f \in flights[j], Fills(j, f)
      PROVE  \/ cache'[i] = cache[i]
             \/ \E g \in flights[i] :
                  /\ Fills(i, g)
                  /\ cache'[i] = [expiresAt |-> now + Ttl, keys |-> g.document.keys, of |-> g.document.of]
  BY <1>1, <1>7, Zenon
<1>8. CASE JwksNext
  BY <1>2, <1>3, <1>4, <1>5, <1>6, <1>7, <1>8, KeySteps, Zenon
<1> QED BY <1>6, <1>8

-----------------------------------------------------------------------------
(* A fetch is out no longer than its timer, and what it brings is of its     *)
(* time.                                                                     *)
LEMMA FlyKept ==
  ASSUME ConfigAssumption, KeysTyped, Seen, Kept, Fly, [JwksNext]_jwksVars
  PROVE  Fly'
<1>1. SUFFICES ASSUME NEW i \in Issuer
               PROVE  /\ \A f, g \in flights'[i] : f = g
                      /\ \A f \in flights'[i] :
                           /\ f.began <= now' /\ now' <= f.began + Timeout
                           /\ cache'[i] # None => cache'[i].of <= f.began
                           /\ f.document # None => /\ f.began <= f.document.of
                                                   /\ PublishedNext(i, f.document.keys, f.document.of)
  BY DEF Fly, PublishedAt, PublishedNext
<1>2. now \in Int /\ Timeout \in Nat /\ now' \in Int /\ now <= now' /\ (now' = now \/ Tick)
      /\ flights[i] \in SUBSET Flight /\ cache[i] \in KeySet \cup {None} /\ published[i] \in SUBSET Key
  BY ClockStep, CooldownPositive DEF KeysTyped
<1>3. ASSUME NEW f \in flights[i]
      PROVE  /\ f.began \in Int /\ f.began <= now' /\ now' <= f.began + Timeout
             /\ cache[i] # None => cache[i].of <= f.began
             /\ f.document # None => /\ f.began <= f.document.of
                                     /\ PublishedNext(i, f.document.keys, f.document.of)
  <2>1. f.began \in Int /\ f.began <= now /\ now <= f.began + Timeout
    BY <1>2 DEF Fly, Flight
  <2>2. now' <= f.began + Timeout
    BY <1>2, <2>1 DEF Tick
  <2>3. f.document # None => f.document.of \in Int /\ PublishedAt(i, f.document.keys, f.document.of)
    BY <1>2 DEF Fly, Flight, Document
  <2>4. f.document # None => PublishedNext(i, f.document.keys, f.document.of)
    BY <2>3, PublishedKept
  <2> QED BY <1>2, <2>1, <2>2, <2>4 DEF Fly
<1>4. CASE flights'[i] = {}
  BY <1>4
<1>5. flights'[i] # {} => cache'[i] = cache[i]
  <2>1. ASSUME NEW f \in flights[i], Fills(i, f) PROVE flights'[i] = {}
    BY <2>1 DEF Fills, Land, KeysTyped, Fly
  <2> QED BY <2>1, CacheStep
<1>6. CASE flights'[i] = flights[i]
  BY <1>3, <1>4, <1>5, <1>6 DEF Fly
<1>7. ASSUME NEW f \in flights[i], Answer(i, f),
             flights'[i] = {[f EXCEPT !.document = [keys |-> published[i], of |-> now]]}
      PROVE  /\ \A g, h \in flights'[i] : g = h
             /\ \A g \in flights'[i] :
                  /\ g.began <= now' /\ now' <= g.began + Timeout
                  /\ cache'[i] # None => cache'[i].of <= g.began
                  /\ g.document # None => /\ g.began <= g.document.of
                                          /\ PublishedNext(i, g.document.keys, g.document.of)
  <2> DEFINE g == [f EXCEPT !.document = [keys |-> published[i], of |-> now]]
  <2>1. g.began = f.began /\ g.document.keys = published[i] /\ g.document.of = now
    BY <1>2 DEF Flight
  <2>2. PublishedAt(i, published[i], now)
    BY <1>2 DEF Seen, Stamp, PublishedAt
  <2>3. PublishedNext(i, published[i], now)
    BY <1>2, <2>2, PublishedKept
  <2>4. f.began <= now
    BY DEF Fly
  <2>5. flights'[i] = {g} /\ cache'[i] = cache[i]
    BY <1>5, <1>7
  <2> HIDE DEF g
  <2> QED BY <1>3, <2>1, <2>3, <2>4, <2>5
<1>8. ASSUME NEW r \in Request, NEW t \in Token, Asks(r, t), flights[i] = {},
             flights'[i] = {[began |-> now, document |-> None, waiting |-> {r}]}
      PROVE  /\ \A g, h \in flights'[i] : g = h
             /\ \A g \in flights'[i] :
                  /\ g.began <= now' /\ now' <= g.began + Timeout
                  /\ cache'[i] # None => cache'[i].of <= g.began
                  /\ g.document # None => /\ g.began <= g.document.of
                                          /\ PublishedNext(i, g.document.keys, g.document.of)
  <2>1. now' = now /\ cache'[i] = cache[i]
    BY <1>8 DEF Asks
  <2>2. cache[i] # None => cache[i].of <= now
    BY DEF Kept, PublishedAt
  <2> QED BY <1>2, <1>8, <2>1, <2>2
<1>9. ASSUME NEW r \in Request, NEW t \in Token, NEW f \in flights[i],
             flights'[i] = {[f EXCEPT !.waiting = @ \cup {r}]}
      PROVE  /\ \A g, h \in flights'[i] : g = h
             /\ \A g \in flights'[i] :
                  /\ g.began <= now' /\ now' <= g.began + Timeout
                  /\ cache'[i] # None => cache'[i].of <= g.began
                  /\ g.document # None => /\ g.began <= g.document.of
                                          /\ PublishedNext(i, g.document.keys, g.document.of)
  <2> DEFINE g == [f EXCEPT !.waiting = @ \cup {r}]
  <2>1. g.began = f.began /\ g.document = f.document
    BY <1>2 DEF Flight
  <2>2. flights'[i] = {g} /\ cache'[i] = cache[i]
    BY <1>5, <1>9
  <2> HIDE DEF g
  <2> QED BY <1>3, <2>1, <2>2
<1> QED BY <1>4, <1>6, <1>7, <1>8, <1>9, FlightSteps

(* A kept set is of its moment, and expires in time.                         *)
LEMMA KeptKept ==
  ASSUME ConfigAssumption, KeysTyped, Seen, Kept, Fly, [JwksNext]_jwksVars
  PROVE  Kept'
<1>1. SUFFICES ASSUME NEW i \in Issuer, cache'[i] # None
               PROVE  /\ ~Invalid(cache'[i].keys) /\ PublishedNext(i, cache'[i].keys, cache'[i].of)
                      /\ cache'[i].expiresAt \in 1..now' + Ttl
                      /\ cache'[i].expiresAt <= cache'[i].of + Timeout + Ttl
  BY DEF Kept, PublishedAt, PublishedNext, Invalid
<1>2. now \in Nat /\ Timeout \in Nat /\ Ttl \in Nat /\ Ttl > 0 /\ now' \in Int /\ now <= now'
  BY ClockStep, CooldownPositive DEF KeysTyped
<1>3. CASE cache'[i] = cache[i]
  <2>1. cache[i] \in KeySet
    BY <1>1, <1>3 DEF KeysTyped
  <2>2. cache[i].of \in Int /\ PublishedAt(i, cache[i].keys, cache[i].of)
    BY <1>1, <1>3, <2>1 DEF Kept, KeySet
  <2>3. PublishedNext(i, cache[i].keys, cache[i].of)
    BY <2>2, PublishedKept
  <2>4. cache[i].expiresAt \in 1..now' + Ttl
    BY <1>1, <1>2, <1>3 DEF Kept
  <2> QED BY <1>1, <1>3, <2>3, <2>4 DEF Kept
<1>4. ASSUME NEW f \in flights[i], Fills(i, f),
             cache'[i] = [expiresAt |-> now + Ttl, keys |-> f.document.keys, of |-> f.document.of]
      PROVE  /\ ~Invalid(cache'[i].keys) /\ PublishedNext(i, cache'[i].keys, cache'[i].of)
             /\ cache'[i].expiresAt \in 1..now' + Ttl
             /\ cache'[i].expiresAt <= cache'[i].of + Timeout + Ttl
  <2>1. f \in Flight /\ f.document # None /\ ~Invalid(f.document.keys) /\ now' = now
    BY <1>4 DEF Fills, KeysTyped
  <2>2. f.began \in Int /\ f.document.of \in Int /\ f.began <= f.document.of /\ now <= f.began + Timeout
        /\ PublishedAt(i, f.document.keys, f.document.of)
    BY <2>1 DEF Flight, Document, Fly
  <2>3. PublishedNext(i, f.document.keys, f.document.of)
    BY <2>2, PublishedKept
  <2>4. cache'[i].expiresAt = now + Ttl /\ cache'[i].keys = f.document.keys /\ cache'[i].of = f.document.of
    BY <1>4
  <2> QED BY <1>2, <2>1, <2>2, <2>3, <2>4
<1> QED BY <1>3, <1>4, CacheStep

-----------------------------------------------------------------------------
(* What a landing fetch answers: the requests that wait for it, and no       *)
(* others.                                                                   *)
LEMMA LandStep ==
  ASSUME KeysTyped, Waits, NEW i \in Issuer, NEW f \in flights[i], NEW out \in [Token -> Outcome], Land(i, f, out)
  PROVE  /\ \A r \in f.waiting :
              /\ r \in Request /\ requests[r].pc = "wait" /\ requests[r].token \in Token
              /\ requests'[r].pc = "done" /\ requests'[r].token = requests[r].token
              /\ requests'[r].outcome = out[requests[r].token] /\ requests'[r].at = now
         /\ \A r \in Request \ f.waiting : requests'[r] = requests[r]
         /\ flights'[i] = flights[i] \ {f} /\ \A j \in Issuer \ {i} : flights'[j] = flights[j]
<1>1. f \in Flight /\ flights \in [Issuer -> SUBSET Flight]
  BY DEF KeysTyped
<1>2. \A r \in f.waiting : r \in Request /\ requests[r].pc = "wait"
  BY <1>1 DEF Waits, Flight
<1>3. \A r \in f.waiting : requests[r].token \in Token
  BY <1>2 DEF KeysTyped, Standing, Idle
<1>4. requests' = [r \in Request |-> IF r \in f.waiting THEN Done(requests[r].token, out[requests[r].token])
                                     ELSE requests[r]]
  BY DEF Land
<1>5. flights' = [flights EXCEPT ![i] = @ \ {f}]
  BY DEF Land
<1>6. \A r \in f.waiting : requests'[r] = Done(requests[r].token, out[requests[r].token])
  BY <1>2, <1>4
<1>7. \A r \in Request \ f.waiting : requests'[r] = requests[r]
  BY <1>4
<1>8. ASSUME NEW r \in f.waiting
      PROVE  /\ requests'[r].pc = "done" /\ requests'[r].token = requests[r].token
             /\ requests'[r].outcome = out[requests[r].token] /\ requests'[r].at = now
  <2> DEFINE t == requests[r].token
             o == out[t]
  <2>1. requests'[r] = Done(t, o)
    BY <1>6
  <2> HIDE DEF t, o
  <2>2. requests'[r] = [pc |-> "done", token |-> t, outcome |-> o, at |-> now]
    BY <2>1, Zenon DEF Done
  <2>3. requests'[r].pc = "done" /\ requests'[r].token = t /\ requests'[r].outcome = o /\ requests'[r].at = now
    BY <2>2
  <2> QED BY <2>3 DEF t, o
<1>9. flights'[i] = flights[i] \ {f} /\ \A j \in Issuer \ {i} : flights'[j] = flights[j]
  BY <1>1, <1>5
<1> QED BY <1>2, <1>3, <1>7, <1>8, <1>9
(* What a fetch that ends answers: by the set it brings, or with a failure.  *)
LEMMA EndStep ==
  ASSUME ConfigAssumption, KeysTyped, Waits, NEW i \in Issuer, NEW f \in flights[i], Fills(i, f) \/ Drops(i, f)
  PROVE  /\ \A r \in f.waiting :
              /\ r \in Request /\ requests[r].pc = "wait" /\ requests[r].token \in Token
              /\ requests'[r].pc = "done" /\ requests'[r].token = requests[r].token /\ requests'[r].at = now
              /\ requests'[r].outcome = IF Fills(i, f) THEN WithSet(requests[r].token, f.document.keys)
                                        ELSE "AUTHENTICATION_DEPENDENCY_FAILURE"
         /\ \A r \in Request \ f.waiting : requests'[r] = requests[r]
         /\ flights'[i] = flights[i] \ {f} /\ \A j \in Issuer \ {i} : flights'[j] = flights[j]
<1>1. CASE Fills(i, f)
  <2> DEFINE out == [t \in Token |-> WithSet(t, f.document.keys)]
  <2>1. out \in [Token -> Outcome]
    BY DecidedWithSet DEF Outcome
  <2>2. Land(i, f, out)
    BY <1>1 DEF Fills
  <2>3. \A t \in Token : out[t] = WithSet(t, f.document.keys)
    OBVIOUS
  <2> HIDE DEF out
  <2> QED BY <1>1, <2>1, <2>2, <2>3, LandStep
<1>2. CASE ~Fills(i, f)
  <2> DEFINE out == [t \in Token |-> "AUTHENTICATION_DEPENDENCY_FAILURE"]
  <2>1. out \in [Token -> Outcome]
    BY DEF Outcome
  <2>2. Land(i, f, out)
    BY <1>2 DEF Drops, Dropped
  <2>3. \A t \in Token : out[t] = "AUTHENTICATION_DEPENDENCY_FAILURE"
    OBVIOUS
  <2> HIDE DEF out
  <2> QED BY <1>2, <2>1, <2>2, <2>3, LandStep
<1> QED BY <1>1, <1>2

(* A waiting request of a fetch, as Waits has it, and as it is next.         *)
WaitsFor(i, f, r) ==
  LET t == requests[r].token IN
  /\ requests[r].pc = "wait" /\ Verified(t, i)
  /\ f.began < t.exp + ClockSkew /\ (t.nbf # None => now + ClockSkew >= t.nbf)

(* Exactly the requests that wait for a fetch wait, each of them permitted.  *)
LEMMA WaitsKept ==
  ASSUME ConfigAssumption, KeysTyped, Fly, Waits, [JwksNext]_jwksVars
  PROVE  Waits'
<1>1. now \in Int /\ ClockSkew \in Int /\ now' \in Int /\ now <= now'
  BY ClockStep, CooldownPositive DEF KeysTyped
<1>2. ASSUME UNCHANGED requests, \A i \in Issuer : \A g \in flights'[i] : \E f \in flights[i] :
               g.began = f.began /\ g.waiting = f.waiting,
             \A i \in Issuer : \A f \in flights[i] : \E g \in flights'[i] : g.waiting = f.waiting
      PROVE  Waits'
  <2>1. ASSUME NEW i \in Issuer, NEW g \in flights'[i], NEW r \in g.waiting PROVE WaitsFor(i, g, r)'
    <3>1. PICK f \in flights[i] : g.began = f.began /\ g.waiting = f.waiting
      BY <1>2
    <3>2. requests[r].token \in Token /\ WaitsFor(i, f, r)
      <4>1. WaitsFor(i, f, r) /\ f.waiting \subseteq Request
        BY <2>1, <3>1 DEF Waits, WaitsFor, KeysTyped, Flight
      <4> QED BY <2>1, <3>1, <4>1 DEF KeysTyped, Standing, Idle, WaitsFor
    <3> QED BY <1>1, <1>2, <3>1, <3>2 DEF WaitsFor, Verified, ConfigAssumption
  <2>2. ASSUME NEW r \in Request, requests'[r].pc = "wait"
        PROVE  requests'[r].token.iss \in Issuer /\ \E g \in flights'[requests'[r].token.iss] : r \in g.waiting
    BY <1>2, <2>2 DEF Waits
  <2> QED BY <2>1, <2>2 DEF Waits, WaitsFor
<1>3. ASSUME UNCHANGED <<requests, flights>> PROVE Waits'
  BY <1>2, <1>3
<1>4. ASSUME NEW i \in Issuer, NEW f \in flights[i], Answer(i, f) PROVE Waits'
  <2> DEFINE g == [f EXCEPT !.document = [keys |-> published[i], of |-> now]]
  <2>1. g.began = f.began /\ g.waiting = f.waiting /\ flights \in [Issuer -> SUBSET Flight]
    BY DEF KeysTyped, Flight
  <2>2. UNCHANGED requests /\ flights' = [flights EXCEPT ![i] = (@ \ {f}) \cup {g}]
    BY <1>4 DEF Answer
  <2> HIDE DEF g
  <2>3. flights'[i] = (flights[i] \ {f}) \cup {g} /\ \A j \in Issuer \ {i} : flights'[j] = flights[j]
    BY <2>1, <2>2
  <2> QED BY <1>2, <2>1, <2>2, <2>3
<1>5. ASSUME NEW i \in Issuer, NEW f \in flights[i], Fills(i, f) \/ Drops(i, f) PROVE Waits'
  <2>1. UNCHANGED now /\ flights \in [Issuer -> SUBSET Flight]
    BY <1>5 DEF Fills, Drops, Dropped, KeysTyped
  <2>2. \A r \in f.waiting : requests[r].token.iss = i /\ requests'[r].pc = "done"
    <3>1. \A r \in f.waiting : requests'[r].pc = "done"
      BY <1>5, EndStep
    <3>2. \A r \in f.waiting : requests[r].token.iss = i
      BY DEF Waits, Verified
    <3> QED BY <3>1, <3>2
  <2>3. \A r \in Request \ f.waiting : requests'[r] = requests[r]
    BY <1>5, EndStep
  <2>4. flights'[i] = flights[i] \ {f} /\ \A j \in Issuer \ {i} : flights'[j] = flights[j]
    BY <1>5, EndStep
  <2>5. ASSUME NEW j \in Issuer, NEW g \in flights'[j], NEW r \in g.waiting PROVE WaitsFor(j, g, r)'
    <3>1. g \in flights[j] /\ j # i
      BY <2>4 DEF Fly
    <3>2. WaitsFor(j, g, r) /\ r \in Request
      BY <2>1, <3>1 DEF Waits, WaitsFor, Flight
    <3>3. r \notin f.waiting
      BY <2>2, <3>1, <3>2 DEF WaitsFor, Verified
    <3> QED BY <2>1, <2>3, <3>2, <3>3 DEF WaitsFor, Verified
  <2>6. ASSUME NEW r \in Request, requests'[r].pc = "wait"
        PROVE  requests'[r].token.iss \in Issuer /\ \E g \in flights'[requests'[r].token.iss] : r \in g.waiting
    <3>1. r \notin f.waiting /\ requests'[r] = requests[r]
      BY <2>2, <2>3, <2>6
    <3>2. PICK g \in flights[requests[r].token.iss] : r \in g.waiting
      BY <2>6, <3>1 DEF Waits
    <3>3. requests[r].token.iss \in Issuer
      BY <2>6, <3>1 DEF Waits
    <3> QED BY <2>4, <3>1, <3>2, <3>3
  <2> QED BY <2>5, <2>6 DEF Waits, WaitsFor
<1>6. ASSUME NEW r \in Request, NEW t \in Token, AnswersAtOnce(r, t) \/ Asks(r, t)
      PROVE  /\ \A i \in Issuer : \A f \in flights[i] : r \notin f.waiting
             /\ UNCHANGED now /\ \A x \in Request \ {r} : requests'[x] = requests[x]
  <2>1. requests[r].pc = "idle" /\ UNCHANGED now /\ \A x \in Request \ {r} : requests'[x] = requests[x]
    BY <1>6 DEF AnswersAtOnce, Asks, Ask, Idle, KeysTyped
  <2> QED BY <2>1 DEF Waits
<1>7. ASSUME NEW r \in Request, NEW t \in Token, AnswersAtOnce(r, t) PROVE Waits'
  <2>1. requests'[r].pc = "done" /\ UNCHANGED flights
    BY <1>7 DEF AnswersAtOnce, Done, KeysTyped
  <2>2. ASSUME NEW j \in Issuer, NEW g \in flights'[j], NEW x \in g.waiting PROVE WaitsFor(j, g, x)'
    <3>1. x \in Request /\ x # r /\ WaitsFor(j, g, x)
      BY <1>6, <1>7, <2>1 DEF Waits, WaitsFor, KeysTyped, Flight
    <3> QED BY <1>6, <1>7, <3>1 DEF WaitsFor, Verified
  <2>3. ASSUME NEW x \in Request, requests'[x].pc = "wait"
        PROVE  requests'[x].token.iss \in Issuer /\ \E g \in flights'[requests'[x].token.iss] : x \in g.waiting
    <3>1. x # r
      BY <2>1, <2>3
    <3> QED BY <1>6, <1>7, <2>1, <2>3, <3>1 DEF Waits
  <2> QED BY <2>2, <2>3 DEF Waits, WaitsFor
<1>8. ASSUME NEW r \in Request, NEW t \in Token, Asks(r, t) PROVE Waits'
  <2>1. Verified(t, t.iss) /\ t.iss \in Issuer /\ now < t.exp + ClockSkew
        /\ (t.nbf # None => now + ClockSkew >= t.nbf) /\ t.exp \in Int
    BY <1>8, RefusedOrPermitted DEF Asks, ConfigAssumption
  <2>2. requests'[r] = [pc |-> "wait", token |-> t]
    BY <1>8 DEF Asks, Ask, KeysTyped
  <2>3. \A j \in Issuer : flights'[j] = IF j # t.iss THEN flights[j]
          ELSE IF flights[j] = {} THEN {[began |-> now, document |-> None, waiting |-> {r}]}
          ELSE {[f EXCEPT !.waiting = @ \cup {r}] : f \in flights[j]}
    BY <1>8, <2>1 DEF Asks, Ask, Refresh, KeysTyped
  <2>4. ASSUME NEW j \in Issuer, NEW g \in flights'[j]
        PROVE  \/ g.began = now /\ g.waiting = {r} /\ j = t.iss
               \/ \E f \in flights[j] : /\ g.began = f.began /\ f.began <= now
                                         /\ g.waiting \subseteq f.waiting \cup {r} /\ (r \in g.waiting => j = t.iss)
    <3>1. CASE j = t.iss /\ flights[j] = {}
      <4>1. flights'[j] = {[began |-> now, document |-> None, waiting |-> {r}]}
        BY <2>3, <3>1
      <4>2. g = [began |-> now, document |-> None, waiting |-> {r}]
        BY <4>1
      <4>3. g.began = now /\ g.waiting = {r}
        BY <4>2
      <4> QED BY <3>1, <4>3
    <3>2. CASE j # t.iss
      BY <1>6, <1>8, <2>3, <3>2 DEF Fly
    <3>3. CASE j = t.iss /\ flights[j] # {}
      <4>4. flights'[j] = {[f EXCEPT !.waiting = @ \cup {r}] : f \in flights[j]}
        BY <2>3, <3>3
      <4>1. PICK f \in flights[j] : g = [f EXCEPT !.waiting = @ \cup {r}]
        BY <4>4, Zenon
      <4>2. f \in Flight
        BY DEF KeysTyped
      <4>3. g.began = f.began /\ g.waiting = f.waiting \cup {r}
        BY <4>1, <4>2 DEF Flight
      <4> QED BY <3>3, <4>3 DEF Fly
    <3> QED BY <3>1, <3>2, <3>3
  <2>5. ASSUME NEW j \in Issuer, NEW g \in flights'[j], NEW x \in g.waiting PROVE WaitsFor(j, g, x)'
    <3>1. CASE x = r
      <4>1. j = t.iss
        BY <1>6, <1>8, <2>4, <3>1
      <4>2. g.began \in Int /\ g.began <= now
        BY <1>1, <2>4 DEF KeysTyped, Flight
      <4> QED BY <1>1, <1>6, <1>8, <2>1, <2>2, <3>1, <4>1, <4>2 DEF WaitsFor, Verified
    <3>2. CASE x # r
      <4>1. PICK f \in flights[j] : g.began = f.began /\ x \in f.waiting
        BY <2>4, <3>2
      <4>2. WaitsFor(j, f, x) /\ x \in Request
        BY <4>1 DEF Waits, WaitsFor, KeysTyped, Flight
      <4> QED BY <1>6, <1>8, <3>2, <4>1, <4>2 DEF WaitsFor, Verified
    <3> QED BY <3>1, <3>2
  <2>6. \A j \in Issuer : \A f \in flights[j] : \E g \in flights'[j] : f.waiting \subseteq g.waiting
    <3> SUFFICES ASSUME NEW j \in Issuer, NEW f \in flights[j] PROVE \E g \in flights'[j] : f.waiting \subseteq g.waiting
      OBVIOUS
    <3>1. CASE j # t.iss
      BY <2>3, <3>1
    <3>2. CASE j = t.iss
      <4> DEFINE g == [f EXCEPT !.waiting = @ \cup {r}]
      <4>1. g \in flights'[j]
        BY <2>3, <3>2
      <4>2. g.waiting = f.waiting \cup {r}
        BY DEF KeysTyped, Flight
      <4> QED BY <4>1, <4>2
    <3> QED BY <3>1, <3>2
  <2>7. \E g \in flights'[t.iss] : r \in g.waiting
    <3>1. CASE flights[t.iss] = {}
      <4>1. flights'[t.iss] = {[began |-> now, document |-> None, waiting |-> {r}]}
        BY <2>1, <2>3, <3>1
      <4>2. [began |-> now, document |-> None, waiting |-> {r}] \in flights'[t.iss]
        BY <4>1
      <4>3. [began |-> now, document |-> None, waiting |-> {r}].waiting = {r}
        OBVIOUS
      <4> QED BY <4>2, <4>3, Zenon
    <3>2. CASE flights[t.iss] # {}
      <4>1. PICK f \in flights[t.iss] : TRUE
        BY <3>2
      <4> DEFINE g == [f EXCEPT !.waiting = @ \cup {r}]
      <4>2. g \in flights'[t.iss]
        BY <2>1, <2>3, <3>2
      <4>3. g.waiting = f.waiting \cup {r}
        BY <2>1 DEF KeysTyped, Flight
      <4> QED BY <4>2, <4>3
    <3> QED BY <3>1, <3>2
  <2>8. ASSUME NEW x \in Request, requests'[x].pc = "wait"
        PROVE  requests'[x].token.iss \in Issuer /\ \E g \in flights'[requests'[x].token.iss] : x \in g.waiting
    <3>1. CASE x = r
      BY <2>1, <2>2, <2>7, <3>1
    <3>2. CASE x # r
      <4>1. requests'[x] = requests[x]
        BY <1>6, <1>8, <3>2
      <4>2. requests[x].token.iss \in Issuer /\ \E f \in flights[requests[x].token.iss] : x \in f.waiting
        BY <2>8, <4>1 DEF Waits
      <4> QED BY <2>6, <4>1, <4>2
    <3> QED BY <3>1, <3>2
  <2> QED BY <2>5, <2>8 DEF Waits, WaitsFor
<1>9. CASE Tick \/ UNCHANGED jwksVars \/ \E i \in Issuer, k \in Key : Publish(i, k)
  BY <1>3, <1>9 DEF Tick, Publish, jwksVars
<1> QED BY <1>4, <1>5, <1>7, <1>8, <1>9, KeySteps

-----------------------------------------------------------------------------
(* Fetches for unknown keys keep their distance, and the last one is out,    *)
(* failed, or brought a set of its time.                                     *)
LEMMA AskedKept ==
  ASSUME ConfigAssumption, KeysTyped, Fly, Waits, Asked, [JwksNext]_jwksVars
  PROVE  Asked'
<1> DEFINE AskedOf(i) ==
      /\ lastUnknown[i] = Never \/ lastUnknown[i] \in 0..now
      /\ \A a \in fetches[i] : a <= lastUnknown[i]
      /\ \A a, b \in fetches[i] : a < b => b - a >= Cooldown
      /\ flights[i] = {} /\ lastUnknown[i] # Never =>
           \/ lastFailed[i] >= lastUnknown[i]
           \/ (cache[i] # None => cache[i].of + Timeout >= lastUnknown[i])
<1>1. SUFFICES ASSUME NEW i \in Issuer PROVE AskedOf(i)'
  BY DEF Asked
<1>2. AskedOf(i)
  BY DEF Asked
<1>3. now \in Int /\ now >= 0 /\ Timeout \in Nat /\ Cooldown \in Nat /\ lastUnknown[i] \in Int /\ fetches[i] \in SUBSET Int
      /\ Cooldown' = Cooldown /\ Never' = Never /\ Never \in Int
  BY CooldownPositive DEF KeysTyped, Cooldown, Never
<1>4. now' \in Int /\ now <= now'
  BY ClockStep
<1>5. ASSUME lastUnknown'[i] = lastUnknown[i], fetches'[i] = fetches[i],
             flights'[i] = {} /\ lastUnknown[i] # Never =>
               \/ lastFailed'[i] >= lastUnknown[i]
               \/ (cache'[i] # None => cache'[i].of + Timeout >= lastUnknown[i])
      PROVE  AskedOf(i)'
  <2>1. lastUnknown'[i] = Never \/ lastUnknown'[i] \in 0..now'
    BY <1>2, <1>3, <1>4, <1>5
  <2> QED BY <1>2, <1>3, <1>5, <2>1
<1>6. ASSUME lastUnknown'[i] = lastUnknown[i], fetches'[i] = fetches[i], cache'[i] = cache[i],
             lastFailed'[i] = lastFailed[i], flights'[i] = flights[i] \/ flights'[i] # {}
      PROVE  AskedOf(i)'
  BY <1>2, <1>5, <1>6
<1>7. CASE Tick \/ UNCHANGED jwksVars \/ \E j \in Issuer, k \in Key : Publish(j, k)
  BY <1>6, <1>7 DEF Tick, Publish, jwksVars
<1>8. ASSUME NEW r \in Request, NEW t \in Token, AnswersAtOnce(r, t) PROVE AskedOf(i)'
  BY <1>6, <1>8 DEF AnswersAtOnce
<1>9. ASSUME NEW j \in Issuer, NEW f \in flights[j], Answer(j, f) PROVE AskedOf(i)'
  <2>1. flights'[i] = flights[i] \/ flights'[i] # {}
    BY <1>9 DEF Answer, KeysTyped
  <2> QED BY <1>6, <1>9, <2>1 DEF Answer
<1>10. ASSUME NEW j \in Issuer, NEW f \in flights[j], Fills(j, f) \/ Drops(j, f) PROVE AskedOf(i)'
  <2>1. UNCHANGED <<now, lastUnknown, fetches>>
    BY <1>10 DEF Fills, Drops, Dropped
  <2>2. CASE j # i
    <3>1. cache'[i] = cache[i] /\ lastFailed'[i] = lastFailed[i]
      BY <1>10, <2>2 DEF Fills, Drops, Dropped, KeysTyped
    <3>2. flights'[i] = flights[i]
      BY <1>10, <2>2, EndStep
    <3> QED BY <1>6, <2>1, <3>1, <3>2
  <2>3. CASE j = i /\ Drops(i, f)
    <3>1. lastFailed'[i] = now
      BY <2>3 DEF Drops, Dropped, KeysTyped
    <3> QED BY <1>2, <1>3, <1>5, <2>1, <3>1
  <2>4. CASE j = i /\ Fills(i, f)
    <3>1. f.document # None /\ f \in Flight
      BY <2>4 DEF Fills, KeysTyped
    <3>2. f.began \in Int /\ f.document.of \in Int /\ f.began <= f.document.of /\ now <= f.began + Timeout
      BY <2>4, <3>1 DEF Flight, Document, Fly
    <3>3. cache'[i] = [expiresAt |-> now + Ttl, keys |-> f.document.keys, of |-> f.document.of]
      BY <2>4 DEF Fills, KeysTyped
    <3>4. cache'[i].of = f.document.of
      BY <3>3
    <3> QED BY <1>2, <1>3, <1>5, <2>1, <3>2, <3>4
  <2> QED BY <1>10, <2>2, <2>3, <2>4
<1>11. ASSUME NEW r \in Request, NEW t \in Token, Asks(r, t) PROVE AskedOf(i)'
  <2>1. UNCHANGED <<now, cache, lastFailed>> /\ t.iss \in Issuer
    BY <1>11, RefusedOrPermitted DEF Asks
  <2>2. CASE t.iss # i
    <3>1. flights'[i] = flights[i] /\ lastUnknown'[i] = lastUnknown[i] /\ fetches'[i] = fetches[i]
      BY <1>11, <2>1, <2>2 DEF Asks, Ask, Refresh, KeysTyped
    <3> QED BY <1>6, <2>1, <3>1
  <2>3. CASE t.iss = i
    <3>1. flights'[i] # {}
      <4>1. flights'[i] = IF flights[i] = {} THEN {[began |-> now, document |-> None, waiting |-> {r}]}
                          ELSE {[f EXCEPT !.waiting = @ \cup {r}] : f \in flights[i]}
        BY <1>11, <2>1, <2>3 DEF Asks, Ask, Refresh, KeysTyped
      <4> QED BY <4>1
    <3>2. CASE ~Current(i)
      <4>1. lastUnknown'[i] = lastUnknown[i] /\ fetches'[i] = fetches[i]
        BY <1>11, <2>1, <2>3, <3>2 DEF Asks, Ask, KeysTyped
      <4> QED BY <1>6, <2>1, <3>1, <4>1
    <3>3. CASE Current(i)
      <4>1. lastUnknown'[i] = now /\ (fetches'[i] = fetches[i] \/ fetches'[i] = fetches[i] \cup {now})
        BY <1>11, <2>1, <2>3, <3>3 DEF Asks, Ask, KeysTyped
      <4>2. now - lastUnknown[i] >= Cooldown
        BY <1>3, <1>11, <2>3, <3>3 DEF Asks, Cooling
      <4>3. \A a \in fetches[i] : a \in Int /\ a <= lastUnknown[i] /\ now - a >= Cooldown
        BY <1>2, <1>3, <4>2
      <4>4. \A a \in fetches'[i] : a <= lastUnknown'[i]
        BY <1>3, <4>1, <4>3
      <4>5. \A a, b \in fetches'[i] : a < b => b - a >= Cooldown
        BY <1>2, <1>3, <4>1, <4>3
      <4>6. lastUnknown'[i] \in 0..now'
        BY <1>3, <2>1, <4>1
      <4> QED BY <1>3, <3>1, <4>4, <4>5, <4>6
    <3> QED BY <3>2, <3>3
  <2> QED BY <2>2, <2>3
<1> QED BY <1>7, <1>8, <1>9, <1>10, <1>11, KeySteps

(* What is accepted is accepted under a key the issuer published lately, in  *)
(* the time of the credential; nothing that happens later takes that back.   *)
LEMMA AnswersKept ==
  ASSUME ConfigAssumption, KeysTyped, Seen, Kept, Fly, Waits, Answers, [JwksNext]_jwksVars
  PROVE  Answers'
<1> DEFINE AcceptedNext(q) ==
      /\ q.token.iss \in Issuer /\ q.token.signer \in DOMAIN seen'[q.token.iss]
      /\ q.at - seen'[q.token.iss][q.token.signer].until < Ttl + Timeout
      /\ q.at < q.token.exp + ClockSkew + Timeout
      /\ q.token.nbf # None => q.at + ClockSkew >= q.token.nbf
      /\ audienceMatches(q.token.aud, Config[q.token.iss].audiences)
      /\ q.token.signer.kty = "RSA" /\ q.token.signer.use # "enc" /\ q.token.signer.bits >= MinBits
<1>1. SUFFICES ASSUME NEW r \in Request, requests'[r].pc = "done", requests'[r].outcome = "OK"
               PROVE  AcceptedNext(requests'[r])
  BY DEF Answers, Accepted, AcceptedSound, audienceMatches
<1>2. now \in Int /\ ClockSkew \in Nat /\ Ttl \in Nat /\ Timeout \in Nat /\ Ttl > 0
  BY CooldownPositive DEF KeysTyped
<1>3. CASE requests'[r] = requests[r]
  <2> DEFINE q == requests[r]
  <2>1. AcceptedSound(q)
    BY <1>1, <1>3 DEF Answers, Accepted
  <2>2. q.at \in Int
    BY <1>1, <1>3 DEF KeysTyped, Standing, Idle
  <2>3. q.token.iss \in Issuer /\ q.token.signer \in DOMAIN seen[q.token.iss]
        /\ q.at - seen[q.token.iss][q.token.signer].until < Ttl + Timeout
    BY <2>1 DEF AcceptedSound
  <2>4. \A j \in Issuer : Later(j)
    BY SeenGrows
  <2>5. q.token.signer \in DOMAIN seen'[q.token.iss]
        /\ seen'[q.token.iss][q.token.signer].until >= seen[q.token.iss][q.token.signer].until
    BY <2>3, <2>4 DEF Later
  <2>6. seen[q.token.iss][q.token.signer].until \in Int /\ seen'[q.token.iss][q.token.signer].until \in Int
    <3>1. Seen'
      BY SeenKept
    <3> QED BY <2>3, <2>5, <3>1 DEF Seen, Stamp
  <2>7. q.at - seen'[q.token.iss][q.token.signer].until < Ttl + Timeout
    BY <1>2, <2>2, <2>3, <2>5, <2>6
  <2>8. AcceptedNext(q)
    BY <2>1, <2>3, <2>5, <2>7 DEF AcceptedSound
  <2> QED BY <1>3, <2>8
<1>4. ASSUME NEW t \in Token, AnswersAtOnce(r, t), requests'[r] # requests[r] PROVE AcceptedNext(requests'[r])
  <2>1. PICK out : requests'[r] = Done(t, out)
    BY <1>4 DEF AnswersAtOnce, KeysTyped
  <2>2. requests'[r].token = t /\ requests'[r].at = now /\ out = "OK"
    BY <1>1, <2>1 DEF Done
  <2>3. Refused(t) = None /\ Current(t.iss) /\ WithSet(t, cache[t.iss].keys) = "OK"
    <3>1. CASE Refused(t) # None
      <4>1. requests'[r] = Done(t, Refused(t)) /\ Refused(t) \in Refusals
        BY <1>4, <3>1, RefusedOrPermitted DEF AnswersAtOnce, KeysTyped
      <4> QED BY <1>1, <4>1 DEF Done, Refusals
    <3>2. CASE Refused(t) = None
      <4>1. requests'[r] = Done(t, WithSet(t, cache[t.iss].keys)) /\ Current(t.iss)
        BY <1>4, <3>2 DEF AnswersAtOnce, KeysTyped
      <4> QED BY <1>1, <3>2, <4>1 DEF Done
    <3> QED BY <3>1, <3>2
  <2> DEFINE i == t.iss
  <2>4. i \in Issuer /\ Verified(t, i) /\ now < t.exp + ClockSkew
        /\ (t.nbf # None => now + ClockSkew >= t.nbf) /\ t.exp \in Int
    BY <2>3, RefusedOrPermitted DEF ConfigAssumption
  <2>5. t.signer \in cache[i].keys /\ t.signer.kty = "RSA" /\ t.signer.use # "enc" /\ t.signer.bits >= MinBits
    BY <2>3, DecidedWithSet
  <2>6. cache[i] # None /\ now < cache[i].expiresAt
    BY <1>2, <2>3, <2>4 DEF Current, KeysTyped, KeySet
  <2>7. cache[i].of \in Int /\ cache[i].expiresAt \in Int /\ cache[i].expiresAt <= cache[i].of + Timeout + Ttl
        /\ PublishedAt(i, cache[i].keys, cache[i].of)
    BY <2>4, <2>6 DEF Kept, KeysTyped, KeySet
  <2>8. t.signer \in DOMAIN seen[i] /\ seen[i][t.signer].until >= cache[i].of
        /\ seen[i][t.signer].until \in Int
    BY <2>4, <2>5, <2>7 DEF PublishedAt, Seen, Stamp
  <2>9. seen' = seen
    BY <1>4 DEF AnswersAtOnce
  <2>10. now - seen[i][t.signer].until < Ttl + Timeout /\ now < t.exp + ClockSkew + Timeout
    BY <1>2, <2>4, <2>6, <2>7, <2>8
  <2> QED BY <2>2, <2>4, <2>5, <2>8, <2>9, <2>10 DEF Verified
<1>5. ASSUME NEW i \in Issuer, NEW f \in flights[i], Fills(i, f) \/ Drops(i, f), requests'[r] # requests[r]
      PROVE  AcceptedNext(requests'[r])
  <2>1. r \in f.waiting /\ requests[r].token \in Token
    BY <1>5, EndStep
  <2> DEFINE t == requests[r].token
  <2>2. requests'[r].token = t /\ requests'[r].at = now
    BY <1>5, <2>1, EndStep
  <2>3. Fills(i, f) /\ WithSet(t, f.document.keys) = "OK"
    <3>1. requests'[r].outcome = IF Fills(i, f) THEN WithSet(t, f.document.keys)
                                 ELSE "AUTHENTICATION_DEPENDENCY_FAILURE"
      BY <1>5, <2>1, EndStep
    <3> QED BY <1>1, <3>1
  <2>4. Verified(t, i) /\ f.began < t.exp + ClockSkew /\ (t.nbf # None => now + ClockSkew >= t.nbf)
    BY <2>1 DEF Waits
  <2>5. t.signer \in f.document.keys /\ t.signer.kty = "RSA" /\ t.signer.use # "enc" /\ t.signer.bits >= MinBits
    BY <2>1, <2>3, DecidedWithSet
  <2>6. f \in Flight /\ f.document # None
    BY <2>3 DEF Fills, KeysTyped
  <2>7. f.began \in Int /\ f.document.of \in Int /\ f.began <= f.document.of /\ now <= f.began + Timeout
        /\ PublishedAt(i, f.document.keys, f.document.of)
    BY <2>6 DEF Flight, Document, Fly
  <2>8. t.signer \in DOMAIN seen[i] /\ seen[i][t.signer].until >= f.document.of
        /\ seen[i][t.signer].until \in Int
    BY <2>5, <2>7 DEF PublishedAt, Seen, Stamp
  <2>9. seen' = seen
    BY <2>3 DEF Fills
  <2>10. t.exp \in Int
    BY <2>1 DEF ConfigAssumption
  <2>11. now - seen[i][t.signer].until < Ttl + Timeout /\ now < t.exp + ClockSkew + Timeout
    BY <1>2, <2>4, <2>7, <2>8, <2>10
  <2>12. t.iss = i /\ audienceMatches(t.aud, Config[i].audiences)
    BY <2>4 DEF Verified
  <2> HIDE DEF t
  <2> QED BY <2>2, <2>4, <2>5, <2>8, <2>9, <2>11, <2>12
<1>6. ASSUME NEW x \in Request, NEW t \in Token, Asks(x, t) PROVE requests'[r] = requests[r]
  <2>1. requests' = [requests EXCEPT ![x] = [pc |-> "wait", token |-> t]]
    BY <1>6 DEF Asks, Ask
  <2>2. x # r
    BY <1>1, <2>1 DEF KeysTyped
  <2> QED BY <2>1, <2>2
<1>7. ASSUME NEW x \in Request, NEW t \in Token, AnswersAtOnce(x, t), x # r PROVE requests'[r] = requests[r]
  BY <1>7 DEF AnswersAtOnce, KeysTyped
<1>8. ASSUME NEW i \in Issuer, NEW f \in flights[i], Answer(i, f) PROVE requests' = requests
  BY <1>8 DEF Answer
<1>9. CASE Tick \/ UNCHANGED jwksVars \/ \E j \in Issuer, k \in Key : Publish(j, k)
  BY <1>3, <1>9 DEF Tick, Publish, jwksVars
<1> HIDE DEF AcceptedNext
<1>10. CASE JwksNext
  BY <1>3, <1>4, <1>5, <1>6, <1>7, <1>8, <1>9, <1>10, KeySteps, Zenon
<1> QED BY <1>9, <1>10

-----------------------------------------------------------------------------
(* The initial state fulfils the invariant of the keys.                      *)
LEMMA KeysInitially ==
  ASSUME ConfigAssumption, JwksInit
  PROVE  KeysInv
<1>1. Never \in Int
  BY CooldownPositive DEF Never
<1>2. \A r \in Request : requests[r].pc = "idle"
  BY DEF JwksInit, Idle
<1>3. KeysTyped
  BY <1>1 DEF JwksInit, KeysTyped, Standing, ConfigAssumption
<1>4. Seen
  BY DEF JwksInit, Seen
<1>5. Kept /\ Fly
  BY DEF JwksInit, Kept, Fly
<1>6. Waits /\ Answers
  BY <1>2 DEF JwksInit, Waits, Answers, Accepted
<1>7. Asked
  BY DEF JwksInit, Asked
<1> QED BY <1>3, <1>4, <1>5, <1>6, <1>7 DEF KeysInv

(* However issuers rotate keys and fetches are joined, late, unusable or     *)
(* lost: every kept set and every fetched one is what its issuer published   *)
(* at a known moment, every waiting request waits for a fetch, and what was  *)
(* accepted was accepted under a key published lately.                       *)
THEOREM KeysInvariant ==
  ASSUME ConfigAssumption
  PROVE  JwksSpec => []KeysInv
<1>1. JwksInit => KeysInv
  BY KeysInitially
<1>2. KeysInv /\ [JwksNext]_jwksVars => KeysInv'
  <2> SUFFICES ASSUME KeysInv, [JwksNext]_jwksVars PROVE KeysInv'
    OBVIOUS
  <2> USE DEF KeysInv
  <2>1. KeysTyped' /\ Seen'
    BY KeysTypedKept, SeenKept
  <2>2. Kept' /\ Fly'
    BY KeptKept, FlyKept
  <2>3. Waits' /\ Asked'
    BY WaitsKept, AskedKept
  <2>4. Answers'
    BY AnswersKept
  <2> QED BY <2>1, <2>2, <2>3, <2>4
<1> QED BY <1>1, <1>2, PTL DEF JwksSpec

-----------------------------------------------------------------------------
(* A valid set has at most MaxKeys keys and as many ids.                     *)
LEMMA IdsOfValidSet ==
  ASSUME ConfigAssumption, NEW keys \in SUBSET Key, ~Invalid(keys)
  PROVE  Cardinality({k.kid : k \in keys}) = Cardinality(keys) /\ Cardinality(keys) <= MaxKeys
<1> DEFINE ids == {k.kid : k \in keys}
           id == [k \in keys |-> k.kid]
<1>1. IsFiniteSet(keys) /\ Cardinality(keys) \in Nat
  BY FS_Subset, FS_CardinalityType DEF ConfigAssumption
<1>2. \A a, b \in keys : a.kid = b.kid => a = b
  BY DEF Invalid
<1>3. id \in Bijection(keys, ids)
  <2>1. id \in Injection(keys, ids)
    BY <1>2 DEF Injection, IsInjective
  <2>2. id \in Surjection(keys, ids)
    BY DEF Surjection
  <2> QED BY <2>1, <2>2 DEF Bijection
<1> HIDE DEF ids, id
<1>4. Cardinality(ids) = Cardinality(keys)
  BY <1>1, <1>3, FS_Bijection DEF ExistsBijection
<1>5. Cardinality(keys) <= MaxKeys
  <2>1. MaxKeys \in Nat /\ ~(Cardinality(keys) > MaxKeys)
    BY DEF Invalid, ConfigAssumption
  <2> QED BY <1>1, <2>1
<1> QED BY <1>4, <1>5 DEF ids

(* KeysSound, for any issuers, keys, credentials, requests and times: a kept *)
(* set is valid, a withdrawn key is trusted no longer than a cache and a     *)
(* fetch time, unknown ids ask once per cooldown, and a credential is        *)
(* accepted only in its time, for its audience and under a signing key.      *)
THEOREM KeysAreSound ==
  ASSUME ConfigAssumption
  PROVE  JwksSpec => []KeysSound
<1>1. KeysInv => JwksTypeOK
  <2> SUFFICES ASSUME KeysInv PROVE JwksTypeOK
    OBVIOUS
  <2>1. now \in 0..MaxTime /\ changes \in 0..MaxChanges
    BY DEF KeysInv, KeysTyped
  <2>2. ASSUME NEW i \in Issuer, cache[i] # None
        PROVE  /\ cache[i].expiresAt \in 1..now + Ttl
               /\ Cardinality({k.kid : k \in cache[i].keys}) = Cardinality(cache[i].keys)
               /\ Cardinality(cache[i].keys) <= MaxKeys
    <3>1. cache[i].keys \in SUBSET Key
      BY <2>2 DEF KeysInv, KeysTyped, KeySet
    <3>2. ~Invalid(cache[i].keys) /\ cache[i].expiresAt \in 1..now + Ttl
      BY <2>2 DEF KeysInv, Kept
    <3> QED BY <3>1, <3>2, IdsOfValidSet
  <2>3. ASSUME NEW i \in Issuer
        PROVE  UNION {f.waiting : f \in flights[i]}
                 = {r \in Request : requests[r].pc = "wait" /\ requests[r].token.iss = i}
    <3>1. \A f \in flights[i] : \A r \in f.waiting :
            r \in Request /\ requests[r].pc = "wait" /\ requests[r].token.iss = i
      BY DEF KeysInv, KeysTyped, Flight, Waits, Verified
    <3>2. \A r \in Request : requests[r].pc = "wait" /\ requests[r].token.iss = i =>
            \E f \in flights[i] : r \in f.waiting
      BY DEF KeysInv, Waits
    <3> QED BY <3>1, <3>2
  <2> QED BY <2>1, <2>2, <2>3 DEF JwksTypeOK
<1>2. KeysInv => RevocationTakesHold
  BY DEF KeysInv, Answers, AcceptedSound, RevocationTakesHold
<1>3. KeysInv => AcceptedInTime
  BY DEF KeysInv, Answers, AcceptedSound, AcceptedInTime, audienceMatches
<1>4. KeysInv => FetchesSpread
  BY DEF KeysInv, Asked, FetchesSpread
<1> QED BY <1>1, <1>2, <1>3, <1>4, KeysInvariant, PTL DEF KeysSound

-----------------------------------------------------------------------------
(* The set kept for an issuer is of no earlier a moment after a step.        *)
LEMMA NewerKept ==
  ASSUME ConfigAssumption, KeysInv, [JwksNext]_jwksVars
  PROVE  KeepsNewest
<1> USE DEF KeysInv
<1> SUFFICES ASSUME NEW i \in Issuer, cache[i] # None, cache'[i] # None
             PROVE  cache'[i].of >= cache[i].of
  BY DEF KeepsNewest
<1>1. cache[i].of \in Int
  BY DEF KeysTyped, KeySet
<1>2. ASSUME NEW f \in flights[i], Fills(i, f),
             cache'[i] = [expiresAt |-> now + Ttl, keys |-> f.document.keys, of |-> f.document.of]
      PROVE  cache'[i].of >= cache[i].of
  <2>1. f \in Flight /\ f.document # None
    BY <1>2 DEF Fills, KeysTyped
  <2>2. f.began \in Int /\ f.document.of \in Int /\ cache[i].of <= f.began /\ f.began <= f.document.of
    BY <2>1 DEF Flight, Document, Fly
  <2>3. cache'[i].of = f.document.of
    BY <1>2
  <2> QED BY <1>1, <2>2, <2>3
<1>3. CASE cache'[i] = cache[i]
  BY <1>1, <1>3
<1> QED BY <1>2, <1>3, CacheStep, Zenon

(* The only steps that change a finished request's answer give it.           *)
LEMMA DoneBy ==
  ASSUME ConfigAssumption, KeysInv, [JwksNext]_jwksVars,
         NEW r \in Request, requests'[r] # requests[r], requests'[r].pc = "done"
  PROVE  \/ \E t \in Token : AnswersAtOnce(r, t)
         \/ \E i \in Issuer : \E f \in flights[i] : r \in f.waiting /\ (Fills(i, f) \/ Drops(i, f))
<1> USE DEF KeysInv
<1>1. ASSUME NEW x \in Request, NEW t \in Token, Asks(x, t) PROVE FALSE
  <2>1. requests' = [requests EXCEPT ![x] = [pc |-> "wait", token |-> t]]
    BY <1>1 DEF Asks, Ask
  <2> QED BY <2>1 DEF KeysTyped
<1>2. ASSUME NEW x \in Request, NEW t \in Token, AnswersAtOnce(x, t) PROVE x = r
  BY <1>2 DEF AnswersAtOnce, KeysTyped
<1>3. ASSUME NEW i \in Issuer, NEW f \in flights[i], Fills(i, f) \/ Drops(i, f) PROVE r \in f.waiting
  BY <1>3, EndStep
<1>4. ASSUME NEW i \in Issuer, NEW f \in flights[i], Answer(i, f) PROVE FALSE
  BY <1>4 DEF Answer
<1>5. ~(Tick \/ UNCHANGED jwksVars \/ \E j \in Issuer, k \in Key : Publish(j, k))
  BY DEF Tick, Publish, jwksVars
<1>6. JwksNext
  BY <1>5
<1> QED BY <1>1, <1>2, <1>3, <1>4, <1>5, <1>6, KeySteps, Zenon

(* A key published for a cooldown and a fetch time is not answered as        *)
(* unknown, unless a fetch is out or failed lately.                          *)
LEMMA NewKeyFound ==
  ASSUME ConfigAssumption, KeysInv, [JwksNext]_jwksVars
  PROVE  FindsNewKey
<1> USE DEF KeysInv
<1> SUFFICES ASSUME NEW r \in Request, requests[r] # requests'[r], requests'[r].pc = "done",
                    requests'[r].outcome = "UNKNOWN_KEY", NEW k \in published[requests'[r].token.iss],
                    k.kid = requests'[r].token.kid, flights'[requests'[r].token.iss] = {},
                    ~(now - seen[requests'[r].token.iss][k].since < Cooldown + Timeout)
             PROVE  now - lastFailed[requests'[r].token.iss] < Cooldown
  BY DEF FindsNewKey
<1>1. now \in Int /\ Cooldown \in Nat /\ Cooldown >= 1 /\ Timeout \in Nat /\ Never \in Int
      /\ now - Never >= Cooldown
  BY CooldownPositive DEF KeysTyped, Never
<1>2. ASSUME NEW t \in Token, AnswersAtOnce(r, t)
      PROVE  now - lastFailed[requests'[r].token.iss] < Cooldown
  <2>1. Refused(t) = None
    <3>1. CASE Refused(t) # None
      <4>1. requests'[r] = Done(t, Refused(t)) /\ Refused(t) \in Refusals
        BY <1>2, <3>1, RefusedOrPermitted DEF AnswersAtOnce, KeysTyped
      <4>2. requests'[r].outcome = Refused(t)
        BY <4>1 DEF Done
      <4> QED BY <4>1, <4>2 DEF Refusals
    <3> QED BY <3>1
  <2> DEFINE i == t.iss
  <2>2. i \in Issuer
    BY <2>1, RefusedOrPermitted
  <2>3. requests'[r] = Done(t, WithSet(t, cache[i].keys)) /\ Current(i) /\ (Known(i, t) \/ Cooling(i))
    BY <1>2, <2>1 DEF AnswersAtOnce, KeysTyped
  <2>4. requests'[r].token = t /\ WithSet(t, cache[i].keys) = "UNKNOWN_KEY"
    BY <2>3 DEF Done
  <2>5. \A other \in cache[i].keys : other.kid # t.kid
    BY <2>4, DecidedWithSet
  <2>6. Cooling(i) /\ cache[i] # None
    BY <2>3, <2>5 DEF Known, Current
  <2>7. flights[i] = {}
    BY <1>2, <2>4 DEF AnswersAtOnce
  <2>8. lastUnknown[i] \in Int /\ lastFailed[i] \in Int /\ cache[i].of \in Int /\ published[i] \subseteq Key
    BY <2>2, <2>6 DEF KeysTyped, KeySet
  <2>9. now - lastUnknown[i] < Cooldown /\ lastUnknown[i] # Never
    BY <1>1, <2>6, <2>8 DEF Cooling
  <2>10. lastFailed[i] >= lastUnknown[i] \/ cache[i].of + Timeout >= lastUnknown[i]
    BY <2>2, <2>6, <2>7, <2>9 DEF Asked
  <2>11. k \in published[i] \ cache[i].keys
    BY <2>4, <2>5
  <2>12. seen[i][k].since >= cache[i].of /\ seen[i][k].since \in Int
    BY <2>2, <2>6, <2>11 DEF Kept, PublishedAt, Seen, Stamp
  <2>13. ~(now - seen[i][k].since < Cooldown + Timeout)
    BY <2>4
  <2>14. now - lastFailed[i] < Cooldown
    BY <1>1, <2>8, <2>9, <2>10, <2>12, <2>13
  <2> QED BY <2>4, <2>14
<1>3. ASSUME NEW i \in Issuer, NEW f \in flights[i], r \in f.waiting, Fills(i, f) \/ Drops(i, f)
      PROVE  FALSE
  <2> DEFINE t == requests[r].token
  <2>1. t \in Token /\ requests'[r].token = t
        /\ requests'[r].outcome = IF Fills(i, f) THEN WithSet(t, f.document.keys)
                                  ELSE "AUTHENTICATION_DEPENDENCY_FAILURE"
    BY <1>3, EndStep
  <2>2. Fills(i, f) /\ WithSet(t, f.document.keys) = "UNKNOWN_KEY"
    BY <2>1
  <2>3. t.iss = i
    BY <1>3 DEF Waits, Verified
  <2>4. k \in published[i] \ f.document.keys
    BY <2>1, <2>2, <2>3, DecidedWithSet
  <2>5. f \in Flight /\ f.document # None
    BY <2>2 DEF Fills, KeysTyped
  <2>6. f.began \in Int /\ f.document.of \in Int /\ f.began <= f.document.of /\ now <= f.began + Timeout
        /\ PublishedAt(i, f.document.keys, f.document.of)
    BY <2>5 DEF Flight, Document, Fly
  <2>7. seen[i][k].since >= f.document.of /\ seen[i][k].since \in Int
    BY <2>4, <2>6 DEF PublishedAt, Seen, Stamp
  <2>8. ~(now - seen[i][k].since < Cooldown + Timeout)
    BY <2>1, <2>3
  <2> QED BY <1>1, <2>6, <2>7, <2>8
<1> QED BY <1>2, <1>3, DoneBy

(* KeysFresh, for any issuers, keys, credentials, requests and times: a key  *)
(* published for a cooldown and a fetch time is found, unless fetches fail,  *)
(* and a set is never replaced by an older one.                              *)
THEOREM KeysAreFresh ==
  ASSUME ConfigAssumption
  PROVE  JwksSpec => KeysFresh
<1>1. KeysInv /\ [JwksNext]_jwksVars => [FindsNewKey /\ KeepsNewest]_jwksVars
  BY NewKeyFound, NewerKept
<1> QED BY <1>1, KeysInvariant, PTL DEF JwksSpec, KeysFresh

-----------------------------------------------------------------------------
(* The listener listens only with a certificate it has found valid.          *)
ListenerInv == IngressSound /\ (server = "listening" => loadAndValidateTlsMaterial(material))

(* The spellings that are read as the address they stand for.                *)
Plain == {"plain", "quoted", "short", "upper", "mapped"}
(* An address that is written plainly is read as itself.                     *)
LEMMA ReadPlainly ==
  ASSUME NEW x, NEW s \in Plain
  PROVE  normalizeAddress([of |-> x, spelling |-> s]) = <<"address", x>>
BY DEF normalizeAddress, Plain

(* What is known of an admitted request.                                     *)
LEMMA WhatIsAdmitted ==
  ASSUME NEW sent
  PROVE  LET h == sent.headers
             a == Admitted(sent) IN
         /\ a.ok \in BOOLEAN
         /\ ~a.ok => a.code \in {"HTTPS_REQUIRED", "UNTRUSTED_HOST", "UNTRUSTED_FORWARDING"}
         /\ a.ok => /\ sent.encrypted /\ AllowedHost(sent.host)
                     /\ \/ forwardingHeaders(h) = {} /\ a.source = normalizeAddress(sent.remote)
                        \/ /\ forwardingHeaders(h) # {}
                           /\ TrustedRemote(sent.remote) /\ validForwarding(h)
                           /\ a.source = IF forwardedClientSource(h) = None THEN normalizeAddress(sent.remote)
                                         ELSE forwardedClientSource(h)
<1> DEFINE h == sent.headers
<1>1. CASE ~sent.encrypted
  BY <1>1 DEF Admitted
<1>2. CASE sent.encrypted /\ ~AllowedHost(sent.host)
  BY <1>2 DEF Admitted
<1>3. CASE sent.encrypted /\ AllowedHost(sent.host) /\ forwardingHeaders(h) = {}
  BY <1>3 DEF Admitted
<1>4. CASE /\ sent.encrypted /\ AllowedHost(sent.host) /\ forwardingHeaders(h) # {}
           /\ TrustedRemote(sent.remote) /\ validForwarding(h)
  BY <1>4 DEF Admitted
<1>5. CASE /\ sent.encrypted /\ AllowedHost(sent.host) /\ forwardingHeaders(h) # {}
           /\ ~(TrustedRemote(sent.remote) /\ validForwarding(h))
  BY <1>5 DEF Admitted
<1> QED BY <1>1, <1>2, <1>3, <1>4, <1>5

(* The sources that the forwarding headers of a valid request name agree:    *)
(* the request is taken to come from each of them.                           *)
LEMMA SourcesAgree ==
  ASSUME NEW h, validForwarding(h), NEW a \in SourcesOf(h)
  PROVE  forwardedClientSource(h) = a
<1> DEFINE x == normalizeAddress(h.forwardedFor)
           y == normalizeAddress(h.realIp)
           z == normalizeAddress(h.forwarded.for)
           of == (({} \cup {x}) \cup {y}) \cup {z}
<1>1. SourcesOf(h) \subseteq of
  BY DEF SourcesOf, singleHeader
<1>2. IsFiniteSet(of)
  <2> HIDE DEF x, y, z
  <2>1. IsFiniteSet({} \cup {x})
    BY FS_EmptySet, FS_AddElement, Zenon
  <2>2. IsFiniteSet(({} \cup {x}) \cup {y})
    BY <2>1, FS_AddElement, Zenon
  <2> QED BY <2>2, FS_AddElement, Zenon
<1> HIDE DEF of
<1>3. IsFiniteSet(SourcesOf(h)) /\ Cardinality(SourcesOf(h)) \in Nat /\ Cardinality(SourcesOf(h)) <= 1
  BY <1>1, <1>2, FS_Subset, FS_CardinalityType DEF validForwarding
<1>4. ASSUME NEW b \in SourcesOf(h) PROVE b = a
  <2> SUFFICES ASSUME b # a PROVE FALSE
    OBVIOUS
  <2>1. Cardinality({a}) = 1 /\ IsFiniteSet({a})
    BY FS_Singleton
  <2>2. Cardinality({a} \cup {b}) = 2
    BY <2>1, FS_AddElement
  <2>3. Cardinality({a} \cup {b}) <= Cardinality(SourcesOf(h))
    BY <1>3, FS_Subset
  <2> QED BY <1>3, <2>2, <2>3
<1>5. forwardedClientSource(h) \in SourcesOf(h)
  BY DEF forwardedClientSource, SourcesOf, singleHeader
<1> QED BY <1>4, <1>5

(* A proxy that sets a header which names the client names it in what it     *)
(* hands on, if that is valid.                                               *)
LEMMA ProxyNames ==
  ASSUME IngressAssumption, NEW c \in Client, NEW h \in Header, NEW set, NEW s \in Spelling,
         set \cap {"forwardedFor", "realIp", "forwarded"} # {}
  PROVE  LET g == ProxySets(c, h, set, s) IN
         /\ forwardingHeaders(g) # {}
         /\ validForwarding(g) => <<"address", c>> \in SourcesOf(g)
<1> DEFINE own == [of |-> c, spelling |-> s]
           full == [for |-> own, proto |-> "https", host |-> None, wellFormed |-> TRUE]
           g == ProxySets(c, h, set, s)
<1>1. own \notin {None, Empty, List} /\ full \notin {None, Empty, List} /\ full.for = own
      /\ None # Empty /\ None # List /\ Empty # List
  BY DEF IngressAssumption
<1>2. normalizeAddress(own) = <<"address", c>>
  BY ReadPlainly DEF IngressAssumption, Plain
<1>3. /\ DOMAIN g = {"forwardedFor", "realIp", "forwarded", "proto", "host"}
      /\ "forwardedFor" \in set => g.forwardedFor \in {List, own}
      /\ "realIp" \in set => g.realIp = own
      /\ "forwarded" \in set => g.forwarded \in {List, full}
  <2>1. DOMAIN h = {"forwardedFor", "realIp", "forwarded", "proto", "host"}
    BY DEF Header
  <2>2. /\ DOMAIN g = DOMAIN h
        /\ g.forwardedFor = IF "forwardedFor" \in set
                            THEN (IF "append" \in set /\ h.forwardedFor # None THEN List ELSE own)
                            ELSE h.forwardedFor
        /\ g.realIp = IF "realIp" \in set THEN own ELSE h.realIp
        /\ g.forwarded = IF "forwarded" \notin set THEN h.forwarded
                         ELSE IF "append" \in set /\ h.forwarded # None THEN List ELSE full
    BY DEF ProxySets, Header
  <2> HIDE DEF g, own, full
  <2> QED BY <2>1, <2>2
<1> HIDE DEF own, full, g
<1>4. forwardingHeaders(g) # {}
  BY <1>1, <1>3 DEF forwardingHeaders
<1>5. ASSUME validForwarding(g) PROVE <<"address", c>> \in SourcesOf(g)
  <2>1. ValidSource(g.forwardedFor) /\ ValidSource(g.realIp)
        /\ (singleHeader(g.forwarded) # None => singleHop(g.forwarded))
    BY <1>5 DEF validForwarding, validStandardForwarded
  <2>2. CASE "forwardedFor" \in set
    <3>1. g.forwardedFor = own
      BY <1>1, <1>3, <2>1, <2>2 DEF ValidSource, singleHeader, singleHop
    <3> QED BY <1>1, <1>2, <3>1 DEF SourcesOf, singleHeader
  <2>3. CASE "realIp" \in set
    <3>1. g.realIp = own
      BY <1>3, <2>3
    <3> QED BY <1>1, <1>2, <3>1 DEF SourcesOf, singleHeader
  <2>4. CASE "forwarded" \in set
    <3>1. g.forwarded = full
      BY <1>1, <1>3, <2>1, <2>4 DEF singleHeader, singleHop
    <3> QED BY <1>1, <1>2, <3>1 DEF SourcesOf, singleHeader
  <2> QED BY <2>2, <2>3, <2>4
<1> QED BY <1>4, <1>5 DEF g

(* Valid forwarding headers were written by one hop, and for a host that is  *)
(* allowed.                                                                  *)
LEMMA OneHop ==
  ASSUME IngressAssumption, NEW h, validForwarding(h),
         DOMAIN h = {"forwardedFor", "realIp", "forwarded", "proto", "host"}
  PROVE  /\ h.proto # "http" /\ \A name \in DOMAIN h : h[name] # List
         /\ singleHeader(h.host) # None => AllowedHost(h.host)
<1>1. None # Empty /\ None # List /\ Empty # List /\ List # "https" /\ "http" \notin {None, Empty}
  BY DEF IngressAssumption
<1>2. h.proto # "http" /\ h.proto # List
  BY <1>1 DEF validForwarding, singleHeader
<1>3. h.forwardedFor # List /\ h.realIp # List
  BY <1>1 DEF validForwarding, ValidSource, singleHeader, singleHop
<1>4. h.forwarded # List
  BY <1>1 DEF validForwarding, validStandardForwarded, singleHeader, singleHop
<1>5. singleHeader(h.host) # None => AllowedHost(h.host)
  BY DEF validForwarding
<1>6. h.host # List
  BY <1>1, <1>5 DEF singleHeader, AllowedHost, normalizedHost
<1> QED BY <1>2, <1>3, <1>4, <1>5, <1>6

-----------------------------------------------------------------------------
(* A request that a client sends itself: admitted, it comes from the client; *)
(* and a client's own forwarding headers are not admitted.                   *)
LEMMA DirectStep ==
  ASSUME IngressAssumption, ListenerInv, server = "listening", NEW c \in Client, NEW h \in Header, NEW host,
         Direct(c, h, host)
  PROVE  ListenerInv'
<1>1. PICK encrypted \in BOOLEAN, s \in {"plain", "mapped"} :
        Arrives(c, None, TRUE, [encrypted |-> encrypted, remote |-> [of |-> c, spelling |-> s],
                                host |-> host, headers |-> h])
  BY Zenon DEF Direct
<1> DEFINE remote == [of |-> c, spelling |-> s]
           request0 == [encrypted |-> encrypted, remote |-> remote, host |-> host, headers |-> h]
           a == Admitted(request0)
<1>2. normalizeAddress(remote) = <<"address", c>> /\ ~TrustedRemote(remote)
  <2>1. normalizeAddress(remote) = <<"address", c>>
    BY ReadPlainly DEF Plain
  <2> HIDE DEF remote
  <2>2. \A p \in Trusted : <<"address", p>> # <<"address", c>>
    BY DEF IngressAssumption
  <2> QED BY <2>1, <2>2 DEF TrustedRemote
<1>3. request0.encrypted = encrypted /\ request0.remote = remote /\ request0.host = host /\ request0.headers = h
  OBVIOUS
<1>4. last' = [client |-> c, via |-> None, named |-> TRUE, request |-> request0, answer |-> a]
      /\ UNCHANGED <<server, material>>
  BY <1>1, Zenon DEF Arrives
<1> HIDE DEF request0
<1>5. /\ ~a.ok => a.code \in {"HTTPS_REQUIRED", "UNTRUSTED_HOST", "UNTRUSTED_FORWARDING"}
      /\ a.ok => encrypted /\ AllowedHost(host) /\ forwardingHeaders(h) = {} /\ a.source = <<"address", c>>
  BY <1>2, <1>3, WhatIsAdmitted
<1> HIDE DEF a, remote
<1>6. /\ last'.answer = a /\ last'.client = c /\ last'.via = None
      /\ last'.request = request0
  BY <1>4
<1>7. ListenerTypeOK'
  BY <1>4, <1>5, <1>6 DEF ListenerInv, IngressSound, ListenerTypeOK, IngressAssumption
<1>8. ForwardingConsistent' /\ SourceTrue'
  BY <1>3, <1>5, <1>6 DEF ForwardingConsistent, SourceTrue, Passed, forwardingHeaders
<1>9. HostsCovered'
  <2>1. a.ok => h.host = None
    BY <1>5 DEF forwardingHeaders, Header
  <2> QED BY <1>3, <1>4, <1>5, <1>6, <2>1
      DEF HostsCovered, Passed, ListenerInv, loadAndValidateTlsMaterial, AllowedHost, singleHeader, normalizedHost
<1> QED BY <1>4, <1>7, <1>8, <1>9 DEF ListenerInv, IngressSound, loadAndValidateTlsMaterial

(* A request that comes through a proxy: admitted with forwarding headers,   *)
(* the proxy is trusted and the one hop, and the client it names is the one  *)
(* the request comes from.                                                   *)
LEMMA ProxiedStep ==
  ASSUME IngressAssumption, ListenerInv, server = "listening", NEW c \in Client, NEW p \in Proxy,
         NEW h \in Header, NEW host, NEW set, NEW s \in Spelling, Proxied(c, p, h, host, set, s)
  PROVE  ListenerInv'
<1> DEFINE remote == [of |-> p, spelling |-> "mapped"]
           g == ProxySets(c, h, set, s)
           names == set \cap {"forwardedFor", "realIp", "forwarded"} # {}
           request0 == [encrypted |-> TRUE, remote |-> remote, host |-> host, headers |-> g]
           a == Admitted(request0)
<1>1. last' = [client |-> c, via |-> p, named |-> names, request |-> request0, answer |-> a]
      /\ UNCHANGED <<server, material>>
  BY Zenon DEF Proxied, Arrives
<1>2. normalizeAddress(remote) = <<"address", p>> /\ (TrustedRemote(remote) => p \in Trusted)
  <2>1. normalizeAddress(remote) = <<"address", p>>
    BY ReadPlainly DEF Plain
  <2> HIDE DEF remote
  <2> QED BY <2>1 DEF TrustedRemote
<1>3. request0.encrypted /\ request0.remote = remote /\ request0.host = host /\ request0.headers = g
  OBVIOUS
<1>4. DOMAIN g = {"forwardedFor", "realIp", "forwarded", "proto", "host"} /\ g.host = h.host
  <2>1. DOMAIN h = {"forwardedFor", "realIp", "forwarded", "proto", "host"}
    BY DEF Header
  <2>2. DOMAIN g = DOMAIN h /\ g.host = h.host
    BY DEF ProxySets, Header
  <2> QED BY <2>1, <2>2
<1>5. names => forwardingHeaders(g) # {} /\ (validForwarding(g) => <<"address", c>> \in SourcesOf(g))
  BY ProxyNames
<1> HIDE DEF request0, g
<1>6. /\ ~a.ok => a.code \in {"HTTPS_REQUIRED", "UNTRUSTED_HOST", "UNTRUSTED_FORWARDING"}
      /\ a.ok => /\ AllowedHost(host)
                  /\ \/ forwardingHeaders(g) = {} /\ a.source = <<"address", p>>
                     \/ /\ forwardingHeaders(g) # {} /\ p \in Trusted /\ validForwarding(g)
                        /\ a.source = IF forwardedClientSource(g) = None THEN <<"address", p>>
                                      ELSE forwardedClientSource(g)
  BY <1>2, <1>3, WhatIsAdmitted
<1> HIDE DEF a, remote, names
<1>7. last'.answer = a /\ last'.client = c /\ last'.via = p /\ last'.named = names /\ last'.request = request0
  BY <1>1
<1>8. ListenerTypeOK'
  BY <1>1, <1>6, <1>7 DEF ListenerInv, IngressSound, ListenerTypeOK, IngressAssumption
<1>9. SourceTrue'
  <2>1. a.ok /\ names => a.source = <<"address", c>>
    <3>1. validForwarding(g) /\ names => forwardedClientSource(g) = <<"address", c>>
      BY <1>5, SourcesAgree
    <3> QED BY <1>5, <1>6, <3>1 DEF IngressAssumption
  <2> QED BY <1>7, <2>1 DEF SourceTrue, Passed
<1>10. validForwarding(g) => /\ g.proto # "http" /\ \A name \in DOMAIN g : g[name] # List
                             /\ (singleHeader(g.host) # None => AllowedHost(g.host))
  BY <1>4, OneHop
<1>11. ForwardingConsistent'
  BY <1>3, <1>6, <1>7, <1>10 DEF ForwardingConsistent, Passed
<1>12. HostsCovered'
  <2>1. a.ok => AllowedHost(host) /\ (singleHeader(g.host) # None => AllowedHost(g.host))
    <3>1. forwardingHeaders(g) = {} => g.host = None
      BY <1>4 DEF forwardingHeaders
    <3> QED BY <1>6, <1>10, <3>1 DEF singleHeader
  <2>2. material'.validNow /\ material'.keyPrivate /\ \A x : AllowedHost(x) => normalizedHost(x) \in material'.names
    BY <1>1 DEF ListenerInv, loadAndValidateTlsMaterial, AllowedHost
  <2> QED BY <1>3, <1>7, <2>1, <2>2 DEF HostsCovered, Passed
<1> QED BY <1>1, <1>8, <1>9, <1>11, <1>12 DEF ListenerInv, IngressSound, loadAndValidateTlsMaterial

(* IngressSound, for any clients, proxies, certificates and headers: the     *)
(* certificate covers every host a request was sent or forwarded to,         *)
(* admitted forwarding headers are of the one trusted hop, and the source is *)
(* the client's own address.                                                 *)
THEOREM IngressIsSound ==
  ASSUME IngressAssumption
  PROVE  ListenerSpec => []IngressSound
<1>1. ListenerInit => ListenerInv
  BY DEF ListenerInit, ListenerInv, IngressSound, ListenerTypeOK, HostsCovered, ForwardingConsistent,
         SourceTrue, Passed
<1>2. ListenerInv /\ [ListenerNext]_listenerVars => ListenerInv'
  <2> SUFFICES ASSUME ListenerInv, [ListenerNext]_listenerVars PROVE ListenerInv'
    OBVIOUS
  <2>1. CASE create
    <3>1. server' \in {"starting", "listening", "refused"}
          /\ (server' = "listening" => loadAndValidateTlsMaterial(material))
          /\ UNCHANGED <<material, last>>
      BY <2>1 DEF create
    <3> QED BY <3>1 DEF ListenerInv, IngressSound, ListenerTypeOK, HostsCovered, ForwardingConsistent,
                       SourceTrue, Passed, loadAndValidateTlsMaterial
  <2>2. ASSUME NEW c \in Client, NEW h \in Header, NEW host \in Hosts, server = "listening", Direct(c, h, host)
        PROVE  ListenerInv'
    BY <2>2, DirectStep
  <2>3. ASSUME NEW c \in Client, NEW h \in Header, NEW host \in Hosts, NEW p \in Proxy, NEW set \in Sets,
               NEW s \in Spelling, server = "listening", Proxied(c, p, h, host, set, s)
        PROVE  ListenerInv'
    BY <2>3, ProxiedStep
  <2>4. CASE UNCHANGED listenerVars
    BY <2>4 DEF listenerVars, ListenerInv, IngressSound, ListenerTypeOK, HostsCovered, ForwardingConsistent,
                SourceTrue, Passed, loadAndValidateTlsMaterial
  <2> QED BY <2>1, <2>2, <2>3, <2>4, Zenon DEF ListenerNext
<1>3. ListenerInv => IngressSound
  BY DEF ListenerInv
<1> QED BY <1>1, <1>2, <1>3, PTL DEF ListenerSpec

---------------------------------------------------------------------------
(* The intake.  The invariant: a plain command carries what its body says,   *)
(* translated, and has been found in order once it is shaped; a funding      *)
(* carries what the ingress verified; and what is recorded is what this body *)
(* becomes at some time of the server, whatever else is written in it.       *)
Shaped(r) == [type |-> r.type, payload |-> ValidatePayload(r.type, DecodePayload(r.payload))]
Final(r, t) == AlignDeadlineCommandTime(Shaped(r), t)
Decoded(r) == [type |-> r.type, payload |-> DecodePayload(r.payload)]
WellFormed(r) ==
  /\ ~r.extra /\ BoundedString(r.commandId, 128) /\ BoundedString(r.cellId, 128)
  /\ r.type \in CommandType /\ Permitted(r.type)
  /\ SafeTree(r.payload) /\ Decodable(r.type, r.payload)

(* The fields the code knows and their kinds.                                *)
LEMMA Fields ==
  /\ ActorField = {"payer", "payee", "arbiter", "acceptedBy", "rejectedBy", "funderId", "requestedBy",
                   "approvedBy", "triggeredBy", "openedBy", "resolvedBy"}
  /\ CommandType = {"AcceptCell", "RejectCell", "FundCell", "RequestRelease", "ApproveRelease", "RequestRefund",
                    "ApproveRefund", "ForceRefund", "ExpireCell", "OpenDispute", "ResolveDispute", "CreateCell"}
<1>1. DOMAIN Who = {"AcceptCell", "RejectCell", "FundCell", "RequestRelease", "ApproveRelease", "RequestRefund",
                    "ApproveRefund", "ForceRefund", "ExpireCell", "OpenDispute", "ResolveDispute"}
  BY DEF Who
<1>2. /\ Who["AcceptCell"] = "acceptedBy" /\ Who["RejectCell"] = "rejectedBy" /\ Who["FundCell"] = "funderId"
      /\ Who["RequestRelease"] = "requestedBy" /\ Who["ApproveRelease"] = "approvedBy"
      /\ Who["RequestRefund"] = "requestedBy" /\ Who["ApproveRefund"] = "approvedBy"
      /\ Who["ForceRefund"] = "requestedBy" /\ Who["ExpireCell"] = "triggeredBy"
      /\ Who["OpenDispute"] = "openedBy" /\ Who["ResolveDispute"] = "resolvedBy"
  BY DEF Who
<1>3. Range(Who) = {"acceptedBy", "rejectedBy", "funderId", "requestedBy",
                   "approvedBy", "triggeredBy", "openedBy", "resolvedBy"}
  <2>1. \A x \in Range(Who) : \E t \in DOMAIN Who : x = Who[t]
    BY DEF Range
  <2>2. \A t \in DOMAIN Who : Who[t] \in Range(Who)
    BY DEF Range
  <2> QED BY <1>1, <1>2, <2>1, <2>2
<1> QED BY <1>1, <1>3 DEF ActorField, CommandType

(* The actor of a command stands in a field of its own: it is no party.      *)
LEMMA WhoActs ==
  ASSUME NEW t \in CommandType, t # "CreateCell"
  PROVE  Who[t] \in ActorField \ {"payer", "payee", "arbiter"}
<1>1. t \in DOMAIN Who
  BY DEF CommandType
<1>2. Who[t] \in Range(Who)
  BY <1>1 DEF Range
<1> QED BY <1>1, <1>2 DEF ActorField, Who

(* What a body may say in one field, field by field: the transport and the   *)
(* application together accept it exactly if the field is in order.          *)
Accepts(type, f, v) ==
  /\ v \notin {"deep", "long"}
  /\ f = "amount" => DecodeAmount(v)
  /\ f \in TimeField => DecodeTime(v)
  /\ f \in ActorField => DecodeActor(v)
  /\ f = "currency" /\ type = "CreateCell" => v = "TRY"
Becomes(f, v) == IF f = "amount" /\ v = "digits" THEN "bigint" ELSE v

(* A payload is decodable exactly when each of its fields is accepted.       *)
LEMMA FieldAccepted ==
  ASSUME NEW r \in Body
  PROVE  SafeTree(r.payload) /\ Decodable(r.type, r.payload)
           <=> \A f \in Field : Accepts(r.type, f, r.payload[f])
<1>1. "amount" \in Field /\ "currency" \in Field /\ TimeField \subseteq Field /\ ActorField \subseteq Field
  BY DEF Field
<1> QED BY <1>1, Zenon DEF SafeTree, Decodable, Accepts

(* A field that the application reads, once the transport let it pass.       *)
LEMMA FieldRead ==
  ASSUME NEW type \in CommandType \ {"FundCell"}, NEW f \in Field, NEW v \in Value,
         f = "description" => type = "CreateCell"
  PROVE  Accepts(type, f, v) /\ (f \in Required(type) \/ (type = "CreateCell" /\ f = "arbiter" /\ v # "absent")
                                => Takes(f, Becomes(f, v)))
           <=> v \notin {"deep", "long"} /\ FieldGood(type, f, v)
<1>1. type # "CreateCell" => Who[type] \in ActorField \ {"payer", "payee", "arbiter"}
  BY WhoActs
<1>2. f \in Required(type) => f \in ActorField \cup {"description", "amount", "currency", "favourOf"} \cup TimeField
  BY <1>1 DEF Required, ActorField, TimeField
<1> USE Fields
<1>3. CASE f = "description"
  BY <1>3 DEF Value, String, Number, Accepts, Becomes, Takes, ParseCellDescription, FieldGood, Identity, Required, TimeField
<1>4. CASE f = "amount"
  BY <1>1, <1>4 DEF Value, String, Number, Accepts, Becomes, Takes, ParseAmount, FieldGood, Required, TimeField, DecodeAmount
<1>5. CASE f = "currency"
  BY <1>1, <1>5 DEF Value, String, Number, Accepts, Becomes, Takes, ParseCurrency, FieldGood, Required, TimeField
<1>6. CASE f \in TimeField
  <2>1. f \in Required(type) <=> IF f = "currentTime" THEN type \in ClockAligned ELSE type = "CreateCell"
    BY <1>1, <1>6 DEF Required, TimeField, ClockAligned
  <2>2. /\ f \notin ActorField /\ f \notin {"description", "amount", "currency", "favourOf", "arbiter"}
        /\ Becomes(f, v) = v
    BY <1>6 DEF TimeField, Becomes
  <2>3. Accepts(type, f, v) <=> v \in {"absent", "time"}
    BY <1>6, <2>2 DEF Accepts, DecodeTime
  <2>4. Takes(f, Becomes(f, v)) <=> v = "time" \/ (v = "absent" /\ f = "currentTime")
    <3>1. f = "currentTime" => (Takes(f, v) <=> v = "time" \/ v = "absent")
      <4>1. f = "currentTime" => (Takes(f, v) <=> ParseOptionalTimestamp(v))
        BY DEF Takes
      <4> QED BY <4>1 DEF ParseTimestamp, ParseOptionalTimestamp
    <3>2. f # "currentTime" => (Takes(f, v) <=> v = "time")
      BY <1>6, <2>2 DEF Takes, ParseTimestamp
    <3> QED BY <2>2, <3>1, <3>2
  <2>5. FieldGood(type, f, v) <=> v = "time" \/ (v = "absent" /\ (f = "currentTime" \/ type # "CreateCell"))
    BY <1>6, <2>2 DEF FieldGood
  <2> QED BY <1>6, <2>1, <2>2, <2>3, <2>4, <2>5
<1>7. CASE f = "favourOf"
  <2>1. f \in Required(type) <=> type = "ResolveDispute"
    BY <1>1, <1>7 DEF Required, ClockAligned
  <2>2. f \notin ActorField /\ f \notin TimeField /\ Becomes(f, v) = v
    BY <1>7 DEF TimeField, Becomes
  <2> QED BY <1>7, <2>1, <2>2 DEF Accepts, Takes, FieldGood
<1>8. CASE f \in ActorField
  BY <1>1, <1>8 DEF Value, String, Number, Accepts, Becomes, Takes, ParseActorId, FieldGood, Required, TimeField, DecodeActor, BoundedString, Identity
<1>9. CASE f \in Evidence \cup {"opaqueEvidence", "other"}
  BY <1>2, <1>9 DEF Value, String, Number, Accepts, FieldGood, TimeField, Evidence
<1> QED BY <1>3, <1>4, <1>5, <1>6, <1>7, <1>8, <1>9 DEF Field

(* The transport takes the ids of a command exactly if they are identities.  *)
LEMMA EnvelopeRead ==
  ASSUME NEW r \in Body
  PROVE  Enveloped(r) <=> /\ ~r.extra /\ BoundedString(r.commandId, 128) /\ BoundedString(r.cellId, 128)
                          /\ r.type \in CommandType
<1>1. \A v \in Value : BoundedString(v, 128) <=> v \in Identity
  BY DEF BoundedString, Value, String, Number, Identity
<1> QED BY <1>1 DEF Enveloped, Body

(* Both layers together accept a plain command exactly if it is in order.    *)
LEMMA BothLayers ==
  ASSUME NEW r \in Body
  PROVE  WellFormed(r) /\ Valid(r.type, DecodePayload(r.payload)) <=> InOrder(r)
<1> DEFINE p == DecodePayload(r.payload)
<1>1. /\ \A f \in Field : r.payload[f] \in Value
      /\ \A f \in Field : p[f] = Becomes(f, r.payload[f])
      /\ p["arbiter"] # "absent" <=> r.payload["arbiter"] # "absent"
  BY DEF Body, DecodePayload, Becomes, Field, ActorField
<1>2. Enveloped(r) <=> /\ ~r.extra /\ BoundedString(r.commandId, 128) /\ BoundedString(r.cellId, 128)
                       /\ r.type \in CommandType
  BY EnvelopeRead
<1>3. ASSUME r.type \in CommandType \ {"FundCell"}
      PROVE  Keeps(r.type, p) \subseteq Field /\ Required(r.type) \subseteq Field
  <2>1. r.type # "CreateCell" => Who[r.type] \in ActorField
    BY <1>3, WhoActs
  <2>2. Required(r.type) \subseteq Field /\ "arbiter" \in Field
    BY <2>1 DEF Required, Field, ActorField, TimeField
  <2> QED BY <2>2 DEF Keeps
<1>4. ASSUME r.type \in CommandType \ {"FundCell"}
      PROVE  Valid(r.type, p) <=>
               \A f \in Field : f \in Required(r.type) \/ (r.type = "CreateCell" /\ f = "arbiter" /\ r.payload[f] # "absent")
                               => Takes(f, Becomes(f, r.payload[f]))
  <2>1. \A f \in Field : f \in Keeps(r.type, p) <=>
          f \in Required(r.type) \/ (r.type = "CreateCell" /\ f = "arbiter" /\ r.payload[f] # "absent")
    BY <1>1 DEF Keeps
  <2> QED BY <1>1, <1>3, <1>4, <2>1 DEF Valid
<1>5. ASSUME r.type \in CommandType \ {"FundCell"}
      PROVE  /\ SafeTree(r.payload) /\ Decodable(r.type, r.payload) /\ Valid(r.type, p)
             <=> /\ \A f \in Field : r.payload[f] \notin {"deep", "long"}
                 /\ \A f \in Field : (f = "description" => r.type = "CreateCell")
                                     => FieldGood(r.type, f, r.payload[f])
  <2>1. \A f \in Field : (f = "description" => r.type = "CreateCell") =>
          (Accepts(r.type, f, r.payload[f])
             /\ (f \in Required(r.type) \/ (r.type = "CreateCell" /\ f = "arbiter" /\ r.payload[f] # "absent")
                   => Takes(f, Becomes(f, r.payload[f])))
           <=> r.payload[f] \notin {"deep", "long"} /\ FieldGood(r.type, f, r.payload[f]))
    BY <1>1, <1>5, FieldRead
  <2>2. r.type # "CreateCell" =>
          /\ "description" \notin Required(r.type)
          /\ Accepts(r.type, "description", r.payload["description"]) <=> r.payload["description"] \notin {"deep", "long"}
    <3>1. r.type # "CreateCell" => Who[r.type] \in ActorField
      BY <1>5, WhoActs
    <3> QED BY <3>1, Fields DEF Required, Accepts, TimeField
  <2>3. SafeTree(r.payload) /\ Decodable(r.type, r.payload)
           <=> \A f \in Field : Accepts(r.type, f, r.payload[f])
    BY FieldAccepted
  <2> QED BY <1>4, <1>5, <2>1, <2>2, <2>3, Zenon
<1> QED BY <1>2, <1>5 DEF WellFormed, InOrder, Permitted, Body

(* What the refusals and answers say, and what a plain command or a funding   *)
(* carries at each stage.                                                    *)
RefusedWith(r) == IF Enveloped(r) /\ r.type = "FundCell" THEN 403 ELSE 400
IntakeAnswers ==
  /\ stage \in {"raw", "verify", "decoded", "shaped", "executed", "done"}
  /\ stage \in {"raw", "verify", "decoded", "shaped"} => outcome = NoOutcome /\ ~committed
  /\ stage = "executed" => outcome # NoOutcome
  /\ stage # "done" => status = None
  /\ stage = "raw" => command = NoCommand
  /\ command = NoCommand \/ command.type \in CommandType
  /\ outcome # NoOutcome => command.type \in CommandType
  /\ outcome \in Outcomes \cup {NoOutcome} /\ committed \in BOOLEAN
  /\ recorded # NoRecord => recorded.result \in Results
  /\ committed => outcome \in {Success, Failure}
  /\ outcome = Success => recorded # NoRecord /\ recorded.result = Success
  /\ RetriesRecognised
  /\ stage = "done" /\ outcome = NoOutcome => status \in {400, 403} /\ ~committed
  /\ stage = "done" /\ outcome # NoOutcome => status = MapResult(outcome)
PlainCarries ==
  request.route = "commands" =>
    /\ stage # "verify"
    /\ stage = "decoded" => WellFormed(request) /\ command = Decoded(request)
    /\ stage = "shaped" => InOrder(request) /\ command = Shaped(request)
    /\ outcome # NoOutcome => InOrder(request)
    /\ stage = "done" /\ outcome = NoOutcome => ~InOrder(request) /\ status = RefusedWith(request)
    /\ recorded # NoRecord =>
         InOrder(request) /\ \E t \in ServerTime : recorded.fingerprint = Final(request, t)
FundingCarries ==
  request.route # "commands" =>
    /\ stage \in {"verify", "decoded", "shaped"} => command.type = "FundCell"
    /\ stage = "shaped" => DOMAIN command.payload = Required("FundCell")
    /\ recorded # NoRecord =>
         /\ outcome # NoOutcome /\ recorded.fingerprint.type = "FundCell"
         /\ DOMAIN recorded.fingerprint.payload = Required("FundCell")
IntakeInv == request \in Body /\ IntakeAnswers /\ PlainCarries /\ FundingCarries

(* The types, the stages and the records they compare are told apart.        *)
LEMMA IntakeKinds ==
  ASSUME IntakeAssumption
  PROVE  /\ \A c : c.type \in CommandType => c # NoCommand
         /\ \A c, o : c.type \in CommandType => [fingerprint |-> c, result |-> o] # NoRecord
         /\ Success # NoOutcome /\ Failure # NoOutcome /\ Conflict # Success /\ Conflict # Failure
         /\ Success # Failure
         /\ Success \notin Unasked /\ Failure \notin Unasked
<1>1. NoCommand.type = None /\ NoOutcome.outcome = None /\ NoRecord.fingerprint = NoCommand
  BY DEF NoCommand, NoOutcome, NoRecord
<1>2. /\ Success.outcome = "SUCCESS" /\ Failure.outcome = "PERSISTENCE_FAILURE"
      /\ Conflict.outcome = "APPLICATION_REJECTION"
  BY DEF Success, Failure, Conflict
<1>3. \A o \in Unasked : o.outcome = "APPLICATION_REJECTION"
  BY DEF Unasked
<1>4. \A c : c.type \in CommandType => c # NoCommand
  BY <1>1 DEF IntakeAssumption
<1>5. \A c, o : [fingerprint |-> c, result |-> o].fingerprint = c
  OBVIOUS
<1>6. \A c, o : c.type \in CommandType => [fingerprint |-> c, result |-> o] # NoRecord
  BY <1>1, <1>4, <1>5
<1>7. Success \notin Unasked /\ Failure \notin Unasked
  BY <1>2, <1>3
<1> QED BY <1>1, <1>2, <1>4, <1>6, <1>7 DEF IntakeAssumption

(* What the application returns has a status, and only a success has 200.    *)
LEMMA OutcomesMapped ==
  ASSUME IntakeAssumption, NEW o \in Outcomes
  PROVE  /\ o # NoOutcome
         /\ MapResult(o) \in {200, 400, 401, 403, 404, 409, 422, 429, 503}
         /\ MapResult(o) = 200 => o = Success
         /\ o \in {Success, Failure} => MapResult(o) \notin 400..499
<1>1. CASE o = Success
  BY <1>1, IntakeKinds DEF Success, MapResult
<1>2. CASE o = Failure
  <2>1. o.outcome = "PERSISTENCE_FAILURE" /\ o.code = "PERSISTENCE_FAILURE"
    BY <1>2 DEF Failure
  <2>2. MapResult(o) = 503
    BY <2>1 DEF MapResult
  <2> QED BY <1>2, <2>2, IntakeKinds
<1>3. CASE o = Conflict
  <2>1. o.outcome = "APPLICATION_REJECTION" /\ o.code = "IDEMPOTENCY_CONFLICT"
    BY <1>3 DEF Conflict
  <2>2. MapResult(o) = 409
    BY <2>1 DEF MapResult
  <2>3. DOMAIN o = {"outcome", "code"} /\ DOMAIN NoOutcome = {"outcome"}
    BY <1>3 DEF Conflict, NoOutcome
  <2> QED BY <1>3, <2>2, <2>3, IntakeKinds
<1>4. CASE o \in [outcome : {"KERNEL_REJECTION"}, code : {"AUTHORIZATION_DENIED", "INVALID_TRANSITION"}]
  <2>1. o.outcome = "KERNEL_REJECTION" /\ o.code \in {"AUTHORIZATION_DENIED", "INVALID_TRANSITION"}
    BY <1>4
  <2>2. MapResult(o) \in {403, 422}
    BY <2>1 DEF MapResult
  <2>3. DOMAIN o = {"outcome", "code"} /\ DOMAIN NoOutcome = {"outcome"}
    BY <1>4 DEF NoOutcome
  <2>4. o # Success /\ o # Failure
    BY <2>1 DEF Success, Failure
  <2> QED BY <2>2, <2>3, <2>4
<1>5. CASE o \in Unasked \cup [outcome : {"APPLICATION_REJECTION"},
                               code : {"FUNDING_RECEIPT_CONFLICT", "FUNDING_DISPUTE_BLOCKED"}]
  <2>1. o.outcome = "APPLICATION_REJECTION" /\ o.code # "IDEMPOTENCY_CONFLICT"
    BY <1>5 DEF Unasked
  <2>2. MapResult(o) \in {400, 401, 403, 404, 409, 422, 429, 503}
    BY <2>1 DEF MapResult
  <2>3. DOMAIN o = {"outcome", "code"} /\ DOMAIN NoOutcome = {"outcome"}
    BY <1>5 DEF Unasked, NoOutcome
  <2>4. o # Success /\ o # Failure
    BY <2>1 DEF Success, Failure
  <2> QED BY <2>2, <2>3, <2>4
<1> QED BY <1>1, <1>2, <1>3, <1>4, <1>5 DEF Outcomes, Results

(* A command that was found in order was let through by both layers.         *)
LEMMA InOrderWellFormed ==
  ASSUME NEW r \in Body, InOrder(r)
  PROVE  WellFormed(r) /\ Valid(r.type, DecodePayload(r.payload)) /\ r.type \in CommandType \ {"FundCell"}
BY BothLayers DEF WellFormed, Permitted

(* What a command becomes has the fields of its type, and the time of the    *)
(* server, not of the client, where its rule has a deadline.                 *)
LEMMA FinalFields ==
  ASSUME NEW type \in CommandType, NEW p, NEW t
  PROVE  LET c == AlignDeadlineCommandTime([type |-> type, payload |-> ValidatePayload(type, p)], t) IN
         /\ c.type = type
         /\ DOMAIN c.payload \in {Required(type), Required(type) \cup {"arbiter"}}
         /\ type # "CreateCell" => DOMAIN c.payload = Required(type)
         /\ type \in ClockAligned => c.payload["currentTime"] = t
<1> DEFINE d == [type |-> type, payload |-> ValidatePayload(type, p)]
           c == AlignDeadlineCommandTime(d, t)
<1>1. DOMAIN ValidatePayload(type, p) = Keeps(type, p)
  BY DEF ValidatePayload
<1>2. /\ Keeps(type, p) \in {Required(type), Required(type) \cup {"arbiter"}}
      /\ type # "CreateCell" => Keeps(type, p) = Required(type)
  BY DEF Keeps
<1>3. CASE type \in ClockAligned
  <2>1. /\ c = [type |-> type, payload |-> [ValidatePayload(type, p) EXCEPT !["currentTime"] = t]]
    BY <1>3 DEF AlignDeadlineCommandTime
  <2>2. c.type = type /\ DOMAIN c.payload = Keeps(type, p)
    BY <1>1, <2>1
  <2>3. "currentTime" \in Keeps(type, p)
    BY <1>3 DEF Keeps, Required, ClockAligned
  <2>4. c.payload["currentTime"] = t
    BY <1>1, <2>1, <2>3
  <2> QED BY <1>2, <2>2, <2>4
<1>4. CASE type \notin ClockAligned
  BY <1>1, <1>2, <1>4 DEF AlignDeadlineCommandTime
<1> QED BY <1>3, <1>4

(* What is executed has the type of its request and its fields; at another   *)
(* time it is the same command unless its rule has a deadline.               *)
LEMMA FinalOfBody ==
  ASSUME NEW r, r.type \in CommandType, NEW t
  PROVE  /\ Final(r, t).type = r.type
         /\ DOMAIN Final(r, t).payload \in {Required(r.type), Required(r.type) \cup {"arbiter"}}
         /\ r.type \in ClockAligned => Final(r, t).payload["currentTime"] = t
         /\ r.type \notin ClockAligned => Final(r, t) = Shaped(r)
<1>1. r.type \notin ClockAligned => Final(r, t) = Shaped(r)
  BY DEF Final, Shaped, AlignDeadlineCommandTime
<1>2. ASSUME NEW type \in CommandType, NEW q
      PROVE  LET c == AlignDeadlineCommandTime([type |-> type, payload |-> ValidatePayload(type, q)], t) IN
             /\ c.type = type
             /\ DOMAIN c.payload \in {Required(type), Required(type) \cup {"arbiter"}}
             /\ type \in ClockAligned => c.payload["currentTime"] = t
  BY FinalFields
<1> DEFINE p == DecodePayload(r.payload)
<1>3. Final(r, t) = AlignDeadlineCommandTime([type |-> r.type, payload |-> ValidatePayload(r.type, p)], t)
  BY DEF Final, Shaped
<1> HIDE DEF p
<1> QED BY <1>1, <1>2, <1>3

(* What is written around the fields of a command changes nothing of it.     *)
LEMMA OtherTextIgnored ==
  ASSUME NEW r \in Body, InOrder(r), NEW v \in {"absent", "name"},
         NEW q, q = [r EXCEPT !.payload["other"] = v]
  PROVE  q \in Body /\ q.route = r.route /\ InOrder(q) /\ \A t : Final(q, t) = Final(r, t)
<1>1. "other" \in Field /\ v \in Value
  BY DEF Field, Value, String
<1>2. q = [r EXCEPT !.payload = [r.payload EXCEPT !["other"] = v]]
  OBVIOUS
<1>3. /\ q \in Body /\ q.route = r.route /\ q.type = r.type /\ q.extra = r.extra
      /\ q.commandId = r.commandId /\ q.cellId = r.cellId
      /\ q.payload = [r.payload EXCEPT !["other"] = v]
  BY <1>1, <1>2 DEF Body
<1>4. /\ q.payload["other"] = v /\ \A f \in Field : f # "other" => q.payload[f] = r.payload[f]
  BY <1>1, <1>3 DEF Body
<1>5. FieldGood(r.type, "other", v)
  BY Fields DEF FieldGood, TimeField
<1>6. InOrder(q)
  BY <1>3, <1>4, <1>5 DEF InOrder, Enveloped
<1>7. r.type \in CommandType \ {"FundCell"}
  BY DEF InOrder, Enveloped
<1>8. "other" \notin Required(r.type) /\ Required(r.type) \subseteq Field
  <2>1. r.type # "CreateCell" => Who[r.type] \in ActorField
    BY <1>7, WhoActs
  <2>2. "other" \notin Required(r.type)
    BY <2>1, Fields DEF Required
  <2>3. Required(r.type) \subseteq Field
    BY <2>1 DEF Required, Field, ActorField, TimeField
  <2> QED BY <2>2, <2>3
<1>9. \A f \in Field \ {"other"} : DecodePayload(q.payload)[f] = DecodePayload(r.payload)[f]
  BY <1>4 DEF DecodePayload
<1>10. "arbiter" \in Field \ {"other"}
  BY DEF Field, ActorField
<1>11. Keeps(r.type, DecodePayload(q.payload)) = Keeps(r.type, DecodePayload(r.payload))
  BY <1>9, <1>10 DEF Keeps
<1>12. Keeps(r.type, DecodePayload(r.payload)) \subseteq Field \ {"other"}
  BY <1>8, <1>10 DEF Keeps
<1>13. ValidatePayload(r.type, DecodePayload(q.payload)) = ValidatePayload(r.type, DecodePayload(r.payload))
  BY <1>9, <1>11, <1>12 DEF ValidatePayload
<1>14. Shaped(q) = Shaped(r)
  BY <1>3, <1>13 DEF Shaped
<1> QED BY <1>3, <1>6, <1>14 DEF Final

(* A request that was only received has shown nothing to anybody.            *)
LEMMA IntakeInitially ==
  ASSUME IntakeAssumption, IntakeInit
  PROVE  IntakeInv
<1>1. PICK r \in Requests : Receives(r)
  BY DEF IntakeInit
<1>2. request \in Body
  BY <1>1 DEF IntakeAssumption, Receives
<1> QED BY <1>1, <1>2, IntakeKinds DEF Receives, IntakeInv, IntakeAnswers, RetriesRecognised, PlainCarries, FundingCarries

(* A refusal: of a plain command only when it is not in order.               *)
LEMMA RefusalKept ==
  ASSUME IntakeAssumption, IntakeInv, NEW code \in {400, 403}, Refuse(code),
         stage \in {"raw", "verify", "decoded"},
         request.route = "commands" => ~InOrder(request) /\ code = RefusedWith(request)
  PROVE  IntakeInv'
<1>1. outcome = NoOutcome /\ ~committed /\ RetriesRecognised'
  BY DEF Refuse, IntakeInv, IntakeAnswers, RetriesRecognised
<1> QED BY <1>1 DEF Refuse, IntakeInv, IntakeAnswers, PlainCarries, FundingCarries

(* A body is decoded into the fields it was sent with, or is refused.        *)
LEMMA IntakeDecodes ==
  ASSUME IntakeAssumption, IntakeInv,
         DecodeRequest \/ DecodeFundingRequest \/ DecodePrototypeFundingRequest \/ FundCommand
  PROVE  IntakeInv'
<1> USE IntakeKinds
<1>1. CASE DecodeRequest
  <2>1. stage = "raw" /\ request.route = "commands" /\ request \in Body
    BY <1>1 DEF DecodeRequest, IntakeInv
  <2>2. CASE WellFormed(request)
    <3>1. Goes("decoded", Decoded(request))
      BY <1>1, <2>2 DEF DecodeRequest, WellFormed, Decoded
    <3>2. Decoded(request).type = request.type /\ request.type \in CommandType
      BY <2>2 DEF Decoded, WellFormed
    <3>3. RetriesRecognised'
      BY <3>1, <2>1 DEF Goes, IntakeInv, IntakeAnswers, RetriesRecognised
    <3> QED BY <2>1, <2>2, <3>1, <3>2, <3>3 DEF Goes, IntakeInv, IntakeAnswers, PlainCarries, FundingCarries
  <2>3. CASE ~WellFormed(request)
    <3>1. Refuse(RefusedWith(request))
      BY <1>1, <2>1, <2>3, EnvelopeRead DEF DecodeRequest, WellFormed, Permitted, RefusedWith
    <3>2. ~InOrder(request)
      BY <2>1, <2>3, InOrderWellFormed
    <3>3. RefusedWith(request) \in {400, 403}
      BY DEF RefusedWith
    <3> QED BY <2>1, <3>1, <3>2, <3>3, RefusalKept
  <2> QED BY <2>2, <2>3
<1>2. ASSUME NEW to \in {"verify", "decoded"}, NEW p, Goes(to, [type |-> "FundCell", payload |-> p]),
             request.route # "commands", stage \in {"raw", "verify"}
      PROVE  IntakeInv'
  <2>1. "FundCell" \in CommandType
    BY Fields
  <2>2. command'.type = "FundCell"
    BY <1>2 DEF Goes
  <2>3. RetriesRecognised'
    BY <1>2 DEF Goes, IntakeInv, IntakeAnswers, RetriesRecognised
  <2> QED BY <1>2, <2>1, <2>2, <2>3 DEF Goes, IntakeInv, IntakeAnswers, PlainCarries, FundingCarries
<1>3. CASE DecodeFundingRequest
  <2>1. stage = "raw" /\ request.route # "commands"
    BY <1>3 DEF DecodeFundingRequest
  <2>2. Refuse(400) \/ Goes("verify", [type |-> "FundCell", payload |-> request.payload])
    BY <1>3 DEF DecodeFundingRequest
  <2> QED BY <1>2, <2>1, <2>2, RefusalKept
<1>4. CASE DecodePrototypeFundingRequest
  <2>1. stage = "raw" /\ request.route # "commands"
    BY <1>4 DEF DecodePrototypeFundingRequest
  <2>2. Refuse(400) \/ Goes("verify", [type |-> "FundCell", payload |-> request.payload])
    BY <1>4 DEF DecodePrototypeFundingRequest
  <2> QED BY <1>2, <2>1, <2>2, RefusalKept
<1>5. CASE FundCommand
  <2>1. stage = "verify" /\ request.route # "commands"
    BY <1>5 DEF FundCommand, IntakeInv, PlainCarries
  <2>2. Refuse(403) \/ \E p : Goes("decoded", [type |-> "FundCell", payload |-> p])
    BY <1>5, Zenon DEF FundCommand
  <2>3. CASE Refuse(403)
    BY <2>1, <2>3, RefusalKept
  <2>4. CASE \E p : Goes("decoded", [type |-> "FundCell", payload |-> p])
    BY <1>2, <2>1, <2>4
  <2> QED BY <2>2, <2>3, <2>4
<1> QED BY <1>1, <1>3, <1>4, <1>5

(* The shape that is validated is the one of the type of the command.        *)
LEMMA IntakeShapes ==
  ASSUME IntakeAssumption, IntakeInv, ValidateCommandShape
  PROVE  IntakeInv'
<1> USE IntakeKinds
<1> DEFINE good == Valid(command.type, command.payload)
           shaped == [type |-> command.type, payload |-> ValidatePayload(command.type, command.payload)]
<1>1. stage = "decoded" /\ request \in Body
  BY DEF ValidateCommandShape, IntakeInv
<1>2. CASE request.route = "commands"
  <2>1. WellFormed(request) /\ command = Decoded(request)
    BY <1>1, <1>2 DEF IntakeInv, PlainCarries
  <2>2. command.type = request.type /\ command.payload = DecodePayload(request.payload)
    BY <2>1 DEF Decoded
  <2>3. good <=> InOrder(request)
    BY <1>1, <2>1, <2>2, BothLayers
  <2>4. CASE good
    <3>1. Goes("shaped", Shaped(request))
      BY <2>2, <2>4 DEF ValidateCommandShape, Shaped
    <3>2. Shaped(request).type \in CommandType
      BY <2>1 DEF Shaped, WellFormed
    <3>3. RetriesRecognised'
      BY <1>1, <3>1 DEF Goes, IntakeInv, IntakeAnswers, RetriesRecognised
    <3> QED BY <1>1, <1>2, <2>3, <2>4, <3>1, <3>2, <3>3 DEF Goes, IntakeInv, IntakeAnswers, PlainCarries, FundingCarries
  <2>5. CASE ~good
    <3>1. Refuse(400)
      BY <2>5 DEF ValidateCommandShape
    <3>2. RefusedWith(request) = 400
      BY <2>1 DEF RefusedWith, WellFormed, Permitted
    <3> QED BY <1>1, <2>3, <2>5, <3>1, <3>2, RefusalKept
  <2> QED BY <2>4, <2>5
<1>3. CASE request.route # "commands"
  <2>1. command.type = "FundCell"
    BY <1>1, <1>3 DEF IntakeInv, FundingCarries
  <2>2. CASE good
    <3>1. Goes("shaped", shaped)
      BY <2>2 DEF ValidateCommandShape
    <3>2. command'.type = "FundCell" /\ DOMAIN command'.payload = Required("FundCell")
      <4>1. DOMAIN shaped.payload = Keeps("FundCell", command.payload)
        BY <2>1 DEF ValidatePayload
      <4> QED BY <2>1, <3>1, <4>1 DEF Goes, Keeps
    <3>3. "FundCell" \in CommandType
      BY Fields
    <3>4. RetriesRecognised'
      BY <1>1, <3>1 DEF Goes, IntakeInv, IntakeAnswers, RetriesRecognised
    <3> QED BY <1>1, <1>3, <3>1, <3>2, <3>3, <3>4 DEF Goes, IntakeInv, IntakeAnswers, PlainCarries, FundingCarries
  <2>3. CASE ~good
    <3>1. Refuse(400)
      BY <2>3 DEF ValidateCommandShape
    <3> QED BY <1>1, <1>3, <3>1, RefusalKept
  <2> QED BY <2>2, <2>3
<1> QED BY <1>2, <1>3

(* Only a command that was decoded and has its shape is executed; its result *)
(* is recorded with what makes it the same command on the next delivery.     *)
LEMMA IntakeExecutes ==
  ASSUME IntakeAssumption, IntakeInv, Execute
  PROVE  IntakeInv'
<1> USE IntakeKinds
<1>1. /\ stage = "shaped" /\ request \in Body /\ outcome = NoOutcome /\ ~committed
      /\ stage' = "executed" /\ request' = request /\ status' = status /\ status = None
      /\ recorded # NoRecord => recorded.result \in Results
      /\ command = NoCommand \/ command.type \in CommandType
  BY DEF Execute, IntakeInv, IntakeAnswers
<1>2. IF request.route = "commands"
      THEN /\ InOrder(request) /\ command = Shaped(request)
           /\ recorded # NoRecord => \E t \in ServerTime : recorded.fingerprint = Final(request, t)
      ELSE /\ command.type = "FundCell" /\ DOMAIN command.payload = Required("FundCell")
           /\ recorded = NoRecord
  BY <1>1 DEF IntakeInv, PlainCarries, FundingCarries
<1>3. command.type \in CommandType
  BY <1>2, Fields DEF Shaped, InOrder, Enveloped
<1>4. Results \subseteq Outcomes /\ Failure \in Results /\ Unasked \subseteq Outcomes /\ Conflict \in Outcomes
  BY DEF Results, Outcomes
<1>5. \A o \in Outcomes : o # NoOutcome
  BY OutcomesMapped
<1>6. CASE outcome' \in Unasked /\ UNCHANGED <<command, committed, recorded>>
  <2>1. outcome' \in Outcomes /\ outcome' # NoOutcome /\ outcome' # Success /\ RetriesRecognised'
    BY <1>4, <1>5, <1>6 DEF RetriesRecognised
  <2>2. IntakeAnswers'
    BY <1>1, <1>3, <1>6, <2>1 DEF IntakeInv, IntakeAnswers
  <2> QED BY <1>1, <1>2, <1>6, <2>1, <2>2 DEF IntakeInv, PlainCarries, FundingCarries
<1>7. ASSUME NEW t \in ServerTime,
             LET cmd == AlignDeadlineCommandTime(command, t) IN
             command' = cmd /\ (ExecuteOnce(cmd) \/ Replay(cmd) \/ Fails)
      PROVE  IntakeInv'
  <2> DEFINE cmd == AlignDeadlineCommandTime(command, t)
  <2>1. IF request.route = "commands" THEN cmd = Final(request, t)
        ELSE cmd.type = "FundCell" /\ DOMAIN cmd.payload = Required("FundCell")
    BY <1>2 DEF Final, AlignDeadlineCommandTime, ClockAligned
  <2>2. cmd.type \in CommandType
    <3>1. request.route = "commands" => request.type \in CommandType
      BY <1>2 DEF InOrder, Enveloped
    <3> QED BY <2>1, <3>1, FinalOfBody, Fields
  <2>3. ASSUME outcome' = Failure, committed' = committed, recorded' = recorded
        PROVE  IntakeInv'
    <3>1. RetriesRecognised'
      BY <2>3 DEF RetriesRecognised
    <3>2. IntakeAnswers'
      BY <1>1, <1>4, <1>5, <1>7, <2>2, <2>3, <3>1 DEF IntakeInv, IntakeAnswers
    <3> QED BY <1>1, <1>2, <1>4, <1>5, <2>3, <3>2 DEF IntakeInv, PlainCarries, FundingCarries
  <2>4. CASE ExecuteOnce(cmd)
    <3>1. PICK result \in Results : /\ recorded' = [fingerprint |-> cmd, result |-> result]
                                    /\ committed' = (result = Success)
                                    /\ outcome' \in {result, Failure}
      BY <2>4 DEF ExecuteOnce, Fingerprint
    <3>2. recorded' # NoRecord /\ recorded'.fingerprint = cmd /\ recorded'.result = result
      BY <2>2, <3>1
    <3>3. outcome' \in Outcomes /\ outcome' # NoOutcome
      BY <1>4, <1>5, <3>1
    <3>4. RetriesRecognised'
      BY <3>1, <3>2 DEF RetriesRecognised
    <3>5. /\ committed' => outcome' \in {Success, Failure}
          /\ outcome' = Success => recorded'.result = Success
      BY <3>1, <3>2
    <3>6. IntakeAnswers'
      BY <1>1, <1>7, <2>2, <3>1, <3>2, <3>3, <3>4, <3>5 DEF IntakeInv, IntakeAnswers
    <3>7. CASE request.route = "commands"
      BY <1>1, <1>2, <2>1, <3>2, <3>6, <3>7 DEF IntakeInv, PlainCarries, FundingCarries
    <3>8. CASE request.route # "commands"
      BY <1>1, <2>1, <3>2, <3>3, <3>6, <3>8 DEF IntakeInv, PlainCarries, FundingCarries
    <3> QED BY <3>7, <3>8
  <2>5. CASE Replay(cmd)
    <3>1. /\ recorded # NoRecord /\ recorded' = recorded /\ committed' = committed
          /\ outcome' = IF recorded.fingerprint = cmd THEN recorded.result ELSE Conflict
      BY <2>5 DEF Replay, Fingerprint
    <3>2. PICK u \in ServerTime : recorded.fingerprint = Final(request, u)
      BY <1>2, <3>1
    <3>3. request.route = "commands" /\ InOrder(request) /\ cmd = Final(request, t)
      BY <1>2, <2>1, <3>1
    <3>4. request.type \in CommandType
      BY <3>3 DEF InOrder, Enveloped
    <3>5. outcome' \in Outcomes /\ outcome' # NoOutcome
      BY <1>1, <1>4, <1>5, <3>1
    <3>6. RetriesRecognised'
      <4>1. CASE recorded.fingerprint = cmd
        BY <3>1, <4>1 DEF RetriesRecognised
      <4>2. CASE recorded.fingerprint # cmd
        <5>1. request.type \in ClockAligned
          BY <3>2, <3>3, <3>4, <4>2, FinalOfBody
        <5>2. cmd.type = request.type /\ cmd.payload["currentTime"] = t
          <6>1. Final(request, t).type = request.type /\ Final(request, t).payload["currentTime"] = t
            BY <3>4, <5>1, FinalOfBody, Zenon
          <6> QED BY <3>3, <6>1
        <5>3. recorded.fingerprint.payload["currentTime"] = u /\ t # u
          BY <3>2, <3>3, <3>4, <4>2, <5>1, FinalOfBody
        <5> QED BY <1>7, <3>1, <4>2, <5>1, <5>2, <5>3 DEF RetriesRecognised, ClockAligned
      <4> QED BY <4>1, <4>2
    <3>7. outcome' = Success => recorded'.result = Success
      BY <3>1
    <3>8. IntakeAnswers'
      BY <1>1, <1>7, <2>2, <3>1, <3>5, <3>6, <3>7 DEF IntakeInv, IntakeAnswers
    <3> QED BY <1>1, <1>2, <3>1, <3>3, <3>5, <3>8 DEF IntakeInv, PlainCarries, FundingCarries
  <2> QED BY <1>7, <2>3, <2>4, <2>5 DEF Fails
<1> QED BY <1>6, <1>7, Zenon DEF Execute

(* The answer is the one of the outcome; sent again, a request starts anew.  *)
LEMMA IntakeAnswered ==
  ASSUME IntakeAssumption, IntakeInv, Respond \/ Resend
  PROVE  IntakeInv'
<1> USE IntakeKinds
<1>1. CASE Respond
  <2>1. RetriesRecognised'
    BY <1>1 DEF Respond, IntakeInv, IntakeAnswers, RetriesRecognised
  <2> QED BY <1>1, <2>1 DEF Respond, IntakeInv, IntakeAnswers, PlainCarries, FundingCarries
<1>2. CASE Resend
  <2>1. PICK v \in {"absent", "name"} : request' = [request EXCEPT !.payload["other"] = v]
    BY <1>2 DEF Resend
  <2>2. /\ request \in Body /\ request.route = "commands" /\ InOrder(request)
    BY <1>2 DEF Resend, IntakeInv, PlainCarries
  <2>3. /\ request' \in Body /\ request'.route = request.route /\ InOrder(request')
        /\ \A t : Final(request', t) = Final(request, t)
    BY <2>1, <2>2, OtherTextIgnored
  <2>4. IntakeAnswers'
    BY <1>2 DEF Resend, IntakeInv, IntakeAnswers, RetriesRecognised
  <2>5. /\ recorded' = recorded /\ stage' = "raw" /\ outcome' = NoOutcome
        /\ recorded # NoRecord => \E t \in ServerTime : recorded.fingerprint = Final(request, t)
    BY <1>2, <2>2 DEF Resend, IntakeInv, PlainCarries
  <2> QED BY <2>2, <2>3, <2>4, <2>5 DEF IntakeInv, PlainCarries, FundingCarries
<1> QED BY <1>1, <1>2

(* Every step of the intake keeps the invariant.                             *)
LEMMA IntakeStepKept ==
  ASSUME IntakeAssumption, IntakeInv, [IntakeNext]_intakeVars
  PROVE  IntakeInv'
<1>1. CASE UNCHANGED intakeVars
  BY <1>1 DEF intakeVars, IntakeInv, IntakeAnswers, RetriesRecognised, PlainCarries, FundingCarries
<1>2. CASE DecodeRequest \/ DecodeFundingRequest \/ DecodePrototypeFundingRequest \/ FundCommand
  BY <1>2, IntakeDecodes
<1>3. CASE ValidateCommandShape
  BY <1>3, IntakeShapes
<1>4. CASE Execute
  BY <1>4, IntakeExecutes
<1>5. CASE Respond \/ Resend
  BY <1>5, IntakeAnswered
<1> QED BY <1>1, <1>2, <1>3, <1>4, <1>5 DEF IntakeNext

(* What the invariant says of every state is what the intake promises.       *)
LEMMA IntakeInvGives ==
  ASSUME IntakeAssumption, IntakeInv
  PROVE  IntakeSound
<1> USE IntakeKinds
<1>1. IntakeTypeOK
  <2>1. DOMAIN request.payload = Field
    BY DEF IntakeInv, Body
  <2>2. status \in {None, 200, 400, 401, 403, 404, 409, 422, 429, 503}
    BY OutcomesMapped DEF IntakeInv, IntakeAnswers
  <2> QED BY <2>1, <2>2 DEF IntakeTypeOK, IntakeInv, IntakeAnswers
<1>2. Trustworthy
  <2>1. CASE request.route = "commands" /\ recorded # NoRecord
    <3>1. PICK t \in ServerTime : recorded.fingerprint = Final(request, t)
      BY <2>1 DEF IntakeInv, PlainCarries
    <3>2. request.type \in CommandType \ {"FundCell"}
      BY <2>1 DEF IntakeInv, PlainCarries, InOrder, Enveloped
    <3>3. /\ Final(request, t).type = request.type
          /\ DOMAIN Final(request, t).payload \in {Required(request.type), Required(request.type) \cup {"arbiter"}}
          /\ request.type \in ClockAligned => Final(request, t).payload["currentTime"] = t
      BY <3>2, FinalOfBody, Zenon
    <3> QED BY <2>1, <3>1, <3>2, <3>3 DEF Trustworthy, ClockAligned
  <2>2. CASE request.route # "commands" /\ recorded # NoRecord
    BY <2>2 DEF IntakeInv, FundingCarries, Trustworthy
  <2> QED BY <2>1, <2>2 DEF Trustworthy
<1>3. LayersAgree
  <2>1. ASSUME request.route = "commands", stage \in {"shaped", "executed", "done"}
        PROVE  IF InOrder(request) THEN command # NoCommand /\ (stage = "done" => outcome # NoOutcome)
               ELSE stage = "done" /\ outcome = NoOutcome /\ status = RefusedWith(request)
    <3>1. stage = "shaped" \/ outcome # NoOutcome \/ (stage = "done" /\ outcome = NoOutcome)
      BY <2>1 DEF IntakeInv, IntakeAnswers
    <3>2. CASE stage = "shaped"
      <4>1. InOrder(request) /\ command = Shaped(request)
        BY <2>1, <3>2 DEF IntakeInv, PlainCarries
      <4>2. command.type \in CommandType
        BY <4>1 DEF Shaped, InOrder, Enveloped
      <4> QED BY <3>2, <4>1, <4>2
    <3>3. CASE outcome # NoOutcome
      <4>1. InOrder(request) /\ command.type \in CommandType
        BY <2>1, <3>3 DEF IntakeInv, IntakeAnswers, PlainCarries
      <4> QED BY <3>3, <4>1
    <3>4. CASE stage = "done" /\ outcome = NoOutcome
      BY <2>1, <3>4 DEF IntakeInv, IntakeAnswers, PlainCarries
    <3> QED BY <3>1, <3>2, <3>3, <3>4
  <2> QED BY <2>1 DEF LayersAgree, RefusedWith
<1>4. RetriesRecognised
  BY DEF IntakeInv, IntakeAnswers
<1>5. RefusalsCommitNothing
  <2>1. CASE stage = "done" /\ outcome = NoOutcome
    BY <2>1 DEF IntakeInv, IntakeAnswers, RefusalsCommitNothing
  <2>2. CASE stage = "done" /\ outcome # NoOutcome
    <3>1. outcome \in Outcomes /\ status = MapResult(outcome)
      BY <2>2 DEF IntakeInv, IntakeAnswers
    <3>2. /\ status = 200 => outcome = Success
          /\ outcome \in {Success, Failure} => status \notin 400..499
      BY <3>1, OutcomesMapped
    <3> QED BY <3>2 DEF IntakeInv, IntakeAnswers, RefusalsCommitNothing
  <2> QED BY <2>1, <2>2 DEF RefusalsCommitNothing
<1> QED BY <1>1, <1>2, <1>3, <1>4, <1>5 DEF IntakeSound

(* For every set of bodies and every clock: whatever body arrives at any of  *)
(* the three routes and however often its client sends it again, what is     *)
(* executed has exactly the fields of its type and the time of the server,   *)
(* the layers that translate it accept what is in order and nothing else, a  *)
(* retry gets the recorded result (a command that carries the server's time  *)
(* excepted, once that has moved), and a refusal has committed nothing.      *)
THEOREM IntakeIsSound ==
  ASSUME IntakeAssumption
  PROVE  IntakeSpec => []IntakeSound
<1>1. IntakeInit => IntakeInv
  BY IntakeInitially
<1>2. IntakeInv /\ [IntakeNext]_intakeVars => IntakeInv'
  BY IntakeStepKept
<1>3. IntakeInv => IntakeSound
  BY IntakeInvGives
<1> QED BY <1>1, <1>2, <1>3, PTL DEF IntakeSpec

---------------------------------------------------------------------------
(* The loaders that run before the k-th have found nothing wrong.            *)
PassedUpTo(k) == \A i \in 1..k : Wrong(Checks(Steps(entry)[i], env)) = {}
Remaining(k) ==
  /\ Len(step) = Len(Steps(entry)) - k
  /\ \A i \in 1..Len(step) : step[i] = Steps(entry)[i + k]
ConfigurationInv ==
  /\ entry \in {"main", "launcher"} /\ None \notin DOMAIN env /\ Complete(entry, env)
  /\ step \in Seq(LoadersOf(entry))
  /\ \E k \in 0..Len(Steps(entry)) : Remaining(k) /\ PassedUpTo(k)
  /\ composition.state \in {"loading", "composed", "refused"}
  /\ composition.state = "composed" => step = <<>>
  /\ IF composition.state = "refused" THEN composition.variable \in DOMAIN env \ repaired
     ELSE composition.variable = None
  /\ \A v \in repaired : v \in DOMAIN env /\ env[v] = Good(entry, v)

(* Two results of a check of one variable are alike in environments that agree *)
(* on that variable.                                                         *)
Alike(x, y, e, g) == x[1] = y[1] /\ (e[x[1]] = g[x[1]] => (x[2] <=> y[2]))

(* A check of a value looks at nothing but the variable it names.            *)
LEMMA ValuesAlike ==
  ASSUME NEW e, NEW g, NEW v, NEW accepted
  PROVE  Alike(requiredSecurityValue(e, v, accepted), requiredSecurityValue(g, v, accepted), e, g)
BY DEF Alike, requiredSecurityValue

(* So does one of a number between two bounds,                               *)
LEMMA IntegersAlike ==
  ASSUME NEW e, NEW g, NEW v, NEW m, NEW n
  PROVE  Alike(requiredSecurityInteger(e, v, m, n), requiredSecurityInteger(g, v, m, n), e, g)
BY DEF Alike, requiredSecurityInteger

(* and so do those that have a form of their own.                            *)
LEMMA OthersAlike ==
  ASSUME NEW e, NEW g
  PROVE  /\ \A v : Alike(forbidden(e, v), forbidden(g, v), e, g)
         /\ \A v : Alike(requiredNonEmpty(e, v), requiredNonEmpty(g, v), e, g)
         /\ \A v : Alike(requiredPort(e, v), requiredPort(g, v), e, g)
         /\ Alike(readPasswordFile(e), readPasswordFile(g), e, g)
         /\ Alike(readCaFile(e), readCaFile(g), e, g)
         /\ Alike(explicitHosts(e), explicitHosts(g), e, g)
         /\ Alike(explicitProxyAddresses(e), explicitProxyAddresses(g), e, g)
         /\ Alike(environmentOf(e), environmentOf(g), e, g)
         /\ Alike(disabled(e), disabled(g), e, g)
<1>1. ASSUME NEW v
      PROVE  /\ Alike(forbidden(e, v), forbidden(g, v), e, g)
             /\ Alike(requiredNonEmpty(e, v), requiredNonEmpty(g, v), e, g)
             /\ Alike(requiredPort(e, v), requiredPort(g, v), e, g)
  <2>1. Alike(forbidden(e, v), forbidden(g, v), e, g)
    BY DEF Alike, forbidden
  <2>2. Alike(requiredNonEmpty(e, v), requiredNonEmpty(g, v), e, g)
    BY DEF Alike, requiredNonEmpty
  <2>3. Alike(requiredPort(e, v), requiredPort(g, v), e, g)
    BY IntegersAlike DEF requiredPort
  <2> QED BY <2>1, <2>2, <2>3
<1>2. /\ Alike(readPasswordFile(e), readPasswordFile(g), e, g)
      /\ Alike(readCaFile(e), readCaFile(g), e, g)
  BY DEF Alike, readPasswordFile, readCaFile
<1>3. /\ Alike(explicitHosts(e), explicitHosts(g), e, g)
      /\ Alike(explicitProxyAddresses(e), explicitProxyAddresses(g), e, g)
  BY DEF Alike, explicitHosts, explicitProxyAddresses
<1>4. Alike(environmentOf(e), environmentOf(g), e, g)
  BY DEF Alike, environmentOf, Environment
<1>5. Alike(disabled(e), disabled(g), e, g)
  BY DEF Alike, disabled, Enabled
<1> QED BY <1>1, <1>2, <1>3, <1>4, <1>5

(* The nine checks of the database's configuration are such checks.          *)
LEMMA PostgresAlike ==
  ASSUME NEW e, NEW g
  PROVE  /\ DOMAIN loadPostgresConfig(e) = 1..9
         /\ \A i \in 1..9 : Alike(loadPostgresConfig(e)[i], loadPostgresConfig(g)[i], e, g)
<1>0. DOMAIN loadPostgresConfig(e) = 1..9
  BY DEF loadPostgresConfig
<1>1. \A i \in 1..3 : Alike(loadPostgresConfig(e)[i], loadPostgresConfig(g)[i], e, g)
  <2>1. ASSUME NEW f
        PROVE  /\ loadPostgresConfig(f)[1] = forbidden(f, "PGPASSWORD")
               /\ loadPostgresConfig(f)[2] = forbidden(f, "PGSSLMODE")
               /\ loadPostgresConfig(f)[3] = requiredNonEmpty(f, "PGHOST")
    BY DEF loadPostgresConfig
  <2>2. /\ Alike(loadPostgresConfig(e)[1], loadPostgresConfig(g)[1], e, g)
        /\ Alike(loadPostgresConfig(e)[2], loadPostgresConfig(g)[2], e, g)
        /\ Alike(loadPostgresConfig(e)[3], loadPostgresConfig(g)[3], e, g)
    BY <2>1, OthersAlike
  <2> QED BY <2>2
<1>2. \A i \in 4..6 : Alike(loadPostgresConfig(e)[i], loadPostgresConfig(g)[i], e, g)
  <2>1. ASSUME NEW f
        PROVE  /\ loadPostgresConfig(f)[4] = requiredPort(f, "PGPORT")
               /\ loadPostgresConfig(f)[5] = requiredNonEmpty(f, "PGDATABASE")
               /\ loadPostgresConfig(f)[6] = requiredNonEmpty(f, "PGUSER")
    BY DEF loadPostgresConfig
  <2>2. /\ Alike(loadPostgresConfig(e)[4], loadPostgresConfig(g)[4], e, g)
        /\ Alike(loadPostgresConfig(e)[5], loadPostgresConfig(g)[5], e, g)
        /\ Alike(loadPostgresConfig(e)[6], loadPostgresConfig(g)[6], e, g)
    BY <2>1, OthersAlike
  <2> QED BY <2>2
<1>3. \A i \in 7..9 : Alike(loadPostgresConfig(e)[i], loadPostgresConfig(g)[i], e, g)
  BY ValuesAlike, OthersAlike DEF loadPostgresConfig
<1> QED BY <1>0, <1>1, <1>2, <1>3

(* The seven of authentication are, too.                                     *)
LEMMA AuthenticationAlike ==
  ASSUME NEW e, NEW g
  PROVE  /\ DOMAIN loadAuthenticationConfig(e) = 1..7
         /\ \A i \in 1..7 : Alike(loadAuthenticationConfig(e)[i], loadAuthenticationConfig(g)[i], e, g)
BY ValuesAlike, IntegersAlike DEF loadAuthenticationConfig

(* Of the twelve of the public ingress all but the sixth, of headers, are.   *)
LEMMA IngressAlike ==
  ASSUME NEW e, NEW g
  PROVE  /\ DOMAIN loadPublicIngressConfig(e) = 1..12
         /\ \A i \in 1..12 \ {6} : Alike(loadPublicIngressConfig(e)[i], loadPublicIngressConfig(g)[i], e, g)
         /\ loadPublicIngressConfig(e)[6] = headersTimeoutMs(e)
BY ValuesAlike, IntegersAlike, OthersAlike DEF loadPublicIngressConfig, maxBodyBytes, maxHeaderBytes, requestTimeoutMs, maxConcurrentRequests

(* Of the seven of the development transport, likewise.                      *)
LEMMA TransportAlike ==
  ASSUME NEW e, NEW g
  PROVE  /\ DOMAIN loadTransportConfig(e) = 1..7
         /\ \A i \in 1..7 \ {6} : Alike(loadTransportConfig(e)[i], loadTransportConfig(g)[i], e, g)
         /\ loadTransportConfig(e)[6] = headersTimeoutMs(e)
BY ValuesAlike, IntegersAlike DEF loadTransportConfig, maxBodyBytes, maxHeaderBytes, requestTimeoutMs, maxConcurrentRequests

(* Of the seven of the limiter all are but the sixth, of the retention.      *)
LEMMA RateAlike ==
  ASSUME NEW e, NEW g
  PROVE  /\ DOMAIN loadRateLimitingConfig(e) = 1..7
         /\ \A i \in 1..7 \ {6} : Alike(loadRateLimitingConfig(e)[i], loadRateLimitingConfig(g)[i], e, g)
         /\ loadRateLimitingConfig(e)[6] = retentionCovers(e)
BY IntegersAlike DEF loadRateLimitingConfig, windowMs

(* The thirteen of observability are.                                        *)
LEMMA ObservabilityAlike ==
  ASSUME NEW e, NEW g
  PROVE  /\ DOMAIN loadSecurityObservabilityConfig(e) = 1..13
         /\ \A i \in 1..13 : Alike(loadSecurityObservabilityConfig(e)[i], loadSecurityObservabilityConfig(g)[i], e, g)
BY ValuesAlike, IntegersAlike DEF loadSecurityObservabilityConfig, retentionDays, threshold

(* Of the three on prototype funding the last looks at the environment.      *)
LEMMA PrototypeAlike ==
  ASSUME NEW e, NEW g
  PROVE  /\ DOMAIN loadPrototypeFundingConfig(e) = 1..3
         /\ \A i \in 1..3 \ {3} : Alike(loadPrototypeFundingConfig(e)[i], loadPrototypeFundingConfig(g)[i], e, g)
         /\ loadPrototypeFundingConfig(e)[3] = onlyInDevelopment(e)
BY ValuesAlike, OthersAlike DEF loadPrototypeFundingConfig

(* The one check of main on prototype funding is.                            *)
LEMMA RefuseAlike ==
  ASSUME NEW e, NEW g
  PROVE  /\ DOMAIN refusePrototypeFunding(e) = 1..1
         /\ \A i \in 1..1 : Alike(refusePrototypeFunding(e)[i], refusePrototypeFunding(g)[i], e, g)
BY OthersAlike DEF refusePrototypeFunding

(* The three on the database to be provisioned are.                          *)
LEMMA ProvisioningAlike ==
  ASSUME NEW e, NEW g
  PROVE  /\ DOMAIN assertDevelopmentProvisioningEnvironment(e) = 1..3
         /\ \A i \in 1..3 : Alike(assertDevelopmentProvisioningEnvironment(e)[i], assertDevelopmentProvisioningEnvironment(g)[i], e, g)
BY ValuesAlike DEF assertDevelopmentProvisioningEnvironment

(* The one of the launcher looks at the environment as well.                 *)
LEMMA LauncherAlike ==
  ASSUME NEW e, NEW g
  PROVE  /\ DOMAIN assertDevelopmentLauncherEnvironment(e) = 1..1
         /\ assertDevelopmentLauncherEnvironment(e)[1] = enabledInDevelopment(e)
BY DEF assertDevelopmentLauncherEnvironment

(* The one of the origin of the pages is.                                    *)
LEMMA OriginAlike ==
  ASSUME NEW e, NEW g
  PROVE  /\ DOMAIN isLoopbackHttpOrigin(e) = 1..1
         /\ \A i \in 1..1 : Alike(isLoopbackHttpOrigin(e)[i], isLoopbackHttpOrigin(g)[i], e, g)
BY ValuesAlike DEF isLoopbackHttpOrigin

(* Which loaders there are.                                                  *)
LEMMA TheLoaders ==
  /\ LoadersOf("main") =
       {"postgres", "authentication", "ingress", "rate", "observability", "prototype", "refuse"}
  /\ LoadersOf("launcher") = {"provisioning", "prototype", "enabled", "postgres", "http", "origin"}
BY DEF LoadersOf, Steps

(* What the checks judge that look at more than one variable.                *)
LEMMA ComparedChecks ==
  ASSUME NEW e
  PROVE  /\ headersTimeoutMs(e)[1] = "HTTP_HEADERS_TIMEOUT_MS"
         /\ headersTimeoutMs(e)[2] <=> e["HTTP_HEADERS_TIMEOUT_MS"] \in 100..e["HTTP_REQUEST_TIMEOUT_MS"]
         /\ retentionCovers(e)[1] = "RATE_LIMIT_RETENTION_MS"
         /\ retentionCovers(e)[2] <=> Covers(e)
         /\ onlyInDevelopment(e)[1] = "PROTOTYPE_FUNDING_ENABLED"
         /\ onlyInDevelopment(e)[2] <=> (Enabled(e) => Environment(e) = "development")
         /\ disabled(e)[2] <=> ~Enabled(e)
         /\ enabledInDevelopment(e)[1] = "PROTOTYPE_FUNDING_ENABLED"
         /\ enabledInDevelopment(e)[2] <=> Environment(e) = "development" /\ Enabled(e)
<1>1. /\ headersTimeoutMs(e)[1] = "HTTP_HEADERS_TIMEOUT_MS"
      /\ headersTimeoutMs(e)[2] <=> e["HTTP_HEADERS_TIMEOUT_MS"] \in 100..e["HTTP_REQUEST_TIMEOUT_MS"]
  BY DEF headersTimeoutMs, requiredSecurityInteger
<1>2. /\ retentionCovers(e)[1] = "RATE_LIMIT_RETENTION_MS"
      /\ retentionCovers(e)[2] <=> Covers(e)
  BY DEF retentionCovers, Covers
<1>3. /\ onlyInDevelopment(e)[1] = "PROTOTYPE_FUNDING_ENABLED"
      /\ onlyInDevelopment(e)[2] <=> (Enabled(e) => Environment(e) = "development")
  BY DEF onlyInDevelopment, Enabled
<1>4. /\ enabledInDevelopment(e)[1] = "PROTOTYPE_FUNDING_ENABLED"
      /\ enabledInDevelopment(e)[2] <=> Environment(e) = "development" /\ Enabled(e)
  BY DEF enabledInDevelopment, Enabled
<1>5. disabled(e)[2] <=> ~Enabled(e)
  BY DEF disabled, Enabled
<1> QED BY <1>1, <1>2, <1>3, <1>4, <1>5

(* A default is taken where a variable is not set, whatever the others are.  *)
LEMMA NormalizedAlike ==
  ASSUME NEW e, NEW g, DOMAIN e = DOMAIN g, NEW v \in DOMAIN e
  PROVE  /\ Normalized(e)[v] = IF v \in DOMAIN Default /\ Missing(e, v) THEN Default[v] ELSE e[v]
         /\ e[v] = g[v] => Normalized(e)[v] = Normalized(g)[v]
BY DEF Normalized, Missing

(* Which checks a loader makes.                                              *)
LEMMA LoaderChecks ==
  ASSUME NEW e
  PROVE  /\ Checks("postgres", e) = loadPostgresConfig(e)
         /\ Checks("authentication", e) = loadAuthenticationConfig(e)
         /\ Checks("ingress", e) = loadPublicIngressConfig(e)
         /\ Checks("rate", e) = loadRateLimitingConfig(e)
         /\ Checks("observability", e) = loadSecurityObservabilityConfig(e)
         /\ Checks("prototype", e) = loadPrototypeFundingConfig(e)
         /\ Checks("refuse", e) = refusePrototypeFunding(e)
         /\ Checks("provisioning", e) = assertDevelopmentProvisioningEnvironment(e)
         /\ Checks("enabled", e) = assertDevelopmentLauncherEnvironment(e)
         /\ Checks("http", e) = loadTransportConfig(Normalized(e))
         /\ Checks("origin", e) = isLoopbackHttpOrigin(e)
BY DEF Checks, loadDevelopmentHttpConfig

(* Of a check that does not look at a second variable it matters only what   *)
(* the variable it names is set to.                                          *)
SameNames(c, d) == DOMAIN c = DOMAIN d /\ \A i \in DOMAIN c : c[i][1] = d[i][1]
SameJudgement(c, d, e, g, compared) ==
  \A i \in DOMAIN c \ compared : c[i][1] \in DOMAIN e /\ e[c[i][1]] = g[c[i][1]] => (c[i][2] <=> d[i][2])
ComparedBy(s) ==
  CASE s \in {"ingress", "http", "rate"} -> {6} [] s = "prototype" -> {3} [] s = "enabled" -> {1} [] OTHER -> {}

(* Two loaders' results, check by check.                                     *)
LEMMA AlikeEverywhere ==
  ASSUME NEW c, NEW d, NEW e, NEW g, DOMAIN c = DOMAIN d, NEW compared,
         \A i \in DOMAIN c \ compared : Alike(c[i], d[i], e, g),
         \A i \in compared : c[i][1] = d[i][1]
  PROVE  SameNames(c, d) /\ SameJudgement(c, d, e, g, compared)
BY DEF SameNames, SameJudgement, Alike

(* All loaders: the same checks of the same variables in every environment.  *)
LEMMA ChecksAlike ==
  ASSUME NEW e, NEW g, DOMAIN e = DOMAIN g, NEW s \in LoadersOf("main") \cup LoadersOf("launcher"),
         NEW c, c = Checks(s, e), NEW d, d = Checks(s, g)
  PROVE  /\ \E n \in 1..13 : DOMAIN c = 1..n
         /\ SameNames(c, d)
         /\ SameJudgement(c, d, e, g, ComparedBy(s))
<1>1. ASSUME NEW n \in 1..13, DOMAIN c = 1..n, DOMAIN d = 1..n, ComparedBy(s) = {},
             \A i \in 1..n : Alike(c[i], d[i], e, g)
      PROVE  /\ SameNames(c, d)
             /\ SameJudgement(c, d, e, g, ComparedBy(s))
  BY <1>1, AlikeEverywhere
<1>2. CASE s = "postgres"
  <2>1. DOMAIN c = 1..9 /\ DOMAIN d = 1..9 /\ \A i \in 1..9 : Alike(c[i], d[i], e, g)
    BY <1>2, PostgresAlike, LoaderChecks
  <2> QED BY <1>1, <1>2, <2>1 DEF ComparedBy
<1>3. CASE s = "authentication"
  <2>1. DOMAIN c = 1..7 /\ DOMAIN d = 1..7 /\ \A i \in 1..7 : Alike(c[i], d[i], e, g)
    BY <1>3, AuthenticationAlike, LoaderChecks
  <2> QED BY <1>1, <1>3, <2>1 DEF ComparedBy
<1>4. CASE s = "ingress"
  <2>1. /\ DOMAIN c = 1..12 /\ DOMAIN d = 1..12 /\ ComparedBy(s) = {6}
        /\ \A i \in 1..12 \ {6} : Alike(c[i], d[i], e, g)
        /\ c[6][1] = d[6][1]
    <3>1. /\ DOMAIN c = 1..12 /\ c[6] = headersTimeoutMs(e)
          /\ \A i \in 1..12 \ {6} : Alike(c[i], d[i], e, g)
      BY <1>4, IngressAlike, LoaderChecks
    <3>2. DOMAIN d = 1..12 /\ d[6] = headersTimeoutMs(g)
      BY <1>4, IngressAlike, LoaderChecks
    <3>3. headersTimeoutMs(e)[1] = headersTimeoutMs(g)[1]
      BY ComparedChecks
    <3> QED BY <1>4, <3>1, <3>2, <3>3 DEF ComparedBy
  <2> QED BY <2>1, AlikeEverywhere
<1>5. CASE s = "rate"
  <2>1. /\ DOMAIN c = 1..7 /\ DOMAIN d = 1..7 /\ ComparedBy(s) = {6}
        /\ \A i \in 1..7 \ {6} : Alike(c[i], d[i], e, g)
        /\ c[6][1] = d[6][1]
    <3>1. /\ DOMAIN c = 1..7 /\ c[6] = retentionCovers(e)
          /\ \A i \in 1..7 \ {6} : Alike(c[i], d[i], e, g)
      BY <1>5, RateAlike, LoaderChecks
    <3>2. DOMAIN d = 1..7 /\ d[6] = retentionCovers(g)
      BY <1>5, RateAlike, LoaderChecks
    <3>3. retentionCovers(e)[1] = retentionCovers(g)[1]
      BY ComparedChecks
    <3> QED BY <1>5, <3>1, <3>2, <3>3 DEF ComparedBy
  <2> QED BY <2>1, AlikeEverywhere
<1>6. CASE s = "observability"
  <2>1. DOMAIN c = 1..13 /\ DOMAIN d = 1..13 /\ \A i \in 1..13 : Alike(c[i], d[i], e, g)
    BY <1>6, ObservabilityAlike, LoaderChecks
  <2> QED BY <1>1, <1>6, <2>1 DEF ComparedBy
<1>7. CASE s = "prototype"
  <2>1. /\ DOMAIN c = 1..3 /\ DOMAIN d = 1..3 /\ ComparedBy(s) = {3}
        /\ \A i \in 1..3 \ {3} : Alike(c[i], d[i], e, g)
        /\ c[3][1] = d[3][1]
    <3>1. /\ DOMAIN c = 1..3 /\ c[3] = onlyInDevelopment(e)
          /\ \A i \in 1..3 \ {3} : Alike(c[i], d[i], e, g)
      BY <1>7, PrototypeAlike, LoaderChecks
    <3>2. DOMAIN d = 1..3 /\ d[3] = onlyInDevelopment(g)
      BY <1>7, PrototypeAlike, LoaderChecks
    <3>3. onlyInDevelopment(e)[1] = onlyInDevelopment(g)[1]
      BY ComparedChecks
    <3> QED BY <1>7, <3>1, <3>2, <3>3 DEF ComparedBy
  <2> QED BY <2>1, AlikeEverywhere
<1>8. CASE s = "refuse"
  <2>1. DOMAIN c = 1..1 /\ DOMAIN d = 1..1 /\ \A i \in 1..1 : Alike(c[i], d[i], e, g)
    BY <1>8, RefuseAlike, LoaderChecks
  <2> QED BY <1>1, <1>8, <2>1 DEF ComparedBy
<1>9. CASE s = "provisioning"
  <2>1. DOMAIN c = 1..3 /\ DOMAIN d = 1..3 /\ \A i \in 1..3 : Alike(c[i], d[i], e, g)
    BY <1>9, ProvisioningAlike, LoaderChecks
  <2> QED BY <1>1, <1>9, <2>1 DEF ComparedBy
<1>10. CASE s = "enabled"
  <2>1. DOMAIN c = 1..1 /\ DOMAIN d = 1..1 /\ c[1][1] = d[1][1] /\ ComparedBy(s) = {1}
    <3>1. /\ DOMAIN c = 1..1 /\ c[1] = enabledInDevelopment(e)
      BY <1>10, LauncherAlike, LoaderChecks
    <3>2. DOMAIN d = 1..1 /\ d[1] = enabledInDevelopment(g)
      BY <1>10, LauncherAlike, LoaderChecks
    <3>3. enabledInDevelopment(e)[1] = enabledInDevelopment(g)[1]
      BY ComparedChecks
    <3> QED BY <1>10, <3>1, <3>2, <3>3 DEF ComparedBy
  <2> QED BY <2>1 DEF SameNames, SameJudgement
<1>11. CASE s = "http"
  <2>1. /\ DOMAIN c = 1..7 /\ DOMAIN d = 1..7 /\ ComparedBy(s) = {6}
        /\ \A i \in 1..7 \ {6} : Alike(c[i], d[i], Normalized(e), Normalized(g))
        /\ c[6][1] = d[6][1]
    <3>1. /\ DOMAIN c = 1..7 /\ c[6] = headersTimeoutMs(Normalized(e))
          /\ \A i \in 1..7 \ {6} : Alike(c[i], d[i], Normalized(e), Normalized(g))
      BY <1>11, TransportAlike, LoaderChecks
    <3>2. DOMAIN d = 1..7 /\ d[6] = headersTimeoutMs(Normalized(g))
      BY <1>11, TransportAlike, LoaderChecks
    <3>3. headersTimeoutMs(Normalized(e))[1] = headersTimeoutMs(Normalized(g))[1]
      BY ComparedChecks
    <3> QED BY <1>11, <3>1, <3>2, <3>3 DEF ComparedBy
  <2>2. \A v \in DOMAIN e : e[v] = g[v] => Normalized(e)[v] = Normalized(g)[v]
    BY NormalizedAlike
  <2>3. SameNames(c, d)
    BY <2>1 DEF SameNames, Alike
  <2>4. SameJudgement(c, d, e, g, ComparedBy(s))
    BY <2>1, <2>2 DEF SameJudgement, Alike
  <2> QED BY <2>1, <2>3, <2>4
<1>12. CASE s = "origin"
  <2>1. DOMAIN c = 1..1 /\ DOMAIN d = 1..1 /\ \A i \in 1..1 : Alike(c[i], d[i], e, g)
    BY <1>12, OriginAlike, LoaderChecks
  <2> QED BY <1>1, <1>12, <2>1 DEF ComparedBy
<1> QED BY TheLoaders, <1>2, <1>3, <1>4, <1>5, <1>6, <1>7, <1>8, <1>9, <1>10, <1>11, <1>12

(* A number is accepted exactly between its bounds.                          *)
LEMMA OfInteger ==
  ASSUME NEW e, NEW v, NEW m, NEW n
  PROVE  requiredSecurityInteger(e, v, m, n)[2] <=> e[v] \in m..n
BY DEF requiredSecurityInteger

(* A timeout that is accepted is a number of at least 100.                   *)
LEMMA RequestTimeout ==
  ASSUME NEW e, requestTimeoutMs(e)[2]
  PROVE  e["HTTP_REQUEST_TIMEOUT_MS"] \in Int /\ e["HTTP_REQUEST_TIMEOUT_MS"] >= 100
<1>1. requiredSecurityInteger(e, "HTTP_REQUEST_TIMEOUT_MS", 100, MaxTimeout)[2]
  BY DEF requestTimeoutMs
<1>2. e["HTTP_REQUEST_TIMEOUT_MS"] \in 100..MaxTimeout
  BY <1>1, OfInteger
<1>3. MaxTimeout \in Int
  BY DEF MaxTimeout
<1> QED BY <1>2, <1>3

(* The longest retention is longer than any window may be.                   *)
LEMMA LongestCovers ==
  ASSUME NEW e, windowMs(e, "RATE_LIMIT_PRE_AUTH_WINDOW_MS")[2], windowMs(e, "RATE_LIMIT_PRINCIPAL_WINDOW_MS")[2],
         e["RATE_LIMIT_RETENTION_MS"] = MaxRetention
  PROVE  Covers(e)
<1>1. ASSUME NEW v, windowMs(e, v)[2]
      PROVE  e[v] \in 1000..Day
  <2>1. requiredSecurityInteger(e, v, 1000, Day)[2]
    BY <1>1 DEF windowMs
  <2> QED BY <2>1, OfInteger
<1>2. MaxRetention \in Int /\ Day \in Int /\ Day <= MaxRetention
  BY SMT DEF MaxRetention, Day
<1>3. /\ e["RATE_LIMIT_PRE_AUTH_WINDOW_MS"] \in 1000..Day
      /\ e["RATE_LIMIT_PRINCIPAL_WINDOW_MS"] \in 1000..Day
  BY <1>1
<1> QED BY <1>2, <1>3 DEF Covers, Larger

(* The checks of the limiter that compare, and what they look at.            *)
LEMMA RateChecks ==
  ASSUME NEW e, NEW c, c = Checks("rate", e)
  PROVE  /\ c[3] = windowMs(e, "RATE_LIMIT_PRE_AUTH_WINDOW_MS")
         /\ c[4] = windowMs(e, "RATE_LIMIT_PRINCIPAL_WINDOW_MS")
         /\ c[6] = retentionCovers(e)
BY LoaderChecks, SMT DEF loadRateLimitingConfig

(* A check that refused its variable passes once that is set right, provided *)
(* the checks before it pass: what an operator sets is right alone.          *)
LEMMA RightedPasses ==
  ASSUME ConfigurationAssumption, NEW who \in {"main", "launcher"}, NEW e, Complete(who, e),
         NEW s \in LoadersOf(who), NEW c, c = Checks(s, e), NEW i \in DOMAIN c,
         \A j \in 1..(i - 1) : c[j][2],
         e[c[i][1]] = Good(who, c[i][1]),
         who = "launcher" /\ s \in {"prototype", "enabled"} => e["ZINESH_RUNTIME_ENV"] = "development"
  PROVE  c[i][2]
<1> DEFINE g == AllGood(who, e)
           d == Checks(s, g)
<1>1. DOMAIN g = DOMAIN e /\ \A v \in DOMAIN e : g[v] = Good(who, v)
  BY DEF AllGood
<1>2. s \in LoadersOf("main") \cup LoadersOf("launcher")
  OBVIOUS
<1>3. SameNames(c, d) /\ SameJudgement(c, d, e, g, ComparedBy(s))
  BY <1>1, <1>2, ChecksAlike
<1>4. c[i][1] \in DOMAIN e /\ \A j \in DOMAIN d : d[j][2]
  BY DEF Complete, Wrong
<1>0. /\ Good(who, "HTTP_HEADERS_TIMEOUT_MS") = 100
      /\ Good("main", "RATE_LIMIT_RETENTION_MS") = MaxRetention
  BY DEF ConfigurationAssumption
<1> HIDE DEF g, d
<1>5. CASE i \notin ComparedBy(s)
  BY <1>1, <1>3, <1>4, <1>5 DEF SameNames, SameJudgement
<1>6. CASE s = "ingress" /\ i = 6
  <2>1. c[5] = requestTimeoutMs(e) /\ c[6] = headersTimeoutMs(e)
    BY <1>6, LoaderChecks DEF loadPublicIngressConfig
  <2>2. e["HTTP_REQUEST_TIMEOUT_MS"] \in Int /\ e["HTTP_REQUEST_TIMEOUT_MS"] >= 100
    <3>1. c[5][2]
      BY <1>6
    <3> QED BY <2>1, <3>1, RequestTimeout
  <2>3. e["HTTP_HEADERS_TIMEOUT_MS"] = 100
    <3>1. c[i][1] = "HTTP_HEADERS_TIMEOUT_MS"
      BY <1>6, <2>1, ComparedChecks
    <3> QED BY <1>0, <3>1
  <2>4. e["HTTP_HEADERS_TIMEOUT_MS"] \in 100..e["HTTP_REQUEST_TIMEOUT_MS"]
    BY <2>2, <2>3
  <2> QED BY <1>6, <2>1, <2>4, ComparedChecks
<1>7. CASE s = "http" /\ i = 6
  <2> DEFINE m == Normalized(e)
  <2>1. c[5] = requestTimeoutMs(m) /\ c[6] = headersTimeoutMs(m)
    BY <1>7, LoaderChecks DEF loadTransportConfig
  <2>2. m["HTTP_REQUEST_TIMEOUT_MS"] \in Int /\ m["HTTP_REQUEST_TIMEOUT_MS"] >= 100
    <3>1. c[5][2]
      BY <1>7
    <3> QED BY <2>1, <3>1, RequestTimeout
  <2>3. "HTTP_HEADERS_TIMEOUT_MS" \in DOMAIN e /\ e["HTTP_HEADERS_TIMEOUT_MS"] = 100
    <3>1. c[i][1] = "HTTP_HEADERS_TIMEOUT_MS"
      BY <1>7, <2>1, ComparedChecks
    <3> QED BY <1>0, <1>4, <3>1
  <2>4. m["HTTP_HEADERS_TIMEOUT_MS"] = 100
    BY <2>3 DEF Normalized, Missing, Absent
  <2>5. m["HTTP_HEADERS_TIMEOUT_MS"] \in 100..m["HTTP_REQUEST_TIMEOUT_MS"]
    BY <2>2, <2>4
  <2> HIDE DEF m
  <2> QED BY <1>7, <2>1, <2>5, ComparedChecks
<1>8. CASE s = "rate" /\ i = 6
  <2>1. c[3] = windowMs(e, "RATE_LIMIT_PRE_AUTH_WINDOW_MS") /\ c[4] = windowMs(e, "RATE_LIMIT_PRINCIPAL_WINDOW_MS")
        /\ c[6] = retentionCovers(e)
    BY <1>8, RateChecks
  <2>2. c[3][2] /\ c[4][2]
    BY <1>8
  <2>3. who = "main"
    BY <1>8, TheLoaders
  <2>4. e["RATE_LIMIT_RETENTION_MS"] = MaxRetention
    <3>1. c[i][1] = "RATE_LIMIT_RETENTION_MS"
      BY <1>8, <2>1, ComparedChecks
    <3> QED BY <1>0, <2>3, <3>1
  <2>5. Covers(e)
    BY <2>1, <2>2, <2>4, LongestCovers
  <2> QED BY <1>8, <2>1, <2>5, ComparedChecks
<1>9. CASE s = "prototype" /\ i = 3
  <2>1. c[3] = onlyInDevelopment(e)
    BY <1>9, LoaderChecks DEF loadPrototypeFundingConfig
  <2>2. Enabled(e) => Environment(e) = "development"
    <3>1. CASE who = "launcher"
      BY <1>9, <3>1 DEF Environment
    <3>2. CASE who = "main"
      <4>1. "refuse" \in LoadersOf(who)
        BY <3>2, TheLoaders
      <4>2. Checks("refuse", g)[1][2] 
        <5>1. Wrong(Checks("refuse", g)) = {}
          BY <4>1 DEF Complete, g
        <5>2. Checks("refuse", g) = <<disabled(g)>>
          BY LoaderChecks DEF refusePrototypeFunding
        <5> QED BY <5>1, <5>2 DEF Wrong
      <4>3. ~Enabled(g)
        <5>1. Checks("refuse", g)[1] = disabled(g)
          BY LoaderChecks DEF refusePrototypeFunding
        <5> QED BY <4>2, <5>1, ComparedChecks
      <4>4. e["PROTOTYPE_FUNDING_ENABLED"] = g["PROTOTYPE_FUNDING_ENABLED"]
        <5>1. onlyInDevelopment(e)[1] = "PROTOTYPE_FUNDING_ENABLED"
          BY ComparedChecks
        <5>2. c[i][1] = "PROTOTYPE_FUNDING_ENABLED"
          BY <1>9, <2>1, <5>1
        <5> QED BY <1>1, <1>4, <5>2
      <4> QED BY <4>3, <4>4 DEF Enabled
    <3> QED BY <3>1, <3>2
  <2> QED BY <1>9, <2>1, <2>2, ComparedChecks
<1>10. CASE s = "enabled" /\ i = 1
  <2>1. c[1] = enabledInDevelopment(e) /\ d[1] = enabledInDevelopment(g)
    BY <1>10, LoaderChecks DEF assertDevelopmentLauncherEnvironment, d
  <2>2. Environment(e) = "development"
    BY <1>10, TheLoaders DEF Environment
  <2>3. d[1][2]
    <3>1. 1 \in DOMAIN c /\ DOMAIN c = DOMAIN d
      BY <1>3, <1>10 DEF SameNames
    <3> QED BY <1>4, <3>1
  <2>4. Enabled(g)
    <3>1. enabledInDevelopment(g)[2]
      BY <2>1, <2>3
    <3> QED BY <3>1, ComparedChecks
  <2>5. e["PROTOTYPE_FUNDING_ENABLED"] = g["PROTOTYPE_FUNDING_ENABLED"]
    <3>1. enabledInDevelopment(e)[1] = "PROTOTYPE_FUNDING_ENABLED"
      BY ComparedChecks
    <3>2. c[i][1] = "PROTOTYPE_FUNDING_ENABLED"
      BY <1>10, <2>1, <3>1
    <3> QED BY <1>1, <1>4, <3>2
  <2>6. Enabled(e)
    BY <2>4, <2>5 DEF Enabled
  <2> QED BY <1>10, <2>1, <2>2, <2>6, ComparedChecks
<1>11. i \in ComparedBy(s) =>
         (s = "ingress" /\ i = 6) \/ (s = "http" /\ i = 6) \/ (s = "rate" /\ i = 6)
         \/ (s = "prototype" /\ i = 3) \/ (s = "enabled" /\ i = 1)
  BY DEF ComparedBy
<1> QED BY <1>5, <1>6, <1>7, <1>8, <1>9, <1>10, <1>11

(* The variable that is named is of a wrong check after which all pass.      *)
LEMMA FirstIsWrong ==
  ASSUME NEW c, NEW n \in 1..13, DOMAIN c = 1..n, Wrong(c) # {}
  PROVE  \E i \in 1..n : FirstWrong(c) = c[i][1] /\ ~c[i][2] /\ \A j \in 1..(i - 1) : c[j][2]
<1>1. Wrong(c) \in SUBSET Nat
  BY DEF Wrong
<1>2. \E i \in Wrong(c) : \A j \in Wrong(c) : i <= j
  <2> DEFINE R == {ss \in Nat \X Nat : ss[1] < ss[2]}
  <2>1. IsWellFoundedOn(R, Nat)
    BY NatLessThanWellFounded DEF OpToRel
  <2>2. PICK i \in Wrong(c) : \A j \in Wrong(c) : <<j, i>> \notin R
    BY <1>1, <2>1, WFMin
  <2>3. ASSUME NEW j \in Wrong(c) PROVE i <= j
    <3>1. i \in Nat /\ j \in Nat /\ ~(j < i)
      BY <1>1, <2>2
    <3> QED BY <3>1
  <2> QED BY <2>3
<1>3. PICK i : i = CHOOSE m \in Wrong(c) : \A j \in Wrong(c) : m <= j
  OBVIOUS
<1>4. i \in Wrong(c) /\ \A j \in Wrong(c) : i <= j
  BY <1>2, <1>3
<1>5. FirstWrong(c) = c[i][1]
  BY <1>3 DEF FirstWrong
<1>6. i \in 1..n /\ ~c[i][2]
  BY <1>4 DEF Wrong
<1>7. ASSUME NEW j \in 1..(i - 1) PROVE c[j][2]
  <2>1. j \in 1..n /\ ~(i <= j)
    BY <1>6, <1>7
  <2> QED BY <1>4, <2>1 DEF Wrong
<1> QED BY <1>5, <1>6, <1>7

(* Setting a variable leaves an environment complete.                        *)
LEMMA CompleteKept ==
  ASSUME NEW who \in {"main", "launcher"}, NEW e, NEW g, DOMAIN e = DOMAIN g, Complete(who, e)
  PROVE  Complete(who, g)
<1>1. AllGood(who, g) = AllGood(who, e)
  BY DEF AllGood
<1>2. ASSUME NEW s \in LoadersOf(who)
      PROVE  \A i \in DOMAIN Checks(s, g) : Checks(s, g)[i][1] \in DOMAIN g
  <2>1. SameNames(Checks(s, e), Checks(s, g))
    BY ChecksAlike
  <2>2. \A i \in DOMAIN Checks(s, e) : Checks(s, e)[i][1] \in DOMAIN e
    BY <1>2 DEF Complete
  <2> QED BY <2>1, <2>2 DEF SameNames
<1> QED BY <1>1, <1>2 DEF Complete

(* The steps of the two entries.                                             *)
LEMMA StepsOf ==
  ASSUME NEW who \in {"main", "launcher"}
  PROVE  /\ Steps(who) \in Seq(LoadersOf(who)) /\ Len(Steps(who)) \in 7..9
         /\ who = "main" => Len(Steps(who)) = 7 /\ Steps(who)[1] = "postgres" /\ Steps(who)[3] = "ingress"
                            /\ Steps(who)[4] = "rate" /\ Steps(who)[7] = "refuse"
         /\ who = "launcher" => Len(Steps(who)) = 9 /\ Steps(who)[1] = "provisioning" /\ Steps(who)[3] = "enabled"
                                /\ Steps(who)[4] = "postgres" /\ Steps(who)[8] = "http"
<1>1. who = "main" =>
        /\ Len(Steps(who)) = 7 /\ Steps(who)[1] = "postgres" /\ Steps(who)[3] = "ingress"
        /\ Steps(who)[4] = "rate" /\ Steps(who)[7] = "refuse"
  BY DEF Steps
<1>2. who = "launcher" =>
        /\ Len(Steps(who)) = 9 /\ Steps(who)[1] = "provisioning" /\ Steps(who)[3] = "enabled"
        /\ Steps(who)[4] = "postgres" /\ Steps(who)[8] = "http"
  BY DEF Steps
<1>3. Steps(who) \in Seq(LoadersOf(who))
  <2>1. CASE who = "main"
    <3>1. Steps(who) = <<"postgres", "authentication", "ingress", "rate", "observability", "prototype", "refuse">>
      BY <2>1 DEF Steps
    <3>2. LoadersOf(who) = {"postgres", "authentication", "ingress", "rate", "observability", "prototype", "refuse"}
      BY <2>1, TheLoaders
    <3> QED BY <3>1, <3>2
  <2>2. CASE who = "launcher"
    <3>1. Steps(who) = <<"provisioning", "prototype", "enabled", "postgres", "provisioning", "prototype", "enabled",
                         "http", "origin">>
      BY <2>2 DEF Steps
    <3>2. LoadersOf(who) = {"provisioning", "prototype", "enabled", "postgres", "http", "origin"}
      BY <2>2, TheLoaders
    <3> QED BY <3>1, <3>2
  <2> QED BY <2>1, <2>2
<1> QED BY <1>1, <1>2, <1>3

(* What the loaders that ran have found right.                               *)
LEMMA RightChecks ==
  ASSUME NEW e
  PROVE  /\ Wrong(Checks("provisioning", e)) = {} => e["ZINESH_RUNTIME_ENV"] = "development"
         /\ Wrong(Checks("refuse", e)) = {} => ~Enabled(e)
         /\ Wrong(Checks("enabled", e)) = {} => Enabled(e)
         /\ Wrong(Checks("postgres", e)) = {} => e["PG_TLS_MODE"] = "verify-full" /\ e["PGSSLMODE"] = "absent"
<1>1. Wrong(Checks("provisioning", e)) = {} => e["ZINESH_RUNTIME_ENV"] = "development"
  <2>1. 1 \in DOMAIN Checks("provisioning", e)
        /\ Checks("provisioning", e)[1] = requiredSecurityValue(e, "ZINESH_RUNTIME_ENV", {"development"})
    BY LoaderChecks DEF assertDevelopmentProvisioningEnvironment
  <2>2. requiredSecurityValue(e, "ZINESH_RUNTIME_ENV", {"development"})[2] => e["ZINESH_RUNTIME_ENV"] = "development"
    BY DEF requiredSecurityValue
  <2> QED BY <2>1, <2>2 DEF Wrong
<1>2. Wrong(Checks("refuse", e)) = {} => ~Enabled(e)
  <2>1. 1 \in DOMAIN Checks("refuse", e) /\ Checks("refuse", e)[1] = disabled(e)
    BY LoaderChecks DEF refusePrototypeFunding
  <2> QED BY <2>1, ComparedChecks DEF Wrong
<1>3. Wrong(Checks("enabled", e)) = {} => Enabled(e)
  <2>1. 1 \in DOMAIN Checks("enabled", e) /\ Checks("enabled", e)[1] = enabledInDevelopment(e)
    BY LoaderChecks DEF assertDevelopmentLauncherEnvironment
  <2> QED BY <2>1, ComparedChecks DEF Wrong
<1>4. Wrong(Checks("postgres", e)) = {} => e["PG_TLS_MODE"] = "verify-full" /\ e["PGSSLMODE"] = "absent"
  <2>1. /\ 2 \in DOMAIN Checks("postgres", e) /\ Checks("postgres", e)[2] = forbidden(e, "PGSSLMODE")
        /\ 8 \in DOMAIN Checks("postgres", e)
        /\ Checks("postgres", e)[8] = requiredSecurityValue(e, "PG_TLS_MODE", {"verify-full"})
    BY LoaderChecks DEF loadPostgresConfig
  <2>2. /\ forbidden(e, "PGSSLMODE")[2] => e["PGSSLMODE"] = "absent"
        /\ requiredSecurityValue(e, "PG_TLS_MODE", {"verify-full"})[2] => e["PG_TLS_MODE"] = "verify-full"
    BY DEF forbidden, requiredSecurityValue
  <2> QED BY <2>1, <2>2 DEF Wrong
<1> QED BY <1>1, <1>2, <1>3, <1>4

(* Before anything ran, nothing has passed.                                  *)
LEMMA NothingRan ==
  ASSUME NEW who \in {"main", "launcher"}, entry = who, step = Steps(who)
  PROVE  /\ step \in Seq(LoadersOf(entry))
         /\ \E k \in 0..Len(Steps(entry)) : Remaining(k) /\ PassedUpTo(k)
<1>1. Steps(who) \in Seq(LoadersOf(who)) /\ Len(Steps(who)) \in 7..9
  BY StepsOf
<1>2. 0 \in 0..Len(Steps(entry)) /\ PassedUpTo(0)
  BY <1>1 DEF PassedUpTo
<1>3. Remaining(0)
  BY <1>1 DEF Remaining
<1> QED BY <1>1, <1>2, <1>3

(* A process that starts has read nothing.                                   *)
LEMMA ConfigurationInitially ==
  ASSUME ConfigurationAssumption, ConfigurationInit
  PROVE  ConfigurationInv
<1>1. PICK start \in Environments : StartedIn(start)
  BY DEF ConfigurationInit
<1>2. entry \in {"main", "launcher"} /\ None \notin DOMAIN env /\ Complete(entry, env)
  BY <1>1 DEF ConfigurationAssumption, StartedIn
<1>3. /\ step \in Seq(LoadersOf(entry))
      /\ \E k \in 0..Len(Steps(entry)) : Remaining(k) /\ PassedUpTo(k)
  BY <1>1, <1>2, NothingRan DEF StartedIn
<1>4. composition.state = "loading" /\ composition.variable = None /\ repaired = {}
  BY <1>1 DEF StartedIn, Begins
<1> QED BY <1>2, <1>3, <1>4 DEF ConfigurationInv

(* A loader that is content lets the next one run; one that is not names a   *)
(* variable that no operator has set yet, because what is set right passes.  *)
LEMMA LoadKeeps ==
  ASSUME ConfigurationAssumption, ConfigurationInv, Load
  PROVE  ConfigurationInv'
<1> DEFINE s == Head(step)
           c == Checks(s, env)
<1>1. /\ entry \in {"main", "launcher"} /\ None \notin DOMAIN env /\ Complete(entry, env)
      /\ step \in Seq(LoadersOf(entry)) /\ \A v \in repaired : v \in DOMAIN env /\ env[v] = Good(entry, v)
  BY DEF ConfigurationInv
<1>2. PICK k \in 0..Len(Steps(entry)) : Remaining(k) /\ PassedUpTo(k)
  BY DEF ConfigurationInv
<1>3. /\ composition.state = "loading" /\ composition.variable = None /\ step # <<>>
      /\ UNCHANGED <<entry, env, repaired>>
  BY DEF Load, ConfigurationInv
<1>4. Steps(entry) \in Seq(LoadersOf(entry)) /\ Len(Steps(entry)) \in 7..9
  BY <1>1, StepsOf
<1>5. /\ s = step[1] /\ s = Steps(entry)[k + 1] /\ s \in LoadersOf(entry) /\ k + 1 \in 1..Len(Steps(entry))
      /\ Len(step) \in Nat \ {0}
  <2>1. Len(step) \in Nat \ {0} /\ s = step[1] /\ s \in LoadersOf(entry)
    BY <1>1, <1>3
  <2>2. Len(step) = Len(Steps(entry)) - k /\ step[1] = Steps(entry)[1 + k]
    BY <1>2, <2>1 DEF Remaining
  <2> QED BY <1>4, <2>1, <2>2
<1>6. CASE Wrong(c) = {}
  <2>1. step' = Tail(step) /\ composition' = composition
    BY <1>6 DEF Load
  <2>2. /\ step' \in Seq(LoadersOf(entry)) /\ Len(step') = Len(step) - 1
        /\ \A i \in 1..Len(step') : step'[i] = step[i + 1]
    BY <1>1, <1>5, <2>1
  <2>3. Remaining(k + 1)'
    <3>1. Len(step') = Len(Steps(entry)) - (k + 1)
      BY <1>2, <1>4, <2>2 DEF Remaining
    <3>2. ASSUME NEW i \in 1..Len(step') PROVE step'[i] = Steps(entry)[i + (k + 1)]
      <4>1. i + 1 \in 1..Len(step) /\ i + 1 + k = i + (k + 1)
        BY <1>5, <2>2
      <4>2. step[i + 1] = Steps(entry)[i + 1 + k]
        BY <1>2, <4>1 DEF Remaining
      <4> QED BY <2>2, <4>1, <4>2
    <3> QED BY <1>3, <3>1, <3>2 DEF Remaining
  <2>4. PassedUpTo(k + 1)'
    <3>1. ASSUME NEW i \in 1..(k + 1) PROVE Wrong(Checks(Steps(entry)[i], env)) = {}
      <4>1. CASE i = k + 1
        BY <1>5, <1>6, <4>1
      <4>2. CASE i # k + 1
        BY <1>2, <4>2 DEF PassedUpTo
      <4> QED BY <4>1, <4>2
    <3> QED BY <1>3, <3>1 DEF PassedUpTo
  <2> HIDE DEF c, s
  <2> QED BY <1>1, <1>3, <1>5, <2>1, <2>2, <2>3, <2>4 DEF ConfigurationInv
<1>7. CASE Wrong(c) # {}
  <2>1. composition' = [state |-> "refused", variable |-> FirstWrong(c)] /\ step' = step
    BY <1>7 DEF Load
  <2>2. s \in LoadersOf("main") \cup LoadersOf("launcher")
    BY <1>1, <1>5
  <2>3. PICK n \in 1..13 : DOMAIN c = 1..n
    BY <2>2, ChecksAlike
  <2> HIDE DEF c, s
  <2>4. PICK i \in 1..n : FirstWrong(c) = c[i][1] /\ ~c[i][2] /\ \A j \in 1..(i - 1) : c[j][2]
    BY <1>7, <2>3, FirstIsWrong
  <2>5. FirstWrong(c) \in DOMAIN env
    BY <1>1, <1>5, <2>3, <2>4 DEF Complete, c
  <2>6. entry = "launcher" /\ s \in {"prototype", "enabled"} => env["ZINESH_RUNTIME_ENV"] = "development"
    <3>1. SUFFICES ASSUME entry = "launcher", s \in {"prototype", "enabled"}
                   PROVE  env["ZINESH_RUNTIME_ENV"] = "development"
      OBVIOUS
    <3>2. Steps(entry)[1] = "provisioning"
      BY <3>1, StepsOf
    <3>3. 1 \in 1..k
      BY <1>5, <3>1, <3>2
    <3>4. Wrong(Checks("provisioning", env)) = {}
      BY <1>2, <3>2, <3>3 DEF PassedUpTo
    <3> QED BY <3>4, RightChecks
  <2>7. FirstWrong(c) \notin repaired
    <3>1. SUFFICES ASSUME FirstWrong(c) \in repaired PROVE FALSE
      OBVIOUS
    <3>2. env[c[i][1]] = Good(entry, c[i][1])
      BY <1>1, <2>4, <3>1
    <3>3. c = Checks(s, env) /\ i \in DOMAIN c
      BY <2>3 DEF c
    <3>4. c[i][2]
      BY <1>1, <1>5, <2>4, <2>6, <3>2, <3>3, RightedPasses
    <3> QED BY <2>4, <3>4
  <2>8. (Remaining(k) /\ PassedUpTo(k))'
    BY <1>2, <1>3, <2>1 DEF Remaining, PassedUpTo
  <2>9. composition'.state = "refused" /\ composition'.variable = FirstWrong(c)
    BY <2>1
  <2> QED BY <1>1, <1>3, <2>1, <2>5, <2>7, <2>8, <2>9 DEF ConfigurationInv
<1> QED BY <1>6, <1>7

(* Once all loaders ran, all of them have passed.                            *)
LEMMA AllPassed ==
  ASSUME ConfigurationInv, step = <<>>
  PROVE  /\ \A i \in 1..Len(Steps(entry)) : Wrong(Checks(Steps(entry)[i], env)) = {}
         /\ entry = "main" => Wrong(Checks("refuse", env)) = {} /\ Wrong(Checks("ingress", env)) = {}
                             /\ Wrong(Checks("rate", env)) = {}
         /\ entry = "launcher" => Wrong(Checks("enabled", env)) = {} /\ Wrong(Checks("http", env)) = {}
                                 /\ Wrong(Checks("provisioning", env)) = {}
         /\ Wrong(Checks("postgres", env)) = {}
<1>1. PICK k \in 0..Len(Steps(entry)) : Remaining(k) /\ PassedUpTo(k)
  BY DEF ConfigurationInv
<1>2. entry \in {"main", "launcher"}
  BY DEF ConfigurationInv
<1>3. Len(Steps(entry)) \in 7..9 /\ k = Len(Steps(entry))
  <2>1. Len(Steps(entry)) \in 7..9
    BY <1>2, StepsOf
  <2>2. PICK n \in 7..9 : n = Len(Steps(entry))
    BY <2>1
  <2>3. Len(step) = n - k /\ Len(step) = 0 /\ k \in 0..n
    BY <1>1, <2>2 DEF Remaining
  <2> QED BY <2>2, <2>3
<1>4. \A i \in 1..Len(Steps(entry)) : Wrong(Checks(Steps(entry)[i], env)) = {}
  BY <1>1, <1>3 DEF PassedUpTo
<1>5. CASE entry = "main"
  <2>1. /\ Len(Steps(entry)) = 7 /\ Steps(entry)[1] = "postgres" /\ Steps(entry)[3] = "ingress"
        /\ Steps(entry)[4] = "rate" /\ Steps(entry)[7] = "refuse"
    BY <1>5, StepsOf
  <2>2. Wrong(Checks("postgres", env)) = {} /\ Wrong(Checks("ingress", env)) = {} /\ Wrong(Checks("rate", env)) = {} /\ Wrong(Checks("refuse", env)) = {}
    BY <1>4, <2>1
  <2> QED BY <1>4, <1>5, <2>2
<1>6. CASE entry = "launcher"
  <2>1. /\ Len(Steps(entry)) = 9 /\ Steps(entry)[1] = "provisioning" /\ Steps(entry)[3] = "enabled"
        /\ Steps(entry)[4] = "postgres" /\ Steps(entry)[8] = "http"
    BY <1>6, StepsOf
  <2>2. Wrong(Checks("provisioning", env)) = {} /\ Wrong(Checks("enabled", env)) = {} /\ Wrong(Checks("postgres", env)) = {} /\ Wrong(Checks("http", env)) = {}
    BY <1>4, <2>1
  <2> QED BY <1>4, <1>6, <2>2
<1> QED BY <1>2, <1>4, <1>5, <1>6

(* What the loaders of an entry found leaves the composition nothing to      *)
(* refuse.                                                                   *)
LEMMA ComposeKeeps ==
  ASSUME ConfigurationInv, Compose
  PROVE  ConfigurationInv'
<1>1. /\ entry \in {"main", "launcher"} /\ None \notin DOMAIN env /\ Complete(entry, env)
      /\ step \in Seq(LoadersOf(entry)) /\ \A v \in repaired : v \in DOMAIN env /\ env[v] = Good(entry, v)
  BY DEF ConfigurationInv
<1>2. PICK k \in 0..Len(Steps(entry)) : Remaining(k) /\ PassedUpTo(k)
  BY DEF ConfigurationInv
<1>3. step = <<>> /\ UNCHANGED <<entry, env, step, repaired>>
  BY DEF Compose
<1>4. Enabled(env) => Environment(env) = "development"
  <2>1. CASE entry = "main"
    BY <1>3, <2>1, AllPassed, RightChecks
  <2>2. CASE entry = "launcher"
    <3>1. env["ZINESH_RUNTIME_ENV"] = "development"
      BY <1>3, <2>2, AllPassed, RightChecks
    <3> QED BY <3>1 DEF Environment
  <2> QED BY <1>1, <2>1, <2>2
<1>5. composition' = [state |-> "composed", variable |-> None]
  BY <1>4 DEF Compose
<1>6. composition'.state = "composed" /\ composition'.variable = None
  BY <1>5
<1>7. (Remaining(k) /\ PassedUpTo(k))'
  BY <1>2, <1>3 DEF Remaining, PassedUpTo
<1> QED BY <1>1, <1>3, <1>6, <1>7 DEF ConfigurationInv

(* An operator who sets the named variable right starts from the beginning.  *)
LEMMA RepairKeeps ==
  ASSUME ConfigurationInv, Repair
  PROVE  ConfigurationInv'
<1> DEFINE v == composition.variable
<1>1. /\ entry \in {"main", "launcher"} /\ None \notin DOMAIN env /\ Complete(entry, env)
      /\ \A w \in repaired : w \in DOMAIN env /\ env[w] = Good(entry, w)
      /\ v \in DOMAIN env
  BY DEF ConfigurationInv, Repair
<1>2. /\ env' = [env EXCEPT ![v] = Good(entry, v)] /\ repaired' = repaired \cup {v}
      /\ step' = Steps(entry) /\ composition' = Begins /\ entry' = entry
  BY DEF Repair
<1> HIDE DEF v
<1>3. DOMAIN env' = DOMAIN env /\ \A w \in repaired' : w \in DOMAIN env' /\ env'[w] = Good(entry, w)
  BY <1>1, <1>2
<1>4. Complete(entry, env')
  BY <1>1, <1>3, CompleteKept
<1>5. /\ Steps(entry) \in Seq(LoadersOf(entry)) /\ Len(Steps(entry)) \in 7..9
  BY <1>1, StepsOf
<1>6. 0 \in 0..Len(Steps(entry)) /\ (Remaining(0) /\ PassedUpTo(0))'
  BY <1>2, <1>5 DEF Remaining, PassedUpTo
<1>7. composition'.state = "loading" /\ composition'.variable = None
  BY <1>2 DEF Begins
<1> QED BY <1>1, <1>2, <1>3, <1>4, <1>5, <1>6, <1>7 DEF ConfigurationInv

(* The times the public ingress and the limiter compare.                     *)
LEMMA RightTimes ==
  ASSUME NEW e
  PROVE  /\ Wrong(Checks("ingress", e)) = {} =>
              /\ e["HTTP_HEADERS_TIMEOUT_MS"] <= e["HTTP_REQUEST_TIMEOUT_MS"]
              /\ e["HTTP_HEADERS_TIMEOUT_MS"] >= 100
         /\ Wrong(Checks("rate", e)) = {} =>
              /\ e["RATE_LIMIT_RETENTION_MS"] >= e["RATE_LIMIT_PRINCIPAL_WINDOW_MS"]
              /\ e["RATE_LIMIT_RETENTION_MS"] >= e["RATE_LIMIT_PRE_AUTH_WINDOW_MS"]
<1>1. ASSUME Wrong(Checks("ingress", e)) = {}
      PROVE  /\ e["HTTP_HEADERS_TIMEOUT_MS"] <= e["HTTP_REQUEST_TIMEOUT_MS"]
             /\ e["HTTP_HEADERS_TIMEOUT_MS"] >= 100
  <2>1. /\ DOMAIN Checks("ingress", e) = 1..12
        /\ Checks("ingress", e)[5] = requestTimeoutMs(e) /\ Checks("ingress", e)[6] = headersTimeoutMs(e)
    BY LoaderChecks DEF loadPublicIngressConfig
  <2>2. requestTimeoutMs(e)[2] /\ headersTimeoutMs(e)[2]
    BY <1>1, <2>1 DEF Wrong
  <2>3. e["HTTP_REQUEST_TIMEOUT_MS"] \in Int
    BY <2>2, RequestTimeout
  <2>4. e["HTTP_HEADERS_TIMEOUT_MS"] \in 100..e["HTTP_REQUEST_TIMEOUT_MS"]
    BY <2>2, ComparedChecks
  <2> QED BY <2>3, <2>4
<1>2. ASSUME Wrong(Checks("rate", e)) = {}
      PROVE  /\ e["RATE_LIMIT_RETENTION_MS"] >= e["RATE_LIMIT_PRINCIPAL_WINDOW_MS"]
             /\ e["RATE_LIMIT_RETENTION_MS"] >= e["RATE_LIMIT_PRE_AUTH_WINDOW_MS"]
  <2> DEFINE c == Checks("rate", e)
  <2>1. /\ DOMAIN c = 1..7
    BY LoaderChecks, RateAlike
  <2>2. c[3] = windowMs(e, "RATE_LIMIT_PRE_AUTH_WINDOW_MS") /\ c[4] = windowMs(e, "RATE_LIMIT_PRINCIPAL_WINDOW_MS")
        /\ c[6] = retentionCovers(e) 
    BY RateChecks
  <2>3. c[5] = requiredSecurityInteger(e, "RATE_LIMIT_RETENTION_MS", 1000, MaxRetention)
    BY LoaderChecks DEF loadRateLimitingConfig
  <2>4. c[3][2] /\ c[4][2] /\ c[5][2] /\ c[6][2]
    BY <1>2, <2>1 DEF Wrong
  <2> HIDE DEF c
  <2>5. ASSUME NEW v, windowMs(e, v)[2] PROVE e[v] \in Int
    <3>1. e[v] \in 1000..Day
      BY <2>5, OfInteger DEF windowMs
    <3>2. Day \in Int
      BY SMT DEF Day
    <3> QED BY <3>1, <3>2
  <2>6. e["RATE_LIMIT_RETENTION_MS"] \in Int
    <3>1. e["RATE_LIMIT_RETENTION_MS"] \in 1000..MaxRetention
      BY <2>3, <2>4, OfInteger
    <3>2. MaxRetention \in Int
      BY SMT DEF MaxRetention
    <3> QED BY <3>1, <3>2
  <2>7. e["RATE_LIMIT_PRE_AUTH_WINDOW_MS"] \in Int /\ e["RATE_LIMIT_PRINCIPAL_WINDOW_MS"] \in Int
    BY <2>2, <2>4, <2>5
  <2>8. Covers(e)
    BY <2>2, <2>4, ComparedChecks
  <2> QED BY <2>6, <2>7, <2>8 DEF Covers, Larger
<1> QED BY <1>1, <1>2

(* The listener of the launcher is on a loopback address, if only by default. *)
LEMMA RightHost ==
  ASSUME NEW e, Wrong(Checks("http", e)) = {}, \A i \in DOMAIN Checks("http", e) : Checks("http", e)[i][1] \in DOMAIN e
  PROVE  e["HTTP_HOST"] \in {"absent", "loopback"}
<1>1. 1 \in DOMAIN Checks("http", e)
      /\ Checks("http", e)[1] = requiredSecurityValue(Normalized(e), "HTTP_HOST", {"loopback"})
  BY LoaderChecks DEF loadTransportConfig
<1>2. Normalized(e)["HTTP_HOST"] = "loopback" /\ "HTTP_HOST" \in DOMAIN e
  <2> DEFINE c == Checks("http", e)
             m == Normalized(e)
  <2>1. 1 \in DOMAIN c /\ c[1] = requiredSecurityValue(m, "HTTP_HOST", {"loopback"})
    BY <1>1
  <2>2. c[1][2] /\ c[1][1] \in DOMAIN e
    BY <2>1 DEF Wrong
  <2> HIDE DEF c, m
  <2>3. /\ requiredSecurityValue(m, "HTTP_HOST", {"loopback"})[1] = "HTTP_HOST"
        /\ requiredSecurityValue(m, "HTTP_HOST", {"loopback"})[2] => m["HTTP_HOST"] = "loopback"
    BY DEF requiredSecurityValue
  <2>4. m["HTTP_HOST"] = "loopback" /\ "HTTP_HOST" \in DOMAIN e
    BY <2>1, <2>2, <2>3
  <2> QED BY <2>4 DEF m
<1>3. Normalized(e)["HTTP_HOST"] = IF "HTTP_HOST" \in DOMAIN Default /\ Missing(e, "HTTP_HOST")
                                   THEN Default["HTTP_HOST"] ELSE e["HTTP_HOST"]
  BY <1>2, NormalizedAlike
<1> QED BY <1>2, <1>3 DEF Missing

(* The property follows from what is kept.                                   *)
LEMMA InvIsSound ==
  ASSUME ConfigurationInv
  PROVE  ConfigurationSound
<1>1. ConfigurationTypeOK
  <2>1. Len(step) <= 9
    <3>1. PICK k \in 0..Len(Steps(entry)) : Remaining(k)
      BY DEF ConfigurationInv
    <3>2. Len(Steps(entry)) \in 7..9
      BY StepsOf DEF ConfigurationInv
    <3>3. Len(step) = Len(Steps(entry)) - k
      BY <3>1 DEF Remaining
    <3>4. PICK n \in 7..9 : n = Len(Steps(entry))
      BY <3>2
    <3> QED BY <3>3, <3>4
  <2> QED BY <2>1 DEF ConfigurationInv, ConfigurationTypeOK
<1>2. NamedOnce
  BY DEF ConfigurationInv, NamedOnce
<1>3. ASSUME composition.state = "composed"
      PROVE  /\ Wrong(Checks("postgres", env)) = {}
             /\ entry = "main" => Wrong(Checks("refuse", env)) = {} /\ Wrong(Checks("ingress", env)) = {}
                                 /\ Wrong(Checks("rate", env)) = {}
             /\ entry = "launcher" => Wrong(Checks("enabled", env)) = {} /\ Wrong(Checks("http", env)) = {}
  BY <1>3, AllPassed DEF ConfigurationInv
<1>4. ComposedIsSound
  BY <1>3, RightChecks, RightTimes DEF ComposedIsSound
<1>5. PrototypeStaysHome
  <2>1. SUFFICES ASSUME composition.state = "composed"
                 PROVE  /\ (entry = "launcher") = (env["PROTOTYPE_FUNDING_ENABLED"] = "true")
                        /\ entry = "launcher" => env["HTTP_HOST"] \in {"absent", "loopback"}
    BY DEF PrototypeStaysHome
  <2>2. entry \in {"main", "launcher"} /\ Complete(entry, env)
    BY DEF ConfigurationInv
  <2>3. CASE entry = "main"
    BY <1>3, <2>1, <2>3, RightChecks DEF Enabled
  <2>4. CASE entry = "launcher"
    <3>1. Enabled(env)
      BY <1>3, <2>1, <2>4, RightChecks
    <3>2. env["HTTP_HOST"] \in {"absent", "loopback"}
      <4>1. "http" \in LoadersOf(entry)
        BY <2>4, TheLoaders
      <4>2. \A i \in DOMAIN Checks("http", env) : Checks("http", env)[i][1] \in DOMAIN env
        BY <2>2, <4>1 DEF Complete
      <4> QED BY <1>3, <2>1, <2>4, <4>2, RightHost
    <3> QED BY <2>4, <3>1, <3>2 DEF Enabled
  <2> QED BY <2>2, <2>3, <2>4
<1> QED BY <1>1, <1>2, <1>4, <1>5 DEF ConfigurationSound

(* However the environment a process is started in is wrong, and however its *)
(* operator repairs it: what is composed is what the components rely on,     *)
(* prototype funding stays out of production, and no variable is named twice.*)
THEOREM ConfigurationIsSound ==
  ASSUME ConfigurationAssumption
  PROVE  ConfigurationSpec => []ConfigurationSound
<1>1. ConfigurationInit => ConfigurationInv
  BY ConfigurationInitially
<1>2. ConfigurationInv /\ [ConfigurationNext]_configurationVars => ConfigurationInv'
  <2>1. SUFFICES ASSUME ConfigurationInv, [ConfigurationNext]_configurationVars PROVE ConfigurationInv'
    OBVIOUS
  <2>2. CASE Load
    BY <2>1, <2>2, LoadKeeps
  <2>3. CASE Compose
    BY <2>1, <2>3, ComposeKeeps
  <2>4. CASE Repair
    BY <2>1, <2>4, RepairKeeps
  <2>5. CASE UNCHANGED configurationVars
    BY <2>1, <2>5 DEF ConfigurationInv, configurationVars, Remaining, PassedUpTo
  <2> QED BY <2>1, <2>2, <2>3, <2>4, <2>5 DEF ConfigurationNext
<1>3. ConfigurationInv => ConfigurationSound
  BY InvIsSound
<1> QED BY <1>1, <1>2, <1>3, PTL DEF ConfigurationSpec
=============================================================================
