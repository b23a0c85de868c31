----------------------------- MODULE Readiness -----------------------------
(***************************************************************************)
(* The readiness check of the PostgreSQL adapter (readyCheck of             *)
(* PostgresPersistenceAdapter): callers ask whether the database answers    *)
(* with the expected schema; a recent success is cached, a check under way  *)
(* is shared, and a check that takes too long is given up, though its       *)
(* queries are not cancelled.  Time runs in units of half the time limit.   *)
(***************************************************************************)
EXTENDS Integers, Optional

CONSTANTS
  Caller,     \* whoever asks
  Timeout,    \* READY_CHECK_TIMEOUT_MS
  CacheFor,   \* READY_SUCCESS_CACHE_MS
  Query       \* bound: the queries outstanding at a time

(* A probe has its step and its age, a check its probe and the time left.    *)
Probes == [step : {"select", "version", "good", "bad"}, age : 0..Timeout]
Checks == [probe : Query, left : 0..Timeout]

ReadinessAssumption ==
  /\ Timeout \in Nat \ {0} /\ CacheFor \in Nat \ {0}
  /\ None \notin Probes \cup Checks

VARIABLES
  database,   \* "up", "behind" (another schema), "slow" or "down"
  probes,     \* per query, None or its probe
  closed,     \* disconnect was called
  cacheLeft,  \* time until readySuccessUntil
  check,      \* readyCheckInFlight, or None
  asking,     \* per caller, where its question stands
  waited,     \* history: how long it has waited
  unhealthy   \* history: how long ago the database was last up
readinessVars == <<database, probes, closed, cacheLeft, check, asking, waited, unhealthy>>

LongAgo == Timeout + CacheFor
Outstanding == {p \in Query : probes[p] # None}
Waiting == {c \in Caller : asking[c] = "waiting"}
Answer(ok) == asking' = [c \in Caller |->
  IF c \in Waiting THEN IF ok THEN "ready" ELSE "notReady" ELSE asking[c]]
TimeIsUp == check # None /\ check.left = 0
CapAt(n, bound) == IF n < bound THEN n + 1 ELSE bound
Less(n) == IF n = 0 THEN 0 ELSE n - 1

ReadinessInit ==
  /\ database \in {"up", "behind", "slow", "down"}
  /\ probes = [p \in Query |-> None]
  /\ closed = FALSE /\ cacheLeft = 0 /\ check = None
  /\ asking = [c \in Caller |-> "idle"] /\ waited = [c \in Caller |-> 0]
  /\ unhealthy = IF database = "up" THEN 0 ELSE LongAgo

---------------------------------------------------------------------------
(* The database and the clock.  While it is up it answers at once, and a     *)
(* timer that is due fires.                                                  *)
Changes(d) ==
  /\ d # database /\ database' = d
  /\ unhealthy' = IF d = "up" THEN 0 ELSE unhealthy
  /\ UNCHANGED <<probes, closed, cacheLeft, check, asking, waited>>

TimePasses ==
  /\ database = "up" => Outstanding = {}
  /\ ~TimeIsUp
  /\ \A c \in Caller : asking[c] \in {"idle", "waiting"}
  /\ probes' = [p \in Query |-> IF probes[p] = None THEN None
                                ELSE [probes[p] EXCEPT !.age = CapAt(@, Timeout)]]
  /\ cacheLeft' = Less(cacheLeft)
  /\ check' = IF check = None THEN None ELSE [check EXCEPT !.left = @ - 1]
  /\ waited' = [c \in Caller |-> IF c \in Waiting THEN CapAt(waited[c], LongAgo) ELSE 0]
  /\ unhealthy' = IF database = "up" THEN 0 ELSE CapAt(unhealthy, LongAgo)
  /\ UNCHANGED <<database, closed, asking>>

---------------------------------------------------------------------------
Joins == check # None

(* readyCheck: from the cache, with the check under way, or by a new one.    *)
readyCheck(c) ==
  /\ asking[c] = "idle"
  /\ \/ /\ closed \/ cacheLeft > 0
        /\ asking' = [asking EXCEPT ![c] = IF closed THEN "notReady" ELSE "ready"]
        /\ UNCHANGED <<probes, check>>
     \/ /\ ~closed /\ cacheLeft = 0
        /\ asking' = [asking EXCEPT ![c] = "waiting"]
        /\ \/ Joins /\ UNCHANGED <<probes, check>>
           \/ /\ ~Joins
              /\ \E p \in Query \ Outstanding :
                   /\ probes' = [probes EXCEPT ![p] = [step |-> "select", age |-> 0]]
                   /\ check' = [probe |-> p, left |-> Timeout]
  /\ UNCHANGED <<database, closed, cacheLeft, waited, unhealthy>>

Hear(c) ==
  /\ asking[c] \in {"ready", "notReady"}
  /\ asking' = [asking EXCEPT ![c] = "idle"]
  /\ waited' = [waited EXCEPT ![c] = 0]
  /\ UNCHANGED <<database, probes, closed, cacheLeft, check, unhealthy>>

(* queryReadiness: SELECT 1, then the versions recorded.  A pool that was    *)
(* ended takes no new query.                                                 *)
Outcome(step) ==
  IF database = "down" THEN "bad"
  ELSE CASE step = "select" -> IF closed THEN "bad" ELSE "version"
         [] step = "version" -> IF database = "up" THEN "good" ELSE "bad"

queryReadiness(p) ==
  /\ probes[p] # None /\ database # "slow"
  /\ probes[p].step \in {"select", "version"}
  /\ probes' = [probes EXCEPT ![p].step = Outcome(@)]
  /\ UNCHANGED <<database, closed, cacheLeft, check, asking, waited, unhealthy>>

---------------------------------------------------------------------------
LateToo(p) == check # None => check.probe = p
Counts(p) == check # None /\ check.probe = p

Clears == check' = None

OpenStill == ~closed

(* executeReadyCheck once its queries have ended; the result of a check      *)
(* that was given up is dropped.                                             *)
executeReadyCheck(p) ==
  /\ probes[p] # None /\ probes[p].step \in {"good", "bad"}
  /\ database # "slow"
  /\ probes' = [probes EXCEPT ![p] = None]
  /\ LET ok == probes[p].step = "good" /\ OpenStill IN
     IF Counts(p)
     THEN /\ cacheLeft' = IF ok THEN CacheFor ELSE cacheLeft
          /\ check' = None
          /\ Answer(ok)
     ELSE UNCHANGED <<cacheLeft, check, asking>>
  /\ UNCHANGED <<database, closed, waited, unhealthy>>

(* withTimeout's timer.                                                      *)
withTimeout ==
  /\ TimeIsUp
  /\ Clears
  /\ Answer(FALSE)
  /\ UNCHANGED <<database, probes, closed, cacheLeft, waited, unhealthy>>

disconnect ==
  /\ ~closed
  /\ closed' = TRUE /\ cacheLeft' = 0
  /\ UNCHANGED <<database, probes, check, asking, waited, unhealthy>>

ReadinessNext ==
  \/ \E d \in {"up", "behind", "slow", "down"} : Changes(d)
  \/ \E c \in Caller : readyCheck(c) \/ Hear(c)
  \/ \E p \in Query : queryReadiness(p) \/ executeReadyCheck(p)
  \/ TimePasses \/ withTimeout \/ disconnect

(* Timers fire, callers ask again, and what the database answers arrives.    *)
Fairness ==
  /\ WF_readinessVars(TimePasses) /\ WF_readinessVars(withTimeout)
  /\ \A c \in Caller : WF_readinessVars(readyCheck(c)) /\ WF_readinessVars(Hear(c))
  /\ \A p \in Query : WF_readinessVars(queryReadiness(p)) /\ WF_readinessVars(executeReadyCheck(p))

ReadinessSpec == ReadinessInit /\ [][ReadinessNext]_readinessVars /\ Fairness

---------------------------------------------------------------------------
(* Every variable has its type.                                              *)
ReadinessTypeOK ==
  /\ database \in {"up", "behind", "slow", "down"}
  /\ probes \in [Query -> Probes \cup {None}]
  /\ closed \in BOOLEAN /\ cacheLeft \in 0..CacheFor
  /\ check \in Checks \cup {None} /\ (check # None => check.probe \in Outstanding)
  /\ asking \in [Caller -> {"idle", "waiting", "ready", "notReady"}]
  /\ waited \in [Caller -> 0..LongAgo]
  /\ unhealthy \in 0..LongAgo

(* Whoever is told ready can rely on it: the database was up, with the       *)
(* schema expected, no longer ago than the time limit of a check and the     *)
(* life of a cached success together.                                        *)
ReadyIsRecent == \A c \in Caller : asking[c] = "ready" => unhealthy < LongAgo

(* A question is answered within the time limit, whatever the database does. *)
AnsweredInTime == \A c \in Waiting : check # None /\ waited[c] <= Timeout

(* A database that does not answer is probed once per time limit, however    *)
(* many ask: of two probes outstanding, one had been given up when the other *)
(* began.                                                                    *)
ProbesSpread == \A p \in Outstanding : \A q \in Outstanding \ {p} :
  probes[p].age = Timeout \/ probes[q].age = Timeout

(* Whoever is told ready can rely on it, is answered within the time limit,  *)
(* and a database that hangs is probed once per time limit.                  *)
ReadinessSound == ReadinessTypeOK /\ ReadyIsRecent /\ AnsweredInTime /\ ProbesSpread

(* Nobody is told ready once disconnect was called, by a query that was      *)
(* still under way or from the cache.                                        *)
StaysUnready == \A c \in Caller : closed /\ asking[c] # "ready" => asking'[c] # "ready"

=============================================================================
