--------------------------- MODULE SecurityAlerts ---------------------------
(***************************************************************************)
(* The security telemetry of a process (SecurityTelemetry and its           *)
(* AlertConditionEvaluator): events go to the log and to the metrics and    *)
(* are counted towards alerts, a heartbeat goes the same way on a timer,    *)
(* and what fails of it is itself an event.  Each sink may fail at any call.*)
(* A call is synchronous; the report of its failure is the step after it.   *)
(***************************************************************************)
EXTENDS Integers, Sequences, SequencesExt, Optional

CONSTANTS
  Input,        \* events the components record
  Threshold,    \* per signal, its threshold
  Window,       \* windowMs
  Interval,     \* of the heartbeat
  MaxTime,      \* bound on the time
  MaxEvents     \* bound on the events of a run

AlertAssumption ==
  /\ Window \in Nat \ {0} /\ Interval \in Nat \ {0}
  /\ IsFiniteSet(DOMAIN Threshold)
  /\ \A s \in DOMAIN Threshold : Threshold[s] \in Nat \ {0}
  /\ None \notin {"FIRING", "FAIL_CLOSED"} /\ MaxTime \in Nat /\ MaxEvents \in Nat

AlertSignal == DOMAIN Threshold

VARIABLES
  now,           \* the clock
  observations,  \* per signal, the times kept
  activeSignals, \* signals that are firing
  degraded,      \* consecutivePipelineFailures is not 0
  report,        \* a failure has yet to be reported
  beat,          \* time of the last heartbeat
  told,          \* history: per signal, the last alert that got through
  happened,      \* history: per signal, the times of all its events
  seen,          \* history: of those evaluated while the alert sink worked
  lost,          \* history: when the alert sink last failed
  events         \* bound: events so far
alertVars == <<now, observations, activeSignals, degraded, report, beat,
          told, happened, seen, lost, events>>

Never == -100
NoTimes == [s \in AlertSignal |-> <<>>]
AlertsInit ==
  /\ now = 0 /\ events = 0
  /\ observations = NoTimes /\ activeSignals = {}
  /\ degraded = FALSE /\ report = FALSE
  /\ beat = Never
  /\ told = [s \in AlertSignal |-> None]
  /\ happened = NoTimes /\ seen = NoTimes /\ lost = Never

(* The clock, up to the next heartbeat's timer.                              *)
Tick ==
  /\ now < MaxTime /\ ~report
  /\ beat # Never /\ now < beat + Interval
  /\ now' = now + 1
  /\ UNCHANGED <<observations, activeSignals, degraded, report, beat,
                 told, happened, seen, lost, events>>

---------------------------------------------------------------------------
SignalsOf(e) ==
  {s \in AlertSignal :
    \/ s = "authenticationFailures" /\ e.category = "AUTHENTICATION" /\ e.outcome = "REJECTED"
    \/ s = "rateLimitRejections" /\ e.category = "RATE_LIMIT" /\ e.outcome = "REJECTED"
    \/ s = "authenticationDependencyFailures" /\ e.category = "AUTHENTICATION"
                                              /\ e.outcome = "DEPENDENCY_FAILURE"
    \/ s = "authorizationRejections" /\ e.category = "AUTHORIZATION" /\ e.outcome = "REJECTED"
    \/ s = "disabledPrincipalAttempts" /\ e.category = "PRINCIPAL" /\ e.reason = "PRINCIPAL_DISABLED"
    \/ s = "postgresFailures" /\ e.category = "PERSISTENCE" /\ e.outcome = "DEPENDENCY_FAILURE"
    \/ s = "failClosedDecisions" /\ e.reason = "FAIL_CLOSED"
    \/ s = "telemetryFailures" /\ e.category = "TELEMETRY" /\ e.outcome = "DEPENDENCY_FAILURE"}
signalsFor(e) == SetToSeq(SignalsOf(e))

(* The times of a signal are in order: those of the window are the last.     *)
First(times) ==
  CHOOSE i \in 1..Len(times) + 1 : \A j \in DOMAIN times : j >= i <=> times[j] > now - Window
Recent(times) == SubSeq(times, First(times), Len(times))
(* At most a threshold of times is kept, the last of them now.               *)
Push(s) ==
  LET kept == Recent(observations[s]) IN
  Append(IF Len(kept) >= Threshold[s] THEN Tail(kept) ELSE kept, now)
Fires(s) == Len(Push(s)) >= Threshold[s] /\ s \notin activeSignals

(* resolveInactiveSignals.                                                   *)
Inactive == {s \in activeSignals : Recent(observations[s]) = <<>>}

(* observe, with the alert sink up or down: down, the first alert that is    *)
(* due ends it, and what comes after is not counted.                         *)
Counted(signals, up) ==
  IF up THEN ToSet(signals)
  ELSE IF Inactive # {} THEN {}
  ELSE {signals[i] : i \in {i \in DOMAIN signals : \A j \in 1..i - 1 : ~Fires(signals[j])}}
Due(signals) == Inactive # {} \/ \E s \in ToSet(signals) : Fires(s)
observe(signals, up) ==
  LET counted == Counted(signals, up)
      fired == IF up THEN {s \in counted : Fires(s) \/ (s \in Inactive /\ Threshold[s] = 1)} ELSE {}
      resolved == IF up THEN Inactive ELSE {} IN
  /\ observations' = [s \in AlertSignal |-> IF s \in counted THEN Push(s) ELSE observations[s]]
  /\ activeSignals' = (activeSignals \ resolved) \cup fired
  /\ told' = [s \in AlertSignal |-> IF s \in fired THEN "FIRING"
                               ELSE IF s \in resolved THEN "RESOLVED" ELSE told[s]]
  /\ lost' = IF ~up /\ Due(signals) THEN now ELSE lost

(* writeEvent: the sinks are tried one after the other, whatever fails; the  *)
(* log and the metrics are one here.                                         *)
Pipeline(e, up, alertsUp) == up /\ (alertsUp \/ ~Due(signalsFor(e)))
Happens(signals, up) ==
  /\ happened' = [s \in AlertSignal |-> IF s \in signals THEN Append(happened[s], now) ELSE happened[s]]
  /\ seen' = [s \in AlertSignal |-> IF up /\ s \in signals THEN Append(seen[s], now) ELSE seen[s]]

(* notePipelineFailure, and its report but for telemetry's own events.       *)
Note(failed, reported) ==
  /\ degraded' = failed
  /\ report' = (failed /\ reported)

record(e, up, alertsUp) ==
  LET failed == ~Pipeline(e, up, alertsUp) IN
  /\ ~report /\ events < MaxEvents
  /\ events' = events + 1
  /\ observe(signalsFor(e), alertsUp)
  /\ Note(failed, e.category # "TELEMETRY")
  /\ Happens(ToSet(signalsFor(e)) \cup (IF failed /\ e.category # "TELEMETRY"
                                        THEN {"telemetryFailures"} \cap AlertSignal ELSE {}), alertsUp)
  /\ UNCHANGED <<now, beat>>
Failure == [category |-> "TELEMETRY", outcome |-> "DEPENDENCY_FAILURE", reason |-> "TELEMETRY_FAILURE"]
(* What fails of the report goes unnoticed.                                  *)
recordPipelineFailure(alertsUp) ==
  /\ report
  /\ report' = FALSE
  /\ observe(signalsFor(Failure), alertsUp)
  /\ UNCHANGED <<now, degraded, beat, happened, seen, events>>
(* Broken: the heartbeat is written and not evaluated.                       *)
heartbeatWritten(up, alertsUp) ==
  /\ ~report
  /\ beat = Never \/ now = beat + Interval
  /\ beat' = now
  /\ Note(~up, FALSE)
  /\ UNCHANGED <<now, observations, activeSignals, told, lost, happened, seen, events>>
heartbeat(up, alertsUp) ==
  LET e == [category |-> "TELEMETRY", outcome |-> "SUCCESS", reason |-> None] IN
  /\ ~report
  /\ beat = Never \/ now = beat + Interval
  /\ beat' = now
  /\ observe(signalsFor(e), alertsUp)
  /\ Note(~Pipeline(e, up, alertsUp), FALSE)
  /\ UNCHANGED <<now, happened, seen, events>>

AlertsNext ==
  \/ Tick
  \/ \E up, alertsUp \in BOOLEAN :
       \/ \E e \in Input : record(e, up, alertsUp)
       \/ heartbeat(up, alertsUp)
  \/ \E alertsUp \in BOOLEAN : recordPipelineFailure(alertsUp)
AlertsSpec == AlertsInit /\ [][AlertsNext]_alertVars

---------------------------------------------------------------------------
(* The window that ends at a time holds a number of times, or none.          *)
Surge(times, n, at) == Len(times) >= n /\ times[Len(times) + 1 - n] > at - Window
NoneWithin(times, at) == times = <<>> \/ Last(times) <= at - Window

(* The times kept of a signal are in order and no more than its threshold,   *)
(* and what is active was told.                                              *)
AlertsTypeOK ==
  /\ \A s \in AlertSignal : /\ Len(observations[s]) <= Threshold[s]
                       /\ \A i \in DOMAIN observations[s] : observations[s][i] \in 0..now
                       /\ s \in activeSignals <=> told[s] = "FIRING"
  /\ report => degraded

(* A surge is told: once a threshold of events of a signal was recorded      *)
(* within a window while the alert sink worked, its alert is firing for as   *)
(* long as the last of them is in the window, although other sinks fail,     *)
(* and although the failures of the pipeline are such events themselves.     *)
SurgeTold ==
  \A s \in AlertSignal :
    /\ ~report /\ seen[s] # <<>> /\ now < Last(seen[s]) + Window
    /\ lost < Last(seen[s])
    /\ Surge(seen[s], Threshold[s], Last(seen[s]))
    => told[s] = "FIRING"

(* It ends: an alert goes on firing past the window of the last event of its *)
(* signal for at most a heartbeat, unless the alert sink failed meanwhile.   *)
ResolvedInTime ==
  \A s \in AlertSignal :
    told[s] = "FIRING" /\ happened[s] # <<>> =>
      \/ now <= Last(happened[s]) + Window + Interval
      \/ lost >= Last(happened[s]) + Window

(* A surge of failures is told while it lasts, and its end within a window   *)
(* and a heartbeat, however events, heartbeats and ends of windows meet.     *)
AlertsSound == AlertsTypeOK /\ SurgeTold /\ ResolvedInTime

(* No false alarm: an alert begins to fire only in a window with a threshold *)
(* of events of its signal, and is resolved only when it holds none, unless  *)
(* an alert failed in it, which drops the event that was being counted.      *)
AlertsTruly ==
  \A s \in AlertSignal : told'[s] # told[s] =>
    IF told'[s] = "FIRING" THEN Surge(happened'[s], Threshold[s], now)
    ELSE told[s] = "FIRING" /\ (NoneWithin(happened[s], now) \/ lost > now - Window)
=============================================================================
