------------------------------ MODULE Runtime ------------------------------
(***************************************************************************)
(* The life of one serving process: start, requests through the transport   *)
(* and the command gate, shutdown on a signal (main, createCommandGate and  *)
(* performShutdown of the composition root, CommandHttpTransport.route).    *)
(* The database, the clients and the signals may come at any time, or hang. *)
(***************************************************************************)
EXTENDS Naturals, FiniteSets, Optional

CONSTANTS
  Request,       \* requests that reach the server
  Probe,         \* those that are readiness probes
  MaxConcurrent  \* maxConcurrentRequests

RuntimeAssumption ==
  /\ IsFiniteSet(Request) /\ Probe \subseteq Request /\ MaxConcurrent \in Nat \ {0}
  /\ None \notin Nat

VARIABLES
  start,      \* how far main came: connect, verify, listen, serving, failed
  listening,  \* the server accepts connections
  pool,       \* the connection pool: closed, open, ending
  request,    \* per request, where route stands
  answer,     \* per request, the status it was answered with
  active,     \* activeRequests of the transport
  inFlight,   \* inFlight of the gate
  shut,       \* shuttingDown of the gate
  stage,      \* performShutdown: none, draining, closing, disconnecting
  drained,    \* the promise of drain is resolved
  expired,    \* the shutdown timer went off
  exit,       \* the exit code of the process
  ran         \* history: requests whose work the gate let begin
processVars == <<start, listening, pool, request, answer, active, inFlight, shut, stage, drained,
          expired, exit, ran>>
startup == <<start, pool>>
shutdown == <<stage, expired, exit>>

ProcessInit ==
  /\ start = "connect" /\ listening = FALSE /\ pool = "closed"
  /\ request = [r \in Request |-> "idle"] /\ answer = [r \in Request |-> None]
  /\ active = 0 /\ inFlight = 0 /\ shut = FALSE
  /\ stage = "none" /\ drained = FALSE /\ expired = FALSE /\ exit = None /\ ran = {}
Alive == exit = None

---------------------------------------------------------------------------
(* main: connect, verify the schema, listen.  A failure closes and exits 1.  *)
Connect ==
  /\ Alive /\ start = "connect"
  /\ start' = "verify" /\ pool' = "open"
  /\ UNCHANGED <<listening, request, answer, active, inFlight, shut, drained, ran, shutdown>>
VerifySchema ==
  /\ Alive /\ start = "verify"
  /\ start' = "listen"
  /\ UNCHANGED <<listening, pool, request, answer, active, inFlight, shut, drained, ran, shutdown>>
Listen ==
  /\ Alive /\ start = "listen"
  /\ start' = "serving" /\ listening' = TRUE
  /\ UNCHANGED <<pool, request, answer, active, inFlight, shut, drained, ran, shutdown>>
StartFails ==
  /\ Alive /\ start \in {"connect", "verify", "listen"}
  /\ start' = "failed" /\ pool' = "closed" /\ exit' = 1
  /\ UNCHANGED <<listening, request, answer, active, inFlight, shut, drained, ran, stage, expired>>
Killed ==
  /\ Alive /\ exit' = 137
  /\ UNCHANGED <<startup, listening, request, answer, active, inFlight, shut, drained, ran, stage, expired>>

---------------------------------------------------------------------------
(* The transport.  A request ends with its slot given back.                  *)
Holding == {r \in Request : request[r] \in {"limit", "body", "dispatch", "work", "respond"}}
Finish(r, status) ==
  /\ request' = [request EXCEPT ![r] = "done"]
  /\ answer' = [answer EXCEPT ![r] = status]
  /\ active' = active - 1
Serving(r, at) == Alive /\ request[r] = at
Arrive(r) ==
  /\ Serving(r, "idle") /\ listening /\ r \notin Probe
  /\ IF active >= MaxConcurrent
     THEN /\ request' = [request EXCEPT ![r] = "done"] /\ answer' = [answer EXCEPT ![r] = 429]
          /\ UNCHANGED active
     ELSE /\ request' = [request EXCEPT ![r] = "limit"] /\ active' = active + 1
          /\ UNCHANGED answer
  /\ UNCHANGED <<startup, listening, inFlight, shut, drained, ran, shutdown>>
PreAuthenticate(r) ==
  /\ Serving(r, "limit")
  /\ \/ request' = [request EXCEPT ![r] = "body"] /\ UNCHANGED <<answer, active>>
     \/ \E status \in {429, 503} : Finish(r, status)
  /\ UNCHANGED <<startup, listening, inFlight, shut, drained, ran, shutdown>>
ReadBody(r) ==
  /\ Serving(r, "body")
  /\ \/ request' = [request EXCEPT ![r] = "dispatch"] /\ UNCHANGED <<answer, active>>
     \/ \E status \in {400, 401, 403, 413, 415, 500} : Finish(r, status)
  /\ UNCHANGED <<startup, listening, inFlight, shut, drained, ran, shutdown>>
Respond(r) ==
  /\ Serving(r, "respond")
  /\ \E status \in {200, 422, 500} : Finish(r, status)
  /\ UNCHANGED <<startup, listening, inFlight, shut, drained, ran, shutdown>>

(* Readiness: listening and not shutting down, then the database is asked.   *)
ProbeStarts(r) ==
  /\ Serving(r, "idle") /\ listening /\ r \in Probe
  /\ IF shut THEN request' = [request EXCEPT ![r] = "done"] /\ answer' = [answer EXCEPT ![r] = 503]
     ELSE request' = [request EXCEPT ![r] = "probing"] /\ UNCHANGED answer
  /\ UNCHANGED <<startup, listening, active, inFlight, shut, drained, ran, shutdown>>
ProbeEnds(r) ==
  /\ Serving(r, "probing")
  /\ request' = [request EXCEPT ![r] = "done"]
  /\ \E status \in IF pool = "open" THEN {200, 503} ELSE {503} :
       answer' = [answer EXCEPT ![r] = status]
  /\ UNCHANGED <<startup, listening, active, inFlight, shut, drained, ran, shutdown>>

(* The gate.  Broken: work may begin during the shutdown.                    *)
RunAlways(r) ==
  /\ Serving(r, "dispatch")
  /\ request' = [request EXCEPT ![r] = "work"] /\ inFlight' = inFlight + 1
  /\ ran' = ran \cup {r} /\ UNCHANGED <<answer, active>>
  /\ UNCHANGED <<startup, listening, shut, drained, shutdown>>
Run(r) ==
  /\ Serving(r, "dispatch")
  /\ IF shut THEN Finish(r, 503) /\ UNCHANGED <<inFlight, ran>>
     ELSE /\ request' = [request EXCEPT ![r] = "work"] /\ inFlight' = inFlight + 1
          /\ ran' = ran \cup {r} /\ UNCHANGED <<answer, active>>
  /\ UNCHANGED <<startup, listening, shut, drained, shutdown>>
NotifyIdle(n) == drained' = (drained \/ (stage = "draining" /\ n = 0))
WorkEnds(r) ==
  /\ Serving(r, "work")
  /\ request' = [request EXCEPT ![r] = "respond"]
  /\ inFlight' = inFlight - 1
  /\ NotifyIdle(inFlight - 1)
  /\ UNCHANGED <<startup, listening, answer, active, shut, ran, shutdown>>

---------------------------------------------------------------------------
(* performShutdown.                                                          *)
ReceiveSignal ==
  /\ Alive /\ start = "serving" /\ stage = "none"
  /\ shut' = TRUE /\ stage' = "draining" /\ drained' = (inFlight = 0)
  /\ UNCHANGED <<startup, listening, request, answer, active, inFlight, ran, expired, exit>>
Expire ==
  /\ Alive /\ stage # "none" /\ ~expired
  /\ expired' = TRUE
  /\ UNCHANGED <<startup, listening, request, answer, active, inFlight, shut, drained, ran, stage, exit>>
(* Broken: the drain that timed out is taken for a drain that ended.         *)
DisconnectClean ==
  /\ Alive /\ stage = "draining" /\ (drained \/ expired)
  /\ listening' = FALSE /\ stage' = "disconnecting" /\ pool' = "ending"
  /\ UNCHANGED <<start, request, answer, active, inFlight, shut, drained, ran, expired, exit>>
Disconnect ==
  /\ Alive /\ stage = "draining" /\ (drained \/ expired)
  /\ listening' = FALSE /\ stage' = "closing"
  /\ exit' = IF expired THEN 1 ELSE None
  /\ UNCHANGED <<startup, request, answer, active, inFlight, shut, drained, ran, expired>>
(* The server is closed when its last connection is.                         *)
TransportCloses ==
  /\ Alive /\ stage = "closing"
  /\ \/ /\ \A r \in Request : request[r] \in {"idle", "done"}
        /\ stage' = "disconnecting" /\ pool' = "ending" /\ UNCHANGED exit
     \/ exit' = 1 /\ UNCHANGED <<stage, pool>>
  /\ UNCHANGED <<start, listening, request, answer, active, inFlight, shut, drained, ran, expired>>
PoolEnds ==
  /\ Alive /\ stage = "disconnecting"
  /\ \/ pool' = "closed" /\ exit' = 0
     \/ exit' = 1 /\ UNCHANGED pool
  /\ UNCHANGED <<start, listening, request, answer, active, inFlight, shut, drained, ran, stage, expired>>
(* Broken: the second race does not watch the timer.                         *)
GivesUpNever == FALSE /\ UNCHANGED processVars
GivesUp ==
  /\ Alive /\ stage \in {"closing", "disconnecting"} /\ expired
  /\ exit' = 1
  /\ UNCHANGED <<startup, listening, request, answer, active, inFlight, shut, drained, ran, stage, expired>>

ProcessNext ==
  \/ Connect \/ VerifySchema \/ Listen \/ StartFails \/ Killed
  \/ \E r \in Request :
       \/ Arrive(r) \/ PreAuthenticate(r) \/ ReadBody(r) \/ Run(r) \/ WorkEnds(r) \/ Respond(r)
       \/ ProbeStarts(r) \/ ProbeEnds(r)
  \/ ReceiveSignal \/ Expire \/ Disconnect \/ TransportCloses \/ PoolEnds \/ GivesUp
ProcessSpec == ProcessInit /\ [][ProcessNext]_processVars

(* The timer and the continuations of the event loop run; clients, work and  *)
(* the database need not.                                                    *)
FairProcessSpec == ProcessSpec /\ WF_processVars(Expire) /\ WF_processVars(Disconnect) /\ WF_processVars(GivesUp)

---------------------------------------------------------------------------
(* Every variable has its type, and both counters count what they name: no   *)
(* path of route or of the gate leaks a slot.                                *)
ProcessTypeOK ==
  /\ start \in {"connect", "verify", "listen", "serving", "failed"}
  /\ listening \in BOOLEAN /\ shut \in BOOLEAN /\ drained \in BOOLEAN /\ expired \in BOOLEAN
  /\ pool \in {"closed", "open", "ending"} /\ exit \in {None, 0, 1, 137}
  /\ stage \in {"none", "draining", "closing", "disconnecting"} /\ ran \subseteq Request
  /\ request \in [Request -> {"idle", "limit", "body", "dispatch", "work", "respond", "probing", "done"}]
  /\ answer \in [Request -> Nat \cup {None}]
  /\ active = Cardinality(Holding)
  /\ inFlight = Cardinality({r \in Request : request[r] = "work"})

(* No more requests are in the transport than are allowed.                   *)
SlotsBounded == Cardinality(Holding) <= MaxConcurrent

(* Commands work only on a connected pool whose schema was verified, while   *)
(* the process lives: no disconnect overtakes a command still at work.       *)
WorksConnected ==
  Alive /\ (\E r \in Request : request[r] = "work") => start = "serving" /\ pool = "open"

(* Exit code 0 means that nothing was cut off: every request whose work      *)
(* began was answered with its result, and the pool is closed.               *)
CleanExit ==
  exit = 0 =>
    /\ pool = "closed"
    /\ \A r \in Request : request[r] \in {"idle", "done"}
    /\ \A r \in ran : answer[r] \in {200, 422, 500}

(* What the process promises at any moment.                                  *)
RuntimeSound == ProcessTypeOK /\ SlotsBounded /\ WorksConnected /\ CleanExit

(* Once the shutdown began nothing new is begun: no further work and no      *)
(* further readiness.                                                        *)
BeginsNothingNew ==
  shut => /\ ran' = ran
          /\ \A r \in Probe : request[r] = "idle" => answer'[r] \in {None, 503}

=============================================================================
