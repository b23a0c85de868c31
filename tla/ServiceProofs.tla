--------------------------- MODULE ServiceProofs ---------------------------
(***************************************************************************)
(* The serving process, the migration of its database, its readiness and    *)
(* its alerts:                                                              *)
(* RuntimeSound and BeginsNothingNew of Runtime, for any finite set of      *)
(* requests and any limit; MigrationSound and LosesNothing of               *)
(* SchemaMigration, for any migrators, servers and databases;               *)
(* ReadinessSound and StaysUnready of Readiness, for any times; and         *)
(* AlertsSound and AlertsTruly of SecurityAlerts, for any thresholds.       *)
(***************************************************************************)
EXTENDS Runtime, SchemaMigration, SecurityAlerts, Readiness, SequenceTheorems, FiniteSetTheorems,
        WellFoundedInduction, TLAPS

InTransport == {"limit", "body", "dispatch", "work", "respond"}
RequestStates == InTransport \cup {"idle", "probing", "done"}

(* Types of what a request step changes.                                     *)
Typed ==
  /\ request \in [Request -> RequestStates]
  /\ answer \in [Request -> Nat \cup {None}]
  /\ ran \subseteq Request

(* The slots given out are those held, never more than the limit.            *)
Slots == active = Cardinality(Holding) /\ active <= MaxConcurrent

(* The gate counts the requests at work.                                     *)
AtWork == {r \in Request : request[r] = "work"}
Gate == inFlight = Cardinality(AtWork)

(* Types of what only the process changes, or only a step of its own.        *)
Staged ==
  /\ start \in {"connect", "verify", "listen", "serving", "failed"}
  /\ listening \in BOOLEAN /\ shut \in BOOLEAN /\ drained \in BOOLEAN /\ expired \in BOOLEAN
  /\ pool \in {"closed", "open", "ending"} /\ exit \in {None, 0, 1, 137}
  /\ stage \in {"none", "draining", "closing", "disconnecting"}

(* Nothing is served before the pool is open; the pool is left open until    *)
(* the server closed, which is when no request is under way.                 *)
Ordered ==
  /\ start \in {"verify", "listen"} => pool = "open"
  /\ start = "serving" /\ stage # "disconnecting" => pool = "open"
  /\ listening \/ stage # "none" \/ (\E r \in Request : request[r] # "idle") => start = "serving"
  /\ stage \in {"closing", "disconnecting"} => ~listening
  /\ stage = "disconnecting" => \A r \in Request : request[r] \in {"idle", "done"}
  /\ exit = 0 => stage = "disconnecting" /\ pool = "closed"

(* Work that began is under way, or was answered with its result; a request  *)
(* that did not arrive was not answered.                                     *)
Result == {200, 422, 500}
Answered ==
  \A r \in Request :
    /\ r \in ran => request[r] \in {"work", "respond"} \/ (request[r] = "done" /\ answer[r] \in Result)
    /\ request[r] = "idle" => answer[r] = None

-----------------------------------------------------------------------------
(* The steps of a request, and the steps of the process.                     *)
RequestStep(r) ==
  \/ Arrive(r) \/ PreAuthenticate(r) \/ ReadBody(r) \/ Run(r) \/ WorkEnds(r) \/ Respond(r)
  \/ ProbeStarts(r) \/ ProbeEnds(r)
ProcessStep ==
  \/ Connect \/ VerifySchema \/ Listen \/ StartFails \/ Killed
  \/ ReceiveSignal \/ Expire \/ Disconnect \/ TransportCloses \/ PoolEnds \/ GivesUp

(* A step of a request changes that request only, moves it on, and leaves    *)
(* the process as it is; an answer is given when the request is done.        *)
LEMMA RequestShape ==
  ASSUME RuntimeAssumption, Typed, NEW r \in Request, RequestStep(r)
  PROVE  /\ Typed'
         /\ Alive
         /\ request'[r] # "idle"
         /\ request[r] = "idle" => listening
         /\ \A q \in Request : q # r => request'[q] = request[q] /\ answer'[q] = answer[q]
         /\ UNCHANGED <<startup, listening, shutdown, shut>>
         /\ request[r] # "done"
<1> USE DEF Typed, RequestStates, InTransport
<1>1. CASE Arrive(r)
  BY <1>1 DEF Arrive, Serving, startup, shutdown
<1>2. CASE PreAuthenticate(r)
  BY <1>2 DEF PreAuthenticate, Serving, Finish, startup, shutdown
<1>3. CASE ReadBody(r)
  BY <1>3 DEF ReadBody, Serving, Finish, startup, shutdown
<1>4. CASE Run(r)
  BY <1>4 DEF Run, Serving, Finish, startup, shutdown
<1>5. CASE WorkEnds(r)
  BY <1>5 DEF WorkEnds, Serving, startup, shutdown
<1>6. CASE Respond(r)
  BY <1>6 DEF Respond, Serving, Finish, startup, shutdown
<1>7. CASE ProbeStarts(r)
  BY <1>7 DEF ProbeStarts, Serving, startup, shutdown
<1>8. CASE ProbeEnds(r)
  BY <1>8 DEF ProbeEnds, Serving, startup, shutdown
<1> QED
  BY <1>1, <1>2, <1>3, <1>4, <1>5, <1>6, <1>7, <1>8 DEF RequestStep

(* What the step does to the slot of the request and to the counter.         *)
LEMMA SlotShape ==
  ASSUME RuntimeAssumption, Typed, active \in Nat, NEW r \in Request, RequestStep(r)
  PROVE  \/ r \notin Holding /\ request'[r] \in InTransport
            /\ active' = active + 1 /\ active < MaxConcurrent
         \/ r \in Holding /\ request'[r] = "done" /\ active' = active - 1
         \/ (r \in Holding <=> request'[r] \in InTransport) /\ active' = active
<1> USE DEF Typed, RequestStates, InTransport, Holding
<1>1. CASE Arrive(r)
  BY <1>1 DEF Arrive, Serving, RuntimeAssumption
<1>2. CASE PreAuthenticate(r)
  BY <1>2 DEF PreAuthenticate, Serving, Finish
<1>3. CASE ReadBody(r)
  BY <1>3 DEF ReadBody, Serving, Finish
<1>4. CASE Run(r)
  BY <1>4 DEF Run, Serving, Finish
<1>5. CASE WorkEnds(r)
  BY <1>5 DEF WorkEnds, Serving
<1>6. CASE Respond(r)
  BY <1>6 DEF Respond, Serving, Finish
<1>7. CASE ProbeStarts(r)
  BY <1>7 DEF ProbeStarts, Serving
<1>8. CASE ProbeEnds(r)
  BY <1>8 DEF ProbeEnds, Serving
<1> QED
  BY <1>1, <1>2, <1>3, <1>4, <1>5, <1>6, <1>7, <1>8 DEF RequestStep

(* A step of the process changes no request, no answer and no slot.          *)
LEMMA ProcessShape ==
  ASSUME ProcessStep
  PROVE  UNCHANGED <<request, answer, active, ran>>
BY DEF ProcessStep, Connect, VerifySchema, Listen, StartFails, Killed, ReceiveSignal, Expire, Disconnect,
       TransportCloses, PoolEnds, GivesUp

(* What the step does to the work of the request and to the gate's counter.  *)
LEMMA GateShape ==
  ASSUME RuntimeAssumption, Typed, inFlight \in Nat, NEW r \in Request, RequestStep(r)
  PROVE  \/ r \notin AtWork /\ request'[r] = "work" /\ inFlight' = inFlight + 1
         \/ r \in AtWork /\ request'[r] # "work" /\ inFlight' = inFlight - 1
         \/ (r \in AtWork <=> request'[r] = "work") /\ inFlight' = inFlight
<1> USE DEF Typed, AtWork
<1>1. CASE Run(r)
  BY <1>1 DEF Run, Serving, Finish
<1>2. CASE WorkEnds(r)
  BY <1>2 DEF WorkEnds, Serving
<1>3. CASE Arrive(r) \/ PreAuthenticate(r) \/ ReadBody(r)
  BY <1>3 DEF Arrive, PreAuthenticate, ReadBody, Serving, Finish
<1>4. CASE Respond(r) \/ ProbeStarts(r) \/ ProbeEnds(r)
  BY <1>4 DEF Respond, ProbeStarts, ProbeEnds, Serving, Finish
<1> QED
  BY <1>1, <1>2, <1>3, <1>4 DEF RequestStep

(* Every step keeps the slots counted and within the limit.                  *)
LEMMA SlotsStep ==
  ASSUME RuntimeAssumption, Typed, Slots, [ProcessNext]_processVars
  PROVE  Slots'
<1>1. ASSUME NEW r \in Request, RequestStep(r)
      PROVE  Slots'
  <2>1. IsFiniteSet(Holding)
    BY FS_Subset DEF RuntimeAssumption, Holding
  <2>2. Holding' = {q \in Request : request'[q] \in InTransport}
    BY DEF Holding, InTransport
  <2>3. \A q \in Request : q # r => (q \in Holding' <=> q \in Holding)
    BY <1>1, <2>2, RequestShape DEF Holding, InTransport
  <2>4. r \in Holding' <=> request'[r] \in InTransport
    BY <2>2
  <2>5. Holding \subseteq Request /\ Holding' \subseteq Request
    BY DEF Holding
  <2>6. Cardinality(Holding) \in Nat /\ MaxConcurrent \in Nat
    BY <2>1, FS_CardinalityType DEF RuntimeAssumption
  <2>7. CASE r \notin Holding /\ request'[r] \in InTransport
             /\ active' = active + 1 /\ active < MaxConcurrent
    <3>1. Holding' = Holding \cup {r}
      BY <2>3, <2>4, <2>5, <2>7
    <3>2. Cardinality(Holding \cup {r}) = Cardinality(Holding) + 1
      BY <2>1, <2>7, FS_AddElement
    <3> QED
      BY <2>6, <2>7, <3>1, <3>2 DEF Slots
  <2>8. CASE r \in Holding /\ request'[r] = "done" /\ active' = active - 1
    <3>1. Holding' = Holding \ {r}
      BY <2>3, <2>4, <2>5, <2>8 DEF InTransport
    <3>2. Cardinality(Holding \ {r}) = Cardinality(Holding) - 1
      BY <2>1, <2>8, FS_RemoveElement
    <3> QED
      BY <2>6, <2>8, <3>1, <3>2 DEF Slots
  <2>9. CASE (r \in Holding <=> request'[r] \in InTransport) /\ active' = active
    <3>1. Holding' = Holding
      BY <2>3, <2>4, <2>5, <2>9
    <3> QED
      BY <2>9, <3>1 DEF Slots
  <2> QED
    BY <1>1, <2>6, <2>7, <2>8, <2>9, SlotShape DEF Slots
<1>2. CASE ProcessStep
  BY <1>2, ProcessShape DEF Slots, Holding
<1>3. CASE UNCHANGED processVars
  BY <1>3 DEF processVars, Slots, Holding
<1> QED
  BY <1>1, <1>2, <1>3 DEF ProcessNext, RequestStep, ProcessStep

(* Every step keeps the gate's counter equal to the work under way.          *)
LEMMA GateStep ==
  ASSUME RuntimeAssumption, Typed, Gate, [ProcessNext]_processVars
  PROVE  Gate'
<1>1. ASSUME NEW r \in Request, RequestStep(r)
      PROVE  Gate'
  <2>1. IsFiniteSet(AtWork)
    BY FS_Subset DEF RuntimeAssumption, AtWork
  <2>2. Cardinality(AtWork) \in Nat /\ inFlight \in Nat
    BY <2>1, FS_CardinalityType DEF Gate
  <2>3. AtWork' = {q \in Request : request'[q] = "work"}
    BY DEF AtWork
  <2>4. \A q \in Request : q # r => (q \in AtWork' <=> q \in AtWork)
    BY <1>1, <2>3, RequestShape DEF AtWork
  <2>5. (r \in AtWork' <=> request'[r] = "work") /\ AtWork \subseteq Request /\ AtWork' \subseteq Request
    BY <2>3 DEF AtWork
  <2>6. CASE r \notin AtWork /\ request'[r] = "work" /\ inFlight' = inFlight + 1
    <3>1. AtWork' = AtWork \cup {r}
      BY <2>4, <2>5, <2>6
    <3>2. Cardinality(AtWork \cup {r}) = Cardinality(AtWork) + 1
      BY <2>1, <2>6, FS_AddElement
    <3> QED
      BY <2>2, <2>6, <3>1, <3>2 DEF Gate
  <2>7. CASE r \in AtWork /\ request'[r] # "work" /\ inFlight' = inFlight - 1
    <3>1. AtWork' = AtWork \ {r}
      BY <2>4, <2>5, <2>7
    <3>2. Cardinality(AtWork \ {r}) = Cardinality(AtWork) - 1
      BY <2>1, <2>7, FS_RemoveElement
    <3> QED
      BY <2>2, <2>7, <3>1, <3>2 DEF Gate
  <2>8. CASE (r \in AtWork <=> request'[r] = "work") /\ inFlight' = inFlight
    <3>1. AtWork' = AtWork
      BY <2>4, <2>5, <2>8
    <3> QED
      BY <2>8, <3>1 DEF Gate
  <2> QED
    BY <1>1, <2>2, <2>6, <2>7, <2>8, GateShape
<1>2. CASE ProcessStep
  <2>1. inFlight' = inFlight /\ request' = request
    BY <1>2 DEF ProcessStep, Connect, VerifySchema, Listen, StartFails, Killed, ReceiveSignal, Expire,
                Disconnect, TransportCloses, PoolEnds, GivesUp
  <2> QED
    BY <2>1 DEF Gate, AtWork
<1>3. CASE UNCHANGED processVars
  BY <1>3 DEF processVars, Gate, AtWork
<1> QED
  BY <1>1, <1>2, <1>3 DEF ProcessNext, RequestStep, ProcessStep

-----------------------------------------------------------------------------
(* Every step keeps the types of the process.                                *)
LEMMA StagedStep ==
  ASSUME RuntimeAssumption, Typed, Staged, [ProcessNext]_processVars
  PROVE  Staged'
<1>1. ASSUME NEW r \in Request, RequestStep(r)
      PROVE  Staged'
  <2>1. UNCHANGED <<startup, listening, shutdown, shut>>
    BY <1>1, RequestShape
  <2>2. drained' = drained \/ WorkEnds(r)
    BY <1>1 DEF RequestStep, Arrive, PreAuthenticate, ReadBody, Run, Respond, ProbeStarts, ProbeEnds
  <2>3. drained' \in BOOLEAN
    BY <2>2 DEF WorkEnds, NotifyIdle, Staged
  <2> QED
    BY <2>1, <2>3 DEF Staged, startup, shutdown
<1>2. CASE Connect \/ VerifySchema \/ Listen
  <2>1. listening' \in BOOLEAN
    BY <1>2 DEF Connect, VerifySchema, Listen, Staged
  <2>2. UNCHANGED <<shut, drained, shutdown>>
    BY <1>2 DEF Connect, VerifySchema, Listen
  <2>3. start' \in {"verify", "listen", "serving"} /\ pool' \in {"closed", "open", "ending"}
    BY <1>2 DEF Connect, VerifySchema, Listen, Staged
  <2> QED
    BY <2>1, <2>2, <2>3 DEF Staged, shutdown
<1>3. CASE StartFails \/ Killed \/ Expire
  <2>1. expired' \in BOOLEAN
    BY <1>3 DEF StartFails, Killed, Expire, Staged
  <2>2. UNCHANGED <<listening, shut, stage>> /\ drained' = drained
    BY <1>3 DEF StartFails, Killed, Expire
  <2>3. /\ start' \in {start, "failed"} /\ pool' \in {pool, "closed"}
        /\ exit' \in {exit, 1, 137}
    BY <1>3 DEF StartFails, Killed, Expire, startup
  <2> QED
    BY <2>1, <2>2, <2>3 DEF Staged
<1>6. CASE ReceiveSignal
  <2>1. (inFlight = 0) \in BOOLEAN
    OBVIOUS
  <2> QED
    BY <1>6, <2>1 DEF ReceiveSignal, Staged, startup
<1>7. CASE Disconnect
  <2>1. listening' \in BOOLEAN
    BY <1>7 DEF Disconnect
  <2>2. UNCHANGED <<start, pool, shut, drained, expired>> /\ stage' = "closing"
    BY <1>7 DEF Disconnect, startup
  <2>3. exit' \in {exit, 1} \cup {None}
    BY <1>7 DEF Disconnect
  <2> QED
    BY <2>1, <2>2, <2>3 DEF Staged
<1>4. CASE TransportCloses \/ PoolEnds \/ GivesUp
  BY <1>4 DEF TransportCloses, PoolEnds, GivesUp, Staged, startup
<1>5. CASE UNCHANGED processVars
  BY <1>5 DEF processVars, Staged
<1> QED
  BY <1>1, <1>2, <1>3, <1>4, <1>5, <1>6, <1>7 DEF ProcessNext, RequestStep

(* Every step keeps the types of what requests change.                       *)
LEMMA TypedStep ==
  ASSUME RuntimeAssumption, Typed, [ProcessNext]_processVars
  PROVE  Typed'
<1>1. CASE UNCHANGED processVars
  BY <1>1 DEF processVars, Typed
<1>2. CASE ProcessStep
  BY <1>2, ProcessShape DEF Typed
<1>3. ASSUME NEW r \in Request, RequestStep(r)
      PROVE  Typed'
  BY <1>3, RequestShape
<1> QED
  BY <1>1, <1>2, <1>3 DEF ProcessNext, RequestStep, ProcessStep

(* Every step keeps the order of start and shutdown.                         *)
LEMMA OrderedStep ==
  ASSUME RuntimeAssumption, Typed, Ordered, [ProcessNext]_processVars
  PROVE  Ordered'
<1>1. ASSUME NEW r \in Request, RequestStep(r)
      PROVE  Ordered'
  <2>1. /\ request[r] = "idle" => listening
        /\ request[r] # "done"
        /\ \A q \in Request : q # r => request'[q] = request[q]
        /\ start' = start /\ pool' = pool /\ listening' = listening /\ stage' = stage /\ exit' = exit
    BY <1>1, RequestShape DEF startup, shutdown
  <2>2. stage # "disconnecting"
    BY <2>1 DEF Ordered
  <2>3. start = "serving"
    BY <2>1 DEF Ordered
  <2> QED
    BY <2>1, <2>2, <2>3 DEF Ordered
<1>2. CASE ProcessStep
  <2>1. request' = request
    BY <1>2, ProcessShape
  <2>2. CASE Connect \/ VerifySchema \/ Listen
    BY <2>1, <2>2 DEF Connect, VerifySchema, Listen, Alive, Ordered, shutdown
  <2>3. CASE StartFails
    BY <2>1, <2>3 DEF StartFails, Alive, Ordered
  <2>4. CASE Killed \/ GivesUp \/ Expire \/ ReceiveSignal
    BY <2>1, <2>4 DEF Killed, GivesUp, Expire, ReceiveSignal, Alive, Ordered, startup
  <2>5. CASE Disconnect
    BY <2>1, <2>5 DEF Disconnect, Alive, Ordered, startup, RuntimeAssumption
  <2>6. CASE TransportCloses
    BY <2>1, <2>6 DEF TransportCloses, Alive, Ordered, RuntimeAssumption
  <2>7. CASE PoolEnds
    BY <2>1, <2>7 DEF PoolEnds, Alive, Ordered
  <2> QED
    BY <1>2, <2>2, <2>3, <2>4, <2>5, <2>6, <2>7 DEF ProcessStep
<1>3. CASE UNCHANGED processVars
  BY <1>3 DEF processVars, Ordered
<1> QED
  BY <1>1, <1>2, <1>3 DEF ProcessNext, RequestStep, ProcessStep

(* Every step keeps what is said of answers.                                 *)
LEMMA AnsweredStep ==
  ASSUME RuntimeAssumption, Typed, Answered, [ProcessNext]_processVars
  PROVE  Answered'
<1>1. ASSUME NEW r \in Request, RequestStep(r)
      PROVE  Answered'
  <2> DEFINE Fine(q) ==
        /\ q \in ran' => request'[q] \in {"work", "respond"} \/ (request'[q] = "done" /\ answer'[q] \in Result)
        /\ request'[q] = "idle" => answer'[q] = None
  <2>1. ran' = ran \/ ran' = ran \cup {r}
    BY <1>1 DEF RequestStep, Arrive, PreAuthenticate, ReadBody, Run, WorkEnds, Respond, ProbeStarts,
                ProbeEnds
  <2>2. ASSUME NEW q \in Request, q # r
        PROVE  Fine(q)
    BY <1>1, <2>1, <2>2, RequestShape DEF Answered
  <2>3. r \in ran' => request'[r] \in {"work", "respond"} \/ (request'[r] = "done" /\ answer'[r] \in Result)
    <3>1. CASE Run(r)
      BY <3>1 DEF Run, Serving, Finish, Answered, Typed
    <3>2. CASE WorkEnds(r)
      BY <3>2 DEF WorkEnds, Serving, Typed
    <3>3. CASE Respond(r)
      BY <3>3 DEF Respond, Serving, Finish, Typed, Result
    <3>4. CASE Arrive(r) \/ PreAuthenticate(r) \/ ReadBody(r) \/ ProbeStarts(r) \/ ProbeEnds(r)
      <4>1. ran' = ran /\ request[r] \in {"idle", "limit", "body", "probing"}
        BY <3>4 DEF Arrive, PreAuthenticate, ReadBody, ProbeStarts, ProbeEnds, Serving
      <4> QED
        BY <4>1 DEF Answered
    <3> QED
      BY <1>1, <3>1, <3>2, <3>3, <3>4 DEF RequestStep
  <2>4. request'[r] # "idle"
    BY <1>1, RequestShape
  <2> QED
    BY <2>2, <2>3, <2>4 DEF Answered
<1>2. CASE ProcessStep
  BY <1>2, ProcessShape DEF Answered
<1>3. CASE UNCHANGED processVars
  BY <1>3 DEF processVars, Answered
<1> QED
  BY <1>1, <1>2, <1>3 DEF ProcessNext, RequestStep, ProcessStep

-----------------------------------------------------------------------------
(* The inductive invariant.                                                  *)
RuntimeInv == Typed /\ Staged /\ Slots /\ Gate /\ Ordered /\ Answered

(* It holds when the process is started.                                     *)
LEMMA RuntimeInit ==
  ASSUME RuntimeAssumption, ProcessInit
  PROVE  RuntimeInv
<1>1. Holding = {}
  BY DEF ProcessInit, Holding
<1>2. Cardinality({}) = 0
  BY FS_EmptySet
<1>3. Slots
  BY <1>1, <1>2 DEF ProcessInit, Slots, RuntimeAssumption
<1>4. AtWork = {}
  BY DEF ProcessInit, AtWork
<1>5. Gate
  BY <1>2, <1>4 DEF ProcessInit, Gate
<1>6. Staged
  BY DEF ProcessInit, Staged
<1> QED
  BY <1>3, <1>5, <1>6 DEF ProcessInit, RuntimeInv, Typed, RequestStates, Ordered, Answered, RuntimeAssumption

(* Every step of main, of the transport, of the command gate and of          *)
(* performShutdown keeps it.                                                 *)
THEOREM RuntimeInvariant ==
  ASSUME RuntimeAssumption
  PROVE  ProcessSpec => []RuntimeInv
<1>1. ProcessInit => RuntimeInv
  BY RuntimeInit
<1>2. RuntimeInv /\ [ProcessNext]_processVars => RuntimeInv'
  BY TypedStep, StagedStep, SlotsStep, GateStep, OrderedStep, AnsweredStep DEF RuntimeInv
<1> QED
  BY <1>1, <1>2, PTL DEF ProcessSpec

(* The transport never holds more requests than maxConcurrentRequests,       *)
(* whichever way each of them ends (CommandHttpTransport.route).             *)
THEOREM TransportBounded ==
  ASSUME RuntimeAssumption
  PROVE  ProcessSpec => []SlotsBounded
<1>1. RuntimeInv => SlotsBounded
  BY DEF RuntimeInv, Slots, SlotsBounded
<1> QED
  BY <1>1, RuntimeInvariant, PTL

(* While the process lives, commands work only on an open pool: the shutdown *)
(* disconnects the database after the last of them (performShutdown).        *)
THEOREM WorkBeforeDisconnect ==
  ASSUME RuntimeAssumption
  PROVE  ProcessSpec => []WorksConnected
<1>1. RuntimeInv => WorksConnected
  BY DEF RuntimeInv, Ordered, WorksConnected
<1> QED
  BY <1>1, RuntimeInvariant, PTL

(* Exit code 0 means that all work that began was answered with its result   *)
(* and the pool is closed (performShutdown, main).                           *)
THEOREM ZeroExitIsClean ==
  ASSUME RuntimeAssumption
  PROVE  ProcessSpec => []CleanExit
<1>1. RuntimeInv => CleanExit
  BY DEF RuntimeInv, Ordered, Answered, Result, CleanExit, Typed
<1> QED
  BY <1>1, RuntimeInvariant, PTL

(* All the process promises at any moment: types, both counters exact,       *)
(* slots within the limit, work only on an open pool, exit code 0 only when  *)
(* nothing was cut off (route, createCommandGate, performShutdown, main).    *)
THEOREM RuntimeIsSound ==
  ASSUME RuntimeAssumption
  PROVE  ProcessSpec => []RuntimeSound
<1>1. RuntimeInv => ProcessTypeOK
  BY DEF RuntimeInv, Typed, Staged, Slots, Gate, AtWork, ProcessTypeOK, RequestStates, InTransport
<1>2. ProcessTypeOK /\ SlotsBounded /\ WorksConnected /\ CleanExit => RuntimeSound
  BY DEF RuntimeSound
<1> QED
  BY <1>1, <1>2, RuntimeInvariant, TransportBounded, WorkBeforeDisconnect, ZeroExitIsClean, PTL

(* Once the shutdown began no work begins and no probe is told ready that    *)
(* had not arrived before (createCommandGate, isReady).                      *)
THEOREM ShutdownBeginsNothing ==
  ASSUME RuntimeAssumption
  PROVE  ProcessSpec => [][BeginsNothingNew]_processVars
<1>1. ASSUME RuntimeInv, ProcessNext
      PROVE  BeginsNothingNew
  <2> SUFFICES ASSUME shut
               PROVE  ran' = ran /\ \A q \in Probe : request[q] = "idle" => answer'[q] \in {None, 503}
    BY DEF BeginsNothingNew
  <2>1. CASE ProcessStep
    BY <1>1, <2>1, ProcessShape DEF RuntimeInv, Answered, RuntimeAssumption
  <2>2. ASSUME NEW r \in Request, RequestStep(r)
        PROVE  ran' = ran /\ \A q \in Probe : request[q] = "idle" => answer'[q] \in {None, 503}
    <3>1. ran' = ran
      BY <2>2 DEF RequestStep, Arrive, PreAuthenticate, ReadBody, Run, WorkEnds, Respond, ProbeStarts,
                  ProbeEnds, Finish
    <3>2. ASSUME NEW q \in Probe, request[q] = "idle", q # r
          PROVE  answer'[q] \in {None, 503}
      <4>1. q \in Request /\ Typed /\ answer[q] = None
        BY <1>1, <3>2 DEF RuntimeInv, Answered, RuntimeAssumption
      <4>2. answer'[q] = answer[q]
        BY <2>2, <3>2, <4>1, RequestShape
      <4> QED
        BY <4>1, <4>2
    <3>3. ASSUME r \in Probe, request[r] = "idle"
          PROVE  answer'[r] \in {None, 503}
      <4>1. ProbeStarts(r)
        BY <2>2, <3>3 DEF RequestStep, Arrive, PreAuthenticate, ReadBody, Run, WorkEnds, Respond,
                          ProbeEnds, Serving
      <4> QED
        BY <1>1, <4>1 DEF ProbeStarts, RuntimeInv, Typed
    <3> QED
      BY <3>1, <3>2, <3>3
  <2> QED
    BY <1>1, <2>1, <2>2 DEF ProcessNext, RequestStep, ProcessStep
<1> QED
  BY <1>1, RuntimeInvariant, PTL DEF ProcessSpec

-----------------------------------------------------------------------------
(* The migration.                                                            *)

AllRouted(d) == \A i \in d.intents : Routed(d, i)

(* A later state of a database has all that an earlier one recorded, and its *)
(* receipts as they were unless a version in between rewrites them.          *)
Carries(d, e) ==
  /\ e.created = d.created /\ e.routes = d.routes /\ e.inbox = d.inbox
  /\ d.versions \subseteq e.versions /\ d.processing \subseteq e.processing
  /\ \A r \in d.receipts : \E q \in e.receipts :
       q.id = r.id /\ q.cell = r.cell /\ q.provider = r.provider
  /\ \A i \in d.intents : \E q \in e.intents :
       q.id = i.id /\ q.provider = i.provider /\ q.cell = i.cell
  /\ {6, 10} \cap (e.versions \ d.versions) = {} => e.receipts = d.receipts /\ e.intents = d.intents
  /\ AllRouted(d) => AllRouted(e)

(* What a version completed stays complete, but for the rows recorded late.  *)
Agree(r, i) == Binds(r, i) /\ r.scope = i.scope
EventsComplete(d, l) == 8 \in d.versions => d.inbox \subseteq d.processing \cup l.inbox
ReceiptsComplete(d, l) ==
  10 \in d.versions =>
    \A r \in d.receipts : \E i \in d.intents : Binds(r, i) /\ (r.scope = i.scope \/ r.id \in l.receipts)
Complete(d, l) == EventsComplete(d, l) /\ ReceiptsComplete(d, l)
Grows(k, l) == k.inbox \subseteq l.inbox /\ k.receipts \subseteq l.receipts

(* The next version is the one after all that were applied.                  *)
LEMMA NextIsNext ==
  ASSUME NEW A, A \subseteq Versions, Prefix(A), A # Versions
  PROVE  /\ NextVersion(A) \in Versions \ A /\ 1..NextVersion(A) \subseteq A \cup {NextVersion(A)}
         /\ Prefix(A \cup {NextVersion(A)})
<1> DEFINE Least(v) == v \in Versions \ A /\ \A w \in Versions \ A : v <= w
<1>1. Versions = {1, 2, 3, 4, 5, 6, 7, 8, 9, 10, 11, 12}
  BY DEF Versions, EXPECTED_SCHEMA_VERSION
<1>2. \E v \in Versions \ A : \A w \in Versions \ A : v <= w
  <2>1. CASE 1 \notin A
    <3>1. 1 \in Versions \ A /\ \A w \in Versions \ A : 1 <= w
      BY <2>1, <1>1
    <3> QED BY <3>1
  <2>2. ASSUME NEW v \in 1..11, 1..v \subseteq A, v + 1 \notin A
        PROVE  \E u \in Versions \ A : \A w \in Versions \ A : u <= w
    <3>1. v + 1 \in Versions \ A /\ \A w \in Versions \ A : v + 1 <= w
      BY <2>2 DEF Versions, EXPECTED_SCHEMA_VERSION
    <3> QED BY <3>1
  <2>3. \A v \in 1..11 : v + 1 \in A => 1..(v + 1) \subseteq A
    BY DEF Prefix
  <2>4. CASE 1 \in A
    <3>1. PICK w \in Versions : w \notin A
      BY <1>1
    <3>2. w \in {2, 3, 4, 5, 6, 7, 8, 9, 10, 11, 12}
      BY <3>1, <2>4, <1>1
    <3>3. CASE 2 \notin A
      <4>1. 1..1 \subseteq A /\ 1 + 1 \notin A
        BY <2>4, <3>3
      <4> QED BY <4>1, <2>2
    <3>4. ASSUME NEW u \in {2, 3, 4, 5, 6, 7, 8, 9, 10, 11}, u \in A, u + 1 \notin A
          PROVE  \E x \in Versions \ A : \A y \in Versions \ A : x <= y
      <4>1. u \in 1..11 /\ 1..u \subseteq A
        BY <3>4 DEF Prefix
      <4> QED BY <4>1, <3>4, <2>2
    <3>5. \/ 2 \notin A
          \/ \E u \in {2, 3, 4, 5, 6, 7, 8, 9, 10, 11} : u \in A /\ u + 1 \notin A
      BY <3>1, <3>2
    <3> QED BY <3>3, <3>4, <3>5
  <2> QED BY <2>1, <2>4
<1>3. NextVersion(A) \in Versions \ A /\ \A w \in Versions \ A : NextVersion(A) <= w
  BY <1>2 DEF NextVersion
<1>4. 1..NextVersion(A) \subseteq A \cup {NextVersion(A)}
  BY <1>3 DEF Versions, EXPECTED_SCHEMA_VERSION
<1>5. Prefix(A \cup {NextVersion(A)})
  BY <1>4 DEF Prefix
<1> QED BY <1>3, <1>4, <1>5

(* The fields of an intent whose scope is rewritten.                         *)
LEMMA IntentFields ==
  ASSUME NEW i, Intent(i), NEW x
  PROVE  LET q == [i EXCEPT !.scope = x] IN
           /\ Intent(q) /\ q.id = i.id /\ q.cell = i.cell /\ q.provider = i.provider
           /\ q.payee = i.payee /\ q.scope = x
BY DEF Intent

(* The scope an intent gets is that of all its routes.                       *)
LEMMA ScopeIsRouted ==
  ASSUME NEW d, Database(d), NEW i, OnlyScope(d, i) # None
  PROVE  /\ RoutesOf(d, i) # {}
         /\ \A r \in RoutesOf(d, i) : r.scope = OnlyScope(d, i) /\ r.provider = i.provider
<1>1. Cardinality(RoutesOf(d, i)) = 1 /\ \A r \in RoutesOf(d, i) : r.provider = i.provider
  BY DEF OnlyScope
<1>2. IsFiniteSet(RoutesOf(d, i))
  <2>1. RoutesOf(d, i) \subseteq d.routes /\ IsFiniteSet(d.routes)
    BY DEF RoutesOf, Database
  <2> QED BY <2>1, FS_Subset
<1>3. PICK r : RoutesOf(d, i) = {r}
  BY <1>1, <1>2, FS_Singleton
<1>4. OnlyScope(d, i) = r.scope
  BY <1>1, <1>3 DEF OnlyScope
<1> QED BY <1>1, <1>3, <1>4

(* The sixth version: each receipt agrees with the intent made for it.       *)
LEMMA SixthKeeps ==
  ASSUME NEW d, Constrained(d), 6 \notin d.versions, ~Refused(d, 6), 10 \notin d.versions
  PROVE  LET e == FUNDING_SEMANTICS_SCHEMA(d) IN
         /\ Database(e) /\ Keyed(e.receipts) /\ Keyed(e.intents)
         /\ e.versions = d.versions /\ e.core = d.core /\ e.created = d.created /\ e.routes = d.routes
         /\ e.inbox = d.inbox /\ e.processing = d.processing
         /\ \A r \in e.receipts : Receipt(r) /\ Created(e, r) /\ r.scope = None
         /\ \A i \in e.intents : Intent(i) /\ i.scope = None
         /\ \A r \in e.receipts : \E i \in e.intents : Agree(r, i)
         /\ \A r \in d.receipts : \E q \in e.receipts :
              q.id = r.id /\ q.cell = r.cell /\ q.provider = r.provider
<1> DEFINE e == FUNDING_SEMANTICS_SCHEMA(d)
           I(r) == [id |-> Legacy(r), provider |-> r.provider, cell |-> r.cell,
                    payee |-> PayeeOf(d, r), scope |-> None]
           R(r) == [r EXCEPT !.intent = Legacy(r), !.payee = PayeeOf(d, r), !.finality = "SETTLED_LEGACY"]
<1>1. /\ Database(d) /\ Keyed(d.receipts)
      /\ \A r \in d.receipts : Receipt(r) /\ Created(d, r) /\ r.scope = None
  BY DEF Constrained
<1>2. e = [d EXCEPT !.intents = {I(r) : r \in {s \in d.receipts : Created(d, s)}},
                    !.receipts = {R(r) : r \in d.receipts}]
  BY DEF FUNDING_SEMANTICS_SCHEMA
<1>3. {s \in d.receipts : Created(d, s)} = d.receipts
  BY <1>1
<1>4. /\ Database(e) /\ e.versions = d.versions /\ e.core = d.core /\ e.created = d.created
      /\ e.receipts = {R(r) : r \in d.receipts} /\ e.intents = {I(r) : r \in d.receipts}
      /\ e.routes = d.routes /\ e.inbox = d.inbox /\ e.processing = d.processing
  BY <1>1, <1>2, <1>3 DEF Database
<1>5. \A r \in d.receipts :
        /\ Receipt(R(r)) /\ R(r).id = r.id /\ R(r).cell = r.cell /\ R(r).provider = r.provider
        /\ R(r).intent = Legacy(r) /\ R(r).payee = PayeeOf(d, r) /\ R(r).scope = None
  <2> SUFFICES ASSUME NEW r \in d.receipts, Receipt(r)
               PROVE  /\ Receipt(R(r)) /\ R(r).id = r.id /\ R(r).cell = r.cell
                      /\ R(r).provider = r.provider /\ R(r).intent = Legacy(r)
                      /\ R(r).payee = PayeeOf(d, r) /\ R(r).scope = None
    BY <1>1
  <2> QED BY <1>1, Zenon DEF Receipt
<1>6. \A r \in d.receipts :
        /\ Intent(I(r)) /\ I(r).id = Legacy(r) /\ I(r).provider = r.provider /\ I(r).cell = r.cell
        /\ I(r).payee = PayeeOf(d, r) /\ I(r).scope = None
  BY DEF Intent
<1>7. \A r \in d.receipts : PayeeOf(d, r) # None
  BY <1>1 DEF PayeeOf, Created
<1> HIDE DEF e, I, R
<1>8. \A r \in d.receipts : Agree(R(r), I(r))
  BY <1>5, <1>6, <1>7 DEF Agree, Binds
<1>9. Keyed(e.receipts)
  BY <1>1, <1>4, <1>5 DEF Keyed
<1>10. Keyed(e.intents)
  <2> SUFFICES ASSUME NEW r \in d.receipts, NEW s \in d.receipts, I(r).id = I(s).id PROVE I(r) = I(s)
    BY <1>4 DEF Keyed
  <2>1. r.id = s.id
    BY <1>6 DEF Legacy
  <2> QED BY <2>1, <1>1 DEF Keyed
<1>11. \A r \in e.receipts : Receipt(r) /\ Created(e, r) /\ r.scope = None
  BY <1>1, <1>4, <1>5 DEF Created
<1>12. \A i \in e.intents : Intent(i) /\ i.scope = None
  BY <1>4, <1>6
<1>13. \A r \in e.receipts : \E i \in e.intents : Agree(r, i)
  BY <1>4, <1>8
<1>14. \A r \in d.receipts : \E q \in e.receipts :
         q.id = r.id /\ q.cell = r.cell /\ q.provider = r.provider
  BY <1>4, <1>5
<1> QED BY <1>4, <1>9, <1>10, <1>11, <1>12, <1>13, <1>14 DEF e

(* The tenth: intents get the scope of their routes, receipts that of their  *)
(* intents, and they agree as before.                                        *)
LEMMA TenthKeeps ==
  ASSUME NEW d, Constrained(d), 6 \in d.versions
  PROVE  LET e == FUNDING_ACCOUNT_SCOPE_V10_SCHEMA(d) IN
         /\ Database(e) /\ Keyed(e.receipts) /\ Keyed(e.intents)
         /\ e.versions = d.versions /\ e.core = d.core /\ e.created = d.created /\ e.routes = d.routes
         /\ e.inbox = d.inbox /\ e.processing = d.processing
         /\ \A r \in e.receipts : Receipt(r) /\ Created(e, r)
         /\ \A i \in e.intents : Intent(i) /\ Routed(e, i)
         /\ \A r \in e.receipts : \E i \in e.intents : Agree(r, i)
         /\ \A r \in d.receipts : \E q \in e.receipts :
              q.id = r.id /\ q.cell = r.cell /\ q.provider = r.provider
         /\ \A i \in d.intents : \E q \in e.intents :
              q.id = i.id /\ q.provider = i.provider /\ q.cell = i.cell
<1> DEFINE e == FUNDING_ACCOUNT_SCOPE_V10_SCHEMA(d)
           ids == {i.id : i \in d.intents}
           scope == [id \in ids |-> OnlyScope(d, CHOOSE i \in d.intents : i.id = id)]
           I(i) == [i EXCEPT !.scope = scope[i.id]]
           R(r) == [r EXCEPT !.scope = scope[r.intent]]
<1>1. /\ Database(d) /\ Keyed(d.receipts) /\ Keyed(d.intents)
      /\ \A r \in d.receipts : Receipt(r) /\ Created(d, r) /\ \E i \in d.intents : Binds(r, i)
      /\ \A i \in d.intents : Intent(i)
  BY DEF Constrained
<1>2. e = [d EXCEPT !.intents = {I(i) : i \in d.intents}, !.receipts = {R(r) : r \in d.receipts}]
  BY <1>1 DEF FUNDING_ACCOUNT_SCOPE_V10_SCHEMA, Database
<1>3. \A i \in d.intents : scope[i.id] = OnlyScope(d, i)
  <2> SUFFICES ASSUME NEW i \in d.intents PROVE scope[i.id] = OnlyScope(d, i)
    OBVIOUS
  <2>1. i.id \in ids
    OBVIOUS
  <2>2. (CHOOSE j \in d.intents : j.id = i.id) = i
    BY <1>1 DEF Keyed
  <2> QED BY <2>1, <2>2
<1> HIDE DEF scope
<1>4. /\ Database(e) /\ e.versions = d.versions /\ e.core = d.core /\ e.created = d.created
      /\ e.receipts = {R(r) : r \in d.receipts} /\ e.intents = {I(i) : i \in d.intents}
      /\ e.routes = d.routes /\ e.inbox = d.inbox /\ e.processing = d.processing
  BY <1>1, <1>2 DEF Database
<1>5. \A r \in d.receipts :
        /\ Receipt(R(r)) /\ R(r).id = r.id /\ R(r).cell = r.cell /\ R(r).provider = r.provider
        /\ R(r).intent = r.intent /\ R(r).payee = r.payee /\ R(r).scope = scope[r.intent]
  <2> SUFFICES ASSUME NEW r \in d.receipts, Receipt(r)
               PROVE  /\ Receipt(R(r)) /\ R(r).id = r.id /\ R(r).cell = r.cell
                      /\ R(r).provider = r.provider /\ R(r).intent = r.intent
                      /\ R(r).payee = r.payee /\ R(r).scope = scope[r.intent]
    BY <1>1
  <2> QED BY <1>1 DEF Receipt
<1>6. \A i \in d.intents :
        /\ Intent(I(i)) /\ I(i).id = i.id /\ I(i).provider = i.provider /\ I(i).cell = i.cell
        /\ I(i).payee = i.payee /\ I(i).scope = scope[i.id]
  BY <1>1, IntentFields
<1> HIDE DEF e, I, R
<1>7. \A r \in d.receipts, i \in d.intents : Binds(r, i) => Agree(R(r), I(i))
  BY <1>5, <1>6 DEF Agree, Binds
<1>8. Keyed(e.receipts)
  BY <1>1, <1>4, <1>5 DEF Keyed
<1>9. Keyed(e.intents)
  BY <1>1, <1>4, <1>6 DEF Keyed
<1>10. \A r \in e.receipts : Receipt(r) /\ Created(e, r)
  BY <1>1, <1>4, <1>5 DEF Created
<1>11. \A i \in e.intents : Intent(i) /\ Routed(e, i)
  <2> SUFFICES ASSUME NEW i \in d.intents PROVE Intent(I(i)) /\ Routed(e, I(i))
    BY <1>4
  <2>1. RoutesOf(e, I(i)) = RoutesOf(d, i)
    BY <1>4, <1>6 DEF RoutesOf
  <2>2. I(i).scope = OnlyScope(d, i) /\ I(i).provider = i.provider /\ Intent(I(i))
    BY <1>3, <1>6
  <2>3. CASE OnlyScope(d, i) = None
    BY <2>2, <2>3 DEF Routed
  <2>4. CASE OnlyScope(d, i) # None
    BY <2>1, <2>2, <2>4, <1>1, ScopeIsRouted DEF Routed
  <2> QED BY <2>3, <2>4
<1>12. \A r \in e.receipts : \E i \in e.intents : Agree(r, i)
  BY <1>1, <1>4, <1>7
<1>13. \A r \in d.receipts : \E q \in e.receipts :
         q.id = r.id /\ q.cell = r.cell /\ q.provider = r.provider
  BY <1>4, <1>5
<1>14. \A i \in d.intents : \E q \in e.intents :
         q.id = i.id /\ q.provider = i.provider /\ q.cell = i.cell
  BY <1>4, <1>6
<1> QED BY <1>4, <1>8, <1>9, <1>10, <1>11, <1>12, <1>13, <1>14 DEF e

(* What a version makes of a database before its row is inserted.            *)
LEMMA MigratedKeeps ==
  ASSUME NEW d, Constrained(d), d.versions # Versions, 1 \notin d.versions => ~d.core
  PROVE  LET v == NextVersion(d.versions)
             e == [Migrated(d, v) EXCEPT !.versions = @ \cup {v}] IN
         /\ ~Refused(d, v) /\ Constrained(e) /\ e.versions = d.versions \cup {v} /\ Carries(d, e)
         /\ 1 \notin e.versions => ~e.core
         /\ \A l : Complete(d, l) => Complete(e, l)
<1> DEFINE v == NextVersion(d.versions)
           f == Migrated(d, v)
           e == [f EXCEPT !.versions = @ \cup {v}]
<1>1. /\ v \in Versions \ d.versions /\ 1..v \subseteq d.versions \cup {v}
      /\ Prefix(d.versions \cup {v}) /\ v \in Int /\ v >= 1
  <2>1. d.versions \subseteq Versions /\ Prefix(d.versions)
    BY DEF Constrained
  <2>2. /\ v \in Versions \ d.versions /\ 1..v \subseteq d.versions \cup {v}
        /\ Prefix(d.versions \cup {v})
    BY <2>1, NextIsNext
  <2> QED BY <2>2 DEF Versions, EXPECTED_SCHEMA_VERSION
<1>2. ~Refused(d, v)
  BY <1>1 DEF Refused, Constrained
<1>3. /\ v = 6 => 6 \notin d.versions /\ 10 \notin d.versions
      /\ v = 10 => 6 \in d.versions /\ 10 \notin d.versions
      /\ v = 1 => 6 \notin d.versions /\ 8 \notin d.versions
  <2>1. \A u \in d.versions : 1..u \subseteq d.versions
    BY DEF Constrained, Prefix
  <2>2. v = 6 => 10 \notin d.versions
    BY <1>1, <2>1
  <2>3. v = 10 => 6 \in d.versions
    BY <1>1
  <2>4. v = 1 => 6 \notin d.versions /\ 8 \notin d.versions
    BY <1>1, <2>1
  <2> QED BY <1>1, <2>2, <2>3, <2>4
<1> DEFINE Row(g) ==
             /\ Database(g) /\ Keyed(g.receipts) /\ Keyed(g.intents)
             /\ g.versions = d.versions /\ g.created = d.created /\ g.routes = d.routes
             /\ g.inbox = d.inbox /\ d.processing \subseteq g.processing
             /\ \A r \in g.receipts : Receipt(r) /\ Created(g, r)
             /\ \A i \in g.intents : Intent(i)
             /\ AllRouted(d) => AllRouted(g)
             /\ (v = 1 => g.core) /\ (v # 1 => g.core = d.core)
           Linked(g) == \A r \in g.receipts : \E i \in g.intents : Binds(r, i)
           Unscoped(g) == \A x \in g.receipts \cup g.intents : x.scope = None
           Same(g) ==
             /\ \A r \in d.receipts : \E q \in g.receipts :
                  q.id = r.id /\ q.cell = r.cell /\ q.provider = r.provider
             /\ \A i \in d.intents : \E q \in g.intents :
                  q.id = i.id /\ q.provider = i.provider /\ q.cell = i.cell
             /\ v \notin {6, 10} => g.receipts = d.receipts /\ g.intents = d.intents
           Caught(g) ==
             /\ v = 8 => g.inbox \subseteq g.processing
             /\ v = 10 => \A r \in g.receipts : \E i \in g.intents : Binds(r, i) /\ r.scope = i.scope
<1>4. /\ Row(f) /\ Same(f)
      /\ 6 \notin d.versions \cup {v} => f.intents = {}
      /\ 6 \in d.versions \cup {v} => Linked(f)
      /\ Caught(f)
      /\ 10 \notin d.versions \cup {v} => Unscoped(f)
  <2>1. CASE v = 6
    <3>1. f = FUNDING_SEMANTICS_SCHEMA(d)
      BY <2>1 DEF Migrated
    <3>2. /\ Database(f) /\ Keyed(f.receipts) /\ Keyed(f.intents)
          /\ f.versions = d.versions /\ f.core = d.core /\ f.created = d.created /\ f.routes = d.routes
          /\ f.inbox = d.inbox /\ f.processing = d.processing
          /\ \A r \in f.receipts : Receipt(r) /\ Created(f, r) /\ r.scope = None
          /\ \A i \in f.intents : Intent(i) /\ i.scope = None
          /\ Linked(f)
          /\ \A r \in d.receipts : \E q \in f.receipts :
               q.id = r.id /\ q.cell = r.cell /\ q.provider = r.provider
      BY <3>1, <1>2, <1>3, <2>1, SixthKeeps DEF Agree
    <3>3. d.intents = {}
      BY <1>3, <2>1 DEF Constrained
    <3>4. AllRouted(f)
      BY <3>2 DEF AllRouted, Routed
    <3>5. v # 1
      BY <2>1
    <3> HIDE DEF f, v
    <3> QED BY <2>1, <3>2, <3>3, <3>4, <3>5
  <2>2. CASE v = 10
    <3>1. f = FUNDING_ACCOUNT_SCOPE_V10_SCHEMA(d)
      BY <2>2 DEF Migrated
    <3>2. /\ Database(f) /\ Keyed(f.receipts) /\ Keyed(f.intents)
          /\ f.versions = d.versions /\ f.core = d.core /\ f.created = d.created /\ f.routes = d.routes
          /\ f.inbox = d.inbox /\ f.processing = d.processing
          /\ \A r \in f.receipts : Receipt(r) /\ Created(f, r)
          /\ \A i \in f.intents : Intent(i) /\ Routed(f, i)
          /\ Linked(f) /\ Same(f) /\ Caught(f)
      BY <3>1, <1>3, <2>2, TenthKeeps DEF Agree
    <3>4. v # 1 /\ v # 8 /\ v # 6 /\ 6 \in d.versions
      BY <2>2, <1>3
    <3>5. AllRouted(f)
      BY <3>2 DEF AllRouted
    <3> HIDE DEF f, v
    <3> QED BY <2>2, <3>2, <3>4, <3>5
  <2>3. CASE v = 8
    <3>1. f = [d EXCEPT !.processing = d.processing \cup d.inbox]
      BY <2>3 DEF Migrated, FUNDING_FOUNDATION_V8_SCHEMA, Constrained, Database
    <3>2. /\ Database(f) /\ f.versions = d.versions /\ f.core = d.core /\ f.created = d.created
          /\ f.receipts = d.receipts /\ f.intents = d.intents /\ f.routes = d.routes
          /\ f.inbox = d.inbox /\ f.processing = d.processing \cup d.inbox
      <4>1. Database(d)
        BY DEF Constrained
      <4> HIDE DEF f
      <4> QED BY <3>1, <4>1 DEF Database
    <3>3. v # 1 /\ v # 6 /\ v # 10
      BY <2>3
    <3>4. AllRouted(d) => AllRouted(f)
      BY <3>2 DEF AllRouted, Routed, RoutesOf
    <3> HIDE DEF f, v
    <3> QED BY <3>2, <3>3, <3>4 DEF Constrained, Created
  <2>4. CASE v = 1
    <3>1. f = [d EXCEPT !.core = TRUE]
      BY <2>4 DEF Migrated
    <3>2. /\ Database(f) /\ f.versions = d.versions /\ f.core = TRUE /\ f.created = d.created
          /\ f.receipts = d.receipts /\ f.intents = d.intents /\ f.routes = d.routes
          /\ f.inbox = d.inbox /\ f.processing = d.processing
      <4>1. Database(d)
        BY DEF Constrained
      <4> HIDE DEF f
      <4> QED BY <3>1, <4>1 DEF Database
    <3>3. v # 6 /\ v # 8 /\ v # 10
      BY <2>4
    <3>4. AllRouted(d) => AllRouted(f)
      BY <3>2 DEF AllRouted, Routed, RoutesOf
    <3> HIDE DEF f, v
    <3> QED BY <2>4, <3>2, <3>3, <3>4 DEF Constrained, Created
  <2>5. CASE v \notin {1, 6, 8, 10}
    <3>1. f = d
      BY <2>5 DEF Migrated
    <3> HIDE DEF f, v
    <3> QED BY <2>5, <3>1 DEF Constrained
  <2> QED BY <2>1, <2>2, <2>3, <2>4, <2>5
<1>5. /\ Database(e) /\ e.versions = d.versions \cup {v} /\ e.core = f.core /\ e.created = f.created
      /\ e.receipts = f.receipts /\ e.intents = f.intents /\ e.routes = f.routes
      /\ e.inbox = f.inbox /\ e.processing = f.processing
  <2>1. e = [f EXCEPT !.versions = d.versions \cup {v}]
    BY <1>4 DEF Database
  <2>2. Database(f)
    BY <1>4
  <2> HIDE DEF e, f, v
  <2> QED BY <2>1, <2>2 DEF Database
<1> HIDE DEF e, f, v
<1>6. /\ \A r \in e.receipts : Receipt(r) /\ Created(e, r)
      /\ \A i \in e.intents : Intent(i)
      /\ AllRouted(d) => AllRouted(e)
  <2>1. AllRouted(f) => AllRouted(e)
    BY <1>5 DEF AllRouted, Routed, RoutesOf
  <2> QED BY <2>1, <1>4, <1>5 DEF Created
<1>7. e.versions \subseteq Versions /\ Prefix(e.versions)
  BY <1>1, <1>5 DEF Constrained
<1>8. Constrained(e)
  <2>1. 1 \in e.versions => e.core
    BY <1>4, <1>5 DEF Constrained
  <2>2. Keyed(e.receipts) /\ Keyed(e.intents)
    BY <1>4, <1>5
  <2>3. /\ 6 \notin e.versions => e.intents = {}
        /\ 6 \in e.versions => \A r \in e.receipts : \E i \in e.intents : Binds(r, i)
        /\ 10 \notin e.versions => \A x \in e.receipts \cup e.intents : x.scope = None
    BY <1>4, <1>5
  <2> QED BY <1>5, <1>6, <1>7, <2>1, <2>2, <2>3 DEF Constrained
<1>9. Carries(d, e)
  <2>1. {6, 10} \cap (e.versions \ d.versions) = {} => e.receipts = d.receipts /\ e.intents = d.intents
    BY <1>1, <1>4, <1>5
  <2> QED BY <1>4, <1>5, <1>6, <2>1 DEF Carries
<1>10. 1 \notin e.versions => ~e.core
  BY <1>4, <1>5
<1>11. ASSUME NEW l, Complete(d, l)
       PROVE  Complete(e, l)
  <2>1. EventsComplete(e, l)
    <3>1. CASE v = 8
      BY <3>1, <1>4, <1>5 DEF EventsComplete
    <3>2. CASE v # 8
      <4>1. 8 \in e.versions => 8 \in d.versions
        BY <3>2, <1>5
      <4> QED BY <4>1, <1>4, <1>5, <1>11 DEF Complete, EventsComplete
    <3> QED BY <3>1, <3>2
  <2>2. ReceiptsComplete(e, l)
    <3>1. CASE v = 10
      <4>1. \A r \in e.receipts : \E i \in e.intents : Binds(r, i) /\ r.scope = i.scope
        BY <3>1, <1>4, <1>5
      <4> QED BY <4>1 DEF ReceiptsComplete
    <3>2. CASE v # 10
      <4>1. 10 \in e.versions => 10 \in d.versions
        BY <3>2, <1>5
      <4>2. 10 \in d.versions => 6 \in d.versions
        BY DEF Constrained, Prefix
      <4>3. 10 \in d.versions => e.receipts = d.receipts /\ e.intents = d.intents
        BY <1>1, <1>4, <1>5, <3>2, <4>2
      <4> QED BY <4>1, <4>3, <1>11 DEF Complete, ReceiptsComplete
    <3> QED BY <3>1, <3>2
  <2> QED BY <2>1, <2>2 DEF Complete
<1> QED BY <1>2, <1>5, <1>8, <1>9, <1>10, <1>11 DEF e, f, v

(* What is carried over twice is carried over.                               *)
LEMMA CarriesTrans ==
  ASSUME NEW c, NEW d, NEW e, Carries(c, d), Carries(d, e)
  PROVE  Carries(c, e)
<1>1. {6, 10} \cap (e.versions \ c.versions) = {} => e.receipts = c.receipts /\ e.intents = c.intents
  BY DEF Carries
<1>2. \A r \in c.receipts : \E q \in e.receipts :
        q.id = r.id /\ q.cell = r.cell /\ q.provider = r.provider
  BY DEF Carries
<1>3. \A i \in c.intents : \E q \in e.intents :
        q.id = i.id /\ q.provider = i.provider /\ q.cell = i.cell
  BY DEF Carries
<1>4. /\ e.created = c.created /\ e.routes = c.routes /\ e.inbox = c.inbox
      /\ c.versions \subseteq e.versions /\ c.processing \subseteq e.processing
  BY DEF Carries
<1>5. AllRouted(c) => AllRouted(e)
  BY DEF Carries
<1> QED BY <1>1, <1>2, <1>3, <1>4, <1>5 DEF Carries
-----------------------------------------------------------------------------
(* Where a migrator stands: the one that holds the lock is applying versions *)
(* to its own copy of the database, which holds all that was committed and   *)
(* keeps the constraints of the versions it has reached.                     *)
Stands(m, t, h, d) ==
  /\ t.pc \in {"off", "begin", "apply", "verify", "exit0", "exit1"}
  /\ t.pc = "apply" <=> h = m
  /\ t.pc \in {"verify", "exit0"} => d.versions = Versions
  /\ t.pc = "exit1" => t.why = "connection"
Copies(t, d, l) ==
  t.pc = "apply" =>
    /\ t = [pc |-> "apply", before |-> t.before, applied |-> t.applied, work |-> t.work]
    /\ t.before = d.versions /\ t.applied = t.work.versions
    /\ Constrained(t.work) /\ Carries(d, t.work) /\ Complete(t.work, l)
    /\ 1 \notin t.applied => ~t.work.core
Started ==
  /\ DOMAIN server = Server
  /\ \A s \in Server : server[s] = "serving" => db.versions = Versions
Committed ==
  /\ Constrained(db) /\ Complete(db, late)
  /\ late = [inbox |-> late.inbox, receipts |-> late.receipts]
  /\ initial \in Databases /\ db.created = initial.created
  /\ db.versions \in {initial.versions, Versions}
  /\ 10 \notin initial.versions => AllRouted(db)
MigrationInv ==
  /\ Committed /\ Started
  /\ starts \in 0..MaxStarts /\ holder \in Migrator \cup {None}
  /\ DOMAIN migrator = Migrator /\ migrator = [m \in Migrator |-> migrator[m]]
  /\ \A m \in Migrator : Stands(m, migrator[m], holder, db) /\ Copies(migrator[m], db, late)

(* A step of one migrator that commits nothing.                              *)
LEMMA MoveKeeps ==
  ASSUME MigrationInv, NEW m \in Migrator, NEW t, migrator' = [migrator EXCEPT ![m] = t],
         db' = db, initial' = initial, late' = late, Started', starts' \in 0..MaxStarts,
         holder' \in Migrator \cup {None}, \A n \in Migrator \ {m} : holder' = n <=> holder = n,
         Stands(m, t, holder', db), Copies(t, db, late)
  PROVE  MigrationInv'
<1>1. /\ DOMAIN migrator' = Migrator /\ migrator' = [n \in Migrator |-> migrator'[n]]
      /\ migrator'[m] = t /\ \A n \in Migrator \ {m} : migrator'[n] = migrator[n]
  BY DEF MigrationInv
<1>2. Committed'
  BY DEF MigrationInv, Committed
<1>3. \A n \in Migrator : Stands(n, migrator'[n], holder', db')
  <2>1. ASSUME NEW n \in Migrator \ {m} PROVE Stands(n, migrator'[n], holder', db')
    <3>1. Stands(n, migrator[n], holder, db) /\ migrator'[n] = migrator[n]
      BY <1>1 DEF MigrationInv
    <3> QED BY <3>1 DEF Stands
  <2> QED BY <1>1, <2>1
<1>4. \A n \in Migrator : Copies(migrator'[n], db', late')
  BY <1>1 DEF MigrationInv
<1> QED BY <1>1, <1>2, <1>3, <1>4 DEF MigrationInv

(* Ending with the connection.                                               *)
LEMMA FailsCleanly ==
  ASSUME MigrationInv, DatabasesAssumption, NEW m \in Migrator, Failed(m, "connection"),
         UNCHANGED <<db, initial, late, server, starts>>
  PROVE  MigrationInv'
<1> DEFINE t == [pc |-> "exit1", why |-> "connection"]
<1>1. Started' /\ starts' \in 0..MaxStarts
  BY DEF MigrationInv, Started
<1>2. /\ holder' \in Migrator \cup {None} /\ holder' # m
      /\ \A n \in Migrator \ {m} : holder' = n <=> holder = n
  BY DEF MigrationInv, Failed, Release, DatabasesAssumption
<1>3. Stands(m, t, holder', db) /\ Copies(t, db, late)
  BY <1>2 DEF Stands, Copies
<1> QED BY <1>1, <1>2, <1>3, MoveKeeps DEF Failed

(* The copy a migrator begins with is the database, but for the row of the   *)
(* baseline.                                                                 *)
LEMMA BaselineKeeps ==
  ASSUME NEW d, Constrained(d)
  PROVE  LET w == [d EXCEPT !.versions = Baseline(d)] IN
         /\ w.versions = Baseline(d) /\ Constrained(w) /\ Carries(d, w)
         /\ 1 \notin w.versions => ~w.core
         /\ \A l : Complete(d, l) => Complete(w, l)
<1> DEFINE w == [d EXCEPT !.versions = Baseline(d)]
<1>1. Database(d)
  BY DEF Constrained
<1>2. /\ Database(w) /\ w.versions = Baseline(d) /\ w.core = d.core /\ w.created = d.created
      /\ w.receipts = d.receipts /\ w.intents = d.intents /\ w.routes = d.routes
      /\ w.inbox = d.inbox /\ w.processing = d.processing
  BY <1>1 DEF Database
<1> HIDE DEF w
<1>3. CASE d.versions = {} /\ d.core
  <2>1. w.versions = {1} /\ d.versions = {} /\ w.core
    BY <1>2, <1>3 DEF Baseline
  <2>2. w.versions \subseteq Versions /\ Prefix(w.versions)
    BY <2>1 DEF Versions, EXPECTED_SCHEMA_VERSION, Prefix
  <2>3. /\ \A r \in w.receipts : Receipt(r) /\ Created(w, r)
        /\ \A i \in w.intents : Intent(i)
        /\ AllRouted(d) => AllRouted(w)
    BY <1>2 DEF Constrained, Created, AllRouted, Routed, RoutesOf
  <2>4. Constrained(w)
    BY <1>2, <2>1, <2>2, <2>3 DEF Constrained
  <2>5. Carries(d, w)
    BY <1>2, <2>1, <2>3 DEF Carries
  <2>6. \A l : Complete(w, l)
    BY <2>1 DEF Complete, EventsComplete, ReceiptsComplete
  <2> QED BY <1>2, <2>1, <2>4, <2>5, <2>6 DEF w
<1>4. CASE ~(d.versions = {} /\ d.core)
  <2>1. w.versions = d.versions
    BY <1>2, <1>4 DEF Baseline
  <2>2. /\ \A r \in w.receipts : Receipt(r) /\ Created(w, r)
        /\ \A i \in w.intents : Intent(i)
        /\ AllRouted(d) => AllRouted(w)
    BY <1>2 DEF Constrained, Created, AllRouted, Routed, RoutesOf
  <2>3. Constrained(w)
    BY <1>2, <2>1, <2>2 DEF Constrained
  <2>4. 1 \notin w.versions => ~w.core
    <3>1. ASSUME 1 \notin d.versions PROVE d.versions = {}
      <4>1. \A v \in d.versions : 1 \in 1..v
        BY DEF Constrained, Versions, EXPECTED_SCHEMA_VERSION
      <4> QED BY <3>1, <4>1 DEF Constrained, Prefix
    <3> QED BY <3>1, <1>2, <1>4, <2>1
  <2>5. Carries(d, w)
    BY <1>2, <2>1, <2>2 DEF Carries
  <2>6. \A l : Complete(d, l) => Complete(w, l)
    BY <1>2, <2>1 DEF Complete, EventsComplete, ReceiptsComplete
  <2> QED BY <1>2, <2>3, <2>4, <2>5, <2>6 DEF w
<1> QED BY <1>3, <1>4

(* The steps of a migrator but COMMIT.                                       *)
LEMMA MigratorKeeps ==
  ASSUME MigrationInv, DatabasesAssumption, NEW m \in Migrator,
         Start(m) \/ Lock(m) \/ Apply(m) \/ Lose(m) \/ Verify(m)
  PROVE  MigrationInv'
<1> USE DatabasesAssumption
<1>a. /\ Stands(m, migrator[m], holder, db) /\ Copies(migrator[m], db, late) /\ Constrained(db)
      /\ starts \in 0..MaxStarts /\ MaxStarts \in Nat /\ None \notin Migrator
      /\ holder \in Migrator \cup {None} /\ Started /\ Complete(db, late)
  BY DEF MigrationInv, Committed, DatabasesAssumption
<1>1. CASE Start(m)
  <2> DEFINE t == [pc |-> "begin"]
  <2>1. holder # m
    BY <1>1, <1>a DEF Start, Stands
  <2>2. Stands(m, t, holder', db) /\ Copies(t, db, late)
    BY <2>1, <1>1 DEF Start, Stands, Copies
  <2>3. starts' \in 0..MaxStarts /\ Started' /\ holder' = holder
    BY <1>1, <1>a DEF Start, Started
  <2> HIDE DEF t
  <2>4. migrator' = [migrator EXCEPT ![m] = t]
    BY <1>1 DEF Start, t
  <2> QED BY <1>1, <1>a, <2>2, <2>3, <2>4, MoveKeeps DEF Start
<1>2. CASE Lock(m)
  <2> DEFINE w == [db EXCEPT !.versions = Baseline(db)]
             t == [pc |-> "apply", before |-> db.versions, applied |-> Baseline(db), work |-> w]
  <2>1. /\ w.versions = Baseline(db) /\ Constrained(w) /\ Carries(db, w)
        /\ 1 \notin w.versions => ~w.core
        /\ Complete(w, late)
    BY <1>a, BaselineKeeps
  <2> HIDE DEF w
  <2>2. Copies(t, db, late)
    BY <2>1 DEF Copies
  <2>3. /\ holder' = m /\ Started' /\ starts' \in 0..MaxStarts
        /\ \A n \in Migrator \ {m} : holder' = n <=> holder = n
    BY <1>2, <1>a DEF Lock, Started
  <2>4. Stands(m, t, holder', db)
    BY <2>3 DEF Stands
  <2> HIDE DEF t
  <2>5. migrator' = [migrator EXCEPT ![m] = t]
    BY <1>2 DEF Lock, t, w
  <2> QED BY <1>2, <2>2, <2>3, <2>4, <2>5, MoveKeeps DEF Lock
<1>3. CASE Apply(m)
  <2> DEFINE r == migrator[m]
             v == NextVersion(r.applied)
             e == [Migrated(r.work, v) EXCEPT !.versions = @ \cup {v}]
             t == [pc |-> "apply", before |-> r.before, applied |-> r.applied \cup {v}, work |-> e]
  <2>1. r.pc = "apply" /\ r.applied # Versions
    BY <1>3 DEF Apply
  <2>2. /\ r = [pc |-> "apply", before |-> r.before, applied |-> r.applied, work |-> r.work]
        /\ r.before = db.versions /\ r.applied = r.work.versions
        /\ Constrained(r.work) /\ Carries(db, r.work) /\ Complete(r.work, late)
        /\ 1 \notin r.applied => ~r.work.core
    BY <2>1, <1>a DEF Copies
  <2>3. /\ ~Refused(r.work, v) /\ Constrained(e) /\ e.versions = r.applied \cup {v}
        /\ Carries(r.work, e) /\ Complete(e, late)
        /\ 1 \notin e.versions => ~e.core
    BY <2>1, <2>2, MigratedKeeps
  <2>4. migrator' = [migrator EXCEPT ![m].applied = @ \cup {v}, ![m].work = e] /\ holder' = holder
    BY <1>3, <2>3 DEF Apply
  <2> HIDE DEF v, e
  <2>5. migrator' = [migrator EXCEPT ![m] = [r EXCEPT !.applied = @ \cup {v}, !.work = e]]
    BY <2>4 DEF MigrationInv
  <2>6. migrator' = [migrator EXCEPT ![m] = t]
    <3>1. [r EXCEPT !.applied = @ \cup {v}, !.work = e] = t
      <4> HIDE DEF r, t
      <4>1. PICK b, a, w : r = [pc |-> "apply", before |-> b, applied |-> a, work |-> w]
        BY <2>2
      <4>2. b = r.before
        BY <4>1
      <4> DEFINE s == [r EXCEPT !.applied = r.applied \cup {v}]
      <4>3. s = [pc |-> "apply", before |-> b, applied |-> r.applied \cup {v}, work |-> w]
        BY <4>1
      <4>4. [r EXCEPT !.applied = r.applied \cup {v}, !.work = e] = [s EXCEPT !.work = e]
        OBVIOUS
      <4> HIDE DEF s
      <4>5. [s EXCEPT !.work = e]
              = [pc |-> "apply", before |-> b, applied |-> r.applied \cup {v}, work |-> e]
        BY <4>3
      <4> QED BY <4>2, <4>4, <4>5 DEF t
    <3> QED BY <3>1, <2>5
  <2> HIDE DEF r
  <2>7. Copies(t, db, late)
    <3>1. /\ t.pc = "apply" /\ t.before = r.before /\ t.applied = r.applied \cup {v} /\ t.work = e
          /\ t = [pc |-> "apply", before |-> t.before, applied |-> t.applied, work |-> t.work]
      OBVIOUS
    <3>2. Carries(db, e)
      BY <2>2, <2>3, CarriesTrans
    <3> HIDE DEF t
    <3> QED BY <2>2, <2>3, <3>1, <3>2 DEF Copies
  <2>8. Stands(m, t, holder', db)
    BY <2>1, <2>4, <1>a DEF Stands, r
  <2>9. Started' /\ starts' \in 0..MaxStarts
    BY <1>3, <1>a DEF Apply, Started
  <2> HIDE DEF t
  <2> QED BY <1>3, <1>a, <2>4, <2>6, <2>7, <2>8, <2>9, MoveKeeps DEF Apply
<1>4. CASE Lose(m)
  BY <1>4, FailsCleanly DEF Lose
<1>5. CASE Verify(m)
  <2> DEFINE t == [pc |-> "exit0"]
  <2>1. db.versions = Versions /\ migrator[m].pc = "verify" /\ holder # m
    BY <1>5, <1>a DEF Verify, Stands
  <2>2. migrator' = [migrator EXCEPT ![m] = t] /\ holder' = holder
    BY <1>5, <2>1 DEF Verify, verifyExpectedVersion
  <2>3. Stands(m, t, holder', db) /\ Copies(t, db, late)
    BY <2>1, <2>2 DEF Stands, Copies
  <2>4. starts' \in 0..MaxStarts /\ Started'
    BY <1>5, <1>a DEF Verify, Started
  <2> HIDE DEF t
  <2> QED BY <1>5, <1>a, <2>2, <2>3, <2>4, MoveKeeps DEF Verify
<1> QED BY <1>1, <1>2, <1>3, <1>4, <1>5
(* COMMIT: the copy becomes the database, whole.                             *)
LEMMA CommitKeeps ==
  ASSUME MigrationInv, DatabasesAssumption, NEW m \in Migrator, Commit(m)
  PROVE  /\ MigrationInv' /\ db' = migrator[m].work /\ Carries(db, db')
<1> DEFINE r == migrator[m]
<1>1. /\ Stands(m, r, holder, db) /\ Copies(r, db, late)
      /\ r.pc = "apply" /\ r.applied = Versions /\ holder = m
  BY DEF MigrationInv, Commit, Stands
<1>2. /\ r.before = db.versions /\ r.work.versions = Versions
      /\ Constrained(r.work) /\ Carries(db, r.work) /\ Complete(r.work, late)
  BY <1>1 DEF Copies
<1>3. /\ db' = r.work /\ initial' = initial /\ late' = late /\ server' = server /\ starts' = starts
      /\ holder' = None
      /\ \/ migrator' = [migrator EXCEPT ![m] = [pc |-> "verify"]]
         \/ migrator' = [migrator EXCEPT ![m] = [pc |-> "exit1", why |-> "connection"]]
  BY <1>1, <1>2 DEF Commit, Release
<1>4. /\ DOMAIN migrator' = Migrator /\ migrator' = [n \in Migrator |-> migrator'[n]]
      /\ \A n \in Migrator \ {m} : migrator'[n] = migrator[n]
      /\ migrator'[m] \in {[pc |-> "verify"], [pc |-> "exit1", why |-> "connection"]}
  BY <1>3 DEF MigrationInv
<1>5. Committed'
  <2>1. db'.created = db.created /\ db'.versions = Versions /\ Constrained(db') /\ Complete(db', late')
    BY <1>2, <1>3 DEF Carries
  <2>2. AllRouted(db) => AllRouted(r.work)
    BY <1>2 DEF Carries
  <2>3. AllRouted(r.work) => AllRouted(db')
    BY <1>3 DEF AllRouted, Routed
  <2>4. 10 \notin initial.versions => AllRouted(db)
    BY DEF MigrationInv, Committed
  <2> QED BY <2>1, <2>2, <2>3, <2>4, <1>3 DEF MigrationInv, Committed
<1>6. Started'
  <2>1. db'.versions = Versions
    BY <1>2, <1>3
  <2> QED BY <2>1, <1>3 DEF MigrationInv, Started
<1>7. ASSUME NEW n \in Migrator
      PROVE  Stands(n, migrator'[n], holder', db') /\ Copies(migrator'[n], db', late')
  <2>1. db'.versions = Versions /\ holder' # n /\ (n # m => holder # n)
    BY <1>1, <1>2, <1>3 DEF DatabasesAssumption
  <2>2. CASE n = m
    BY <2>1, <2>2, <1>4 DEF Stands, Copies
  <2>3. CASE n # m
    <3>1. Stands(n, migrator[n], holder, db) /\ migrator'[n] = migrator[n]
      BY <2>3, <1>4 DEF MigrationInv
    <3> QED BY <3>1, <2>1, <2>3 DEF Stands, Copies
  <2> QED BY <2>2, <2>3
<1>8. starts' \in 0..MaxStarts /\ holder' \in Migrator \cup {None}
  BY <1>3 DEF MigrationInv
<1>9. MigrationInv'
  BY <1>4, <1>5, <1>6, <1>7, <1>8 DEF MigrationInv
<1> QED BY <1>2, <1>3, <1>9

(* A row the old server commits, as a migrator sees it.                      *)
Rows(w, s, i, p) == [w EXCEPT !.receipts = s, !.inbox = i, !.processing = p]

(* Receipts a database may hold.                                             *)
Fits(d, s) ==
  /\ Keyed(s)
  /\ \A r \in s : /\ Receipt(r) /\ Created(d, r)
                  /\ 6 \in d.versions => \E j \in d.intents : Binds(r, j)
                  /\ 10 \notin d.versions => r.scope = None

(* A database whose rows of events and receipts are others keeps the         *)
(* constraints if its receipts do.                                           *)
LEMMA RowsFit ==
  ASSUME NEW d, Constrained(d), NEW s, Fits(d, s), NEW i, NEW p, NEW e, e = Rows(d, s, i, p)
  PROVE  /\ Constrained(e) /\ e.versions = d.versions /\ e.core = d.core /\ e.created = d.created
         /\ e.receipts = s /\ e.intents = d.intents /\ e.routes = d.routes /\ e.inbox = i /\ e.processing = p
         /\ AllRouted(d) <=> AllRouted(e)
<1>1. Database(d)
  BY DEF Constrained
<1>2. /\ Database(e) /\ e.versions = d.versions /\ e.core = d.core /\ e.created = d.created
      /\ e.receipts = s /\ e.intents = d.intents /\ e.routes = d.routes /\ e.inbox = i /\ e.processing = p
  BY <1>1 DEF Database, Rows
<1>3. \A r \in e.receipts : Receipt(r) /\ Created(e, r)
  BY <1>2 DEF Created, Fits
<1>4. AllRouted(d) <=> AllRouted(e)
  BY <1>2 DEF AllRouted, Routed, RoutesOf
<1>5. /\ Keyed(e.receipts) /\ Keyed(e.intents) /\ \A j \in e.intents : Intent(j)
      /\ e.versions \subseteq Versions /\ Prefix(e.versions) /\ (1 \in e.versions => e.core)
      /\ 6 \notin e.versions => e.intents = {}
  BY <1>2 DEF Constrained, Fits
<1>6. 6 \in e.versions => \A r \in e.receipts : \E j \in e.intents : Binds(r, j)
  BY <1>2 DEF Fits
<1>7. 10 \notin e.versions => \A x \in e.receipts \cup e.intents : x.scope = None
  BY <1>2 DEF Constrained, Fits
<1>8. Constrained(e)
  BY <1>2, <1>3, <1>5, <1>6, <1>7 DEF Constrained
<1> QED BY <1>2, <1>4, <1>8

(* What the constraints say of the receipts there are.                       *)
LEMMA ReceiptsFit ==
  ASSUME NEW d, Constrained(d)
  PROVE  Fits(d, d.receipts)
BY DEF Constrained, Fits

(* A receipt of the old server, which a database gets and a migrator sees.   *)
Views(d, w, k, l) ==
  /\ Constrained(d) /\ Constrained(w) /\ Carries(d, w)
  /\ Complete(d, k) /\ Complete(w, k) /\ Grows(k, l)
Unrecorded(d, l, r) ==
  /\ Receipt(r) /\ Created(d, r) /\ r.scope = None /\ \A q \in d.receipts : q.id # r.id
  /\ 6 \in d.versions => \E j \in d.intents : Binds(r, j)
  /\ 10 \in d.versions => r.id \in l.receipts
GetsReceipt(d, w, r, e, p, x) ==
  /\ {6, 10} \cap (w.versions \ d.versions) = {}
  /\ e = Rows(d, d.receipts \cup {r}, d.inbox, d.processing)
  /\ p = w.processing \/ (p = d.processing /\ 8 \notin w.versions \ d.versions)
  /\ d.processing \subseteq p
  /\ x = Rows(w, e.receipts, e.inbox, p)

(* It changes no other table, for both views: that of the database and that  *)
(* of a migrator.                                                            *)
LEMMA ReceiptSeen ==
  ASSUME NEW d, NEW w, NEW k, NEW l, Views(d, w, k, l), NEW r, Unrecorded(d, l, r),
         NEW e, NEW p, NEW x, GetsReceipt(d, w, r, e, p, x)
  PROVE  /\ Constrained(e) /\ Constrained(x) /\ Carries(e, x) /\ Complete(e, l) /\ Complete(x, l)
         /\ e.versions = d.versions /\ e.created = d.created
         /\ AllRouted(d) => AllRouted(e)
         /\ x.versions = w.versions /\ x.core = w.core
<1> USE DEF Views, Unrecorded, GetsReceipt
<1> DEFINE s == d.receipts \cup {r}
<1>1. /\ w.receipts = d.receipts /\ w.intents = d.intents /\ w.created = d.created
      /\ w.inbox = d.inbox /\ w.routes = d.routes /\ d.versions \subseteq w.versions
      /\ 6 \in w.versions => 6 \in d.versions
      /\ 10 \in w.versions => 10 \in d.versions
  BY DEF Carries
<1>2. Fits(d, s)
  <2>1. Keyed(s)
    BY ReceiptsFit DEF Fits, Keyed
  <2>2. 10 \notin d.versions => r.scope = None
    OBVIOUS
  <2> QED BY <2>1, <2>2, ReceiptsFit DEF Fits
<1>3. Fits(w, s)
  <2>1. \A q : Created(d, q) <=> Created(w, q)
    BY <1>1 DEF Created
  <2> HIDE DEF s
  <2>2. Keyed(s) /\ \A q \in s : Receipt(q) /\ Created(w, q)
    BY <1>2, <2>1 DEF Fits
  <2>3. 6 \in w.versions => \A q \in s : \E j \in w.intents : Binds(q, j)
    BY <1>1, <1>2 DEF Fits
  <2>4. 10 \notin w.versions => \A q \in s : q.scope = None
    BY <1>1, <1>2 DEF Fits
  <2> QED BY <2>2, <2>3, <2>4 DEF Fits
<1>4. e = Rows(d, s, d.inbox, d.processing)
  OBVIOUS
<1> HIDE DEF s
<1>5. /\ Constrained(e) /\ e.versions = d.versions /\ e.core = d.core /\ e.created = d.created
      /\ e.receipts = s /\ e.intents = d.intents /\ e.routes = d.routes /\ e.inbox = d.inbox
      /\ e.processing = d.processing
      /\ AllRouted(d) <=> AllRouted(e)
  BY ONLY <1>2, <1>4, Constrained(d), RowsFit
<1>6. /\ Constrained(x) /\ x.versions = w.versions /\ x.core = w.core /\ x.created = w.created
      /\ x.receipts = s /\ x.intents = w.intents /\ x.routes = w.routes /\ x.inbox = d.inbox
      /\ x.processing = p
      /\ AllRouted(w) <=> AllRouted(x)
  <2>1. x = Rows(w, s, d.inbox, p)
    BY <1>5
  <2> QED BY ONLY <2>1, <1>3, Constrained(w), RowsFit
<1>7. Carries(e, x)
  <2>1. AllRouted(e) => AllRouted(x)
    BY <1>5, <1>6 DEF Carries
  <2>2. /\ x.created = e.created /\ x.routes = e.routes /\ x.inbox = e.inbox
        /\ e.versions \subseteq x.versions /\ e.processing \subseteq x.processing
    BY ONLY <1>1, <1>5, <1>6, d.processing \subseteq p
  <2>3. x.receipts = e.receipts /\ x.intents = e.intents
    BY ONLY <1>1, <1>5, <1>6
  <2> HIDE DEF s
  <2> QED BY ONLY <2>1, <2>2, <2>3 DEF Carries
<1>8. Complete(e, l)
  <2>1. EventsComplete(e, l)
    BY <1>5 DEF Complete, EventsComplete, Grows
  <2>2. ReceiptsComplete(e, l)
    <3> SUFFICES ASSUME 10 \in d.versions, NEW q \in s
                 PROVE  \E i \in d.intents : Binds(q, i) /\ (q.scope = i.scope \/ q.id \in l.receipts)
      BY <1>5 DEF ReceiptsComplete
    <3>1. CASE q \in d.receipts
      BY <3>1 DEF Complete, ReceiptsComplete, Grows
    <3>2. CASE q = r
      <4>1. 6 \in d.versions
        BY DEF Constrained, Prefix
      <4> QED BY <3>2, <4>1
    <3> QED BY <3>1, <3>2 DEF s
  <2> QED BY <2>1, <2>2 DEF Complete
<1>9. Complete(x, l)
  <2>1. EventsComplete(x, l)
    BY <1>1, <1>6 DEF Complete, EventsComplete, Grows
  <2>2. ReceiptsComplete(x, l)
    <3>1. /\ 10 \in x.versions => 10 \in e.versions
          /\ x.receipts = e.receipts /\ x.intents = e.intents
      BY ONLY <1>1, <1>5, <1>6
    <3>2. ReceiptsComplete(e, l)
      BY <1>8 DEF Complete
    <3> QED BY ONLY <3>1, <3>2 DEF ReceiptsComplete
  <2> QED BY <2>1, <2>2 DEF Complete
<1> QED BY <1>5, <1>6, <1>7, <1>8, <1>9

(* An event of the old server changes no other table, for both views: it has *)
(* its row of processing or is late.                                         *)
GetsEvent(d, w, l, n, p, e, s, x) ==
  /\ 8 \notin w.versions \ d.versions
  /\ d.processing \subseteq p /\ (8 \in d.versions => n \in p \cup l.inbox)
  /\ e = Rows(d, d.receipts, d.inbox \cup {n}, p)
  /\ s = w.receipts \/ (s = d.receipts /\ {6, 10} \cap (w.versions \ d.versions) = {})
  /\ x = Rows(w, s, e.inbox, e.processing)
LEMMA EventSeen ==
  ASSUME NEW d, NEW w, NEW k, NEW l, Views(d, w, k, l),
         NEW n, NEW p, NEW e, NEW s, NEW x, GetsEvent(d, w, l, n, p, e, s, x)
  PROVE  /\ Constrained(e) /\ Constrained(x) /\ Carries(e, x) /\ Complete(e, l) /\ Complete(x, l)
         /\ e.versions = d.versions /\ e.created = d.created
         /\ AllRouted(d) => AllRouted(e)
         /\ x.versions = w.versions /\ x.core = w.core
<1> USE DEF Views, GetsEvent
<1>1. /\ w.created = d.created /\ w.inbox = d.inbox /\ w.routes = d.routes /\ d.versions \subseteq w.versions
      /\ 8 \in w.versions => 8 \in d.versions
      /\ s = w.receipts
  BY DEF Carries
<1>2. Fits(d, d.receipts) /\ Fits(w, w.receipts)
  BY ReceiptsFit
<1>4. /\ Constrained(e) /\ e.versions = d.versions /\ e.core = d.core /\ e.created = d.created
      /\ e.receipts = d.receipts /\ e.intents = d.intents /\ e.routes = d.routes
      /\ e.inbox = d.inbox \cup {n} /\ e.processing = p
      /\ AllRouted(d) <=> AllRouted(e)
  BY ONLY <1>2, Constrained(d), e = Rows(d, d.receipts, d.inbox \cup {n}, p), RowsFit
<1>5. /\ Constrained(x) /\ x.versions = w.versions /\ x.core = w.core /\ x.created = w.created
      /\ x.receipts = w.receipts /\ x.intents = w.intents /\ x.routes = w.routes
      /\ x.inbox = d.inbox \cup {n} /\ x.processing = p
      /\ AllRouted(w) <=> AllRouted(x)
  <2>1. x = Rows(w, w.receipts, d.inbox \cup {n}, p)
    BY ONLY <1>1, <1>4, x = Rows(w, s, e.inbox, e.processing)
  <2> QED BY ONLY <1>2, <2>1, Constrained(w), RowsFit
<1>6. Carries(e, x)
  <2>1. AllRouted(e) => AllRouted(x)
    BY <1>4, <1>5 DEF Carries
  <2>2. /\ x.created = e.created /\ x.routes = e.routes /\ x.inbox = e.inbox
        /\ e.versions \subseteq x.versions /\ e.processing \subseteq x.processing
    BY ONLY <1>1, <1>4, <1>5
  <2>3. /\ x.receipts = w.receipts /\ x.intents = w.intents /\ x.versions = w.versions
        /\ e.receipts = d.receipts /\ e.intents = d.intents /\ e.versions = d.versions
    BY ONLY <1>4, <1>5
  <2>4. /\ \A r \in d.receipts : \E q \in w.receipts :
             q.id = r.id /\ q.cell = r.cell /\ q.provider = r.provider
        /\ \A i \in d.intents : \E q \in w.intents :
             q.id = i.id /\ q.provider = i.provider /\ q.cell = i.cell
        /\ {6, 10} \cap (w.versions \ d.versions) = {} => w.receipts = d.receipts /\ w.intents = d.intents
    BY DEF Carries
  <2>5. /\ \A r \in e.receipts : \E q \in x.receipts :
             q.id = r.id /\ q.cell = r.cell /\ q.provider = r.provider
        /\ \A i \in e.intents : \E q \in x.intents :
             q.id = i.id /\ q.provider = i.provider /\ q.cell = i.cell
        /\ {6, 10} \cap (x.versions \ e.versions) = {} => x.receipts = e.receipts /\ x.intents = e.intents
    BY ONLY <2>3, <2>4
  <2> QED BY ONLY <2>1, <2>2, <2>5 DEF Carries
<1>7. Complete(e, l)
  <2>1. EventsComplete(e, l)
    BY <1>4 DEF Complete, EventsComplete, Grows
  <2>2. ReceiptsComplete(e, l)
    BY <1>4 DEF Complete, ReceiptsComplete, Grows
  <2> QED BY <2>1, <2>2 DEF Complete
<1>8. Complete(x, l)
  <2>1. EventsComplete(x, l)
    BY <1>1, <1>4, <1>5, <1>7 DEF Complete, EventsComplete
  <2>2. ReceiptsComplete(x, l)
    BY <1>5 DEF Complete, ReceiptsComplete, Grows
  <2> QED BY <2>1, <2>2 DEF Complete
<1> QED BY <1>4, <1>5, <1>6, <1>7, <1>8

(* A step of the old server.                                                 *)
LEMMA SeenKeeps ==
  ASSUME MigrationInv, NEW change, Seen(change),
         late' = [inbox |-> late'.inbox, receipts |-> late'.receipts],
         Constrained(change), Complete(change, late'), change.created = db.created, change.versions = db.versions,
         AllRouted(db) => AllRouted(change),
         \A m \in Migrator : migrator[m].pc = "apply" =>
           LET w == migrator[m].work
               x == Sees(m, change) IN
           /\ Constrained(x) /\ Carries(change, x) /\ Complete(x, late')
           /\ x.versions = w.versions /\ x.core = w.core
  PROVE  MigrationInv'
<1>1. Committed' /\ Started'
  <2>1. db' = change /\ initial' = initial /\ server' = server
    BY DEF Seen
  <2> QED BY <2>1 DEF MigrationInv, Committed, Started
<1>2. DOMAIN migrator' = Migrator /\ migrator' = [m \in Migrator |-> migrator'[m]]
  BY DEF Seen
<1>3. ASSUME NEW m \in Migrator
      PROVE  Stands(m, migrator'[m], holder', db') /\ Copies(migrator'[m], db', late')
  <2>1. Stands(m, migrator[m], holder, db) /\ Copies(migrator[m], db, late)
    BY DEF MigrationInv
  <2>2. CASE migrator[m].pc # "apply"
    <3>1. migrator'[m] = migrator[m] /\ db'.versions = db.versions /\ holder' = holder
      BY <2>2 DEF Seen
    <3> QED BY <2>1, <2>2, <3>1 DEF Stands, Copies
  <2>3. CASE migrator[m].pc = "apply"
    <3> DEFINE r == migrator[m]
               w == migrator[m].work
               x == Sees(m, change)
               t == [pc |-> "apply", before |-> r.before, applied |-> r.applied, work |-> x]
    <3>1. migrator'[m] = [r EXCEPT !.work = x]
      BY <2>3 DEF Seen
    <3>2. /\ r = [pc |-> "apply", before |-> r.before, applied |-> r.applied, work |-> r.work]
          /\ r.before = db.versions /\ r.applied = w.versions
          /\ 1 \notin r.applied => ~w.core
      BY <2>1, <2>3 DEF Copies
    <3>3. Constrained(x) /\ Carries(change, x) /\ Complete(x, late') /\ x.versions = w.versions /\ x.core = w.core
      BY <2>3
    <3>4. db' = change /\ holder' = holder
      BY DEF Seen
    <3>5. [r EXCEPT !.work = x] = t
      <4> HIDE DEF r, x, w
      <4>1. PICK b, a, y : r = [pc |-> "apply", before |-> b, applied |-> a, work |-> y]
        BY <3>2
      <4>2. [r EXCEPT !.work = x] = [pc |-> "apply", before |-> b, applied |-> a, work |-> x]
        BY <4>1
      <4> QED BY <4>1, <4>2
    <3> HIDE DEF r, x, w
    <3>6. /\ t.pc = "apply" /\ t.before = r.before /\ t.applied = r.applied /\ t.work = x
          /\ t = [pc |-> "apply", before |-> t.before, applied |-> t.applied, work |-> t.work]
      OBVIOUS
    <3> HIDE DEF t
    <3>7. Copies(t, db', late')
      BY <3>2, <3>3, <3>4, <3>6 DEF Copies
    <3>8. Stands(m, t, holder', db')
      BY <2>1, <2>3, <3>4, <3>6 DEF Stands
    <3> QED BY <3>1, <3>5, <3>7, <3>8
  <2> QED BY <2>2, <2>3
<1>4. starts' = starts /\ holder' = holder
  BY DEF Seen
<1> QED BY <1>1, <1>2, <1>3, <1>4 DEF MigrationInv

(* A receipt written by the old server keeps the invariant.                  *)
LEMMA OldReceiptKeeps ==
  ASSUME MigrationInv, DatabasesAssumption, NEW r \in NewReceipt, OldReceipt(r)
  PROVE  MigrationInv' /\ LosesNothing
<1> DEFINE e == Rows(db, db.receipts \cup {r}, db.inbox, db.processing)
<1>1. /\ Receipt(r) /\ Created(db, r) /\ r.scope = None /\ Constrained(db) /\ Database(db)
      /\ Complete(db, late) /\ late = [inbox |-> late.inbox, receipts |-> late.receipts]
      /\ \A q \in db.receipts : q.id # r.id
      /\ \A m \in Migrator : ~Rewrites(m, {6, 10})
      /\ Seen([db EXCEPT !.receipts = @ \cup {r}])
      /\ late' = IF 10 \in db.versions THEN [late EXCEPT !.receipts = @ \cup {r.id}] ELSE late
  BY DEF OldReceipt, MigrationInv, Committed, DatabasesAssumption, Created, Constrained
<1>2. [db EXCEPT !.receipts = @ \cup {r}] = e
  BY <1>1 DEF Database, Rows
<1>3. /\ Grows(late, late')
      /\ 10 \in db.versions => r.id \in late'.receipts
      /\ late' = [inbox |-> late'.inbox, receipts |-> late'.receipts]
  <2>1. PICK a, b : late = [inbox |-> a, receipts |-> b]
    BY <1>1
  <2> QED BY <1>1, <2>1 DEF Grows
<1>4. 6 \in db.versions => \E i \in db.intents : Binds(r, i)
  BY DEF OldReceipt
<1>5. ASSUME NEW m \in Migrator, migrator[m].pc = "apply"
      PROVE  LET w == migrator[m].work
                 x == Sees(m, e) IN
             /\ Constrained(x) /\ Carries(e, x) /\ Complete(x, late')
             /\ x.versions = w.versions /\ x.core = w.core
  <2> DEFINE w == migrator[m].work
             x == Sees(m, e)
             p == IF Rewrites(m, {8}) THEN w.processing ELSE e.processing
  <2>1. /\ Constrained(w) /\ Carries(db, w) /\ Complete(w, late) /\ migrator[m].applied = w.versions
    BY <1>5 DEF MigrationInv, Copies
  <2>2. {6, 10} \cap (w.versions \ db.versions) = {}
    BY <1>1, <1>5, <2>1 DEF Rewrites
  <2>3. x = Rows(w, e.receipts, e.inbox, p)
    <3>1. Database(w)
      BY <2>1 DEF Constrained
    <3> HIDE DEF e, w
    <3> QED BY <1>1, <3>1 DEF Sees, Rows, Database, w
  <2>4. e.processing = db.processing
    BY <1>1 DEF Database, Rows
  <2>5. /\ p = w.processing \/ (p = db.processing /\ 8 \notin w.versions \ db.versions)
        /\ db.processing \subseteq p
    BY <1>5, <2>1, <2>4 DEF Rewrites, Carries
  <2>6. e = Rows(db, db.receipts \cup {r}, db.inbox, db.processing)
    OBVIOUS
  <2> HIDE DEF w, x, p, e
  <2>7. Views(db, w, late, late') /\ Unrecorded(db, late', r)
    BY <1>1, <1>3, <1>4, <2>1 DEF Views, Unrecorded
  <2>8. GetsReceipt(db, w, r, e, p, x)
    BY <2>2, <2>3, <2>5, <2>6 DEF GetsReceipt
  <2>9. Constrained(x) /\ Carries(e, x) /\ Complete(x, late') /\ x.versions = w.versions /\ x.core = w.core
    BY <2>7, <2>8, ReceiptSeen
  <2> QED BY <2>9 DEF w, x
<1>6. /\ Constrained(e) /\ Complete(e, late') /\ e.versions = db.versions /\ e.created = db.created
      /\ AllRouted(db) => AllRouted(e)
  <2>1. Carries(db, db)
    BY DEF Carries
  <2>2. {6, 10} \cap (db.versions \ db.versions) = {}
    OBVIOUS
  <2>3. e = Rows(db, db.receipts \cup {r}, db.inbox, db.processing)
    OBVIOUS
  <2> DEFINE x == Rows(db, e.receipts, e.inbox, db.processing)
  <2>4. x = Rows(db, e.receipts, e.inbox, db.processing) /\ db.processing \subseteq db.processing
    OBVIOUS
  <2> HIDE DEF e, x
  <2>5. Views(db, db, late, late') /\ Unrecorded(db, late', r)
    BY <1>1, <1>3, <1>4, <2>1 DEF Views, Unrecorded
  <2>6. GetsReceipt(db, db, r, e, db.processing, x)
    BY <2>2, <2>3, <2>4 DEF GetsReceipt
  <2> QED BY <2>5, <2>6, ReceiptSeen
<1>7. LosesNothing
  BY <1>1 DEF LosesNothing, Seen, Database
<1> HIDE DEF e
<1>8. MigrationInv'
  BY <1>1, <1>2, <1>3, <1>5, <1>6, SeenKeeps
<1> QED BY <1>7, <1>8

(* An event recorded by the old server keeps the invariant.                  *)
LEMMA OldEventKeeps ==
  ASSUME MigrationInv, DatabasesAssumption, NEW n \in NewEvent, OldEvent(n)
  PROVE  MigrationInv' /\ LosesNothing
<1> DEFINE p == IF 8 \in initial.versions THEN db.processing \cup {n} ELSE db.processing
           e == Rows(db, db.receipts, db.inbox \cup {n}, p)
<1>1. /\ Constrained(db) /\ Database(db) /\ Complete(db, late)
      /\ late = [inbox |-> late.inbox, receipts |-> late.receipts]
      /\ \A m \in Migrator : ~Rewrites(m, {8})
  BY DEF OldEvent, MigrationInv, Committed, Constrained
<1>2. Seen(e)
  <2>1. CASE 8 \in initial.versions
    <3>1. [db EXCEPT !.inbox = @ \cup {n}, !.processing = @ \cup {n}] = e
      BY <1>1, <2>1 DEF Database, Rows
    <3> QED BY <2>1, <3>1 DEF OldEvent
  <2>2. CASE 8 \notin initial.versions
    <3>1. [db EXCEPT !.inbox = @ \cup {n}] = e
      BY <1>1, <2>2 DEF Database, Rows
    <3> QED BY <2>2, <3>1 DEF OldEvent
  <2> QED BY <2>1, <2>2
<1>3. /\ Grows(late, late')
      /\ 8 \in db.versions => n \in p \cup late'.inbox
      /\ late' = [inbox |-> late'.inbox, receipts |-> late'.receipts]
      /\ db.processing \subseteq p
  <2>1. PICK a, b : late = [inbox |-> a, receipts |-> b]
    BY <1>1
  <2> QED BY <1>1, <2>1 DEF Grows, OldEvent
<1> HIDE DEF p
<1>4. ASSUME NEW m \in Migrator, migrator[m].pc = "apply"
      PROVE  LET w == migrator[m].work
                 x == Sees(m, e) IN
             /\ Constrained(x) /\ Carries(e, x) /\ Complete(x, late')
             /\ x.versions = w.versions /\ x.core = w.core
  <2> DEFINE w == migrator[m].work
             x == Sees(m, e)
             s == IF Rewrites(m, {6, 10}) THEN w.receipts ELSE e.receipts
  <2>1. /\ Constrained(w) /\ Carries(db, w) /\ Complete(w, late) /\ migrator[m].applied = w.versions
    BY <1>4 DEF MigrationInv, Copies
  <2>2. 8 \notin w.versions \ db.versions
    BY <1>1, <1>4, <2>1 DEF Rewrites
  <2>3. e.receipts = db.receipts
    BY <1>1 DEF Database, Rows
  <2>4. s = w.receipts \/ (s = db.receipts /\ {6, 10} \cap (w.versions \ db.versions) = {})
    BY <1>4, <2>1, <2>3 DEF Rewrites
  <2>5. x = Rows(w, s, e.inbox, e.processing)
    <3>1. Database(w)
      BY <2>1 DEF Constrained
    <3> HIDE DEF e, w
    <3> QED BY <1>1, <3>1 DEF Sees, Rows, Database, w
  <2>6. e = Rows(db, db.receipts, db.inbox \cup {n}, p)
    OBVIOUS
  <2> HIDE DEF w, x, s, e
  <2>7. Views(db, w, late, late')
    BY <1>1, <1>3, <2>1 DEF Views
  <2>8. GetsEvent(db, w, late', n, p, e, s, x)
    BY <1>3, <2>2, <2>4, <2>5, <2>6 DEF GetsEvent
  <2>9. Constrained(x) /\ Carries(e, x) /\ Complete(x, late') /\ x.versions = w.versions /\ x.core = w.core
    BY <2>7, <2>8, EventSeen
  <2> QED BY <2>9 DEF w, x
<1>5. /\ Constrained(e) /\ Complete(e, late') /\ e.versions = db.versions /\ e.created = db.created
      /\ AllRouted(db) => AllRouted(e)
  <2>1. Carries(db, db)
    BY DEF Carries
  <2>2. e = Rows(db, db.receipts, db.inbox \cup {n}, p) /\ 8 \notin db.versions \ db.versions
    OBVIOUS
  <2> DEFINE x == Rows(db, db.receipts, e.inbox, e.processing)
  <2>3. x = Rows(db, db.receipts, e.inbox, e.processing)
    OBVIOUS
  <2> HIDE DEF e, x
  <2>4. Views(db, db, late, late')
    BY <1>1, <1>3, <2>1 DEF Views
  <2>5. GetsEvent(db, db, late', n, p, e, db.receipts, x)
    BY <1>3, <2>2, <2>3 DEF GetsEvent
  <2> QED BY <2>4, <2>5, EventSeen
<1>6. LosesNothing
  <2>1. db' = e
    BY <1>2 DEF Seen
  <2>2. /\ e.inbox = db.inbox \cup {n} /\ e.processing = p /\ e.receipts = db.receipts /\ e.intents = db.intents
    BY <1>1 DEF Database, Rows
  <2> HIDE DEF e
  <2> QED BY <1>3, <2>1, <2>2 DEF LosesNothing
<1> HIDE DEF e
<1>7. MigrationInv'
  BY <1>2, <1>3, <1>4, <1>5, SeenKeeps
<1> QED BY <1>6, <1>7

(* Every step keeps the invariant, and loses nothing.                        *)
LEMMA MigrationStep ==
  ASSUME MigrationInv, DatabasesAssumption, [MigrationNext]_migrationVars
  PROVE  MigrationInv' /\ (LosesNothing \/ UNCHANGED migrationVars)
<1>1. ASSUME NEW m \in Migrator, Start(m) \/ Lock(m) \/ Apply(m) \/ Lose(m) \/ Verify(m)
      PROVE  MigrationInv' /\ LosesNothing
  <2>1. MigrationInv'
    BY <1>1, MigratorKeeps
  <2>2. db' = db
    BY <1>1 DEF Start, Lock, Apply, Lose, Verify
  <2> QED BY <2>1, <2>2 DEF LosesNothing
<1>2. ASSUME NEW m \in Migrator, Commit(m)
      PROVE  MigrationInv' /\ LosesNothing
  <2>1. MigrationInv' /\ Carries(db, db')
    BY <1>2, CommitKeeps
  <2> QED BY <2>1 DEF Carries, LosesNothing
<1>3. ASSUME NEW s \in Server, Serve(s)
      PROVE  MigrationInv' /\ LosesNothing
  <2>1. /\ UNCHANGED <<db, initial, late, holder, migrator, starts>>
        /\ server' = [server EXCEPT ![s] = IF db.versions = Versions THEN "serving" ELSE "refused"]
    BY <1>3 DEF Serve, verifyExpectedVersion
  <2>2. Started'
    BY <2>1 DEF MigrationInv, Started
  <2>3. Committed'
    BY <2>1 DEF MigrationInv, Committed
  <2>4. MigrationInv'
    BY <2>1, <2>2, <2>3 DEF MigrationInv, Stands, Copies
  <2> QED BY <2>1, <2>4 DEF LosesNothing
<1>4. CASE UNCHANGED migrationVars
  BY <1>4 DEF migrationVars, MigrationInv, Committed, Started, Stands, Copies
<1> QED BY <1>1, <1>2, <1>3, <1>4, OldReceiptKeeps, OldEventKeeps DEF MigrationNext

(* Migrations keep the invariant, from whatever database they find.          *)
THEOREM MigrationInvariant ==
  ASSUME DatabasesAssumption
  PROVE  MigrationSpec => []MigrationInv
<1>1. ASSUME MigrationInit PROVE MigrationInv
  <2>1. db \in Databases /\ initial = db /\ Constrained(db) /\ holder = None /\ None \notin Migrator
    BY <1>1 DEF MigrationInit, DatabasesAssumption
  <2>2. Committed /\ Started
    <3>1. 10 \notin initial.versions => AllRouted(db)
      BY <2>1 DEF Constrained, AllRouted, Routed
    <3>2. late = [inbox |-> late.inbox, receipts |-> late.receipts]
      BY <1>1 DEF MigrationInit, LeftBehind
    <3>3. EventsComplete(db, late)
      BY <1>1 DEF MigrationInit, LeftBehind, EventsComplete
    <3>4. ReceiptsComplete(db, late)
      <4>1. 10 \in db.versions => 6 \in db.versions
        BY <2>1 DEF Constrained, Prefix
      <4>2. 10 \in db.versions => \A r \in db.receipts : \E i \in db.intents : Binds(r, i)
        BY <2>1, <4>1 DEF Constrained
      <4>3. \A r \in db.receipts, i \in db.intents : Binds(r, i) /\ r.scope # i.scope => r.id \in late.receipts
        BY <1>1 DEF MigrationInit, LeftBehind
      <4> QED BY <4>2, <4>3 DEF ReceiptsComplete
    <3> QED BY <1>1, <2>1, <3>1, <3>2, <3>3, <3>4 DEF MigrationInit, Committed, Started, Complete
  <2>3. \A m \in Migrator : Stands(m, migrator[m], holder, db) /\ Copies(migrator[m], db, late)
    BY <1>1, <2>1 DEF MigrationInit, Stands, Copies
  <2> QED BY <1>1, <2>1, <2>2, <2>3 DEF MigrationInit, MigrationInv, DatabasesAssumption
<1>2. MigrationInv /\ [MigrationNext]_migrationVars => MigrationInv'
  BY MigrationStep
<1> QED BY <1>1, <1>2, PTL DEF MigrationSpec

(* All versions or none; what servers start on is complete but for the rows  *)
(* an old server recorded after the version that completes them; no scope is *)
(* invented; a migrator fails only without its connection.                   *)
THEOREM MigrationsAreSound ==
  ASSUME DatabasesAssumption
  PROVE  MigrationSpec => []MigrationSound
<1>1. ASSUME MigrationInv PROVE MigrationSound
  <2>a. \A m \in Migrator : Stands(m, migrator[m], holder, db) /\ Copies(migrator[m], db, late)
    BY <1>1 DEF MigrationInv
  <2>1. MigrationTypeOK
    <3>1. Prefix(db.versions) /\ starts \in 0..MaxStarts /\ holder \in Migrator \cup {None}
      BY <1>1 DEF MigrationInv, Committed, Constrained
    <3>2. \A m \in Migrator : migrator[m].pc = "apply" => Prefix(migrator[m].applied) /\ holder = m
      BY <2>a DEF Stands, Copies, Constrained
    <3>3. holder # None => migrator[holder].pc = "apply"
      BY <2>a, <3>1 DEF Stands
    <3> QED BY <3>1, <3>2, <3>3 DEF MigrationTypeOK
  <2>2. AllOrNothing
    BY <1>1 DEF MigrationInv, Committed, AllOrNothing
  <2>3. VerifiedIsComplete
    <3>1. (\E s \in Server : server[s] = "serving") \/ (\E m \in Migrator : migrator[m].pc = "exit0")
            => db.versions = Versions
      BY <1>1, <2>a DEF MigrationInv, Started, Stands
    <3>2. 8 \in Versions /\ 10 \in Versions
      BY DEF Versions, EXPECTED_SCHEMA_VERSION
    <3>3. Complete(db, late)
      BY <1>1 DEF MigrationInv, Committed
    <3>4. db.versions = Versions =>
            /\ db.inbox \subseteq db.processing \cup late.inbox
            /\ \A r \in db.receipts : \E i \in db.intents :
                 Binds(r, i) /\ (r.scope = i.scope \/ r.id \in late.receipts)
      BY <3>2, <3>3 DEF Complete, EventsComplete, ReceiptsComplete
    <3> QED BY <3>1, <3>4 DEF VerifiedIsComplete
  <2>4. ScopesNotInvented
    BY <1>1 DEF MigrationInv, Committed, AllRouted, ScopesNotInvented
  <2>5. ExitsJustified
    BY <2>a DEF Stands, ExitsJustified
  <2> QED BY <2>1, <2>2, <2>3, <2>4, <2>5 DEF MigrationSound
<1> QED BY <1>1, MigrationInvariant, PTL

(* No step loses or changes a row that was recorded.                         *)
THEOREM MigrationsLoseNothing ==
  ASSUME DatabasesAssumption
  PROVE  MigrationSpec => [][LosesNothing]_migrationVars
<1>1. MigrationInv /\ [MigrationNext]_migrationVars => [LosesNothing]_migrationVars
  BY MigrationStep
<1> QED BY <1>1, MigrationInvariant, PTL DEF MigrationSpec

-----------------------------------------------------------------------------
(* Readiness.                                                                *)

(* A probe that is not that of the check under way was given up when its     *)
(* time was over; that of the check is as old as the check.                  *)
Aged ==
  /\ \A p \in Outstanding : check = None \/ check.probe # p => probes[p].age = Timeout
  /\ check # None => probes[check.probe].age + check.left = Timeout

(* How long ago the database was up: now if it is, since the check began if  *)
(* its probe was answered, since then and a cached success if there is one.  *)
Fresh ==
  /\ database = "up" => unhealthy = 0
  /\ check # None /\ probes[check.probe].step = "good" => unhealthy + check.left <= Timeout
  /\ cacheLeft > 0 => unhealthy + cacheLeft <= LongAgo

(* Whoever waits has waited no longer than the check has run.                *)
Patient ==
  \A c \in Caller :
    /\ asking[c] = "waiting" => check # None /\ waited[c] + check.left <= Timeout
    /\ asking[c] = "idle" => waited[c] = 0

ReadinessInv == ReadinessTypeOK /\ Aged /\ Fresh /\ Patient /\ ReadyIsRecent
(* The fields of probes and checks.                                          *)
LEMMA ProbeFields ==
  ASSUME NEW r \in Probes
  PROVE  r.step \in {"select", "version", "good", "bad"} /\ r.age \in 0..Timeout
BY DEF Probes

(* The fields of a readiness check.                                         *)
LEMMA CheckFields ==
  ASSUME NEW k \in Checks
  PROVE  k.probe \in Query /\ k.left \in 0..Timeout
BY DEF Checks

(* What is over by less is still within a bound.                            *)
LEMMA SumBelow ==
  ASSUME NEW x \in Nat, NEW y \in Nat, NEW z \in Nat, NEW n \in Nat, x + z <= n, y <= x
  PROVE  y + z <= n
OBVIOUS

(* A clock tick moves one unit from what is left to what has passed.        *)
LEMMA SumStays ==
  ASSUME NEW x \in Nat, NEW y \in Nat, NEW z \in Nat, NEW w \in Nat, NEW n \in Nat,
         x + z <= n, y <= x + 1, w = z - 1
  PROVE  y + w <= n
OBVIOUS

(* What an answer does to those who wait.                                    *)
LEMMA AnswerShape ==
  ASSUME ReadinessTypeOK, NEW ok \in BOOLEAN, Answer(ok)
  PROVE  /\ asking' \in [Caller -> {"idle", "waiting", "ready", "notReady"}]
         /\ \A c \in Caller : /\ asking'[c] # "waiting"
                              /\ asking'[c] = "idle" => asking[c] = "idle"
                              /\ asking'[c] = "ready" => asking[c] = "ready" \/ ok
BY DEF ReadinessTypeOK, Answer, Waiting

(* A caller that asks, or hears the answer, keeps the invariant.            *)
LEMMA AsksKeep ==
  ASSUME ReadinessInv, ReadinessAssumption, NEW c \in Caller, readyCheck(c) \/ Hear(c)
  PROVE  ReadinessInv' /\ StaysUnready
<1>a. /\ Timeout \in Nat \ {0} /\ CacheFor \in Nat \ {0} /\ None \notin Probes \cup Checks
      /\ ReadinessTypeOK /\ Aged /\ Fresh /\ Patient /\ ReadyIsRecent
  BY DEF ReadinessAssumption, ReadinessInv
<1>1. CASE readyCheck(c) /\ (closed \/ cacheLeft > 0)
  <2>1. /\ asking' = [asking EXCEPT ![c] = IF closed THEN "notReady" ELSE "ready"]
        /\ UNCHANGED <<database, probes, closed, cacheLeft, check, waited, unhealthy>>
        /\ ~closed => cacheLeft > 0
    BY <1>1, <1>a DEF readyCheck, ReadinessTypeOK
  <2>2. ReadinessTypeOK' /\ StaysUnready
    BY <1>a, <2>1 DEF ReadinessTypeOK, Outstanding, StaysUnready
  <2>3. Aged' /\ Fresh'
    BY <1>a, <2>1 DEF Aged, Fresh, Outstanding
  <2>4. Patient'
    BY <1>a, <2>1 DEF Patient, ReadinessTypeOK
  <2>5. ReadyIsRecent'
    BY <1>a, <2>1 DEF ReadyIsRecent, Fresh, ReadinessTypeOK, LongAgo
  <2> QED BY <2>2, <2>3, <2>4, <2>5 DEF ReadinessInv
<1>2. CASE readyCheck(c) /\ ~closed /\ cacheLeft = 0 /\ Joins /\ UNCHANGED <<probes, check>>
  <2>1. /\ asking[c] = "idle" /\ asking' = [asking EXCEPT ![c] = "waiting"] /\ check # None
        /\ UNCHANGED <<database, probes, closed, cacheLeft, check, waited, unhealthy>>
    BY <1>2, <1>a DEF readyCheck, Joins
  <2>2. ReadinessTypeOK' /\ StaysUnready
    BY <1>a, <2>1 DEF ReadinessTypeOK, Outstanding, StaysUnready
  <2>3. Aged' /\ Fresh' /\ ReadyIsRecent'
    BY <1>a, <2>1 DEF Aged, Fresh, Outstanding, ReadyIsRecent, ReadinessTypeOK
  <2>4. waited[c] = 0 /\ check.left \in 0..Timeout
    BY <1>a, <2>1, CheckFields DEF Patient, ReadinessTypeOK
  <2>5. Patient'
    BY <1>a, <2>1, <2>4 DEF Patient, ReadinessTypeOK
  <2> QED BY <2>2, <2>3, <2>5 DEF ReadinessInv
<1>3. ASSUME readyCheck(c), ~closed, cacheLeft = 0, ~Joins, NEW p \in Query \ Outstanding,
             probes' = [probes EXCEPT ![p] = [step |-> "select", age |-> 0]],
             check' = [probe |-> p, left |-> Timeout]
      PROVE  ReadinessInv' /\ StaysUnready
  <2>1. /\ asking[c] = "idle" /\ asking' = [asking EXCEPT ![c] = "waiting"] /\ check = None
        /\ UNCHANGED <<database, closed, cacheLeft, waited, unhealthy>>
    BY <1>3, <1>a DEF readyCheck, Joins
  <2>2. /\ [step |-> "select", age |-> 0] \in Probes /\ [probe |-> p, left |-> Timeout] \in Checks
        /\ [step |-> "select", age |-> 0] # None /\ check' # None
        /\ check'.probe = p /\ check'.left = Timeout
    BY <1>3, <1>a DEF Probes, Checks
  <2>3. /\ probes' \in [Query -> Probes \cup {None}] /\ Outstanding' = Outstanding \cup {p}
        /\ probes'[p].step = "select" /\ probes'[p].age = 0
        /\ \A q \in Outstanding : probes'[q] = probes[q]
    BY <1>3, <1>a, <2>2 DEF ReadinessTypeOK, Outstanding
  <2>4. ReadinessTypeOK' /\ StaysUnready
    BY <1>a, <2>1, <2>2, <2>3, <1>3 DEF ReadinessTypeOK, StaysUnready
  <2>5. Aged'
    BY <1>a, <2>1, <2>2, <2>3 DEF Aged
  <2>6. Fresh' /\ ReadyIsRecent'
    BY <1>a, <2>1, <2>2, <2>3 DEF Fresh, ReadyIsRecent, ReadinessTypeOK
  <2>7. Patient'
    BY <1>a, <2>1, <2>2 DEF Patient, ReadinessTypeOK
  <2> QED BY <2>4, <2>5, <2>6, <2>7 DEF ReadinessInv
<1>4. CASE Hear(c)
  <2>1. /\ asking' = [asking EXCEPT ![c] = "idle"] /\ waited' = [waited EXCEPT ![c] = 0]
        /\ UNCHANGED <<database, probes, closed, cacheLeft, check, unhealthy>>
    BY <1>4 DEF Hear
  <2>2. ReadinessTypeOK' /\ StaysUnready
    BY <1>a, <2>1 DEF ReadinessTypeOK, Outstanding, StaysUnready, LongAgo
  <2>3. Aged' /\ Fresh' /\ ReadyIsRecent'
    BY <1>a, <2>1 DEF Aged, Fresh, Outstanding, ReadyIsRecent, ReadinessTypeOK
  <2>4. Patient'
    BY <1>a, <2>1 DEF Patient, ReadinessTypeOK
  <2> QED BY <2>2, <2>3, <2>4 DEF ReadinessInv
<1> QED BY <1>1, <1>2, <1>3, <1>4 DEF readyCheck

(* The database, a query that is answered, and disconnect.                   *)
LEMMA QueriesKeep ==
  ASSUME ReadinessInv, ReadinessAssumption,
         \/ \E d \in {"up", "behind", "slow", "down"} : Changes(d)
         \/ \E p \in Query : queryReadiness(p)
         \/ disconnect
  PROVE  ReadinessInv' /\ StaysUnready
<1>a. /\ Timeout \in Nat \ {0} /\ CacheFor \in Nat \ {0} /\ None \notin Probes \cup Checks
      /\ ReadinessTypeOK /\ Aged /\ Fresh /\ Patient /\ ReadyIsRecent
      /\ check # None => check \in Checks /\ check.left \in 0..Timeout
  BY CheckFields DEF ReadinessAssumption, ReadinessInv, ReadinessTypeOK
<1>1. ASSUME NEW d \in {"up", "behind", "slow", "down"}, Changes(d)
      PROVE  ReadinessInv' /\ StaysUnready
  <2>1. /\ database' = d /\ (d = "up" => unhealthy' = 0) /\ (d # "up" => unhealthy' = unhealthy)
        /\ UNCHANGED <<probes, closed, cacheLeft, check, asking, waited>>
    BY <1>1 DEF Changes
  <2>2. unhealthy' \in 0..LongAgo /\ unhealthy' <= unhealthy
    BY <1>a, <2>1 DEF ReadinessTypeOK, LongAgo
  <2>3. ReadinessTypeOK' /\ StaysUnready
    BY <1>a, <2>1, <2>2 DEF ReadinessTypeOK, Outstanding, StaysUnready
  <2>4. Aged' /\ Patient'
    BY <1>a, <2>1 DEF Aged, Patient, Outstanding
  <2>5. /\ unhealthy \in Nat /\ unhealthy' \in Nat /\ cacheLeft \in Nat /\ LongAgo \in Nat
        /\ check # None => check.left \in Nat
    BY <1>a, <2>2 DEF ReadinessTypeOK, LongAgo
  <2>6. Fresh'
    <3>1. database' = "up" => unhealthy' = 0
      BY <2>1
    <3>2. check # None /\ probes[check.probe].step = "good" => unhealthy' + check.left <= Timeout
      BY <1>a, <2>2, <2>5 DEF Fresh
    <3>3. cacheLeft > 0 => unhealthy' + cacheLeft <= LongAgo
      <4>1. (cacheLeft > 0 => unhealthy + cacheLeft <= LongAgo) /\ Timeout \in Nat /\ CacheFor \in Nat
        BY <1>a DEF Fresh
      <4> QED BY <4>1, <2>2, <2>5, SumBelow
    <3> QED BY <2>1, <3>1, <3>2, <3>3 DEF Fresh, LongAgo
  <2>7. ReadyIsRecent'
    BY <1>a, <2>1, <2>2, <2>5 DEF ReadyIsRecent
  <2> QED BY <2>3, <2>4, <2>6, <2>7 DEF ReadinessInv
<1>2. ASSUME NEW p \in Query, queryReadiness(p)
      PROVE  ReadinessInv' /\ StaysUnready
  <2> DEFINE s == Outcome(probes[p].step)
  <2>1. /\ probes[p] \in Probes /\ p \in Outstanding /\ database # "slow"
        /\ probes[p].step \in {"select", "version"}
        /\ probes' = [probes EXCEPT ![p] = [probes[p] EXCEPT !.step = s]]
        /\ UNCHANGED <<database, closed, cacheLeft, check, asking, waited, unhealthy>>
    BY <1>2, <1>a DEF queryReadiness, ReadinessTypeOK, Outstanding
  <2>2. s \in {"version", "good", "bad"} /\ (s = "good" => database = "up")
    BY <2>1 DEF Outcome
  <2> HIDE DEF s
  <2>3. /\ [probes[p] EXCEPT !.step = s] \in Probes /\ [probes[p] EXCEPT !.step = s].step = s
        /\ [probes[p] EXCEPT !.step = s].age = probes[p].age
    BY <2>1, <2>2 DEF Probes
  <2>4. /\ probes' \in [Query -> Probes \cup {None}] /\ Outstanding' = Outstanding
        /\ probes'[p].step = s /\ \A q \in Query : probes'[q].age = probes[q].age
        /\ \A q \in Query \ {p} : probes'[q] = probes[q]
    BY <1>a, <2>1, <2>3 DEF ReadinessTypeOK, Outstanding
  <2>5. ReadinessTypeOK' /\ StaysUnready
    BY <1>a, <2>1, <2>4 DEF ReadinessTypeOK, StaysUnready
  <2>6. Aged' /\ Patient' /\ ReadyIsRecent'
    BY <1>a, <2>1, <2>4 DEF Aged, Patient, ReadyIsRecent, Outstanding, ReadinessTypeOK
  <2>7. Fresh'
    BY <1>a, <2>1, <2>2, <2>4 DEF Fresh, ReadinessTypeOK, Outstanding
  <2> QED BY <2>5, <2>6, <2>7 DEF ReadinessInv
<1>3. CASE disconnect
  <2>1. /\ closed' = TRUE /\ cacheLeft' = 0
        /\ UNCHANGED <<database, probes, check, asking, waited, unhealthy>>
    BY <1>3 DEF disconnect
  <2>2. ReadinessTypeOK' /\ StaysUnready
    BY <1>a, <2>1 DEF ReadinessTypeOK, Outstanding, StaysUnready
  <2>3. Aged' /\ Patient'
    BY <1>a, <2>1 DEF Aged, Patient, Outstanding
  <2>4. Fresh' /\ ReadyIsRecent'
    BY <1>a, <2>1 DEF Fresh, ReadyIsRecent
  <2> QED BY <2>2, <2>3, <2>4 DEF ReadinessInv
<1> QED BY <1>1, <1>2, <1>3

(* A check that ends, or is given up.                                        *)
LEMMA EndsKeep ==
  ASSUME ReadinessInv, ReadinessAssumption, (\E p \in Query : executeReadyCheck(p)) \/ withTimeout
  PROVE  ReadinessInv' /\ StaysUnready
<1>a. /\ Timeout \in Nat \ {0} /\ CacheFor \in Nat \ {0} /\ None \notin Probes \cup Checks
      /\ ReadinessTypeOK /\ Aged /\ Fresh /\ Patient /\ ReadyIsRecent
      /\ check # None => check \in Checks /\ check.left \in 0..Timeout
  BY CheckFields DEF ReadinessAssumption, ReadinessInv, ReadinessTypeOK
<1>1. ASSUME NEW p \in Query, executeReadyCheck(p)
      PROVE  ReadinessInv' /\ StaysUnready
  <2> DEFINE ok == probes[p].step = "good" /\ ~closed
  <2>1. /\ probes[p] # None /\ probes' = [probes EXCEPT ![p] = None]
        /\ UNCHANGED <<database, closed, waited, unhealthy>>
        /\ Counts(p) => /\ cacheLeft' = (IF ok THEN CacheFor ELSE cacheLeft)
                        /\ check' = None /\ Answer(ok)
        /\ ~Counts(p) => UNCHANGED <<cacheLeft, check, asking>>
    BY <1>1 DEF executeReadyCheck, OpenStill
  <2>2. /\ probes' \in [Query -> Probes \cup {None}] /\ Outstanding' = Outstanding \ {p}
        /\ \A q \in Outstanding' : probes'[q] = probes[q]
    BY <1>a, <2>1 DEF ReadinessTypeOK, Outstanding
  <2>3. CASE ~Counts(p)
    <3>1. UNCHANGED <<cacheLeft, check, asking>> /\ (check = None \/ check.probe # p)
      BY <2>1, <2>3 DEF Counts
    <3>2. check # None => check.probe \in Outstanding' /\ probes'[check.probe] = probes[check.probe]
      BY <1>a, <2>2, <3>1 DEF ReadinessTypeOK
    <3>3. ReadinessTypeOK' /\ StaysUnready
      BY <1>a, <2>1, <2>2, <3>1, <3>2 DEF ReadinessTypeOK, StaysUnready
    <3>4. Aged'
      BY <1>a, <2>2, <3>1, <3>2 DEF Aged
    <3>5. Fresh' /\ Patient' /\ ReadyIsRecent'
      BY <1>a, <2>1, <3>1, <3>2 DEF Fresh, Patient, ReadyIsRecent
    <3> QED BY <3>3, <3>4, <3>5 DEF ReadinessInv
  <2>4. CASE Counts(p)
    <3>1. /\ check # None /\ check.probe = p /\ check' = None /\ Answer(ok) /\ ok \in BOOLEAN
          /\ cacheLeft' = IF ok THEN CacheFor ELSE cacheLeft
      BY <2>1, <2>4 DEF Counts
    <3>2. ok => unhealthy + check.left <= Timeout
      BY <1>a, <3>1 DEF Fresh
    <3>3. cacheLeft' \in 0..CacheFor /\ (cacheLeft' = CacheFor \/ cacheLeft' = cacheLeft)
          /\ (ok => ~closed /\ cacheLeft' = CacheFor) /\ (~ok => cacheLeft' = cacheLeft)
      BY <1>a, <3>1 DEF ReadinessTypeOK
    <3> HIDE DEF ok
    <3>4. /\ asking' \in [Caller -> {"idle", "waiting", "ready", "notReady"}]
          /\ \A c \in Caller : /\ asking'[c] # "waiting"
                               /\ asking'[c] = "idle" => asking[c] = "idle"
                               /\ asking'[c] = "ready" => asking[c] = "ready" \/ ok
      BY <1>a, <3>1, AnswerShape
    <3>5. ReadinessTypeOK'
      BY <1>a, <2>1, <2>2, <3>1, <3>3, <3>4 DEF ReadinessTypeOK
    <3>6. Aged'
      BY <1>a, <2>2, <3>1 DEF Aged
    <3>7. unhealthy \in 0..LongAgo /\ cacheLeft \in 0..CacheFor /\ (ok => unhealthy <= Timeout)
      BY <1>a, <3>1, <3>2 DEF ReadinessTypeOK, LongAgo
    <3>8. Fresh'
      BY <1>a, <2>1, <3>1, <3>3, <3>7 DEF Fresh, LongAgo
    <3>9. Patient'
      BY <1>a, <2>1, <3>4 DEF Patient
    <3>10. ReadyIsRecent'
      BY <1>a, <2>1, <3>4, <3>7 DEF ReadyIsRecent, LongAgo
    <3>11. StaysUnready
      BY <3>3, <3>4 DEF StaysUnready
    <3> QED BY <3>5, <3>6, <3>8, <3>9, <3>10, <3>11 DEF ReadinessInv
  <2> QED BY <2>3, <2>4
<1>2. CASE withTimeout
  <2>1. /\ check # None /\ check.left = 0 /\ check' = None /\ Answer(FALSE)
        /\ UNCHANGED <<database, probes, closed, cacheLeft, waited, unhealthy>>
    BY <1>2 DEF withTimeout, TimeIsUp, Clears
  <2>2. /\ asking' \in [Caller -> {"idle", "waiting", "ready", "notReady"}]
        /\ \A c \in Caller : /\ asking'[c] # "waiting"
                             /\ asking'[c] = "idle" => asking[c] = "idle"
                             /\ asking'[c] = "ready" => asking[c] = "ready"
    BY <1>a, <2>1, AnswerShape
  <2>3. ReadinessTypeOK' /\ StaysUnready
    BY <1>a, <2>1, <2>2 DEF ReadinessTypeOK, Outstanding, StaysUnready
  <2>4. Aged'
    <3>1. check.probe \in Outstanding /\ probes[check.probe].age + 0 = Timeout
      BY <1>a, <2>1 DEF Aged, ReadinessTypeOK
    <3>2. probes[check.probe].age = Timeout
      <4>1. probes[check.probe].age \in 0..Timeout
        BY <1>a, <3>1, ProbeFields DEF ReadinessTypeOK, Outstanding
      <4> QED BY <3>1, <4>1, <1>a
    <3> QED BY <1>a, <2>1, <3>2 DEF Aged, Outstanding
  <2>5. Fresh' /\ Patient' /\ ReadyIsRecent'
    BY <1>a, <2>1, <2>2 DEF Fresh, Patient, ReadyIsRecent
  <2> QED BY <2>3, <2>4, <2>5 DEF ReadinessInv
<1> QED BY <1>1, <1>2

(* Time passes.                                                              *)
LEMMA TimeKeeps ==
  ASSUME ReadinessInv, ReadinessAssumption, TimePasses
  PROVE  ReadinessInv' /\ StaysUnready
<1>a. /\ Timeout \in Nat \ {0} /\ CacheFor \in Nat \ {0} /\ None \notin Probes \cup Checks
      /\ ReadinessTypeOK /\ Aged /\ Fresh /\ Patient /\ ReadyIsRecent
      /\ check # None => check \in Checks /\ check.left \in 1..Timeout
  BY CheckFields DEF ReadinessAssumption, ReadinessInv, ReadinessTypeOK, TimePasses, TimeIsUp
<1>1. UNCHANGED <<database, closed, asking>> /\ \A c \in Caller : asking[c] \in {"idle", "waiting"}
  BY DEF TimePasses
<1>2. /\ cacheLeft' \in 0..CacheFor /\ unhealthy' \in 0..LongAgo
      /\ cacheLeft' > 0 => cacheLeft' = cacheLeft - 1 /\ cacheLeft > 0
      /\ unhealthy' <= unhealthy + 1 /\ (database = "up" => unhealthy' = 0)
  BY <1>a DEF TimePasses, ReadinessTypeOK, Less, CapAt, LongAgo
<1>3. /\ check = None => check' = None
      /\ check # None => /\ check' \in Checks /\ check' # None
                         /\ check'.probe = check.probe /\ check'.left = check.left - 1
  <2>1. CASE check = None
    BY <2>1 DEF TimePasses
  <2>2. CASE check # None
    <3>1. check' = [check EXCEPT !.left = check.left - 1]
      BY <2>2 DEF TimePasses
    <3>2. check \in Checks /\ check.left - 1 \in 0..Timeout
      BY <1>a, <2>2
    <3>3. check' \in Checks /\ check'.probe = check.probe /\ check'.left = check.left - 1
      BY <3>1, <3>2 DEF Checks
    <3> QED BY <1>a, <2>2, <3>3
  <2> QED BY <2>1, <2>2
<1>4. ASSUME NEW p \in Query
      PROVE  /\ probes[p] = None => probes'[p] = None
             /\ probes[p] # None => /\ probes'[p] \in Probes /\ probes'[p] # None
                                    /\ probes'[p].step = probes[p].step
                                    /\ probes'[p].age = CapAt(probes[p].age, Timeout)
  <2>1. CASE probes[p] = None
    BY <2>1 DEF TimePasses
  <2>2. CASE probes[p] # None
    <3> DEFINE a == CapAt(probes[p].age, Timeout)
    <3>1. probes[p] \in Probes /\ probes'[p] = [probes[p] EXCEPT !.age = a]
      BY <1>a, <2>2 DEF TimePasses, ReadinessTypeOK
    <3>2. a \in 0..Timeout
      BY <1>a, <3>1, ProbeFields DEF CapAt
    <3> HIDE DEF a
    <3>3. probes'[p] \in Probes /\ probes'[p].age = a /\ probes'[p].step = probes[p].step
      BY <3>1, <3>2 DEF Probes
    <3> QED BY <1>a, <2>2, <3>3 DEF a
  <2> QED BY <2>1, <2>2
<1>5. probes' \in [Query -> Probes \cup {None}] /\ Outstanding' = Outstanding
  <2>1. probes' \in [Query -> Probes \cup {None}]
    BY <1>4 DEF TimePasses
  <2> QED BY <2>1, <1>4 DEF Outstanding
<1>6. ASSUME NEW c \in Caller
      PROVE  /\ waited'[c] \in 0..LongAgo
             /\ asking[c] = "waiting" => waited'[c] <= waited[c] + 1
             /\ asking[c] # "waiting" => waited'[c] = 0
  BY <1>a DEF TimePasses, ReadinessTypeOK, Waiting, CapAt, LongAgo
<1>7. waited' \in [Caller -> 0..LongAgo]
  BY <1>6 DEF TimePasses
<1>8. ReadinessTypeOK' /\ StaysUnready
  <2>1. check' \in Checks \cup {None} /\ (check' # None => check'.probe \in Outstanding')
    BY <1>a, <1>3, <1>5 DEF ReadinessTypeOK
  <2> QED BY <1>a, <1>1, <1>2, <1>5, <1>7, <2>1 DEF ReadinessTypeOK, StaysUnready
<1>9. Aged'
  <2>1. \A p \in Outstanding : p \in Query /\ probes[p] # None /\ probes[p].age \in 0..Timeout
    BY <1>a, ProbeFields DEF Outstanding, ReadinessTypeOK
  <2>2. ASSUME NEW p \in Outstanding, check' = None \/ check'.probe # p
        PROVE  probes'[p].age = Timeout
    <3>1. probes[p].age = Timeout
      BY <2>2, <1>a, <1>3 DEF Aged
    <3> QED BY <2>1, <3>1, <1>4, <1>a DEF CapAt
  <2>3. ASSUME check' # None PROVE probes'[check'.probe].age + check'.left = Timeout
    <3>1. /\ check # None /\ check'.probe = check.probe /\ check'.left = check.left - 1
          /\ check.probe \in Outstanding /\ probes[check.probe].age + check.left = Timeout
      BY <2>3, <1>3, <1>a DEF Aged, ReadinessTypeOK
    <3>2. probes'[check.probe].age = probes[check.probe].age + 1
      BY <3>1, <2>1, <1>4, <1>a DEF CapAt
    <3> QED BY <3>1, <3>2, <2>1, <1>a
  <2> QED BY <2>2, <2>3, <1>5 DEF Aged
<1>10. Fresh'
  <2>1. ASSUME check' # None, probes'[check'.probe].step = "good"
        PROVE  unhealthy' + check'.left <= Timeout
    <3>1. /\ check # None /\ check'.probe = check.probe /\ check'.left = check.left - 1
          /\ check.probe \in Query /\ probes[check.probe] # None
      BY <2>1, <1>3, <1>a DEF ReadinessTypeOK, Outstanding
    <3>2. unhealthy + check.left <= Timeout
      BY <2>1, <3>1, <1>4, <1>a DEF Fresh
    <3> QED BY <3>1, <3>2, <1>2, <1>a DEF ReadinessTypeOK, LongAgo
  <2>2. cacheLeft' > 0 => unhealthy' + cacheLeft' <= LongAgo
    <3>1. unhealthy \in Nat /\ unhealthy' \in Nat /\ cacheLeft \in Nat /\ cacheLeft' \in Nat /\ LongAgo \in Nat
      BY <1>2, <1>a DEF ReadinessTypeOK, LongAgo
    <3>2. cacheLeft > 0 => unhealthy + cacheLeft <= LongAgo
      BY <1>a DEF Fresh
    <3>3. unhealthy' <= unhealthy + 1 /\ (cacheLeft' > 0 => cacheLeft' = cacheLeft - 1 /\ cacheLeft > 0)
      BY <1>2
    <3> QED BY <3>1, <3>2, <3>3, SumStays
  <2> QED BY <2>1, <2>2, <1>1, <1>2 DEF Fresh
<1>11. Patient'
  <2>1. ASSUME NEW c \in Caller, asking[c] = "waiting"
        PROVE  check' # None /\ waited'[c] + check'.left <= Timeout
    <3>1. check # None /\ waited[c] + check.left <= Timeout /\ waited[c] \in 0..LongAgo
      BY <2>1, <1>a DEF Patient, ReadinessTypeOK
    <3> QED BY <3>1, <2>1, <1>3, <1>6, <1>a DEF LongAgo
  <2>2. ASSUME NEW c \in Caller, asking[c] = "idle" PROVE waited'[c] = 0
    BY <2>2, <1>6
  <2> QED BY <2>1, <2>2, <1>1 DEF Patient
<1>12. ReadyIsRecent'
  BY <1>1 DEF ReadyIsRecent
<1> QED BY <1>8, <1>9, <1>10, <1>11, <1>12 DEF ReadinessInv

(* Every step keeps the invariant and makes nobody ready after disconnect.   *)
LEMMA ReadinessStep ==
  ASSUME ReadinessInv, ReadinessAssumption, [ReadinessNext]_readinessVars
  PROVE  ReadinessInv' /\ (StaysUnready \/ UNCHANGED readinessVars)
<1>1. CASE UNCHANGED readinessVars
  BY <1>1 DEF readinessVars, ReadinessInv, ReadinessTypeOK, Aged, Fresh, Patient, ReadyIsRecent, Outstanding
<1> QED BY <1>1, AsksKeep, QueriesKeep, EndsKeep, TimeKeeps DEF ReadinessNext

(* The checks of readiness keep their times.                                 *)
THEOREM ReadinessInvariant ==
  ASSUME ReadinessAssumption
  PROVE  ReadinessSpec => []ReadinessInv
<1>1. ASSUME ReadinessInit PROVE ReadinessInv
  <2>1. ReadinessTypeOK
    <3>1. /\ probes \in [Query -> Probes \cup {None}]
          /\ asking \in [Caller -> {"idle", "waiting", "ready", "notReady"}]
          /\ waited \in [Caller -> 0..LongAgo]
      BY <1>1 DEF ReadinessInit, ReadinessAssumption, LongAgo
    <3>2. /\ database \in {"up", "behind", "slow", "down"} /\ closed \in BOOLEAN
          /\ cacheLeft = 0 /\ check = None /\ CacheFor \in Nat
      BY <1>1 DEF ReadinessInit, ReadinessAssumption
    <3>3. unhealthy \in 0..LongAgo
      <4>1. unhealthy = 0 \/ unhealthy = LongAgo
        BY <1>1 DEF ReadinessInit
      <4> QED BY <4>1 DEF ReadinessAssumption, LongAgo
    <3> QED BY <3>1, <3>2, <3>3 DEF ReadinessTypeOK
  <2>2. Aged /\ Fresh /\ Patient /\ ReadyIsRecent
    BY <1>1 DEF ReadinessInit, Aged, Fresh, Patient, ReadyIsRecent, Outstanding
  <2> QED BY <2>1, <2>2 DEF ReadinessInv
<1>2. ReadinessInv /\ [ReadinessNext]_readinessVars => ReadinessInv'
  BY ReadinessStep
<1> QED BY <1>1, <1>2, PTL DEF ReadinessSpec

(* Whoever is told ready can rely on it, is answered within the time limit,  *)
(* and a database that hangs is probed once per time limit.                  *)
THEOREM ReadinessIsSound ==
  ASSUME ReadinessAssumption
  PROVE  ReadinessSpec => []ReadinessSound
<1>1. ASSUME ReadinessInv PROVE ReadinessSound
  <2>1. ASSUME NEW c \in Waiting PROVE check # None /\ waited[c] <= Timeout
    <3>1. c \in Caller /\ check # None /\ waited[c] + check.left <= Timeout
      BY <1>1 DEF Waiting, ReadinessInv, Patient
    <3>2. check.left \in 0..Timeout /\ waited[c] \in 0..LongAgo
      BY <1>1, <3>1, CheckFields DEF ReadinessInv, ReadinessTypeOK
    <3> QED BY <3>1, <3>2 DEF LongAgo, ReadinessAssumption
  <2>2. ProbesSpread
    BY <1>1 DEF ReadinessInv, Aged, ProbesSpread
  <2> QED BY <1>1, <2>1, <2>2 DEF ReadinessInv, ReadinessSound, AnsweredInTime
<1> QED BY <1>1, ReadinessInvariant, PTL

(* Nobody is told ready once disconnect was called.                          *)
THEOREM NobodyReadyOnceClosed ==
  ASSUME ReadinessAssumption
  PROVE  ReadinessSpec => [][StaysUnready]_readinessVars
<1>1. ReadinessInv /\ [ReadinessNext]_readinessVars => [StaysUnready]_readinessVars
  BY ReadinessStep
<1> QED BY <1>1, ReadinessInvariant, PTL DEF ReadinessSpec

-----------------------------------------------------------------------------
(* A set of numbers that is not empty has a least.                           *)
LEMMA LeastNumber ==
  ASSUME NEW T \in SUBSET Nat, T # {} PROVE \E n \in T : \A m \in T : n <= m
<1> DEFINE R == {ss \in Nat \X Nat : ss[1] < ss[2]}
<1>1. IsWellFoundedOn(R, Nat)
  BY NatLessThanWellFounded DEF OpToRel
<1>2. PICK n \in T : \A m \in T : <<m, n>> \notin R
  BY <1>1, WFMin
<1>3. ASSUME NEW m \in T PROVE n <= m
  <2>1. m \in Nat /\ n \in Nat /\ ~(m < n)
    BY <1>2
  <2> QED BY <2>1
<1> QED BY <1>3

(* Times in order up to a time, and the one j before the last.               *)
InOrder(times, t) ==
  /\ times \in Seq(Nat)
  /\ \A i, j \in DOMAIN times : i <= j => times[i] <= times[j]
  /\ \A i \in DOMAIN times : times[i] <= t
Back(times, j) == times[Len(times) - j]

(* Times in order do not grow when read from the newest back.               *)
LEMMA InOrderBack ==
  ASSUME NEW t \in Nat, NEW times, InOrder(times, t)
  PROVE /\ times \in Seq(Nat) /\ Len(times) \in Nat
        /\ \A j \in Nat : j < Len(times) => Back(times, j) \in Nat /\ Back(times, j) <= t
        /\ \A i, j \in Nat : i <= j /\ j < Len(times) => Back(times, j) <= Back(times, i)
<1>1. times \in Seq(Nat) /\ Len(times) \in Nat /\ DOMAIN times = 1..Len(times)
  BY DEF InOrder
<1>2. \A j \in Nat : j < Len(times) => Len(times) - j \in DOMAIN times
  BY <1>1
<1>3. \A i, j \in Nat : i <= j => Len(times) - j <= Len(times) - i
  BY <1>1
<1>4. ASSUME NEW j \in Nat, j < Len(times) PROVE Back(times, j) \in Nat /\ Back(times, j) <= t
  <2>1. Len(times) - j \in DOMAIN times
    BY <1>2, <1>4
  <2>2. \A i \in DOMAIN times : times[i] \in Nat /\ times[i] <= t
    BY <1>1 DEF InOrder
  <2> QED BY <2>1, <2>2 DEF Back
<1>5. ASSUME NEW i \in Nat, NEW j \in Nat, i <= j, j < Len(times) PROVE Back(times, j) <= Back(times, i)
  <2>1. i < Len(times) /\ Len(times) - j <= Len(times) - i
    BY <1>1, <1>5
  <2>2. Len(times) - i \in DOMAIN times /\ Len(times) - j \in DOMAIN times
    BY <1>2, <1>5, <2>1
  <2> QED BY <2>1, <2>2 DEF InOrder, Back
<1> QED BY <1>1, <1>4, <1>5

(* Times that do not grow when read from the newest back are in order.      *)
LEMMA InOrderIf ==
  ASSUME NEW t \in Nat, NEW times \in Seq(Nat),
         \A j \in Nat : j < Len(times) => Back(times, j) <= t,
         \A i, j \in Nat : i <= j /\ j < Len(times) => Back(times, j) <= Back(times, i)
  PROVE InOrder(times, t)
<1>1. Len(times) \in Nat /\ DOMAIN times = 1..Len(times)
  OBVIOUS
<1>2. ASSUME NEW i \in DOMAIN times
      PROVE Len(times) - i \in Nat /\ Len(times) - i < Len(times) /\ Back(times, Len(times) - i) = times[i]
  <2>1. Len(times) - (Len(times) - i) = i
    BY <1>1
  <2> QED BY <1>1, <2>1 DEF Back
<1>3. \A i \in DOMAIN times : times[i] <= t
  BY <1>2
<1>4. ASSUME NEW i \in DOMAIN times, NEW j \in DOMAIN times, i <= j PROVE times[i] <= times[j]
  <2>1. Len(times) - j <= Len(times) - i
    BY <1>1, <1>4
  <2> QED BY <1>2, <2>1
<1> QED BY <1>3, <1>4 DEF InOrder

(* Of times in order, the window's are the last.                             *)
LEMMA RecentGives ==
  ASSUME AlertAssumption, now \in Nat, NEW o, InOrder(o, now), NEW r, r = Recent(o)
  PROVE /\ r \in Seq(Nat) /\ Len(r) \in Nat /\ Len(o) \in Nat /\ Len(r) <= Len(o)
        /\ \A j \in Nat : j < Len(r) => Back(r, j) = Back(o, j) /\ Back(o, j) > now - Window
        /\ \A j \in Nat : j < Len(o) /\ Back(o, j) > now - Window => j < Len(r)
<1>1. o \in Seq(Nat) /\ Len(o) \in Nat /\ DOMAIN o = 1..Len(o) /\ Window \in Nat
  BY DEF InOrder, AlertAssumption
<1> DEFINE T == {i \in DOMAIN o : o[i] > now - Window}
<1>2. \E i \in 1..Len(o) + 1 : \A j \in DOMAIN o : j >= i <=> o[j] > now - Window
  <2>1. CASE T = {}
    <3>1. Len(o) + 1 \in 1..Len(o) + 1 /\ \A j \in DOMAIN o : j >= Len(o) + 1 <=> o[j] > now - Window
      BY <1>1, <2>1
    <3> QED BY <3>1
  <2>2. CASE T # {}
    <3>1. PICK i \in T : \A j \in T : i <= j
      <4>1. T \in SUBSET Nat
        BY <1>1
      <4> HIDE DEF T
      <4> QED BY <2>2, <4>1, LeastNumber
    <3>2. i \in 1..Len(o) + 1 /\ o[i] > now - Window
      BY <1>1, <3>1
    <3>3. ASSUME NEW j \in DOMAIN o PROVE j >= i <=> o[j] > now - Window
      <4>1. o[j] > now - Window => j >= i
        BY <3>1
      <4>2. j >= i => o[i] <= o[j]
        BY <1>1, <3>1 DEF InOrder
      <4> QED BY <1>1, <3>2, <4>1, <4>2
    <3> QED BY <3>2, <3>3
  <2> QED BY <2>1, <2>2
<1>3. PICK i \in 1..Len(o) + 1 : /\ i = First(o)
                                 /\ \A j \in DOMAIN o : j >= i <=> o[j] > now - Window
  BY <1>2 DEF First
<1>4. i \in Nat /\ i >= 1 /\ i <= Len(o) + 1
  BY <1>1
<1>5. /\ r \in Seq(Nat) /\ Len(r) = Len(o) - i + 1
      /\ \A k \in 1..Len(o) - i + 1 : r[k] = o[i + k - 1]
  <2>1. r = SubSeq(o, i, Len(o))
    BY <1>3 DEF Recent
  <2>2. \A k \in i..Len(o) : o[k] \in Nat
    BY <1>1
  <2>3. i \in Int /\ Len(o) \in Int
    BY <1>1
  <2>4. /\ SubSeq(o, i, Len(o)) \in Seq(Nat)
        /\ Len(SubSeq(o, i, Len(o))) = IF i <= Len(o) THEN Len(o) - i + 1 ELSE 0
        /\ \A k \in 1..Len(o) - i + 1 : SubSeq(o, i, Len(o))[k] = o[i + k - 1]
    BY <2>2, <2>3, SubSeqProperties
  <2> QED BY <1>1, <2>1, <2>4
<1>6. ASSUME NEW j \in Nat, j < Len(r)
      PROVE Back(r, j) = Back(o, j) /\ Back(o, j) > now - Window
  <2>1. /\ Len(o) - j \in 1..Len(o) /\ Len(o) - j >= i /\ Len(r) - j \in 1..Len(o) - i + 1
        /\ i + (Len(r) - j) - 1 = Len(o) - j
    <3>1. Len(r) = Len(o) - i + 1
      BY <1>5
    <3> QED BY <1>1, <1>4, <1>6, <3>1
  <2>2. r[Len(r) - j] = o[Len(o) - j]
    BY <1>5, <2>1
  <2> QED BY <1>1, <1>3, <2>1, <2>2 DEF Back
<1>7. ASSUME NEW j \in Nat, j < Len(o), Back(o, j) > now - Window PROVE j < Len(r)
  <2>1. Len(o) - j \in DOMAIN o
    BY <1>1, <1>7
  <2>2. Len(o) - j >= i
    BY <1>3, <1>7, <2>1 DEF Back
  <2> QED BY <1>1, <1>4, <1>5, <2>2
<1> QED BY <1>1, <1>4, <1>5, <1>6, <1>7

(* The places from the newest of a sequence that grew by one.                *)
LEMMA OneFurther ==
  ASSUME NEW n \in Nat, NEW m \in Nat, NEW j \in Nat, m = n + 1, j >= 1, j < m
  PROVE  j - 1 \in Nat /\ j - 1 < n /\ m - j = n - (j - 1) /\ m - j \in 1..n
OBVIOUS

(* An event is counted: it is the last time that is kept, and before it are  *)
(* the last of those of the window, as many as the threshold allows.         *)
LEMMA PushGives ==
  ASSUME AlertAssumption, now \in Nat, NEW s \in AlertSignal, InOrder(observations[s], now),
         NEW o, o = observations[s], NEW p, p = Push(s), Len(o) <= Threshold[s]
  PROVE /\ InOrder(p, now) /\ p \in Seq(Nat) /\ Len(p) \in Nat /\ 1 <= Len(p) /\ Len(p) <= Threshold[s]
        /\ Back(p, 0) = now /\ Len(p) <= Len(o) + 1
        /\ \A j \in Nat : j < Len(p) => Back(p, j) > now - Window
        /\ \A j \in Nat : j >= 1 /\ j < Len(p) => Back(p, j) = Back(o, j - 1)
        /\ \A j \in Nat : j >= 1 /\ j < Threshold[s] /\ j - 1 < Len(o) /\ Back(o, j - 1) > now - Window
                          => j < Len(p)
<1> DEFINE r == Recent(o)
           k == IF Len(r) >= Threshold[s] THEN Tail(r) ELSE r
<1>1. p = Append(k, now) /\ Threshold[s] \in Nat /\ Threshold[s] >= 1 /\ Window \in Nat /\ Window >= 1
  BY DEF Push, AlertAssumption, AlertSignal
<1>2. /\ r \in Seq(Nat) /\ Len(r) \in Nat /\ Len(o) \in Nat /\ Len(r) <= Len(o)
      /\ \A j \in Nat : j < Len(r) => Back(r, j) = Back(o, j) /\ Back(o, j) > now - Window
      /\ \A j \in Nat : j < Len(o) /\ Back(o, j) > now - Window => j < Len(r)
  BY RecentGives
<1> HIDE DEF r
<1>3. /\ k \in Seq(Nat) /\ Len(k) \in Nat /\ Len(k) <= Len(r) /\ Len(k) < Threshold[s]
      /\ Len(r) < Threshold[s] => Len(k) = Len(r)
      /\ Len(r) >= Threshold[s] => Len(k) = Threshold[s] - 1
      /\ \A j \in Nat : j < Len(k) => Back(k, j) = Back(r, j)
  <2>a. Len(r) < Threshold[s] \/ Len(r) >= Threshold[s]
    BY <1>1, <1>2
  <2>1. CASE Len(r) < Threshold[s]
    BY <1>1, <1>2, <2>1
  <2>2. CASE Len(r) >= Threshold[s]
    <3>1. k = Tail(r) /\ r # <<>> /\ Len(r) = Threshold[s]
      BY <1>1, <1>2, <2>2
    <3>2. /\ k \in Seq(Nat) /\ Len(k) = Len(r) - 1
          /\ \A i \in 1..Len(k) : k[i] = r[i + 1]
      BY <1>2, <3>1, HeadTailProperties
    <3>3. \A j \in Nat : j < Len(k) => Len(k) - j \in 1..Len(k) /\ (Len(k) - j) + 1 = Len(r) - j
      BY <1>2, <3>2
    <3>4. \A j \in Nat : j < Len(k) => Back(k, j) = Back(r, j)
      BY <3>2, <3>3 DEF Back
    <3> QED BY <1>1, <1>2, <2>2, <3>1, <3>2, <3>4
  <2> QED BY <2>a, <2>1, <2>2
<1> HIDE DEF k
<1>4. p \in Seq(Nat) /\ Len(p) = Len(k) + 1 /\ Back(p, 0) = now
  BY <1>1, <1>3 DEF Back
<1>5. \A j \in Nat : j >= 1 /\ j < Len(p) =>
        Back(p, j) = Back(o, j - 1) /\ Back(o, j - 1) > now - Window /\ j - 1 < Len(o)
  <2>1. ASSUME NEW j \in Nat, j >= 1, j < Len(p)
        PROVE Back(p, j) = Back(o, j - 1) /\ Back(o, j - 1) > now - Window /\ j - 1 < Len(o)
    <3>1. j - 1 \in Nat /\ j - 1 < Len(k) /\ Len(p) - j = Len(k) - (j - 1) /\ Len(p) - j \in 1..Len(k)
      <4>1. Len(k) \in Nat /\ Len(p) \in Nat /\ Len(p) = Len(k) + 1
        BY <1>3, <1>4
      <4> QED BY <2>1, <4>1, OneFurther
    <3>2. Back(p, j) = Back(k, j - 1)
      BY <1>1, <1>3, <3>1 DEF Back
    <3>3. Back(k, j - 1) = Back(r, j - 1) /\ j - 1 < Len(r)
      BY <1>2, <1>3, <3>1
    <3>4. Back(r, j - 1) = Back(o, j - 1) /\ Back(o, j - 1) > now - Window
      BY <1>2, <3>1, <3>3
    <3>5. j - 1 < Len(o)
      BY <1>2, <3>1, <3>3
    <3> QED BY <3>2, <3>3, <3>4, <3>5
  <2> QED BY <2>1
<1>6. \A j \in Nat : j < Len(p) => Back(p, j) > now - Window
  <2>1. now > now - Window
    BY <1>1
  <2>2. ASSUME NEW j \in Nat, j < Len(p) PROVE Back(p, j) > now - Window
    <3>1. CASE j = 0
      BY <1>4, <2>1, <3>1
    <3>2. CASE j >= 1
      BY <1>5, <2>2, <3>2
    <3> QED BY <3>1, <3>2
  <2> QED BY <2>2
<1>7. \A j \in Nat : j >= 1 /\ j < Threshold[s] /\ j - 1 < Len(o) /\ Back(o, j - 1) > now - Window
        => j < Len(p)
  <2>1. ASSUME NEW j \in Nat, j >= 1, j < Threshold[s], j - 1 < Len(o), Back(o, j - 1) > now - Window
        PROVE j < Len(p)
    <3>1. j - 1 \in Nat /\ j - 1 < Len(r)
      BY <1>2, <2>1
    <3>2. /\ Len(p) = Len(k) + 1
          /\ Len(r) < Threshold[s] => Len(k) = Len(r)
          /\ Len(r) >= Threshold[s] => Len(k) = Threshold[s] - 1
      BY <1>3, <1>4
    <3>3. CASE Len(r) < Threshold[s]
      <4>1. Len(p) = Len(r) + 1 /\ Len(r) \in Nat
        BY <1>2, <3>2, <3>3
      <4> QED BY <3>1, <4>1
    <3>4. CASE Len(r) >= Threshold[s]
      <4>1. Len(p) = Threshold[s]
        BY <1>1, <3>2, <3>4
      <4> QED BY <2>1, <4>1
    <3>5. Len(r) < Threshold[s] \/ Len(r) >= Threshold[s]
      BY <1>1, <1>2
    <3> QED BY <3>3, <3>4, <3>5
  <2> QED BY <2>1
<1>8. InOrder(p, now)
  <2>1. /\ \A j \in Nat : j < Len(o) => Back(o, j) \in Nat /\ Back(o, j) <= now
        /\ \A i, j \in Nat : i <= j /\ j < Len(o) => Back(o, j) <= Back(o, i)
    BY InOrderBack
  <2>2. ASSUME NEW j \in Nat, j < Len(p) PROVE Back(p, j) <= now
    <3>1. CASE j = 0
      BY <1>4, <3>1
    <3>2. CASE j >= 1
      BY <1>5, <2>1, <2>2, <3>2
    <3> QED BY <3>1, <3>2
  <2>3. ASSUME NEW i \in Nat, NEW j \in Nat, i <= j, j < Len(p) PROVE Back(p, j) <= Back(p, i)
    <3>1. CASE i = 0
      BY <1>4, <2>2, <2>3, <3>1
    <3>2. CASE i >= 1
      <4>1. i - 1 \in Nat /\ j - 1 \in Nat /\ i - 1 <= j - 1 /\ i < Len(p) /\ j >= 1
        BY <1>3, <1>4, <2>3, <3>2
      <4> QED BY <1>5, <2>1, <2>3, <3>2, <4>1
    <3> QED BY <3>1, <3>2
  <2> QED BY <1>4, <2>2, <2>3, InOrderIf
<1>9. 1 <= Len(p) /\ Len(p) <= Threshold[s] /\ Len(p) <= Len(o) + 1 /\ Len(p) \in Nat
  BY <1>1, <1>2, <1>3, <1>4
<1> QED BY <1>4, <1>5, <1>6, <1>7, <1>8, <1>9

-----------------------------------------------------------------------------
(* One sequence of times is behind another, the last of it by the last but d *)
(* of the other; of times seen, all of the window but the last d are kept.   *)
Behind(o, h, d) ==
  \A j \in 0..Len(o) - 1 : j + d < Len(h) /\ Back(o, j) <= Back(h, j + d)
Retaining(o, w, d, n, t) ==
  \A j \in d..Len(w) - 1 :
    j < n /\ Back(w, j) > t - Window => j - d < Len(o) /\ Back(o, j - d) >= Back(w, j)

(* A failure of the pipeline that happened and is not counted yet.           *)
Reporting(s) == report /\ s = "telemetryFailures"
Late(s) == IF Reporting(s) THEN 1 ELSE 0

AlertsTyped ==
  /\ now \in Nat /\ (beat = Never \/ beat \in Nat) /\ (lost = Never \/ (lost \in Nat /\ lost <= now))
  /\ DOMAIN observations = AlertSignal /\ DOMAIN happened = AlertSignal
  /\ DOMAIN seen = AlertSignal /\ DOMAIN told = AlertSignal
  /\ report \in BOOLEAN /\ degraded \in BOOLEAN /\ (report => degraded)
  /\ \A s \in activeSignals : s \in AlertSignal /\ observations[s] # <<>>
SignalTyped(s) ==
  /\ InOrder(observations[s], now) /\ Len(observations[s]) <= Threshold[s]
  /\ InOrder(happened[s], now) /\ InOrder(seen[s], now)
  /\ s \in activeSignals <=> told[s] = "FIRING"
(* The heartbeat resolved what it could.                                     *)
BeatSound ==
  IF beat = Never THEN now = 0
  ELSE /\ beat <= now /\ now <= beat + Interval
       /\ \A s \in activeSignals : Back(observations[s], 0) > beat - Window \/ lost >= beat
ReportSound == report => Inactive = {} \/ lost = now
(* What is counted happened, and what happened was counted or an alert lost. *)
HappenedSound(s) ==
  /\ Behind(observations[s], happened[s], Late(s))
  /\ Reporting(s) => happened[s] # <<>> /\ Back(happened[s], 0) = now
CountedSound(s) ==
  \/ Reporting(s) \/ happened[s] = <<>> \/ lost >= Back(happened[s], 0)
  \/ observations[s] # <<>> /\ Back(observations[s], 0) >= Back(happened[s], 0)
(* What was seen is kept and told, but for a failure that is to be reported. *)
SurgeHeld(s) ==
  /\ seen[s] # <<>> /\ now < Back(seen[s], 0) + Window /\ lost < Back(seen[s], 0)
  /\ Len(seen[s]) >= Threshold[s] /\ Back(seen[s], Threshold[s] - 1) > Back(seen[s], 0) - Window
  => s \in activeSignals
Owed(s) ==
  /\ Reporting(s) /\ Inactive = {}
  /\ seen[s] # <<>> /\ Back(seen[s], 0) = now
  /\ Retaining(observations[s], seen[s], 1, Threshold[s], now)
SeenSound(s) ==
  Owed(s) \/ (Retaining(observations[s], seen[s], 0, Threshold[s], now) /\ SurgeHeld(s))
SignalSound(s) == SignalTyped(s) /\ HappenedSound(s) /\ CountedSound(s) /\ SeenSound(s)
AlertsInv == AlertsTyped /\ BeatSound /\ ReportSound /\ \A s \in AlertSignal : SignalSound(s)

-----------------------------------------------------------------------------
(* What PushGives says of the times kept before and after an event.          *)
PushOf(o, p, n, t) ==
  /\ InOrder(p, t) /\ Len(p) \in Nat /\ 1 <= Len(p) /\ Len(p) <= n
  /\ Back(p, 0) = t /\ Len(p) <= Len(o) + 1
  /\ \A j \in Nat : j >= 1 /\ j < Len(p) => Back(p, j) = Back(o, j - 1)
  /\ \A j \in Nat : j >= 1 /\ j < n /\ j - 1 < Len(o) /\ Back(o, j - 1) > t - Window => j < Len(p)

(* A time appended is the last, and the others are one further back.         *)
LEMMA AppendBack ==
  ASSUME NEW t \in Nat, NEW h, InOrder(h, t)
  PROVE /\ InOrder(Append(h, t), t) /\ Len(Append(h, t)) = Len(h) + 1 /\ Len(h) \in Nat
        /\ Append(h, t) # <<>> /\ Back(Append(h, t), 0) = t
        /\ \A j \in Nat : j < Len(h) => Back(Append(h, t), j + 1) = Back(h, j)
        /\ \A j \in Nat : j >= 1 /\ j < Len(Append(h, t)) => Back(Append(h, t), j) = Back(h, j - 1)
<1> DEFINE g == Append(h, t)
<1>1. h \in Seq(Nat) /\ Len(h) \in Nat /\ DOMAIN h = 1..Len(h)
  BY DEF InOrder
<1>2. /\ g \in Seq(Nat) /\ Len(g) = Len(h) + 1 /\ DOMAIN g = 1..Len(h) + 1
      /\ g[Len(h) + 1] = t /\ \A i \in 1..Len(h) : g[i] = h[i]
  BY <1>1, AppendProperties
<1> HIDE DEF g
<1>3. Back(g, 0) = t /\ g # <<>>
  BY <1>1, <1>2 DEF Back
<1>4. ASSUME NEW j \in Nat, j < Len(h) PROVE Back(g, j + 1) = Back(h, j)
  <2>1. Len(g) - (j + 1) = Len(h) - j /\ Len(h) - j \in 1..Len(h)
    BY <1>1, <1>2, <1>4
  <2> QED BY <1>2, <2>1 DEF Back
<1>5. ASSUME NEW j \in Nat, j >= 1, j < Len(g) PROVE Back(g, j) = Back(h, j - 1)
  <2>1. j - 1 \in Nat /\ j - 1 < Len(h) /\ (j - 1) + 1 = j
    BY <1>1, <1>2, <1>5
  <2> QED BY <1>4, <2>1
<1>6. InOrder(g, t)
  <2>0. \A i \in 1..Len(h) : h[i] \in Nat /\ h[i] <= t
    BY <1>1 DEF InOrder
  <2>1. \A i \in 1..Len(h) : h[i] <= t /\ g[i] = h[i] /\ g[i] \in Nat
    BY <1>2, <2>0
  <2>2. \A i \in 1..Len(g) : i \in 1..Len(h) \/ i = Len(h) + 1
    BY <1>1, <1>2
  <2>3. \A i \in 1..Len(g) : g[i] <= t
    BY <1>2, <2>1, <2>2
  <2>4. ASSUME NEW i \in 1..Len(g), NEW j \in 1..Len(g), i <= j PROVE g[i] <= g[j]
    <3>1. CASE j = Len(h) + 1
      BY <1>2, <2>3, <3>1
    <3>2. CASE j \in 1..Len(h)
      <4>1. i \in 1..Len(h)
        BY <1>1, <2>4, <3>2
      <4>2. h[i] <= h[j]
        BY <1>1, <2>4, <3>2, <4>1 DEF InOrder
      <4> QED BY <2>1, <3>2, <4>1, <4>2
    <3> QED BY <2>2, <3>1, <3>2
  <2>5. DOMAIN g = 1..Len(g)
    BY <1>2
  <2> QED BY <1>2, <2>3, <2>4, <2>5 DEF InOrder
<1> QED BY <1>1, <1>2, <1>3, <1>4, <1>5, <1>6 DEF g

(* Times in order stay so as time goes by.                                   *)
LEMMA InOrderLater ==
  ASSUME NEW t \in Nat, NEW u \in Nat, t <= u, NEW h, InOrder(h, t) PROVE InOrder(h, u)
<1>1. h \in Seq(Nat) /\ \A i \in DOMAIN h : h[i] \in Nat /\ h[i] <= t
  BY DEF InOrder
<1>2. \A i \in DOMAIN h : h[i] <= u
  BY <1>1
<1> QED BY <1>2 DEF InOrder

(* The times kept stay behind those that happened: when an event happens and *)
(* is counted, or not counted, and when a failure that happened is counted.  *)
LEMMA BehindPushed ==
  ASSUME NEW t \in Nat, NEW n \in Nat, NEW o, NEW p, NEW h, InOrder(o, t), InOrder(h, t),
         PushOf(o, p, n, t), Behind(o, h, 0)
  PROVE Behind(p, Append(h, t), 0)
<1> DEFINE g == Append(h, t)
<1>1. /\ Len(g) = Len(h) + 1 /\ Len(h) \in Nat /\ Back(g, 0) = t
      /\ \A j \in Nat : j < Len(h) => Back(g, j + 1) = Back(h, j)
  BY AppendBack
<1> HIDE DEF g
<1>2. Len(o) \in Nat
  BY InOrderBack
<1>3. ASSUME NEW j \in 0..Len(p) - 1 PROVE j + 0 < Len(g) /\ Back(p, j) <= Back(g, j + 0)
  <2>1. CASE j = 0
    BY <1>1, <2>1 DEF PushOf
  <2>2. CASE j # 0
    <3>1. j \in Nat /\ j >= 1 /\ j < Len(p) /\ j - 1 \in 0..Len(o) - 1
      BY <1>2, <2>2 DEF PushOf
    <3>2. j - 1 < Len(h) /\ Back(o, j - 1) <= Back(h, j - 1) /\ j - 1 \in Nat
      BY <3>1 DEF Behind
    <3>3. Back(g, j) = Back(h, j - 1) /\ Back(p, j) = Back(o, j - 1)
      BY <1>1, <3>1, <3>2 DEF PushOf
    <3> QED BY <1>1, <3>1, <3>2, <3>3
  <2> QED BY <2>1, <2>2
<1> QED BY <1>3 DEF Behind, g
(* As BehindPushed, for the report of a failure that happened.               *)
LEMMA BehindReported ==
  ASSUME NEW t \in Nat, NEW n \in Nat, NEW o, NEW p, NEW h, InOrder(o, t), InOrder(h, t),
         PushOf(o, p, n, t), Behind(o, h, 1), h # <<>>, Back(h, 0) = t
  PROVE Behind(p, h, 0)
<1>1. Len(o) \in Nat /\ Len(h) \in Nat /\ Len(h) > 0
  BY InOrderBack DEF InOrder
<1>2. ASSUME NEW j \in 0..Len(p) - 1 PROVE j + 0 < Len(h) /\ Back(p, j) <= Back(h, j + 0)
  <2>1. CASE j = 0
    BY <1>1, <2>1 DEF PushOf
  <2>2. CASE j # 0
    <3>1. j \in Nat /\ j >= 1 /\ j < Len(p) /\ j - 1 \in 0..Len(o) - 1 /\ (j - 1) + 1 = j /\ j + 0 = j
      BY <1>1, <2>2 DEF PushOf
    <3>2. j < Len(h) /\ Back(o, j - 1) <= Back(h, j)
      BY <3>1 DEF Behind
    <3>3. Back(p, j) = Back(o, j - 1)
      BY <3>1 DEF PushOf
    <3> QED BY <3>1, <3>2, <3>3
  <2> QED BY <2>1, <2>2
<1> QED BY <1>2 DEF Behind
(* As BehindPushed, for an event that is not counted.                        *)
LEMMA BehindGrown ==
  ASSUME NEW t \in Nat, NEW o, NEW h, InOrder(o, t), InOrder(h, t), Behind(o, h, 0)
  PROVE Behind(o, Append(h, t), 0) /\ Behind(o, Append(h, t), 1)
<1> DEFINE g == Append(h, t)
<1>1. /\ Len(g) = Len(h) + 1 /\ Len(h) \in Nat /\ InOrder(g, t)
      /\ \A j \in Nat : j < Len(h) => Back(g, j + 1) = Back(h, j)
  BY AppendBack
<1> HIDE DEF g
<1>2. /\ Len(o) \in Nat /\ \A j \in Nat : j < Len(o) => Back(o, j) \in Nat
  BY InOrderBack
<1>3. /\ \A j \in Nat : j < Len(g) => Back(g, j) \in Nat
      /\ \A i, j \in Nat : i <= j /\ j < Len(g) => Back(g, j) <= Back(g, i)
  BY <1>1, InOrderBack
<1>4. ASSUME NEW j \in 0..Len(o) - 1
      PROVE /\ j + 0 < Len(g) /\ Back(o, j) <= Back(g, j + 0)
            /\ j + 1 < Len(g) /\ Back(o, j) <= Back(g, j + 1)
  <2>1. j \in Nat /\ j < Len(o) /\ j + 0 = j /\ j + 1 \in Nat /\ j <= j + 1
    BY <1>2
  <2>2. j < Len(h) /\ Back(o, j) <= Back(h, j)
    BY <2>1 DEF Behind
  <2>3. Back(g, j + 1) = Back(h, j) /\ j + 1 < Len(g) /\ j < Len(g)
    BY <1>1, <2>1, <2>2
  <2>4. Back(g, j + 1) <= Back(g, j) /\ Back(g, j + 1) \in Nat /\ Back(g, j) \in Nat /\ Back(o, j) \in Nat
    BY <1>2, <1>3, <2>1, <2>3
  <2> QED BY <2>1, <2>2, <2>3, <2>4
<1> QED BY <1>4 DEF Behind, g
(* As BehindPushed, for a failure whose report is not counted.               *)
LEMMA BehindLess ==
  ASSUME NEW t \in Nat, NEW o, NEW h, InOrder(o, t), InOrder(h, t), Behind(o, h, 1)
  PROVE Behind(o, h, 0)
<1>1. /\ Len(o) \in Nat /\ Len(h) \in Nat /\ \A j \in Nat : j < Len(o) => Back(o, j) \in Nat
      /\ \A j \in Nat : j < Len(h) => Back(h, j) \in Nat
      /\ \A i, j \in Nat : i <= j /\ j < Len(h) => Back(h, j) <= Back(h, i)
  BY InOrderBack
<1>2. ASSUME NEW j \in 0..Len(o) - 1 PROVE j + 0 < Len(h) /\ Back(o, j) <= Back(h, j + 0)
  <2>1. j \in Nat /\ j < Len(o) /\ j + 0 = j /\ j + 1 \in Nat /\ j <= j + 1
    BY <1>1
  <2>2. j + 1 < Len(h) /\ Back(o, j) <= Back(h, j + 1)
    BY <2>1 DEF Behind
  <2>3. j < Len(h) /\ Back(h, j + 1) <= Back(h, j) /\ Back(h, j + 1) \in Nat /\ Back(h, j) \in Nat
        /\ Back(o, j) \in Nat
    BY <1>1, <2>1, <2>2
  <2> QED BY <2>1, <2>2, <2>3
<1> QED BY <1>2 DEF Behind

(* The times seen stay among those kept: when an event is seen and counted,  *)
(* counted but not seen, or a failure of the pipeline that was seen is.      *)
LEMMA RetainingSeen ==
  ASSUME AlertAssumption, NEW t \in Nat, NEW n \in Nat, NEW o, NEW p, NEW w, InOrder(o, t), InOrder(w, t),
         PushOf(o, p, n, t), Retaining(o, w, 0, n, t)
  PROVE Retaining(p, Append(w, t), 0, n, t)
<1> DEFINE g == Append(w, t)
<1>1. /\ Len(g) = Len(w) + 1 /\ Len(w) \in Nat /\ Back(g, 0) = t
      /\ \A j \in Nat : j >= 1 /\ j < Len(g) => Back(g, j) = Back(w, j - 1)
  BY AppendBack
<1> HIDE DEF g
<1>2. Len(o) \in Nat /\ Window \in Nat /\ \A j \in Nat : j < Len(o) => Back(o, j) \in Nat
  BY InOrderBack DEF AlertAssumption
<1>3. \A j \in Nat : j < Len(w) => Back(w, j) \in Nat
  BY InOrderBack
<1>4. ASSUME NEW j \in 0..Len(g) - 1, j < n, Back(g, j) > t - Window
      PROVE j - 0 < Len(p) /\ Back(p, j - 0) >= Back(g, j)
  <2>1. CASE j = 0
    BY <1>1, <2>1 DEF PushOf
  <2>2. CASE j # 0
    <3>1. j \in Nat /\ j >= 1 /\ j - 0 = j /\ j < Len(g) /\ j - 1 \in 0..Len(w) - 1 /\ j - 1 < n
          /\ (j - 1) - 0 = j - 1 /\ j - 1 \in Nat /\ j - 1 < Len(w)
      BY <1>1, <1>4, <2>2
    <3>2. Back(g, j) = Back(w, j - 1) /\ Back(w, j - 1) > t - Window /\ Back(w, j - 1) \in Nat
      BY <1>1, <1>3, <1>4, <3>1
    <3>3. j - 1 < Len(o) /\ Back(o, j - 1) >= Back(w, j - 1)
      BY <3>1, <3>2 DEF Retaining
    <3>4. Back(o, j - 1) > t - Window /\ Back(o, j - 1) \in Nat
      BY <1>2, <3>1, <3>2, <3>3
    <3>5. j < Len(p)
      BY <1>4, <3>1, <3>3, <3>4 DEF PushOf
    <3>6. Back(p, j) = Back(o, j - 1)
      BY <3>1, <3>5 DEF PushOf
    <3> QED BY <3>1, <3>2, <3>3, <3>5, <3>6
  <2> QED BY <2>1, <2>2
<1> QED BY <1>4 DEF Retaining, g
(* As RetainingSeen, for an event counted while the alert sink failed.         *)
LEMMA RetainingUnseen ==
  ASSUME AlertAssumption, NEW t \in Nat, NEW n \in Nat, NEW o, NEW p, NEW w, InOrder(o, t), InOrder(w, t),
         PushOf(o, p, n, t), Retaining(o, w, 0, n, t)
  PROVE Retaining(p, w, 0, n, t)
<1>1. /\ Len(o) \in Nat /\ Window \in Nat /\ \A j \in Nat : j < Len(o) => Back(o, j) \in Nat
      /\ \A i, j \in Nat : i <= j /\ j < Len(o) => Back(o, j) <= Back(o, i)
  BY InOrderBack DEF AlertAssumption
<1>2. Len(w) \in Nat /\ \A j \in Nat : j < Len(w) => Back(w, j) \in Nat /\ Back(w, j) <= t
  BY InOrderBack
<1>3. ASSUME NEW j \in 0..Len(w) - 1, j < n, Back(w, j) > t - Window
      PROVE j - 0 < Len(p) /\ Back(p, j - 0) >= Back(w, j)
  <2>1. j \in Nat /\ j < Len(w) /\ j - 0 = j /\ Back(w, j) \in Nat /\ Back(w, j) <= t
    BY <1>2, <1>3
  <2>2. CASE j = 0
    BY <2>1, <2>2 DEF PushOf
  <2>3. CASE j # 0
    <3>1. j < Len(o) /\ Back(o, j) >= Back(w, j)
      BY <1>3, <2>1 DEF Retaining
    <3>2. j - 1 \in Nat /\ j >= 1 /\ j - 1 <= j /\ j - 1 < Len(o)
      BY <1>1, <2>1, <2>3, <3>1
    <3>3. Back(o, j) <= Back(o, j - 1) /\ Back(o, j - 1) \in Nat /\ Back(o, j) \in Nat
      BY <1>1, <2>1, <3>1, <3>2
    <3>4. Back(o, j - 1) > t - Window /\ Back(o, j - 1) >= Back(w, j)
      BY <1>1, <1>3, <2>1, <3>1, <3>3
    <3>5. j < Len(p)
      BY <1>3, <2>1, <3>2, <3>4 DEF PushOf
    <3>6. Back(p, j) = Back(o, j - 1)
      BY <2>1, <3>2, <3>5 DEF PushOf
    <3> QED BY <2>1, <3>4, <3>5, <3>6
  <2> QED BY <2>2, <2>3
<1> QED BY <1>3 DEF Retaining
(* As RetainingSeen, for the report of a failure that was seen.                *)
LEMMA RetainingReported ==
  ASSUME AlertAssumption, NEW t \in Nat, NEW n \in Nat, NEW o, NEW p, NEW w, InOrder(o, t), InOrder(w, t),
         PushOf(o, p, n, t), Retaining(o, w, 1, n, t), Back(w, 0) = t
  PROVE Retaining(p, w, 0, n, t)
<1>1. Len(o) \in Nat /\ Window \in Nat /\ \A j \in Nat : j < Len(o) => Back(o, j) \in Nat
  BY InOrderBack DEF AlertAssumption
<1>2. Len(w) \in Nat /\ \A j \in Nat : j < Len(w) => Back(w, j) \in Nat /\ Back(w, j) <= t
  BY InOrderBack
<1>3. ASSUME NEW j \in 0..Len(w) - 1, j < n, Back(w, j) > t - Window
      PROVE j - 0 < Len(p) /\ Back(p, j - 0) >= Back(w, j)
  <2>1. j \in Nat /\ j < Len(w) /\ j - 0 = j /\ Back(w, j) \in Nat /\ Back(w, j) <= t
    BY <1>2, <1>3
  <2>2. CASE j = 0
    BY <2>1, <2>2 DEF PushOf
  <2>3. CASE j # 0
    <3>1. j - 1 \in Nat /\ j >= 1 /\ j \in 1..Len(w) - 1
      BY <1>2, <2>1, <2>3
    <3>2. j - 1 < Len(o) /\ Back(o, j - 1) >= Back(w, j)
      BY <1>3, <3>1 DEF Retaining
    <3>3. Back(o, j - 1) > t - Window /\ Back(o, j - 1) \in Nat
      BY <1>1, <1>3, <2>1, <3>1, <3>2
    <3>4. j < Len(p)
      BY <1>3, <2>1, <3>1, <3>2, <3>3 DEF PushOf
    <3>5. Back(p, j) = Back(o, j - 1)
      BY <2>1, <3>1, <3>4 DEF PushOf
    <3> QED BY <2>1, <3>2, <3>4, <3>5
  <2> QED BY <2>2, <2>3
<1> QED BY <1>3 DEF Retaining
(* As RetainingSeen, for a failure that is seen and not counted yet.           *)
LEMMA RetainingOwed ==
  ASSUME NEW t \in Nat, NEW n \in Nat, NEW o, NEW w, InOrder(o, t), InOrder(w, t), Retaining(o, w, 0, n, t)
  PROVE Retaining(o, Append(w, t), 1, n, t)
<1> DEFINE g == Append(w, t)
<1>1. /\ Len(g) = Len(w) + 1 /\ Len(w) \in Nat
      /\ \A j \in Nat : j >= 1 /\ j < Len(g) => Back(g, j) = Back(w, j - 1)
  BY AppendBack
<1> HIDE DEF g
<1>2. ASSUME NEW j \in 1..Len(g) - 1, j < n, Back(g, j) > t - Window
      PROVE j - 1 < Len(o) /\ Back(o, j - 1) >= Back(g, j)
  <2>1. j \in Nat /\ j >= 1 /\ j < Len(g) /\ j - 1 \in 0..Len(w) - 1 /\ j - 1 < n /\ (j - 1) - 0 = j - 1
    BY <1>1, <1>2
  <2>2. Back(g, j) = Back(w, j - 1)
    BY <1>1, <2>1
  <2>3. j - 1 < Len(o) /\ Back(o, j - 1) >= Back(w, j - 1)
    BY <1>2, <2>1, <2>2 DEF Retaining
  <2> QED BY <2>2, <2>3
<1> QED BY <1>2 DEF Retaining, g
(* As RetainingSeen, as time goes by.                                          *)
LEMMA RetainingLater ==
  ASSUME AlertAssumption, NEW t \in Nat, NEW u \in Nat, t <= u, NEW n \in Nat, NEW o, NEW w, NEW d \in 0..1,
         InOrder(w, t), Retaining(o, w, d, n, t)
  PROVE Retaining(o, w, d, n, u)
<1>1. Len(w) \in Nat /\ Window \in Nat /\ \A j \in Nat : j < Len(w) => Back(w, j) \in Nat
  BY InOrderBack DEF AlertAssumption
<1>2. ASSUME NEW j \in d..Len(w) - 1, j < n, Back(w, j) > u - Window
      PROVE j - d < Len(o) /\ Back(o, j - d) >= Back(w, j)
  <2>1. j \in Nat /\ j < Len(w)
    BY <1>1
  <2>2. Back(w, j) > t - Window
    BY <1>1, <1>2, <2>1
  <2> QED BY <1>2, <2>2 DEF Retaining
<1> QED BY <1>2 DEF Retaining

-----------------------------------------------------------------------------
(* The signals of an event are listed each once, telemetry's own only of its *)
(* failures; a heartbeat has none.                                           *)
LEMMA SignalsListed ==
  ASSUME AlertAssumption, NEW e
  PROVE /\ ToSet(signalsFor(e)) = SignalsOf(e) /\ SignalsOf(e) \subseteq AlertSignal
        /\ \E n \in Nat : signalsFor(e) \in [1..n -> AlertSignal]
<1>1. SignalsOf(e) \subseteq AlertSignal
  BY DEF SignalsOf
<1>2. IsFiniteSet(SignalsOf(e))
  BY <1>1, FS_Subset DEF AlertAssumption, AlertSignal
<1> DEFINE n == Cardinality(SignalsOf(e))
<1>3. n \in Nat /\ \E f \in [1..n -> SignalsOf(e)] : f \in Bijection(1..n, SignalsOf(e))
  BY <1>2, FS_CardinalityType DEF ExistsBijection, Bijection, Injection
<1>4. PICK f \in [1..n -> SignalsOf(e)] : f \in Bijection(1..n, SignalsOf(e))
  BY <1>3
<1>5. signalsFor(e) \in Injection(1..n, SignalsOf(e))
  BY <1>4 DEF signalsFor, SetToSeq, Bijection, Injection
<1> HIDE DEF n
<1>6. Cardinality(1..n) = n
  BY <1>3, FS_Interval
<1>7. Cardinality(1..n) = Cardinality(SignalsOf(e))
  BY <1>6 DEF n
<1>8. signalsFor(e) \in Surjection(1..n, SignalsOf(e))
  BY <1>2, <1>5, <1>7, FS_Injection
<1>9. signalsFor(e) \in [1..n -> SignalsOf(e)] /\ \A s \in SignalsOf(e) : \E i \in 1..n : signalsFor(e)[i] = s
  BY <1>8 DEF Surjection
<1>10. signalsFor(e) \in [1..n -> AlertSignal]
  BY <1>1, <1>9
<1>11. ToSet(signalsFor(e)) = SignalsOf(e)
  BY <1>9 DEF ToSet
<1> QED BY <1>1, <1>3, <1>10, <1>11

(* What observe does to a signal, of the signals of an event.                *)
Observed(s, signals, taken, up) ==
  /\ observations'[s] = (IF taken THEN Push(s) ELSE observations[s])
  /\ taken => s \in signals
  /\ up /\ s \in signals => taken
  /\ s \in signals /\ ~taken => lost' = now
  /\ s \in signals /\ Inactive = {} /\ (\A r \in signals : r = s) => taken
  /\ lost' \in {lost, now}
  /\ ~up /\ Inactive # {} => lost' = now
  /\ ~up /\ taken /\ Fires(s) => lost' = now
  /\ ~up => (s \in activeSignals' <=> s \in activeSignals) /\ told'[s] = told[s]
  /\ up /\ taken /\ (Fires(s) \/ (s \in Inactive /\ Threshold[s] = 1)) =>
       s \in activeSignals' /\ told'[s] = "FIRING"
  /\ up /\ ~(taken /\ (Fires(s) \/ (s \in Inactive /\ Threshold[s] = 1))) /\ s \in Inactive =>
       s \notin activeSignals' /\ told'[s] = "RESOLVED"
  /\ up /\ ~(taken /\ (Fires(s) \/ (s \in Inactive /\ Threshold[s] = 1))) /\ s \notin Inactive =>
       (s \in activeSignals' <=> s \in activeSignals) /\ told'[s] = told[s]

(* What observe leaves of each signal, and of the last report that was lost.*)
LEMMA ObserveGives ==
  ASSUME NEW n \in Nat, NEW signals \in [1..n -> AlertSignal], NEW up \in BOOLEAN, observe(signals, up),
         NEW s \in AlertSignal
  PROVE /\ \E taken \in BOOLEAN : Observed(s, ToSet(signals), taken, up)
        /\ lost' \in {lost, now} /\ (~up /\ Inactive # {} => lost' = now)
        /\ ~up /\ Due(signals) => lost' = now
<1> DEFINE counted == Counted(signals, up)
           taken == s \in counted
           fired == up /\ taken /\ (Fires(s) \/ (s \in Inactive /\ Threshold[s] = 1))
<1>1. /\ observations'[s] = (IF taken THEN Push(s) ELSE observations[s])
      /\ lost' = (IF ~up /\ Due(signals) THEN now ELSE lost)
  BY DEF observe
<1>2. /\ s \in activeSignals' <=> (s \in activeSignals /\ ~(up /\ s \in Inactive)) \/ fired
      /\ told'[s] = (IF fired THEN "FIRING" ELSE IF up /\ s \in Inactive THEN "RESOLVED" ELSE told[s])
  BY DEF observe
<1>3. counted \subseteq ToSet(signals) /\ (up => counted = ToSet(signals))
  BY DEF Counted, ToSet
<1>4. Inactive # {} => Due(signals)
  BY DEF Due
<1>5. ASSUME ~up, taken, Fires(s) PROVE lost' = now
  BY <1>1, <1>3, <1>5 DEF Due
<1>6. ASSUME s \in ToSet(signals), ~taken PROVE lost' = now
  <2>1. ~up
    BY <1>3, <1>6
  <2>2. CASE Inactive # {}
    BY <1>1, <1>4, <2>1, <2>2
  <2>3. CASE Inactive = {}
    <3>1. PICK i \in 1..n : signals[i] = s
      BY <1>6 DEF ToSet
    <3>2. \E j \in 1..i - 1 : Fires(signals[j])
      BY <1>6, <2>1, <2>3, <3>1 DEF Counted
    <3>3. \E r \in ToSet(signals) : Fires(r)
      BY <3>1, <3>2 DEF ToSet
    <3> QED BY <1>1, <2>1, <3>3 DEF Due
  <2> QED BY <2>2, <2>3
<1>7. ASSUME s \in ToSet(signals), Inactive = {}, \A r \in ToSet(signals) : r = s PROVE taken
  <2>1. PICK i \in 1..n : signals[i] = s
    BY <1>7 DEF ToSet
  <2>2. 1 \in 1..n /\ signals[1] = s
    BY <1>7, <2>1 DEF ToSet
  <2>3. ~up => taken
    BY <1>7, <2>2 DEF Counted
  <2> QED BY <1>3, <1>7, <2>3
<1> HIDE DEF counted
<1>8. Observed(s, ToSet(signals), taken, up)
  BY <1>1, <1>2, <1>3, <1>4, <1>5, <1>6, <1>7 DEF Observed
<1>9. taken \in BOOLEAN
  OBVIOUS
<1>10. lost' \in {lost, now} /\ (~up /\ Inactive # {} => lost' = now) /\ (~up /\ Due(signals) => lost' = now)
  BY <1>1, <1>4
<1> HIDE DEF taken
<1>11. \E x \in BOOLEAN : Observed(s, ToSet(signals), x, up)
  BY <1>8, <1>9, Zenon
<1> QED BY <1>10, <1>11

-----------------------------------------------------------------------------
(* What an event of a signal is counted to, and when an alert may end.       *)
LEMMA PushIs ==
  ASSUME AlertAssumption, AlertsTyped, NEW s \in AlertSignal, SignalTyped(s)
  PROVE /\ PushOf(observations[s], Push(s), Threshold[s], now) /\ InOrder(Push(s), now)
        /\ Threshold[s] \in Nat /\ Threshold[s] >= 1 /\ Window \in Nat /\ Window >= 1
        /\ Len(Push(s)) \in Nat /\ 1 <= Len(Push(s)) /\ Len(Push(s)) <= Threshold[s]
        /\ Push(s) # <<>> /\ Back(Push(s), 0) = now
        /\ Len(Push(s)) >= 2 => observations[s] # <<>> /\ Back(observations[s], 0) > now - Window
        /\ Fires(s) <=> Len(Push(s)) >= Threshold[s] /\ s \notin activeSignals
<1> DEFINE o == observations[s]
           p == Push(s)
<1>1. now \in Nat /\ InOrder(o, now) /\ Len(o) <= Threshold[s]
  BY DEF AlertsTyped, SignalTyped
<1>2. Threshold[s] \in Nat /\ Threshold[s] >= 1 /\ Window \in Nat /\ Window >= 1
  BY DEF AlertAssumption, AlertSignal
<1> HIDE DEF o, p
<1>3. /\ InOrder(p, now) /\ p \in Seq(Nat) /\ Len(p) \in Nat /\ 1 <= Len(p) /\ Len(p) <= Threshold[s]
      /\ Back(p, 0) = now /\ Len(p) <= Len(o) + 1
      /\ \A j \in Nat : j < Len(p) => Back(p, j) > now - Window
      /\ \A j \in Nat : j >= 1 /\ j < Len(p) => Back(p, j) = Back(o, j - 1)
      /\ \A j \in Nat : j >= 1 /\ j < Threshold[s] /\ j - 1 < Len(o) /\ Back(o, j - 1) > now - Window
                        => j < Len(p)
  BY <1>1, PushGives DEF o, p
<1>4. p # <<>>
  BY <1>3
<1>5. ASSUME Len(p) >= 2 PROVE o # <<>> /\ Back(o, 0) > now - Window
  <2>1. 1 \in Nat /\ 1 >= 1 /\ 1 < Len(p) /\ 1 - 1 = 0
    BY <1>3, <1>5
  <2>2. Back(p, 1) = Back(o, 0) /\ Back(p, 1) > now - Window
    BY <1>3, <2>1
  <2>3. Len(o) >= 1
    BY <1>1, <1>3, <2>1, InOrderBack
  <2>4. o # <<>>
    BY <2>3
  <2> QED BY <2>2, <2>4
<1>6. Fires(s) <=> Len(p) >= Threshold[s] /\ s \notin activeSignals
  BY DEF Fires, p
<1>7. PushOf(o, p, Threshold[s], now)
  BY <1>3 DEF PushOf
<1> QED BY <1>2, <1>3, <1>4, <1>5, <1>6, <1>7 DEF o, p
(* Of times in order, the window holds some if it holds the last.            *)
LEMMA RecentLast ==
  ASSUME AlertAssumption, now \in Nat, NEW o, InOrder(o, now)
  PROVE Recent(o) # <<>> <=> o # <<>> /\ Back(o, 0) > now - Window
<1> DEFINE r == Recent(o)
<1>1. /\ r \in Seq(Nat) /\ Len(r) \in Nat /\ Len(o) \in Nat /\ Len(r) <= Len(o) /\ o \in Seq(Nat)
      /\ \A j \in Nat : j < Len(r) => Back(r, j) = Back(o, j) /\ Back(o, j) > now - Window
      /\ \A j \in Nat : j < Len(o) /\ Back(o, j) > now - Window => j < Len(r)
  BY RecentGives DEF InOrder
<1> HIDE DEF r
<1>2. (r # <<>> <=> 0 < Len(r)) /\ (o # <<>> <=> 0 < Len(o))
  BY <1>1
<1>3. 0 \in Nat
  OBVIOUS
<1>4. r # <<>> => o # <<>> /\ Back(o, 0) > now - Window
  BY <1>1, <1>2, <1>3
<1>5. o # <<>> /\ Back(o, 0) > now - Window => r # <<>>
  BY <1>1, <1>2, <1>3
<1> QED BY <1>4, <1>5 DEF r

(* A surge that was seen is kept in full.                                    *)
LEMMA SurgeKept ==
  ASSUME NEW t \in Nat, NEW n \in Nat, n >= 1, NEW p, NEW w, InOrder(w, t), InOrder(p, t),
         Retaining(p, w, 0, n, t), Len(w) >= n, Back(w, n - 1) > t - Window
  PROVE Len(p) >= n
<1>1. Len(w) \in Nat /\ Len(p) \in Nat
  BY InOrderBack
<1>2. n - 1 \in 0..Len(w) - 1 /\ n - 1 < n /\ (n - 1) - 0 = n - 1
  BY <1>1
<1>3. n - 1 < Len(p)
  BY <1>2 DEF Retaining
<1> QED BY <1>1, <1>3
(* What was told of it stays told: the alert does not end while the last of  *)
(* what was seen is in the window.                                           *)
LEMMA SurgeStays ==
  ASSUME AlertAssumption, AlertsTyped, NEW s \in AlertSignal, SignalTyped(s), SurgeHeld(s),
         Retaining(observations[s], seen[s], 0, Threshold[s], now),
         now' = now, seen'[s] = seen[s], lost' \in {lost, now},
         s \in activeSignals /\ s \notin Inactive => s \in activeSignals'
  PROVE SurgeHeld(s)'
<1>1. now \in Nat /\ InOrder(seen[s], now) /\ InOrder(observations[s], now) /\ Threshold[s] \in Nat
      /\ Threshold[s] >= 1 /\ Window \in Nat
  BY DEF AlertsTyped, SignalTyped, AlertAssumption, AlertSignal
<1> DEFINE w == seen[s]
           o == observations[s]
<1>2. SUFFICES ASSUME w # <<>>, now < Back(w, 0) + Window, lost' < Back(w, 0), Len(w) >= Threshold[s],
                      Back(w, Threshold[s] - 1) > Back(w, 0) - Window
               PROVE s \in activeSignals'
  BY DEF SurgeHeld
<1>3. Len(w) \in Nat /\ Len(w) > 0 /\ Back(w, 0) \in Nat /\ Back(w, 0) <= now
  <2>1. w \in Seq(Nat) /\ Len(w) \in Nat /\ Len(w) > 0
    BY <1>1, <1>2 DEF InOrder
  <2> QED BY <1>1, <2>1, InOrderBack
<1>4. lost' = lost
  BY <1>1, <1>2, <1>3
<1>5. s \in activeSignals
  BY <1>2, <1>4 DEF SurgeHeld
<1>6. Back(w, 0) > now - Window /\ 0 \in 0..Len(w) - 1 /\ 0 < Threshold[s] /\ 0 - 0 = 0
  BY <1>1, <1>2, <1>3
<1>7. 0 < Len(o) /\ Back(o, 0) >= Back(w, 0)
  BY <1>6 DEF Retaining
<1>8. Len(o) \in Nat /\ Back(o, 0) \in Nat /\ o # <<>>
  <2>1. o \in Seq(Nat) /\ Len(o) \in Nat
    BY <1>1 DEF InOrder
  <2>2. Back(o, 0) \in Nat
    BY <1>1, <1>7, InOrderBack
  <2> QED BY <1>7, <2>1, <2>2
<1>9. Recent(o) # <<>>
  BY <1>1, <1>3, <1>6, <1>7, <1>8, RecentLast
<1>10. s \notin Inactive
  BY <1>9 DEF Inactive
<1> QED BY <1>5, <1>10

(* Whatever is observed, the times kept stay typed, and told what is active. *)
LEMMA ObservedTyped ==
  ASSUME AlertAssumption, AlertsTyped, NEW s \in AlertSignal, SignalTyped(s), now' = now,
         NEW signals, NEW taken \in BOOLEAN, NEW up \in BOOLEAN, Observed(s, signals, taken, up)
  PROVE /\ InOrder(observations'[s], now) /\ Len(observations'[s]) <= Threshold[s]
        /\ s \in activeSignals' <=> told'[s] = "FIRING"
        /\ s \in activeSignals' => observations'[s] # <<>>
        /\ s \in activeSignals /\ s \notin Inactive => s \in activeSignals'
        /\ s \in activeSignals' /\ ~taken => s \in activeSignals /\ (up => s \notin Inactive)
<1>1. /\ InOrder(Push(s), now) /\ Len(Push(s)) <= Threshold[s] /\ Push(s) # <<>>
  BY PushIs
<1>2. InOrder(observations[s], now) /\ Len(observations[s]) <= Threshold[s]
  BY DEF SignalTyped
<1>3. observations'[s] = (IF taken THEN Push(s) ELSE observations[s])
  BY DEF Observed
<1>4. s \in activeSignals <=> told[s] = "FIRING"
  BY DEF SignalTyped
<1>5. s \in activeSignals => observations[s] # <<>>
  BY DEF AlertsTyped
<1>6. s \in activeSignals' <=> told'[s] = "FIRING"
  BY <1>4 DEF Observed
<1>7. s \in Inactive => s \in activeSignals
  BY DEF Inactive
<1>8. s \in activeSignals' /\ ~taken => s \in activeSignals /\ (up => s \notin Inactive)
  BY DEF Observed
<1>9. s \in activeSignals /\ s \notin Inactive => s \in activeSignals'
  BY DEF Observed
<1>10. s \in activeSignals' => observations'[s] # <<>>
  BY <1>1, <1>3, <1>5, <1>8
<1> QED BY <1>1, <1>2, <1>3, <1>6, <1>8, <1>9, <1>10

(* A signal of an event that happens.                                        *)
LEMMA SignalHappens ==
  ASSUME AlertAssumption, AlertsTyped, NEW s \in AlertSignal, SignalSound(s), now' = now,
         NEW signals, NEW taken \in BOOLEAN, NEW up \in BOOLEAN, Observed(s, signals, taken, up),
         s \in signals, ~Reporting(s), ~Reporting(s)',
         happened'[s] = Append(happened[s], now),
         seen'[s] = IF up THEN Append(seen[s], now) ELSE seen[s]
  PROVE SignalSound(s)'
<1> DEFINE o == observations[s]
           p == Push(s)
           h == happened[s]
           w == seen[s]
           n == Threshold[s]
<1>1. /\ now \in Nat /\ InOrder(o, now) /\ InOrder(h, now) /\ InOrder(w, now) /\ SignalTyped(s)
      /\ lost \in Nat \/ lost = -100
  BY DEF AlertsTyped, SignalSound, SignalTyped, Never
<1>2. /\ PushOf(o, p, n, now) /\ InOrder(p, now)
      /\ n \in Nat /\ n >= 1 /\ Window \in Nat /\ Window >= 1
      /\ Len(p) \in Nat /\ 1 <= Len(p) /\ Len(p) <= n /\ p # <<>> /\ Back(p, 0) = now
      /\ Len(p) >= 2 => o # <<>> /\ Back(o, 0) > now - Window
      /\ Fires(s) <=> Len(p) >= n /\ s \notin activeSignals
  BY <1>1, PushIs
<1>3. observations'[s] = (IF taken THEN p ELSE o) /\ (up => taken) /\ (~taken => lost' = now)
      /\ lost' \in {lost, now}
  BY DEF Observed
<1>4. /\ InOrder(happened'[s], now) /\ happened'[s] # <<>> /\ Back(happened'[s], 0) = now
      /\ InOrder(Append(w, now), now) /\ Append(w, now) # <<>> /\ Back(Append(w, now), 0) = now
  BY <1>1, AppendBack
<1>5. SignalTyped(s)'
  <2>1. InOrder(seen'[s], now)
    BY <1>1, <1>4
  <2> QED BY <1>1, <1>4, <2>1, ObservedTyped DEF SignalTyped
<1>6. HappenedSound(s)'
  <2>1. Behind(o, h, 0)
    BY DEF SignalSound, HappenedSound, Late
  <2>2. Behind(p, Append(h, now), 0) /\ Behind(o, Append(h, now), 0)
    BY <1>1, <1>2, <2>1, BehindPushed, BehindGrown
  <2>3. Behind(observations'[s], happened'[s], 0)
    BY <1>3, <2>2
  <2> QED BY <2>3 DEF HappenedSound, Late
<1>7. CountedSound(s)'
  BY <1>1, <1>2, <1>3, <1>4 DEF CountedSound
<1>8. Retaining(o, w, 0, n, now) /\ SurgeHeld(s)
  BY DEF SignalSound, SeenSound, Owed
<1>9. SeenSound(s)'
  <2>1. CASE up
    <3>1. taken /\ seen'[s] = Append(w, now) /\ observations'[s] = p
      BY <1>3, <2>1
    <3>2. Retaining(p, Append(w, now), 0, n, now)
      BY <1>1, <1>2, <1>8, RetainingSeen
    <3>3. ASSUME Len(Append(w, now)) >= n, Back(Append(w, now), n - 1) > now - Window
          PROVE s \in activeSignals'
      <4>1. Len(p) >= n
        BY <1>1, <1>2, <1>4, <3>2, <3>3, SurgeKept
      <4>2. s \notin activeSignals => Fires(s)
        BY <1>2, <4>1
      <4>3. CASE s \notin activeSignals
        BY <2>1, <3>1, <4>2, <4>3 DEF Observed
      <4>4. CASE s \in activeSignals
        <5>1. s \in Inactive => n = 1
          <6>1. ASSUME s \in Inactive, n # 1 PROVE FALSE
            <7>1. Len(p) >= 2
              BY <1>2, <4>1, <6>1
            <7>2. Recent(o) # <<>>
              BY <1>1, <1>2, <7>1, RecentLast
            <7> QED BY <6>1, <7>2 DEF Inactive
          <6> QED BY <6>1
        <5>2. CASE s \in Inactive
          BY <2>1, <3>1, <5>1, <5>2 DEF Observed
        <5>3. CASE s \notin Inactive
          BY <1>1, <4>4, <5>3, ObservedTyped
        <5> QED BY <5>2, <5>3
      <4> QED BY <4>3, <4>4
    <3>4. SurgeHeld(s)'
      BY <1>4, <3>1, <3>3 DEF SurgeHeld
    <3> QED BY <3>1, <3>2, <3>4 DEF SeenSound
  <2>2. CASE ~up
    <3>1. seen'[s] = w
      BY <2>2
    <3>2. Retaining(p, w, 0, n, now)
      BY <1>1, <1>2, <1>8, RetainingUnseen
    <3>3. Retaining(observations'[s], seen'[s], 0, n, now)
      BY <1>3, <1>8, <3>1, <3>2
    <3>4. SurgeHeld(s)'
      BY <1>1, <1>3, <1>8, <3>1, ObservedTyped, SurgeStays
    <3> QED BY <3>3, <3>4 DEF SeenSound
  <2> QED BY <2>1, <2>2
<1> QED BY <1>5, <1>6, <1>7, <1>9 DEF SignalSound

(* A signal that nothing happens to.                                         *)
LEMMA SignalQuiet ==
  ASSUME AlertAssumption, AlertsTyped, NEW s \in AlertSignal, SignalSound(s), now' = now,
         NEW signals, NEW taken \in BOOLEAN, NEW up \in BOOLEAN, Observed(s, signals, taken, up),
         s \notin signals, ~Reporting(s), ~Reporting(s)',
         happened'[s] = happened[s], seen'[s] = seen[s]
  PROVE SignalSound(s)'
<1>1. /\ now \in Nat /\ SignalTyped(s)
      /\ lost \in Nat \/ lost = -100
      /\ InOrder(happened[s], now) /\ InOrder(seen[s], now)
  BY DEF AlertsTyped, SignalSound, SignalTyped, Never
<1>2. observations'[s] = observations[s] /\ lost' \in {lost, now} /\ ~taken
  BY DEF Observed
<1>3. SignalTyped(s)'
  BY <1>1, ObservedTyped DEF SignalTyped
<1>4. HappenedSound(s)'
  BY <1>2 DEF SignalSound, HappenedSound, Late
<1>5. CountedSound(s)'
  <2>1. CountedSound(s)
    BY DEF SignalSound
  <2>2. CASE happened[s] = <<>>
    BY <2>2 DEF CountedSound
  <2>3. CASE happened[s] # <<>>
    <3>1. Back(happened[s], 0) <= now /\ Back(happened[s], 0) \in Nat
      <4>1. 0 < Len(happened[s])
        BY <1>1, <2>3 DEF InOrder
      <4> QED BY <1>1, <4>1, InOrderBack
    <3> QED BY <1>1, <1>2, <2>1, <3>1 DEF CountedSound
  <2> QED BY <2>2, <2>3
<1>6. Retaining(observations[s], seen[s], 0, Threshold[s], now) /\ SurgeHeld(s)
  BY DEF SignalSound, SeenSound, Owed
<1>7. SurgeHeld(s)'
  BY <1>1, <1>2, <1>6, ObservedTyped, SurgeStays
<1>8. SeenSound(s)'
  BY <1>2, <1>6, <1>7 DEF SeenSound
<1> QED BY <1>3, <1>4, <1>5, <1>8 DEF SignalSound

(* Telemetry's own signal, as a failure of the pipeline happens.             *)
LEMMA SignalFails ==
  ASSUME AlertAssumption, AlertsTyped, NEW s \in AlertSignal, SignalSound(s), now' = now,
         NEW signals, NEW taken \in BOOLEAN, NEW up \in BOOLEAN, Observed(s, signals, taken, up),
         s \notin signals, ~Reporting(s), Reporting(s)',
         happened'[s] = Append(happened[s], now),
         seen'[s] = IF up THEN Append(seen[s], now) ELSE seen[s],
         up => Inactive' = {}
  PROVE SignalSound(s)'
<1>1. /\ now \in Nat /\ SignalTyped(s) /\ Threshold[s] \in Nat
      /\ InOrder(happened[s], now) /\ InOrder(seen[s], now) /\ InOrder(observations[s], now)
  BY DEF AlertsTyped, SignalSound, SignalTyped, AlertAssumption, AlertSignal
<1>2. observations'[s] = observations[s] /\ lost' \in {lost, now} /\ ~taken
  BY DEF Observed
<1>3. /\ InOrder(happened'[s], now) /\ happened'[s] # <<>> /\ Back(happened'[s], 0) = now
      /\ InOrder(Append(seen[s], now), now) /\ Append(seen[s], now) # <<>>
      /\ Back(Append(seen[s], now), 0) = now
  BY <1>1, AppendBack
<1>4. SignalTyped(s)'
  <2>1. InOrder(seen'[s], now)
    BY <1>1, <1>3
  <2> QED BY <1>1, <1>3, <2>1, ObservedTyped DEF SignalTyped
<1>5. HappenedSound(s)'
  <2>1. Behind(observations[s], happened[s], 0)
    BY DEF SignalSound, HappenedSound, Late
  <2>2. Behind(observations'[s], happened'[s], 1)
    BY <1>1, <1>2, <2>1, BehindGrown
  <2> QED BY <1>3, <2>2 DEF HappenedSound, Late
<1>6. CountedSound(s)'
  BY DEF CountedSound
<1>7. Retaining(observations[s], seen[s], 0, Threshold[s], now) /\ SurgeHeld(s)
  BY DEF SignalSound, SeenSound, Owed
<1>8. SeenSound(s)'
  <2>1. CASE up
    <3>1. Retaining(observations[s], Append(seen[s], now), 1, Threshold[s], now)
      BY <1>1, <1>7, RetainingOwed
    <3>2. seen'[s] = Append(seen[s], now)
      BY <2>1
    <3>3. Owed(s)'
      BY <1>2, <1>3, <2>1, <3>1, <3>2 DEF Owed
    <3> QED BY <3>3 DEF SeenSound
  <2>2. CASE ~up
    <3>1. SurgeHeld(s)'
      BY <1>1, <1>2, <1>7, <2>2, ObservedTyped, SurgeStays
    <3> QED BY <1>2, <1>7, <2>2, <3>1 DEF SeenSound
  <2> QED BY <2>1, <2>2
<1> QED BY <1>4, <1>5, <1>6, <1>8 DEF SignalSound

(* Telemetry's own signal, as the failure is reported.                       *)
LEMMA SignalReported ==
  ASSUME AlertAssumption, AlertsTyped, NEW s \in AlertSignal, SignalSound(s), now' = now,
         NEW signals, NEW taken \in BOOLEAN, NEW up \in BOOLEAN, Observed(s, signals, taken, up),
         s \in signals, \A r \in signals : r = s, Reporting(s), ~Reporting(s)',
         happened'[s] = happened[s], seen'[s] = seen[s]
  PROVE SignalSound(s)'
<1> DEFINE o == observations[s]
           p == Push(s)
           h == happened[s]
           w == seen[s]
           n == Threshold[s]
<1>1. /\ now \in Nat /\ InOrder(o, now) /\ InOrder(h, now) /\ InOrder(w, now) /\ SignalTyped(s)
      /\ lost \in Nat \/ lost = -100
  BY DEF AlertsTyped, SignalSound, SignalTyped, Never
<1>2. /\ PushOf(o, p, n, now) /\ InOrder(p, now)
      /\ n \in Nat /\ n >= 1 /\ Window \in Nat /\ Window >= 1
      /\ Len(p) \in Nat /\ 1 <= Len(p) /\ Len(p) <= n /\ p # <<>> /\ Back(p, 0) = now
      /\ Fires(s) <=> Len(p) >= n /\ s \notin activeSignals
  BY <1>1, PushIs
<1>3. observations'[s] = (IF taken THEN p ELSE o) /\ (up => taken) /\ (~taken => lost' = now)
      /\ lost' \in {lost, now} /\ (Inactive = {} => taken)
  BY DEF Observed
<1>4. SignalTyped(s)'
  BY <1>1, ObservedTyped DEF SignalTyped
<1>5. Behind(o, h, 1) /\ h # <<>> /\ Back(h, 0) = now
  BY DEF SignalSound, HappenedSound, Late
<1>6. HappenedSound(s)'
  <2>1. Behind(p, h, 0) /\ Behind(o, h, 0)
    BY <1>1, <1>2, <1>5, BehindReported, BehindLess
  <2>2. Behind(observations'[s], h, 0)
    BY <1>3, <2>1
  <2> QED BY <2>2 DEF HappenedSound, Late
<1>7. CountedSound(s)'
  BY <1>1, <1>2, <1>3, <1>5 DEF CountedSound
<1>8. SeenSound(s)'
  <2>1. CASE Owed(s)
    <3>1. Retaining(o, w, 1, n, now) /\ w # <<>> /\ Back(w, 0) = now /\ Inactive = {}
      BY <2>1 DEF Owed
    <3>2. taken /\ observations'[s] = p
      BY <1>3, <3>1
    <3>3. Retaining(p, w, 0, n, now)
      BY <1>1, <1>2, <3>1, RetainingReported
    <3>4. ASSUME lost' < now, Len(w) >= n, Back(w, n - 1) > now - Window PROVE s \in activeSignals'
      <4>1. Len(p) >= n
        BY <1>1, <1>2, <3>3, <3>4, SurgeKept
      <4>2. CASE s \in activeSignals
        BY <1>1, <3>1, <4>2, ObservedTyped
      <4>3. CASE s \notin activeSignals
        <5>1. Fires(s)
          BY <1>2, <4>1, <4>3
        <5>2. ~up => lost' = now
          BY <3>2, <5>1 DEF Observed
        <5>3. up
          BY <1>1, <3>4, <5>2
        <5> QED BY <3>2, <5>1, <5>3 DEF Observed
      <4> QED BY <4>2, <4>3
    <3>5. SurgeHeld(s)'
      BY <3>1, <3>4 DEF SurgeHeld
    <3> QED BY <3>2, <3>3, <3>5 DEF SeenSound
  <2>2. CASE ~Owed(s)
    <3>1. Retaining(o, w, 0, n, now) /\ SurgeHeld(s)
      BY <2>2 DEF SignalSound, SeenSound
    <3>2. Retaining(p, w, 0, n, now)
      BY <1>1, <1>2, <3>1, RetainingUnseen
    <3>3. Retaining(observations'[s], w, 0, n, now)
      BY <1>3, <3>1, <3>2
    <3>4. SurgeHeld(s)'
      BY <1>1, <1>3, <3>1, ObservedTyped, SurgeStays
    <3> QED BY <3>3, <3>4 DEF SeenSound
  <2> QED BY <2>1, <2>2
<1> QED BY <1>4, <1>6, <1>7, <1>8 DEF SignalSound

(* What remains active after an event has a time in the window, unless the   *)
(* alert sink failed.                                                        *)
LEMMA ActiveAfter ==
  ASSUME AlertAssumption, AlertsTyped, NEW s \in AlertSignal, SignalTyped(s), now' = now,
         NEW signals, NEW taken \in BOOLEAN, NEW up \in BOOLEAN, Observed(s, signals, taken, up),
         s \in activeSignals'
  PROVE /\ (up \/ lost' # now) => Back(observations'[s], 0) > now - Window
        /\ (up \/ lost' # now) => s \notin Inactive'
        /\ Back(observations'[s], 0) = now \/ (s \in activeSignals /\ observations'[s] = observations[s])
<1>1. /\ now \in Nat /\ InOrder(observations[s], now)
      /\ InOrder(observations'[s], now) /\ observations'[s] # <<>>
  BY ObservedTyped DEF AlertsTyped, SignalTyped
<1>2. Back(Push(s), 0) = now /\ Window \in Nat /\ Window >= 1
  BY PushIs
<1>3. observations'[s] = (IF taken THEN Push(s) ELSE observations[s])
  BY DEF Observed
<1>4. ~taken => s \in activeSignals /\ (up => s \notin Inactive)
  BY ObservedTyped
<1>5. ASSUME up \/ lost' # now PROVE Back(observations'[s], 0) > now - Window
  <2>1. CASE taken
    BY <1>1, <1>2, <1>3, <2>1
  <2>2. CASE ~taken
    <3>1. ~up => Inactive = {}
      BY <1>5 DEF Observed
    <3>2. s \in activeSignals /\ s \notin Inactive
      BY <1>4, <2>2, <3>1
    <3>3. Recent(observations[s]) # <<>>
      BY <3>2 DEF Inactive
    <3> QED BY <1>1, <1>3, <2>2, <3>3, RecentLast
  <2> QED BY <2>1, <2>2
<1>6. ASSUME up \/ lost' # now PROVE s \notin Inactive'
  <2>1. Recent(observations'[s]) # <<>>
    BY <1>1, <1>5, <1>6, RecentLast
  <2>2. Recent(observations[s])' = Recent(observations'[s])
    BY DEF Recent, First
  <2> QED BY <2>1, <2>2 DEF Inactive
<1> QED BY <1>2, <1>3, <1>4, <1>5, <1>6

(* What holds of all of it after an event: what is kept and told is typed,   *)
(* and an alert that should have ended did, or the alert sink failed.        *)
LEMMA ObserveKeeps ==
  ASSUME AlertAssumption, AlertsInv, NEW n \in Nat, NEW signals \in [1..n -> AlertSignal],
         NEW up \in BOOLEAN, observe(signals, up), now' = now
  PROVE /\ DOMAIN observations' = AlertSignal /\ DOMAIN told' = AlertSignal
        /\ \A s \in activeSignals' : s \in AlertSignal /\ observations'[s] # <<>>
        /\ lost' = Never \/ (lost' \in Nat /\ lost' <= now)
        /\ Inactive' = {} \/ lost' = now
        /\ up => Inactive' = {}
        /\ \A s \in activeSignals' : Back(observations'[s], 0) > now - Window \/ lost' = now
        /\ beat # Never => \A s \in activeSignals' : Back(observations'[s], 0) > beat - Window \/ lost' >= beat
<1>1. DOMAIN observations' = AlertSignal /\ DOMAIN told' = AlertSignal
  BY DEF observe
<1>2. activeSignals' \subseteq AlertSignal
  <2>1. activeSignals \subseteq AlertSignal
    BY DEF AlertsInv, AlertsTyped
  <2>2. Counted(signals, up) \subseteq AlertSignal
    BY DEF Counted, ToSet
  <2> QED BY <2>1, <2>2 DEF observe
<1>3. AlertsTyped /\ \A s \in AlertSignal : SignalTyped(s)
  BY DEF AlertsInv, SignalSound
<1>4. /\ now \in Nat /\ Window \in Nat /\ Window >= 1
      /\ lost = Never \/ (lost \in Nat /\ lost <= now)
      /\ beat # Never => beat \in Nat /\ beat <= now
  BY <1>3 DEF AlertsTyped, AlertAssumption, AlertsInv, BeatSound
<1>5. lost' \in {lost, now}
  BY DEF observe
<1>6. ASSUME NEW s \in activeSignals'
      PROVE /\ s \in AlertSignal /\ observations'[s] # <<>>
            /\ up \/ lost' # now => Back(observations'[s], 0) > now - Window
            /\ up \/ lost' # now => s \notin Inactive'
            /\ Back(observations'[s], 0) = now
                  \/ (s \in activeSignals /\ observations'[s] = observations[s])
  <2>1. s \in AlertSignal
    BY <1>2
  <2>2. PICK taken \in BOOLEAN : Observed(s, ToSet(signals), taken, up)
    BY <2>1, ObserveGives
  <2>3. SignalTyped(s) /\ AlertsTyped
    BY <1>3, <2>1
  <2>4. observations'[s] # <<>>
    BY <2>1, <2>2, <2>3, ObservedTyped
  <2> QED BY <2>1, <2>2, <2>3, <2>4, ActiveAfter
<1>7. Inactive' = {} \/ lost' = now
  BY <1>6 DEF Inactive
<1>8. up => Inactive' = {}
  BY <1>6 DEF Inactive
<1>9. ASSUME beat # Never, NEW s \in activeSignals'
      PROVE Back(observations'[s], 0) > beat - Window \/ lost' >= beat
  <2>1. CASE Back(observations'[s], 0) = now
    BY <1>4, <1>9, <2>1
  <2>2. CASE s \in activeSignals /\ observations'[s] = observations[s]
    <3>1. Back(observations[s], 0) > beat - Window \/ lost >= beat
      BY <1>9, <2>2 DEF AlertsInv, BeatSound
    <3>2. lost >= beat => lost' >= beat
      BY <1>4, <1>5, <1>9
    <3> QED BY <2>2, <3>1, <3>2
  <2> QED BY <1>6, <2>1, <2>2
<1>10. lost' = Never \/ (lost' \in Nat /\ lost' <= now)
  BY <1>4, <1>5
<1> QED BY <1>1, <1>6, <1>7, <1>8, <1>9, <1>10

-----------------------------------------------------------------------------
(* At first nothing happened.                                                *)
LEMMA AlertsInitially == ASSUME AlertAssumption, AlertsInit PROVE AlertsInv
<1>1. AlertsTyped
  BY DEF AlertsInit, AlertsTyped, NoTimes
<1>2. BeatSound /\ ReportSound
  BY DEF AlertsInit, BeatSound, ReportSound
<1>3. ASSUME NEW s \in AlertSignal PROVE SignalSound(s)
  <2>1. /\ now = 0 /\ observations[s] = <<>> /\ happened[s] = <<>> /\ seen[s] = <<>> /\ told[s] = None
        /\ ~report /\ activeSignals = {} /\ Threshold[s] \in Nat /\ None # "FIRING"
    BY DEF AlertsInit, NoTimes, AlertAssumption, AlertSignal
  <2>2. <<>> \in Seq(Nat) /\ Len(<<>>) = 0 /\ DOMAIN <<>> = {}
    OBVIOUS
  <2>3. InOrder(<<>>, 0)
    BY <2>2 DEF InOrder
  <2>4. SignalTyped(s)
    BY <2>1, <2>2, <2>3 DEF SignalTyped
  <2>5. HappenedSound(s) /\ CountedSound(s)
    BY <2>1, <2>2 DEF HappenedSound, CountedSound, Behind, Reporting, Late
  <2>6. SeenSound(s)
    BY <2>1, <2>2 DEF SeenSound, Retaining, SurgeHeld
  <2> QED BY <2>4, <2>5, <2>6 DEF SignalSound
<1> QED BY <1>1, <1>2, <1>3 DEF AlertsInv

(* The clock.                                                                *)
LEMMA TickKeeps == ASSUME AlertAssumption, AlertsInv, Tick PROVE AlertsInv'
<1>1. /\ now \in Nat /\ now' = now + 1 /\ ~report /\ beat # Never /\ beat \in Nat /\ now < beat + Interval
      /\ Interval \in Nat /\ Window \in Nat /\ beat <= now
      /\ UNCHANGED <<observations, activeSignals, degraded, report, beat, told, happened, seen, lost, events>>
  BY DEF AlertsInv, AlertsTyped, Tick, AlertAssumption, BeatSound
<1>2. now' \in Nat /\ now <= now' /\ beat <= now' /\ now' <= beat + Interval
  BY <1>1
<1>3. AlertsTyped'
  <2>1. lost = Never \/ (lost \in Nat /\ lost <= now)
    BY DEF AlertsInv, AlertsTyped
  <2>2. lost = Never \/ (lost \in Nat /\ lost <= now')
    BY <1>1, <2>1
  <2> QED BY <1>1, <1>2, <2>2 DEF AlertsInv, AlertsTyped
<1>4. BeatSound' /\ ReportSound'
  BY <1>1, <1>2 DEF AlertsInv, BeatSound, ReportSound
<1>5. ASSUME NEW s \in AlertSignal PROVE SignalSound(s)'
  <2>1. SignalSound(s) /\ SignalTyped(s) /\ AlertsTyped /\ Threshold[s] \in Nat
    BY DEF AlertsInv, SignalSound, AlertAssumption, AlertSignal
  <2>2. SignalTyped(s)'
    BY <1>1, <1>2, <2>1, InOrderLater DEF SignalTyped
  <2>3. HappenedSound(s)' /\ CountedSound(s)'
    BY <1>1, <2>1 DEF SignalSound, HappenedSound, CountedSound, Reporting, Late
  <2>4. Retaining(observations[s], seen[s], 0, Threshold[s], now) /\ SurgeHeld(s)
    BY <1>1, <2>1 DEF SignalSound, SeenSound, Owed, Reporting
  <2>5. Retaining(observations[s], seen[s], 0, Threshold[s], now')
    BY <1>1, <1>2, <2>1, <2>4, RetainingLater DEF SignalTyped
  <2>6. SurgeHeld(s)'
    <3>1. SUFFICES ASSUME seen[s] # <<>>, now' < Back(seen[s], 0) + Window PROVE now < Back(seen[s], 0) + Window
      BY <1>1, <2>4 DEF SurgeHeld
    <3>2. 0 < Len(seen[s]) /\ InOrder(seen[s], now)
      BY <2>1, <3>1 DEF SignalTyped, InOrder
    <3>3. Back(seen[s], 0) \in Nat
      BY <1>1, <3>2, InOrderBack
    <3> QED BY <1>1, <3>1, <3>3
  <2>7. SeenSound(s)'
    BY <1>1, <2>5, <2>6 DEF SeenSound
  <2> QED BY <2>2, <2>3, <2>7 DEF SignalSound
<1> QED BY <1>3, <1>4, <1>5 DEF AlertsInv

(* An event that the components record.                                      *)
LEMMA RecordKeeps ==
  ASSUME AlertAssumption, AlertsInv, NEW e, NEW up \in BOOLEAN, NEW alertsUp \in BOOLEAN,
         record(e, up, alertsUp)
  PROVE AlertsInv'
<1>1. PICK n \in Nat : signalsFor(e) \in [1..n -> AlertSignal]
  BY SignalsListed
<1>2. ToSet(signalsFor(e)) = SignalsOf(e)
  BY SignalsListed
<1>3. /\ ~report /\ observe(signalsFor(e), alertsUp) /\ now' = now /\ beat' = beat
      /\ degraded' = ~Pipeline(e, up, alertsUp)
      /\ report' = (~Pipeline(e, up, alertsUp) /\ e.category # "TELEMETRY")
      /\ Happens(SignalsOf(e) \cup (IF report' THEN {"telemetryFailures"} \cap AlertSignal ELSE {}), alertsUp)
  BY <1>2 DEF record, Note
<1>4. report' \in BOOLEAN /\ degraded' \in BOOLEAN /\ (report' => degraded')
  BY <1>3 DEF Pipeline
<1>5. /\ DOMAIN observations' = AlertSignal /\ DOMAIN told' = AlertSignal
      /\ \A s \in activeSignals' : s \in AlertSignal /\ observations'[s] # <<>>
      /\ lost' = Never \/ (lost' \in Nat /\ lost' <= now)
      /\ Inactive' = {} \/ lost' = now
      /\ alertsUp => Inactive' = {}
      /\ beat # Never => \A s \in activeSignals' : Back(observations'[s], 0) > beat - Window \/ lost' >= beat
  BY <1>1, <1>3, ObserveKeeps
<1>6. DOMAIN happened' = AlertSignal /\ DOMAIN seen' = AlertSignal
  BY <1>3 DEF Happens
<1>7. AlertsTyped'
  <2>1. now \in Nat /\ (beat = Never \/ beat \in Nat)
    BY DEF AlertsInv, AlertsTyped
  <2> QED BY <1>3, <1>4, <1>5, <1>6, <2>1 DEF AlertsTyped
<1>8. BeatSound' /\ ReportSound'
  BY <1>3, <1>5 DEF AlertsInv, BeatSound, ReportSound
<1>9. ASSUME NEW s \in AlertSignal PROVE SignalSound(s)'
  <2>1. SignalSound(s) /\ AlertsTyped /\ ~Reporting(s)
    BY <1>3 DEF AlertsInv, Reporting
  <2>2. PICK taken \in BOOLEAN : Observed(s, SignalsOf(e), taken, alertsUp)
    BY <1>1, <1>2, <1>3, ObserveGives
  <2>3. CASE s \in SignalsOf(e)
    <3>1. s = "telemetryFailures" => e.category = "TELEMETRY"
      BY <2>3 DEF SignalsOf
    <3>2. ~Reporting(s)'
      BY <1>3, <3>1 DEF Reporting
    <3>3. /\ happened'[s] = Append(happened[s], now)
          /\ seen'[s] = (IF alertsUp THEN Append(seen[s], now) ELSE seen[s])
      BY <1>3, <2>3 DEF Happens
    <3> QED BY <1>3, <2>1, <2>2, <2>3, <3>2, <3>3, SignalHappens
  <2>4. CASE s \notin SignalsOf(e) /\ report' /\ s = "telemetryFailures"
    <3>1. /\ happened'[s] = Append(happened[s], now)
          /\ seen'[s] = (IF alertsUp THEN Append(seen[s], now) ELSE seen[s])
      BY <1>3, <2>4 DEF Happens
    <3>2. Reporting(s)'
      BY <2>4 DEF Reporting
    <3> QED BY <1>3, <1>5, <2>1, <2>2, <2>4, <3>1, <3>2, SignalFails
  <2>5. CASE s \notin SignalsOf(e) /\ ~(report' /\ s = "telemetryFailures")
    <3>1. happened'[s] = happened[s] /\ seen'[s] = seen[s]
      BY <1>3, <2>5 DEF Happens
    <3>2. ~Reporting(s)'
      BY <2>5 DEF Reporting
    <3> QED BY <1>3, <2>1, <2>2, <2>5, <3>1, <3>2, SignalQuiet
  <2> QED BY <2>3, <2>4, <2>5
<1> QED BY <1>7, <1>8, <1>9 DEF AlertsInv

(* The heartbeat is of no signal; what it leaves active has a time in the    *)
(* window.                                                                   *)
LEMMA HeartbeatKeeps ==
  ASSUME AlertAssumption, AlertsInv, NEW up \in BOOLEAN, NEW alertsUp \in BOOLEAN, heartbeat(up, alertsUp)
  PROVE AlertsInv'
<1> DEFINE e == [category |-> "TELEMETRY", outcome |-> "SUCCESS", reason |-> None]
<1>1. PICK n \in Nat : signalsFor(e) \in [1..n -> AlertSignal]
  BY SignalsListed
<1>2. ToSet(signalsFor(e)) = SignalsOf(e)
  BY SignalsListed
<1>3. SignalsOf(e) = {}
  BY DEF SignalsOf, AlertAssumption
<1>4. /\ ~report /\ observe(signalsFor(e), alertsUp) /\ now' = now /\ beat' = now
      /\ degraded' = ~Pipeline(e, up, alertsUp) /\ report' = FALSE
      /\ happened' = happened /\ seen' = seen
  BY DEF heartbeat, Note
<1> HIDE DEF e
<1>5. degraded' \in BOOLEAN
  BY <1>4 DEF Pipeline
<1>6. /\ DOMAIN observations' = AlertSignal /\ DOMAIN told' = AlertSignal
      /\ \A s \in activeSignals' : s \in AlertSignal /\ observations'[s] # <<>>
      /\ lost' = Never \/ (lost' \in Nat /\ lost' <= now)
      /\ \A s \in activeSignals' : Back(observations'[s], 0) > now - Window \/ lost' = now
  BY <1>1, <1>4, ObserveKeeps
<1>7. AlertsTyped'
  BY <1>4, <1>5, <1>6 DEF AlertsInv, AlertsTyped
<1>8. BeatSound' /\ ReportSound'
  <2>1. now \in Nat /\ Interval \in Nat /\ now # -100 /\ now <= now + Interval
    BY DEF AlertsInv, AlertsTyped, AlertAssumption
  <2>2. \A s \in activeSignals' : Back(observations'[s], 0) > now - Window \/ lost' >= now
    BY <1>6, <2>1
  <2> QED BY <1>4, <2>1, <2>2 DEF BeatSound, ReportSound, Never
<1>9. ASSUME NEW s \in AlertSignal PROVE SignalSound(s)'
  <2>1. SignalSound(s) /\ AlertsTyped /\ ~Reporting(s) /\ ~Reporting(s)'
    BY <1>4 DEF AlertsInv, Reporting
  <2>2. PICK taken \in BOOLEAN : Observed(s, SignalsOf(e), taken, alertsUp)
    BY <1>1, <1>2, <1>4, ObserveGives
  <2> QED BY <1>3, <1>4, <2>1, <2>2, SignalQuiet
<1> QED BY <1>7, <1>8, <1>9 DEF AlertsInv

(* The report of a failure of the pipeline is of telemetry's own signal.     *)
LEMMA ReportKeeps ==
  ASSUME AlertAssumption, AlertsInv, NEW alertsUp \in BOOLEAN, recordPipelineFailure(alertsUp)
  PROVE AlertsInv'
<1>1. PICK n \in Nat : signalsFor(Failure) \in [1..n -> AlertSignal]
  BY SignalsListed
<1>2. ToSet(signalsFor(Failure)) = SignalsOf(Failure)
  BY SignalsListed
<1>3. SignalsOf(Failure) = {"telemetryFailures"} \cap AlertSignal
  BY DEF SignalsOf, Failure
<1>4. /\ report /\ observe(signalsFor(Failure), alertsUp) /\ report' = FALSE
      /\ UNCHANGED <<now, degraded, beat, happened, seen, events>>
  BY DEF recordPipelineFailure
<1>5. /\ DOMAIN observations' = AlertSignal /\ DOMAIN told' = AlertSignal
      /\ \A s \in activeSignals' : s \in AlertSignal /\ observations'[s] # <<>>
      /\ lost' = Never \/ (lost' \in Nat /\ lost' <= now)
      /\ beat # Never => \A s \in activeSignals' : Back(observations'[s], 0) > beat - Window \/ lost' >= beat
  BY <1>1, <1>4, ObserveKeeps
<1>6. AlertsTyped'
  BY <1>4, <1>5 DEF AlertsInv, AlertsTyped
<1>7. BeatSound' /\ ReportSound'
  BY <1>4, <1>5 DEF AlertsInv, BeatSound, ReportSound
<1>8. ASSUME NEW s \in AlertSignal PROVE SignalSound(s)'
  <2>1. SignalSound(s) /\ AlertsTyped /\ ~Reporting(s)'
    BY <1>4 DEF AlertsInv, Reporting
  <2>2. PICK taken \in BOOLEAN : Observed(s, SignalsOf(Failure), taken, alertsUp)
    BY <1>1, <1>2, <1>4, ObserveGives
  <2>3. CASE s = "telemetryFailures"
    <3>1. s \in SignalsOf(Failure) /\ (\A r \in SignalsOf(Failure) : r = s) /\ Reporting(s)
      BY <1>3, <1>4, <2>3 DEF Reporting
    <3> QED BY <1>4, <2>1, <2>2, <3>1, SignalReported
  <2>4. CASE s # "telemetryFailures"
    <3>1. s \notin SignalsOf(Failure) /\ ~Reporting(s)
      BY <1>3, <2>4 DEF Reporting
    <3> QED BY <1>4, <2>1, <2>2, <3>1, SignalQuiet
  <2> QED BY <2>3, <2>4
<1> QED BY <1>6, <1>7, <1>8 DEF AlertsInv

(* No step breaks the invariant.                                             *)
LEMMA AlertsStep == ASSUME AlertAssumption, AlertsInv, [AlertsNext]_alertVars PROVE AlertsInv'
<1>1. CASE Tick
  BY <1>1, TickKeeps
<1>2. ASSUME NEW up \in BOOLEAN, NEW alertsUp \in BOOLEAN, NEW e \in Input, record(e, up, alertsUp)
      PROVE AlertsInv'
  BY <1>2, RecordKeeps
<1>3. ASSUME NEW up \in BOOLEAN, NEW alertsUp \in BOOLEAN, heartbeat(up, alertsUp) PROVE AlertsInv'
  BY <1>3, HeartbeatKeeps
<1>4. ASSUME NEW alertsUp \in BOOLEAN, recordPipelineFailure(alertsUp) PROVE AlertsInv'
  BY <1>4, ReportKeeps
<1>5. CASE UNCHANGED alertVars
  BY <1>5 DEF alertVars, AlertsInv, AlertsTyped, BeatSound, ReportSound, SignalSound, SignalTyped,
              HappenedSound, CountedSound, SeenSound, Owed, SurgeHeld, Reporting, Late, Inactive, Recent, First
<1> QED BY <1>1, <1>2, <1>3, <1>4, <1>5 DEF AlertsNext

(* The last of the times, and the times of a surge.                          *)
LEMMA LastIsBack ==
  ASSUME NEW t \in Nat, NEW w, InOrder(w, t), NEW n \in Nat
  PROVE /\ w # <<>> => Last(w) = Back(w, 0) /\ Last(w) \in Nat /\ Last(w) <= t
        /\ w[Len(w) + 1 - n] = Back(w, n - 1)
<1>1. w \in Seq(Nat) /\ Len(w) \in Nat
  BY DEF InOrder
<1>2. Len(w) + 1 - n = Len(w) - (n - 1) /\ Len(w) - 0 = Len(w)
  BY <1>1
<1>3. w # <<>> => 0 < Len(w)
  BY <1>1
<1>4. w # <<>> => Back(w, 0) \in Nat /\ Back(w, 0) <= t
  BY <1>3, InOrderBack
<1> QED BY <1>2, <1>4 DEF Last, Back

(* A state of the invariant has the property.                                *)
LEMMA AlertsFollow == ASSUME AlertAssumption, AlertsInv PROVE AlertsSound
<1>1. ASSUME NEW s \in AlertSignal
      PROVE /\ SignalTyped(s) /\ SignalSound(s) /\ now \in Nat
            /\ Threshold[s] \in Nat /\ Threshold[s] >= 1 /\ Window \in Nat /\ Interval \in Nat
            /\ InOrder(observations[s], now) /\ InOrder(happened[s], now) /\ InOrder(seen[s], now)
  BY DEF AlertsInv, AlertsTyped, SignalSound, SignalTyped, AlertAssumption, AlertSignal
<1>2. AlertsTypeOK
  <2>1. ASSUME NEW s \in AlertSignal, NEW i \in DOMAIN observations[s] PROVE observations[s][i] \in 0..now
    <3>1. InOrder(observations[s], now) /\ now \in Nat
      BY <1>1
    <3>2. observations[s] \in Seq(Nat) /\ observations[s][i] <= now
      BY <3>1 DEF InOrder
    <3> QED BY <3>1, <3>2
  <2>2. report => degraded
    BY DEF AlertsInv, AlertsTyped
  <2> QED BY <1>1, <2>1, <2>2 DEF AlertsTypeOK, SignalTyped
<1>3. SurgeTold
  <2>1. SUFFICES ASSUME NEW s \in AlertSignal, ~report, seen[s] # <<>>, now < Last(seen[s]) + Window,
                        lost < Last(seen[s]), Surge(seen[s], Threshold[s], Last(seen[s]))
                 PROVE told[s] = "FIRING"
    BY DEF SurgeTold
  <2>2. SurgeHeld(s)
    BY <1>1, <2>1 DEF SignalSound, SeenSound, Owed, Reporting
  <2>3. Last(seen[s]) = Back(seen[s], 0)
        /\ seen[s][Len(seen[s]) + 1 - Threshold[s]] = Back(seen[s], Threshold[s] - 1)
    BY <1>1, <2>1, LastIsBack
  <2>4. s \in activeSignals
    BY <2>1, <2>2, <2>3 DEF SurgeHeld, Surge
  <2> QED BY <1>1, <2>4 DEF SignalTyped
<1>4. ResolvedInTime
  <2>1. SUFFICES ASSUME NEW s \in AlertSignal, told[s] = "FIRING", happened[s] # <<>>
                 PROVE \/ now <= Last(happened[s]) + Window + Interval
                       \/ lost >= Last(happened[s]) + Window
    BY DEF ResolvedInTime
  <2>2. Last(happened[s]) = Back(happened[s], 0) /\ Last(happened[s]) \in Nat
    BY <1>1, <2>1, LastIsBack
  <2>3. s \in activeSignals /\ observations[s] # <<>>
    BY <1>1, <2>1 DEF SignalTyped, AlertsInv, AlertsTyped
  <2>4. Back(observations[s], 0) <= Back(happened[s], 0) /\ Back(observations[s], 0) \in Nat
    <3>1. observations[s] \in Seq(Nat) /\ Len(observations[s]) \in Nat /\ 0 < Len(observations[s])
      BY <1>1, <2>3 DEF InOrder
    <3>2. 0 \in 0..Len(observations[s]) - 1
      BY <3>1
    <3>3. 0 + Late(s) < Len(happened[s]) /\ Back(observations[s], 0) <= Back(happened[s], 0 + Late(s))
      BY <1>1, <3>2 DEF SignalSound, HappenedSound, Behind
    <3>4. 0 + Late(s) \in Nat /\ 0 <= 0 + Late(s)
      BY DEF Late
    <3>5. /\ Back(happened[s], 0 + Late(s)) \in Nat
          /\ Back(happened[s], 0 + Late(s)) <= Back(happened[s], 0)
      BY <1>1, <3>3, <3>4, InOrderBack
    <3>6. Back(observations[s], 0) \in Nat
      BY <1>1, <3>1, InOrderBack
    <3> QED BY <2>2, <3>3, <3>5, <3>6
  <2>5. CASE beat = Never
    BY <1>1, <2>2, <2>5 DEF AlertsInv, BeatSound
  <2>6. CASE beat # Never
    <3>1. /\ beat \in Nat /\ now <= beat + Interval
          /\ Back(observations[s], 0) > beat - Window \/ lost >= beat
      BY <2>3, <2>6 DEF AlertsInv, AlertsTyped, BeatSound
    <3>2. lost \in Nat \/ lost = -100
      BY DEF AlertsInv, AlertsTyped, Never
    <3> QED BY <1>1, <2>2, <2>4, <3>1, <3>2
  <2> QED BY <2>5, <2>6
<1> QED BY <1>2, <1>3, <1>4 DEF AlertsSound

(* What is no older than something within the window is within it.           *)
LEMMA LaterIsWithin ==
  ASSUME NEW a \in Nat, NEW b \in Nat, NEW t \in Nat, NEW w \in Nat, a <= b, a > t - w
  PROVE  b > t - w
OBVIOUS

(* A place counted from the newest tells how many there are at least.        *)
LEMMA CountReached ==
  ASSUME NEW n \in Nat, NEW m \in Nat, n - 1 < m
  PROVE  m >= n
OBVIOUS

(* What an observation tells is true of what happened before and at it.      *)
LEMMA ObservedTruly ==
  ASSUME AlertAssumption, AlertsInv, NEW s \in AlertSignal,
         NEW signals, NEW taken \in BOOLEAN, NEW up \in BOOLEAN, Observed(s, signals, taken, up),
         told'[s] # told[s],
         s \in signals =>
           \/ ~Reporting(s) /\ happened'[s] = Append(happened[s], now)
           \/ Reporting(s) /\ happened'[s] = happened[s]
  PROVE IF told'[s] = "FIRING" THEN Surge(happened'[s], Threshold[s], now)
        ELSE told[s] = "FIRING" /\ (NoneWithin(happened[s], now) \/ lost > now - Window)
<1> DEFINE o == observations[s]
           p == Push(s)
           h == happened[s]
           n == Threshold[s]
<1>1. /\ now \in Nat /\ AlertsTyped /\ SignalTyped(s) /\ SignalSound(s)
      /\ InOrder(o, now) /\ InOrder(h, now)
      /\ s \in activeSignals <=> told[s] = "FIRING"
  BY DEF AlertsInv, AlertsTyped, SignalSound, SignalTyped
<1>2. /\ PushOf(o, p, n, now) /\ n \in Nat /\ n >= 1 /\ Window \in Nat /\ Window >= 1
      /\ Len(p) \in Nat /\ Len(p) <= n
      /\ Fires(s) <=> Len(p) >= n /\ s \notin activeSignals
  BY <1>1, PushIs
<1>3. \A j \in Nat : j < Len(p) => Back(p, j) > now - Window /\ Back(p, j) \in Nat
  <2>1. Len(o) <= n
    BY <1>1 DEF SignalTyped
  <2>2. /\ InOrder(p, now) /\ \A j \in Nat : j < Len(p) => Back(p, j) > now - Window
    BY <1>1, <2>1, PushGives
  <2> QED BY <1>1, <2>2, InOrderBack
<1>4. s \in Inactive => s \in activeSignals
  BY DEF Inactive
<1>5. CASE told'[s] = "FIRING"
  <2>1. up /\ taken /\ Fires(s) /\ s \in signals
    BY <1>1, <1>4, <1>5 DEF Observed
  <2>2. Len(p) = n
    BY <1>2, <2>1
  <2>3. Behind(p, happened'[s], 0) /\ InOrder(happened'[s], now)
    <3>1. CASE ~Reporting(s) /\ happened'[s] = Append(h, now)
      <4>1. Behind(o, h, 0)
        BY <1>1, <3>1 DEF SignalSound, HappenedSound, Late
      <4> QED BY <1>1, <1>2, <3>1, <4>1, BehindPushed, AppendBack
    <3>2. CASE Reporting(s) /\ happened'[s] = h
      <4>1. Behind(o, h, 1) /\ h # <<>> /\ Back(h, 0) = now
        BY <1>1, <3>2 DEF SignalSound, HappenedSound, Late
      <4> QED BY <1>1, <1>2, <3>2, <4>1, BehindReported
    <3> QED BY <2>1, <3>1, <3>2
  <2>4. n - 1 \in Nat /\ n - 1 < Len(p) /\ n - 1 \in 0..Len(p) - 1 /\ (n - 1) + 0 = n - 1
    BY <1>2, <2>2
  <2>5. n - 1 < Len(happened'[s]) /\ Back(p, n - 1) <= Back(happened'[s], n - 1)
    BY <2>3, <2>4 DEF Behind
  <2>6. Back(p, n - 1) > now - Window /\ Back(p, n - 1) \in Nat
    BY <1>3, <2>4
  <2>7. Len(happened'[s]) \in Nat /\ Back(happened'[s], n - 1) \in Nat
    BY <1>1, <2>3, <2>4, <2>5, InOrderBack
  <2>8. happened'[s][Len(happened'[s]) + 1 - n] = Back(happened'[s], n - 1)
    BY <1>1, <1>2, <2>3, LastIsBack
  <2>9. Len(happened'[s]) >= n /\ happened'[s][Len(happened'[s]) + 1 - n] > now - Window
    <3>1. n \in Nat /\ now \in Nat /\ Window \in Nat
      BY <1>1, <1>2
    <3>2. Len(happened'[s]) >= n
      BY <2>5, <2>7, <3>1, CountReached
    <3>3. Back(happened'[s], n - 1) > now - Window
      BY <2>5, <2>6, <2>7, <3>1, LaterIsWithin
    <3> QED BY <2>8, <3>2, <3>3
  <2>10. Surge(happened'[s], Threshold[s], now)
    BY <1>1, <2>9 DEF Surge
  <2> QED BY <1>5, <2>10
<1>6. CASE told'[s] # "FIRING"
  <2>1. up /\ s \in Inactive /\ told[s] = "FIRING"
    BY <1>1, <1>4, <1>6 DEF Observed
  <2>2. o # <<>> /\ Recent(o) = <<>>
    BY <1>1, <2>1 DEF Inactive, AlertsTyped
  <2>3. ~(Back(o, 0) > now - Window)
    BY <1>1, <2>2, RecentLast
  <2>4. lost \in Nat \/ lost = -100
    BY <1>1 DEF AlertsTyped, Never
  <2>5. h = <<>> \/ (Last(h) = Back(h, 0) /\ Last(h) \in Nat)
    BY <1>1, <1>2, LastIsBack
  <2>6. Back(o, 0) \in Nat
    <3>1. o \in Seq(Nat) /\ Len(o) \in Nat /\ 0 < Len(o)
      BY <1>1, <2>2 DEF InOrder
    <3> QED BY <1>1, <3>1, InOrderBack
  <2>7. CASE Reporting(s)
    <3>1. lost = now
      BY <2>1, <2>7 DEF AlertsInv, ReportSound, Reporting
    <3>2. lost > now - Window
      BY <1>1, <1>2, <3>1
    <3> QED BY <1>6, <2>1, <3>2
  <2>8. CASE ~Reporting(s)
    <3>1. h = <<>> \/ lost >= Back(h, 0) \/ Back(o, 0) >= Back(h, 0)
      BY <1>1, <2>8 DEF SignalSound, CountedSound
    <3>2. h = <<>> \/ Last(h) <= now - Window \/ lost > now - Window
      BY <1>1, <1>2, <2>3, <2>4, <2>5, <2>6, <3>1
    <3> QED BY <1>6, <2>1, <3>2 DEF NoneWithin
  <2> QED BY <2>7, <2>8
<1> QED BY <1>5, <1>6

(* A step tells the truth.                                                   *)
LEMMA AlertsStepTruly == ASSUME AlertAssumption, AlertsInv, [AlertsNext]_alertVars PROVE AlertsTruly
<1>1. CASE told' = told
  BY <1>1 DEF AlertsTruly
<1>2. ASSUME NEW up \in BOOLEAN, NEW alertsUp \in BOOLEAN, NEW e \in Input, record(e, up, alertsUp)
      PROVE AlertsTruly
  <2>1. SUFFICES ASSUME NEW s \in AlertSignal, told'[s] # told[s]
                 PROVE IF told'[s] = "FIRING" THEN Surge(happened'[s], Threshold[s], now)
                       ELSE told[s] = "FIRING" /\ (NoneWithin(happened[s], now) \/ lost > now - Window)
    BY DEF AlertsTruly
  <2>2. PICK n \in Nat : signalsFor(e) \in [1..n -> AlertSignal]
    BY SignalsListed
  <2>3. observe(signalsFor(e), alertsUp) /\ ~report
    BY <1>2 DEF record
  <2>4. PICK taken \in BOOLEAN : Observed(s, ToSet(signalsFor(e)), taken, alertsUp)
    BY <2>2, <2>3, ObserveGives
  <2>5. s \in ToSet(signalsFor(e)) => ~Reporting(s) /\ happened'[s] = Append(happened[s], now)
    BY <1>2, <2>3 DEF record, Happens, Reporting
  <2> QED BY <2>1, <2>4, <2>5, ObservedTruly
<1>3. ASSUME NEW up \in BOOLEAN, NEW alertsUp \in BOOLEAN, heartbeat(up, alertsUp) PROVE AlertsTruly
  <2> DEFINE e == [category |-> "TELEMETRY", outcome |-> "SUCCESS", reason |-> None]
  <2>1. SUFFICES ASSUME NEW s \in AlertSignal, told'[s] # told[s]
                 PROVE IF told'[s] = "FIRING" THEN Surge(happened'[s], Threshold[s], now)
                       ELSE told[s] = "FIRING" /\ (NoneWithin(happened[s], now) \/ lost > now - Window)
    BY DEF AlertsTruly
  <2>2. PICK n \in Nat : signalsFor(e) \in [1..n -> AlertSignal]
    BY SignalsListed
  <2>3. observe(signalsFor(e), alertsUp)
    BY <1>3 DEF heartbeat
  <2>4. ToSet(signalsFor(e)) = {}
    <3>1. SignalsOf(e) = {}
      BY DEF SignalsOf, AlertAssumption
    <3> QED BY <3>1, SignalsListed
  <2>5. PICK taken \in BOOLEAN : Observed(s, ToSet(signalsFor(e)), taken, alertsUp)
    BY <2>2, <2>3, ObserveGives
  <2> HIDE DEF e
  <2> QED BY <2>1, <2>4, <2>5, ObservedTruly
<1>4. ASSUME NEW alertsUp \in BOOLEAN, recordPipelineFailure(alertsUp) PROVE AlertsTruly
  <2>1. SUFFICES ASSUME NEW s \in AlertSignal, told'[s] # told[s]
                 PROVE IF told'[s] = "FIRING" THEN Surge(happened'[s], Threshold[s], now)
                       ELSE told[s] = "FIRING" /\ (NoneWithin(happened[s], now) \/ lost > now - Window)
    BY DEF AlertsTruly
  <2>2. PICK n \in Nat : signalsFor(Failure) \in [1..n -> AlertSignal]
    BY SignalsListed
  <2>3. observe(signalsFor(Failure), alertsUp) /\ report /\ happened' = happened
    BY <1>4 DEF recordPipelineFailure
  <2>4. ToSet(signalsFor(Failure)) = SignalsOf(Failure)
    BY SignalsListed
  <2>5. \A r \in SignalsOf(Failure) : r = "telemetryFailures"
    BY DEF SignalsOf, Failure
  <2>6. PICK taken \in BOOLEAN : Observed(s, ToSet(signalsFor(Failure)), taken, alertsUp)
    BY <2>2, <2>3, ObserveGives
  <2>7. s \in ToSet(signalsFor(Failure)) => Reporting(s) /\ happened'[s] = happened[s]
    BY <2>3, <2>4, <2>5 DEF Reporting
  <2> QED BY <2>1, <2>6, <2>7, ObservedTruly
<1>5. CASE Tick \/ UNCHANGED alertVars
  BY <1>1, <1>5 DEF Tick, alertVars
<1> QED BY <1>2, <1>3, <1>4, <1>5 DEF AlertsNext

(* Of every process, its alerts tell a surge while it lasts, and its end     *)
(* within a window and a heartbeat, for every threshold, window and interval *)
(* and however often each sink fails.                                        *)
THEOREM AlertsTellSurges == ASSUME AlertAssumption PROVE AlertsSpec => []AlertsSound
<1>1. AlertsInit => AlertsInv
  BY AlertsInitially
<1>2. AlertsInv /\ [AlertsNext]_alertVars => AlertsInv'
  BY AlertsStep
<1>3. AlertsInv => AlertsSound
  BY AlertsFollow
<1> QED BY <1>1, <1>2, <1>3, PTL DEF AlertsSpec

(* And tell nothing else: an alert fires only in a window with a threshold   *)
(* of events, and is resolved only when it holds none, but for alerts lost.  *)
THEOREM AlertsTellTruly == ASSUME AlertAssumption PROVE AlertsSpec => [][AlertsTruly]_alertVars
<1>1. AlertsInit => AlertsInv
  BY AlertsInitially
<1>2. AlertsInv /\ [AlertsNext]_alertVars => AlertsInv'
  BY AlertsStep
<1>3. AlertsInv /\ [AlertsNext]_alertVars => [AlertsTruly]_alertVars
  BY AlertsStepTruly
<1> QED BY <1>1, <1>2, <1>3, PTL DEF AlertsSpec
=============================================================================
