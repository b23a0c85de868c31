----------------------------- MODULE MCProgress -----------------------------
(* What must come about in the end, each under the fairness its own module   *)
(* states and justifies.  Workers, calls of a key and events are symmetric,  *)
(* so that a property of one of them is one of all.                          *)
EXTENDS Integers, FiniteSets, Sequences, TLC

CONSTANTS None, Absent, NoActor, alice, bob, carol, k1, p, q,
  call1, call2, call3, mine, theirs, w1, w2

VARIABLES
  scenario, \* which of the scenarios below the behaviour is of
  rows, ledger, receipt, negative, snapshot, worker, author, sent, replies,
  tails, observations, negatives, dispositions, inbox, processing, call,
  troubles, performed, answered, time, pc, read, verdict, answer, wait, tries,
  start, listening, pool, request, active, inFlight, shut, stage, drained,
  expired, exit, ran, database, probes, closed, cacheLeft, check, asking, waited,
  unhealthy
vars == <<scenario, rows, ledger, receipt, negative, snapshot, worker, author,
         sent, replies, tails, observations, negatives, dispositions, inbox, processing,
         call, troubles, performed, answered, time, pc, read, verdict, answer, wait,
         tries, start, listening, pool, request, active, inFlight, shut, stage, drained,
         expired, exit, ran, database, probes, closed, cacheLeft, check, asking, waited,
         unhealthy>>

(* The variables by the modules that have them; they are off in the others.  *)
Off == "off"
NoRows == rows = Off
ofLedger == <<ledger, receipt, negative, snapshot, worker, author, sent,
  replies>>
NoLedger ==
  /\ ledger = Off /\ receipt = Off /\ negative = Off /\ snapshot = Off
  /\ worker = Off /\ author = Off /\ sent = Off /\ replies = Off
ofInMemoryExecution == <<tails, observations, negatives, dispositions>>
NoInMemoryExecution ==
  /\ tails = Off /\ observations = Off /\ negatives = Off /\ dispositions = Off
ofProviderInbox == <<inbox, processing, call, troubles, performed, answered>>
NoProviderInbox ==
  /\ inbox = Off /\ processing = Off /\ call = Off /\ troubles = Off
  /\ performed = Off /\ answered = Off
ofRateLimiter == <<time, pc, read, verdict, wait, tries>>
NoRateLimiter ==
  /\ time = Off /\ pc = Off /\ read = Off /\ verdict = Off /\ wait = Off
  /\ tries = Off
NoAnswer == answer = Off
ofRuntime == <<start, listening, pool, request, active, inFlight, shut, stage,
  drained, expired, exit, ran>>
NoRuntime ==
  /\ start = Off /\ listening = Off /\ pool = Off /\ request = Off
  /\ active = Off /\ inFlight = Off /\ shut = Off /\ stage = Off
  /\ drained = Off /\ expired = Off /\ exit = Off /\ ran = Off
ofReadiness == <<database, probes, closed, cacheLeft, check, asking, waited,
  unhealthy>>
NoReadiness ==
  /\ database = Off /\ probes = Off /\ closed = Off /\ cacheLeft = Off /\ check = Off
  /\ asking = Off /\ waited = Off /\ unhealthy = Off

Kernel == INSTANCE CellKernel WITH
  Actor <- {alice, bob, carol}, Amount <- {2}, Time <- {1, 3}
Deal == [payer |-> alice, payee |-> bob, arbiter |-> carol, amount |-> 2,
         fundingDeadline |-> 1, completionDeadline |-> 2]
Agreed == <<Kernel!CellCreated(Deal, TRUE, 1), Kernel!SimpleEvent("CellAccepted", bob, 1)>>
Funded == Append(Agreed, Kernel!CellFunded(alice, 2, 1))
Pending == Append(Funded, Kernel!SimpleEvent("ReleaseRequested", alice, 1))

(* Settlements of one cell queue for its receipt row and for its next        *)
(* version, one of them sent under an id that another command uses too.      *)
Req(id, type, by) == [id |-> id, cell |-> k1, command |-> [type |-> type, by |-> by]]
MCWaits ==
  {Req("c1", "ApproveRelease", bob), Req("c2", "ForceRefund", alice), Req("c2", "ApproveRelease", bob)}
MCTurns == {Req("c1", "ApproveRelease", bob), Req("c1", "OpenDispute", bob)}

(* Two events and two workers of an id of their own.                         *)
Delivery(i, r) == [identity |-> i, replay |-> r]
MCDeliveries == {Delivery("e1", "r1"), Delivery("e2", "r2")}
MCWorkerOf == [c \in {"c1", "c2"} |-> IF c = "c1" THEN "w1" ELSE "w2"]
MCKeyOf(x) == IF x = call3 THEN theirs ELSE mine

Postgres == INSTANCE CommandExecution WITH
  Actor <- {alice, bob, carol}, Cell <- {k1}, Worker <- {w1, w2},
  ProviderTx <- {p, q}, CommandId <- {"c1", "c2"}, Amount <- {2},
  Time <- {1, 3}, InitialRows <- [c \in {k1} |-> {Pending}],
  Requests <- MCWaits, MaxSends <- 1
Memory == INSTANCE InMemoryExecution WITH
  Actor <- {alice, bob, carol}, Cell <- {k1}, Worker <- {w1, w2},
  ProviderTx <- {p, q}, CommandId <- {"c1", "c2"}, Amount <- {2},
  Time <- {1, 3}, InitialRows <- [c \in {k1} |-> {Pending}],
  Requests <- MCTurns, MaxSends <- 2, Reports <- {}, Findings <- {}
Inbox == INSTANCE ProviderInbox WITH
  Caller <- {"c1", "c2"}, WorkerOf <- MCWorkerOf, Deliveries <- MCDeliveries,
  LeaseMs <- 2, MaxAge <- 1, MaxTroubles <- 2
Rate == INSTANCE RateLimiter WITH
  Call <- {call1, call2, call3}, Bucket <- {mine, theirs}, KeyOf <- MCKeyOf,
  Limit <- 1, Window <- 3, Retention <- 3, Second <- 2, MaxLatency <- 1,
  LastReading <- 4
Process == INSTANCE Runtime WITH
  Request <- {"a", "b"}, Probe <- {}, MaxConcurrent <- 2
Ready == INSTANCE Readiness WITH
  Caller <- {"a1"}, Query <- {"x1", "x2"}, Timeout <- 2, CacheFor <- 3

Init ==
  \/ scenario = "postgres" /\ Postgres!Init /\ NoInMemoryExecution
     /\ NoProviderInbox /\ NoRateLimiter /\ NoAnswer /\ NoRuntime /\ NoReadiness
  \/ scenario = "memory" /\ Memory!MemoryInit /\ NoProviderInbox
     /\ NoRateLimiter /\ NoAnswer /\ NoRuntime /\ NoReadiness
  \/ scenario = "inbox" /\ Inbox!InboxInit /\ NoRows /\ NoLedger
     /\ NoInMemoryExecution /\ NoRateLimiter /\ NoAnswer /\ NoRuntime
     /\ NoReadiness
  \/ scenario = "rate" /\ Rate!RateInit /\ NoLedger /\ NoInMemoryExecution
     /\ NoProviderInbox /\ NoRuntime /\ NoReadiness
  \/ scenario = "process" /\ Process!ProcessInit /\ NoRows /\ NoLedger
     /\ NoInMemoryExecution /\ NoProviderInbox /\ NoRateLimiter /\ NoReadiness
  \/ scenario = "ready" /\ Ready!ReadinessInit /\ NoRows /\ NoLedger
     /\ NoInMemoryExecution /\ NoProviderInbox /\ NoRateLimiter /\ NoAnswer
     /\ NoRuntime
PostgresStep ==
  /\ scenario = "postgres" /\ Postgres!Next
  /\ UNCHANGED <<scenario, ofInMemoryExecution, ofProviderInbox, ofRateLimiter,
    answer, ofRuntime, ofReadiness>>
MemoryStep ==
  /\ scenario = "memory" /\ Memory!MemoryNext
  /\ UNCHANGED <<scenario, ofProviderInbox, ofRateLimiter, answer, ofRuntime,
    ofReadiness>>
InboxStep ==
  /\ scenario = "inbox" /\ Inbox!InboxNext
  /\ UNCHANGED <<scenario, rows, ofLedger, ofInMemoryExecution, ofRateLimiter,
    answer, ofRuntime, ofReadiness>>
RateStep ==
  /\ scenario = "rate" /\ Rate!RateNext
  /\ UNCHANGED <<scenario, ofLedger, ofInMemoryExecution, ofProviderInbox,
    ofRuntime, ofReadiness>>
ProcessStep ==
  /\ scenario = "process" /\ Process!ProcessNext
  /\ UNCHANGED <<scenario, rows, ofLedger, ofInMemoryExecution, ofProviderInbox,
    ofRateLimiter, ofReadiness>>
ReadyStep ==
  /\ scenario = "ready" /\ Ready!ReadinessNext
  /\ UNCHANGED <<scenario, rows, ofLedger, ofInMemoryExecution, ofProviderInbox,
    ofRateLimiter, answer, ofRuntime>>
Next == PostgresStep \/ MemoryStep \/ InboxStep \/ RateStep \/ ProcessStep \/
        ReadyStep
Spec == Init /\ [][Next]_vars
Fairness ==
  /\ \A w \in {w1, w2} : SF_(Postgres!vars)(scenario = "postgres" /\ Postgres!WorkerStep(w))
  /\ WF_(Postgres!vars)(scenario = "postgres" /\ Postgres!RecordNegative(k1))
  /\ \A w \in {w1, w2} : WF_(Memory!memory)(scenario = "memory" /\ Memory!MemoryStep(w))
  /\ WF_(Inbox!inboxVars)(scenario = "inbox" /\ Inbox!Tick)
  /\ \A c \in {"c1", "c2"} : WF_(Inbox!inboxVars)(scenario = "inbox" /\ Inbox!CallerStep(c))
  /\ \A e \in {"e1", "e2"} :
       SF_(Inbox!inboxVars)(scenario = "inbox" /\ \E c \in {"c1", "c2"} : Inbox!Start(c, e))
  /\ \A c \in {call1, call2, call3} :
       WF_(Rate!rateVars)(scenario = "rate" /\ (Rate!ReadClock(c) \/ Rate!Attempt(c) \/ Rate!Cleanup(c)))
  /\ WF_(Process!processVars)(scenario = "process" /\ Process!Expire)
  /\ WF_(Process!processVars)(scenario = "process" /\ Process!Disconnect)
  /\ WF_(Process!processVars)(scenario = "process" /\ Process!GivesUp)
  /\ WF_(Ready!readinessVars)(scenario = "ready" /\ Ready!TimePasses)
  /\ WF_(Ready!readinessVars)(scenario = "ready" /\ Ready!withTimeout)
  /\ WF_(Ready!readinessVars)(scenario = "ready" /\ (Ready!readyCheck("a1") \/ Ready!Hear("a1")))
  /\ \A x \in {"x1", "x2"} :
       WF_(Ready!readinessVars)(scenario = "ready" /\ (Ready!queryReadiness(x) \/ Ready!executeReadyCheck(x)))
FairSpec == Spec /\ Fairness

-----------------------------------------------------------------------------
(* No request hangs: over PostgreSQL the waits for ids, receipt rows and     *)
(* versions never form a cycle and every wait ends, and in memory a command  *)
(* that failed does not hold up its id.                                      *)
RequestsEnd ==
  (scenario \in {"postgres", "memory"} /\ worker[w1].pc # "idle")
    ~> (scenario \in {"postgres", "memory"} /\ worker[w1].pc = "idle")

(* Every recorded event is processed in the end, once crashes and failures   *)
(* stop; statements of the limiter that wait for each other's rows all end;  *)
(* a process that was told to stop stops, whatever hangs; and a database     *)
(* that stays up is found ready again, whatever was outstanding before.      *)
ServicesProgress ==
  /\ (scenario = "inbox" /\ "e1" \in Inbox!Recorded)
       ~> (scenario = "inbox" /\ processing["e1"].state = "PROCESSED")
  /\ scenario = "rate" => <>(scenario = "rate" /\ pc[call1] = "done")
  /\ (scenario = "process" /\ shut) ~> (scenario = "process" /\ exit # None)
  /\ (<>[](scenario = "ready" /\ database = "up" /\ ~closed)) => []<>(scenario = "ready" /\ asking["a1"] = "ready")
=============================================================================
