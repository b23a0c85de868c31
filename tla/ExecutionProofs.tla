-------------------------- MODULE ExecutionProofs --------------------------
(***************************************************************************)
(* Theorems about CommandExecution for any number of workers, cells,        *)
(* commands, provider transactions and repetitions.  First AnswersDurable   *)
(* and EffectsSound, where the kernel takes part only by the events a       *)
(* command emits; then what the concurrent executions make of the streams:  *)
(* a commit is one handler of the serial kernel applied to the current      *)
(* state (CommandRefinement), streams stay readable, snapshots are states   *)
(* the cell had, and no settlement passes a recorded reversal.  Last, what   *)
(* of it InMemoryExecution keeps without transactions.                      *)
(***************************************************************************)
EXTENDS CommandRefinement, InMemoryExecution, KernelProofs, FiniteSetTheorems, SequenceTheorems,
        TLAPS

CommandType ==
  DOMAIN SimpleEmission \cup {"CreateCell", "FundCell", "ResolveDispute"}

(* What the environment offers: commands of their type, cells that begin     *)
(* with events, and sentinels that are nothing else.                         *)
WellFormed ==
  /\ \A r \in Requests :
       /\ r.command.type \in CommandType
       /\ r.command.type = "CreateCell" => r.command.terms \in TermsType
       /\ r.command.type # "CreateCell" => r.command.by \in Actor
       /\ r.command.type = "FundCell" => r.command.amount \in Amount
       /\ r.command.type = "ResolveDispute" => r.command.favourOf \in {"payer", "payee"}
  /\ \A c \in Cell : InitialRows[c] \subseteq Seq(Event)
  /\ Prelude \notin CommandId
  /\ \A c \in Cell : <<Prelude, c>> \notin ProviderTx

LedgerRow == [fingerprint : Requests \X (Time \cup {Never}), result : Result]
Receipt == [tx : ProviderTx \cup {<<Prelude, c>> : c \in Cell}, id : CommandId \cup {Prelude}]
Sentinels == Absent \notin LedgerRow /\ Absent \notin Receipt

-----------------------------------------------------------------------------
(* The events of a command: two for an award, one for any other; a funding   *)
(* event for a funding and for nothing else.                                 *)
Wrote(x) ==
  /\ Len(x.produced) = Emitted(x.req.command.type)
  /\ \A i \in 1 .. Len(x.produced) :
       x.produced[i].type = "CellFunded" <=> x.req.command.type = "FundCell"

LEMMA Singleton ==
  ASSUME NEW S, NEW e \in S
  PROVE  <<e>> \in Seq(S) /\ Len(<<e>>) = 1 /\ \A i \in 1 .. 1 : <<e>>[i] = e
OBVIOUS

LEMMA EmissionsShape ==
  ASSUME WellFormed, NEW r \in Requests, NEW now \in Time
  PROVE  LET e == Emissions(r.command, now) IN
         /\ e \in Seq(Event)
         /\ Len(e) = Emitted(r.command.type)
         /\ \A i \in 1 .. Len(e) : e[i].type = "CellFunded" <=> r.command.type = "FundCell"
<1> DEFINE c == r.command
<1>0. c.type \in CommandType
  BY DEF WellFormed
<1>1. CASE c.type = "CreateCell"
  <2> DEFINE e == CellCreated(c.terms, TRUE, now)
  <2>1. c.terms \in TermsType
    BY <1>1 DEF WellFormed
  <2>2. e \in Event /\ e.type = "CellCreated"
    BY <2>1 DEF CellCreated, Event, TermsType
  <2>3. Emissions(c, now) = <<e>>
    BY <1>1 DEF Emissions
  <2> HIDE DEF e
  <2> QED
    BY <1>1, <2>2, <2>3, Singleton DEF Emitted
<1>2. CASE c.type = "FundCell"
  <2>1. c.by \in Actor /\ c.amount \in Amount
    BY <1>2 DEF WellFormed
  <2>2. CellFunded(c.by, c.amount, now) \in Event /\ CellFunded(c.by, c.amount, now).type = "CellFunded"
    BY <2>1 DEF CellFunded, Event
  <2>3. Emissions(c, now) = <<CellFunded(c.by, c.amount, now)>>
    BY <1>2 DEF Emissions
  <2> QED
    BY <1>2, <2>2, <2>3, Singleton DEF Emitted
<1>3. CASE c.type = "ResolveDispute"
  <2> DEFINE first == DisputeResolved(c.by, c.favourOf, now)
             second == SimpleEvent(Settlement(c.favourOf), c.by, now)
  <2>1. c.by \in Actor /\ c.favourOf \in {"payer", "payee"}
    BY <1>3 DEF WellFormed
  <2>2. first \in Event /\ first.type = "DisputeResolved"
    BY <2>1 DEF DisputeResolved, Event
  <2>3. second \in Event /\ second.type \in {"Released", "Refunded"}
    BY <2>1 DEF SimpleEvent, Settlement, Event, SimpleEventType
  <2>4. Emissions(c, now) = <<first, second>>
    BY <1>3 DEF Emissions
  <2>5. <<first, second>> \in Seq(Event) /\ Len(<<first, second>>) = 2
    BY <2>2, <2>3
  <2>6. \A i \in 1 .. 2 : <<first, second>>[i].type # "CellFunded"
    BY <2>2, <2>3
  <2> QED
    BY <1>3, <2>4, <2>5, <2>6 DEF Emitted
<1>4. CASE c.type \in DOMAIN SimpleEmission
  <2> DEFINE e == SimpleEvent(SimpleEmission[c.type], c.by, now)
  <2>1. c.type \notin {"CreateCell", "FundCell", "ResolveDispute"}
    BY <1>4 DEF SimpleEmission
  <2>2. c.by \in Actor
    BY <2>1 DEF WellFormed
  <2>3. SimpleEmission[c.type] \in SimpleEventType
    BY <1>4 DEF SimpleEmission, SimpleEventType
  <2>4. e \in Event /\ e.type # "CellFunded"
    BY <2>2, <2>3 DEF SimpleEvent, Event, SimpleEventType
  <2>5. Emissions(c, now) = <<e>>
    BY <2>1 DEF Emissions
  <2> QED
    BY <2>1, <2>4, <2>5, Singleton DEF Emitted
<1> QED
  BY <1>0, <1>1, <1>2, <1>3, <1>4 DEF CommandType

(* What the synchronous tail makes of a request whose cell is loaded.        *)
LEMMA DecidedShape ==
  ASSUME WellFormed, NEW x \in WorkerState
  PROVE  LET y == Decided(x) IN
         /\ y \in WorkerState
         /\ y.req = x.req /\ y.now = x.now /\ y.loaded = x.loaded /\ y.locked = x.locked
         /\ \/ y.pc = "commit" /\ y.outcome = "KERNEL_REJECTION"
            \/ /\ y.pc \in {"claim", "append"} /\ y.outcome = x.outcome /\ Wrote(y)
               /\ y.pc = "append" => y.req.command.type # "FundCell"
               /\ y.pc = "claim" => y.req.command.type = "FundCell"
<1> DEFINE produced == ApplyCommand(Evolve(x.loaded), x.req.command, x.now)
           rejected == [x EXCEPT !.pc = "commit", !.outcome = "KERNEL_REJECTION"]
           pc == IF x.req.command.type = "FundCell" THEN "claim" ELSE "append"
           accepted == [x EXCEPT !.produced = produced, !.pc = pc]
<1>1. x.req \in Requests /\ x.now \in Time
  BY DEF WorkerState
<1>2. CASE produced = <<>>
  <2>1. Decided(x) = rejected
    BY <1>2 DEF Decided
  <2>2. /\ rejected \in WorkerState
        /\ rejected.pc = "commit" /\ rejected.outcome = "KERNEL_REJECTION"
        /\ rejected.req = x.req /\ rejected.now = x.now /\ rejected.loaded = x.loaded
        /\ rejected.locked = x.locked
    BY DEF WorkerState, Outcome, Rejected
  <2> QED
    BY <2>1, <2>2
<1>3. CASE produced # <<>>
  <2>1. Decided(x) = accepted
    BY <1>3 DEF Decided
  <2>2. produced = Emissions(x.req.command, x.now)
    BY <1>3 DEF ApplyCommand
  <2>3. /\ produced \in Seq(Event)
        /\ Len(produced) = Emitted(x.req.command.type)
        /\ \A i \in 1 .. Len(produced) :
             produced[i].type = "CellFunded" <=> x.req.command.type = "FundCell"
    BY <1>1, <2>2, EmissionsShape
  <2> HIDE DEF produced
  <2>4. /\ pc \in {"claim", "append"}
        /\ pc = "append" => x.req.command.type # "FundCell"
        /\ pc = "claim" => x.req.command.type = "FundCell"
    OBVIOUS
  <2> HIDE DEF pc
  <2>5. /\ accepted \in WorkerState
        /\ accepted.pc = pc /\ accepted.outcome = x.outcome /\ accepted.produced = produced
        /\ accepted.req = x.req /\ accepted.now = x.now /\ accepted.loaded = x.loaded
        /\ accepted.locked = x.locked
    BY <2>3, <2>4 DEF WorkerState
  <2> HIDE DEF accepted
  <2>6. Wrote(accepted)
    BY <2>3, <2>5 DEF Wrote
  <2> QED
    BY <2>1, <2>4, <2>5, <2>6
<1> QED
  BY <1>2, <1>3

-----------------------------------------------------------------------------
(* Inserting behind the last row appends.                                    *)
Extended(q, new) == Inserted(q, Len(q) + 1, new)

LEMMA ExtendedShape ==
  ASSUME NEW S, NEW q \in Seq(S), NEW new \in Seq(S)
  PROVE  /\ Extended(q, new) \in Seq(S)
         /\ Len(Extended(q, new)) = Len(q) + Len(new)
         /\ Len(Extended(q, new)) >= Len(q)
         /\ \A v \in 1 .. Len(q) : Extended(q, new)[v] = q[v]
         /\ \A v \in Len(q) + 1 .. Len(q) + Len(new) : Extended(q, new)[v] = new[v - Len(q)]
<1> DEFINE n == Len(q) + Len(new)
           f == [v \in 1 .. n |-> IF v \in 1 .. Len(q) THEN q[v] ELSE new[v - Len(q)]]
<1>1. Len(q) \in Nat /\ Len(new) \in Nat /\ DOMAIN q = 1 .. Len(q)
  OBVIOUS
<1>2. DOMAIN q \cup (Len(q) + 1) .. (Len(q) + 1) + Len(new) - 1 = 1 .. n
  BY <1>1
<1>3. \A v \in 1 .. n : v - (Len(q) + 1) + 1 = v - Len(q)
  BY <1>1
<1>4. Extended(q, new) = f
  BY <1>1, <1>2, <1>3 DEF Extended, Inserted
<1>5. \A v \in 1 .. n : f[v] \in S
  <2> SUFFICES ASSUME NEW v \in 1 .. n PROVE f[v] \in S
    OBVIOUS
  <2>1. CASE v \in 1 .. Len(q)
    BY <2>1
  <2>2. CASE v \notin 1 .. Len(q)
    <3>1. v - Len(q) \in 1 .. Len(new)
      BY <1>1, <2>2
    <3> QED
      BY <2>2, <3>1
  <2> QED
    BY <2>1, <2>2
<1>6. f \in Seq(S) /\ Len(f) = n
  <2>1. f \in [1 .. n -> S] /\ n \in Nat
    BY <1>1, <1>5
  <2>2. DOMAIN f = 1 .. n
    OBVIOUS
  <2> HIDE DEF f
  <2> QED
    BY <2>1, <2>2, SeqDef, LenProperties
<1>7. /\ n >= Len(q)
      /\ \A v \in 1 .. Len(q) : f[v] = q[v]
      /\ \A v \in Len(q) + 1 .. Len(q) + Len(new) : f[v] = new[v - Len(q)]
  BY <1>1
<1> HIDE DEF f
<1> QED
  BY <1>4, <1>6, <1>7

-----------------------------------------------------------------------------
(* The inductive invariant.  Types first: a row of author for a row of       *)
(* events.                                                                   *)
Typed ==
  /\ worker \in [Worker -> {Idle} \cup WorkerState]
  /\ rows \in [Cell -> Seq(Event)]
  /\ author \in [Cell -> Seq(CommandId \cup {Prelude})]
  /\ \A c \in Cell : Len(author[c]) = Len(rows[c])
  /\ ledger \in [CommandId -> {Absent} \cup LedgerRow]
  /\ receipt \in [Cell -> {Absent} \cup Receipt]

(* What a request x in flight holds.                                         *)
Open(x) == x.pc \in {"load", "check", "claim", "append", "commit", "abort"}
Decides(x) == x.pc = "commit" /\ x.outcome = "SUCCESS"
Claims(x) ==
  /\ x.pc \in {"append", "commit", "abort"}
  /\ x.pc = "commit" => x.outcome = "SUCCESS"
  /\ x.req.command.type = "FundCell"

(* What it knows of the tables, and will still be true when it commits.      *)
LedgerRowOf(x) ==
  [fingerprint |-> Fingerprint(x.req, x.now),
   result |-> [outcome |-> x.outcome,
               version |-> IF x.outcome = "SUCCESS" THEN ResultingVersion(x.loaded, x.produced) ELSE 0]]
Outcomes(x) ==
  /\ x.pc \in {"begin", "load", "check", "claim", "append", "abort"} => x.outcome = "PERSISTENCE_FAILURE"
  /\ x.pc = "commit" => x.outcome \in {"SUCCESS"} \cup Rejected
  /\ x.pc = "save" => x.outcome = "SUCCESS"
  /\ x.pc \in {"claim", "append"} \/ x.outcome = "SUCCESS" => Wrote(x)
Knows(x) ==
  /\ Len(x.loaded) <= Len(rows[x.req.cell])
  /\ Decides(x) => Len(x.loaded) = Len(rows[x.req.cell])
  /\ Open(x) => ledger[x.req.id] = Absent
  /\ x.pc = "save" => ledger[x.req.id] = LedgerRowOf(x)
  /\ Claims(x) =>
       /\ receipt[x.req.cell] = Absent
       /\ \A c \in Cell : receipt[c] # Absent => receipt[c].tx # x.req.tx

(* What two requests may not both hold.                                      *)
Apart(x, y) ==
  /\ Open(x) /\ Open(y) => x.req.id # y.req.id
  /\ Decides(x) /\ Decides(y) => x.req.cell # y.req.cell
  /\ Claims(x) /\ Claims(y) => x.req.cell # y.req.cell /\ x.req.tx # y.req.tx

Locks ==
  /\ \A w \in Worker : worker[w] # Idle => Outcomes(worker[w]) /\ Knows(worker[w])
  /\ \A w \in Worker : \A v \in Worker \ {w} : Apart(worker[w], worker[v])

-----------------------------------------------------------------------------
LEMMA Busy ==
  ASSUME Typed, NEW w \in Worker, worker[w].pc # "idle"
  PROVE  worker[w] \in WorkerState /\ worker[w] # Idle
BY DEF Typed, Idle

LEMMA IdleHoldsNothing ==
  ASSUME NEW y
  PROVE  Apart(Idle, y) /\ Apart(y, Idle)
BY DEF Apart, Open, Decides, Claims, Idle

(* The steps that change no table: the worker moves to x.                    *)
QuietStep(w) ==
  \/ \E r \in Requests, now \in Time : Receive(w, r, now)
  \/ ClaimCommand(w) \/ LoadCell(w) \/ CheckDispute(w) \/ ClaimReceipt(w)
  \/ AppendEvents(w) \/ RollBack(w) \/ SaveSnapshot(w) \/ Crash(w)
MovesTo(w, x) ==
  /\ x \in {Idle} \cup WorkerState
  /\ worker' = [worker EXCEPT ![w] = x]
  /\ UNCHANGED tables
  /\ x # Idle => Outcomes(x) /\ Knows(x)
  /\ \A v \in Worker \ {w} : Apart(x, worker[v])

LEMMA MovesToIdle ==
  ASSUME NEW w \in Worker, worker' = [worker EXCEPT ![w] = Idle], UNCHANGED tables
  PROVE  MovesTo(w, Idle)
BY IdleHoldsNothing DEF MovesTo

(* A request that keeps its id, and gets neither rows nor a claim, stays     *)
(* apart from the others.                                                    *)
LEMMA StaysApart ==
  ASSUME Locks, NEW w \in Worker, NEW x,
         x.req = worker[w].req,
         Open(x) => Open(worker[w]),
         ~Decides(x), Claims(x) => Claims(worker[w])
  PROVE  \A v \in Worker \ {w} : Apart(x, worker[v])
BY DEF Locks, Apart

LEMMA ReceiveMoves ==
  ASSUME WellFormed, Typed, Locks, NEW w \in Worker, NEW r \in Requests, NEW now \in Time,
         Receive(w, r, now)
  PROVE  MovesTo(w, Received(r, now))
<1> DEFINE x == Received(r, now)
<1> SUFFICES MovesTo(w, x)
  OBVIOUS
<1>1. /\ x \in WorkerState /\ x.pc = "begin" /\ x.req = r /\ x.loaded = <<>>
      /\ x.outcome = "PERSISTENCE_FAILURE"
  BY DEF Received, WorkerState, Outcome
<1>2. worker' = [worker EXCEPT ![w] = x] /\ UNCHANGED tables
  BY DEF Receive
<1> HIDE DEF x
<1>3. r.cell \in Cell /\ Len(<<>>) = 0
  BY RequestAssumption, EmptySeq
<1>4. Len(rows[r.cell]) \in Nat
  BY <1>3 DEF Typed
<1>5. Outcomes(x) /\ Knows(x)
  BY <1>1, <1>3, <1>4 DEF Outcomes, Knows, Open, Decides, Claims
<1>6. \A y : Apart(x, y)
  BY <1>1 DEF Apart, Open, Decides, Claims
<1> QED
  BY <1>1, <1>2, <1>5, <1>6 DEF MovesTo

LEMMA ClaimCommandMoves ==
  ASSUME WellFormed, Typed, Locks, NEW w \in Worker, ClaimCommand(w)
  PROVE  \E x : MovesTo(w, x)
<1>1. worker[w] \in WorkerState /\ worker[w] # Idle /\ worker[w].pc = "begin"
  BY Busy DEF ClaimCommand
<1>2. UNCHANGED tables
  BY DEF ClaimCommand
<1>3. CASE worker' = [worker EXCEPT ![w] = Idle]
  BY <1>2, <1>3, MovesToIdle
<1>4. CASE ledger[worker[w].req.id] = Absent /\ worker' = [worker EXCEPT ![w].pc = "load"]
  <2> DEFINE x == [worker[w] EXCEPT !.pc = "load"]
  <2>1. /\ x \in WorkerState /\ x.pc = "load" /\ x.req = worker[w].req
        /\ x.loaded = worker[w].loaded /\ x.outcome = worker[w].outcome
    BY <1>1 DEF WorkerState
  <2>2. worker' = [worker EXCEPT ![w] = x]
    BY <1>4
  <2> HIDE DEF x
  <2>3. Outcomes(worker[w]) /\ Knows(worker[w])
    BY <1>1 DEF Locks
  <2>4. Outcomes(x)
    BY <1>1, <2>1, <2>3 DEF Outcomes
  <2>5. Knows(x)
    BY <1>1, <1>4, <2>1, <2>3 DEF Knows, Open, Decides, Claims
  <2>6. \A v \in Worker \ {w} : ~HoldsCommand(v, worker[w].req.id)
    BY DEF ClaimCommand
  <2>7. \A v \in Worker \ {w} : Apart(x, worker[v])
    BY <2>1, <2>6 DEF HoldsCommand, InTransaction, Apart, Open, Decides, Claims
  <2> QED
    BY <1>2, <2>1, <2>2, <2>4, <2>5, <2>7 DEF MovesTo
<1> QED
  BY <1>3, <1>4 DEF ClaimCommand, Answer

(* A request that is refused: nothing is held but the id.                    *)
LEMMA Refused ==
  ASSUME Typed, Locks, NEW w \in Worker, worker[w].pc \in {"load", "check", "claim"},
         NEW x \in WorkerState, x.req = worker[w].req,
         x.pc = "commit", x.outcome \in Rejected,
         Len(x.loaded) <= Len(rows[x.req.cell]),
         worker' = [worker EXCEPT ![w] = x], UNCHANGED tables
  PROVE  MovesTo(w, x)
<1>1. worker[w] # Idle
  BY Busy
<1>2. x.outcome # "SUCCESS"
  BY DEF Rejected
<1>3. Outcomes(x)
  BY <1>2 DEF Outcomes
<1>4. ledger[x.req.id] = Absent
  BY <1>1 DEF Locks, Knows, Open
<1>5. Knows(x)
  BY <1>2, <1>4 DEF Knows, Decides, Claims, Open
<1>6. \A v \in Worker \ {w} : Apart(x, worker[v])
  BY <1>2, StaysApart DEF Open, Decides, Claims
<1> QED
  BY <1>3, <1>5, <1>6 DEF MovesTo

(* A request that goes on to its next statement, with no claim yet.          *)
LEMMA GoesOn ==
  ASSUME Typed, Locks, NEW w \in Worker, worker[w].pc \in {"load", "check"},
         NEW x \in WorkerState, x.req = worker[w].req,
         x.pc \in {"check", "claim", "append"}, x.outcome = "PERSISTENCE_FAILURE",
         x.pc # "check" => Wrote(x),
         x.pc = "append" => x.req.command.type # "FundCell",
         Len(x.loaded) <= Len(rows[x.req.cell]),
         worker' = [worker EXCEPT ![w] = x], UNCHANGED tables
  PROVE  MovesTo(w, x)
<1>1. worker[w] # Idle
  BY Busy
<1>2. Outcomes(x)
  BY DEF Outcomes
<1>3. ledger[x.req.id] = Absent
  BY <1>1 DEF Locks, Knows, Open
<1>4. Knows(x)
  BY <1>3 DEF Knows, Decides, Claims, Open
<1>5. \A v \in Worker \ {w} : Apart(x, worker[v])
  BY StaysApart DEF Open, Decides, Claims
<1> QED
  BY <1>2, <1>4, <1>5 DEF MovesTo

(* Deciding in the state a request loaded.                                   *)
LEMMA DecidedMoves ==
  ASSUME WellFormed, Typed, Locks, NEW w \in Worker, worker[w].pc \in {"load", "check"},
         NEW y \in WorkerState, y.req = worker[w].req, y.outcome = "PERSISTENCE_FAILURE",
         Len(y.loaded) <= Len(rows[y.req.cell]),
         worker' = [worker EXCEPT ![w] = Decided(y)], UNCHANGED tables
  PROVE  MovesTo(w, Decided(y))
<1> DEFINE x == Decided(y)
<1> SUFFICES MovesTo(w, x)
  OBVIOUS
<1>1. /\ x \in WorkerState /\ x.req = y.req /\ x.loaded = y.loaded
      /\ \/ x.pc = "commit" /\ x.outcome = "KERNEL_REJECTION"
         \/ /\ x.pc \in {"claim", "append"} /\ x.outcome = y.outcome /\ Wrote(x)
            /\ x.pc = "append" => x.req.command.type # "FundCell"
  BY DecidedShape
<1>2. worker' = [worker EXCEPT ![w] = x]
  OBVIOUS
<1> HIDE DEF x
<1>3. CASE x.pc = "commit" /\ x.outcome = "KERNEL_REJECTION"
  BY <1>1, <1>2, <1>3, Refused DEF Rejected
<1>4. CASE /\ x.pc \in {"claim", "append"} /\ x.outcome = y.outcome /\ Wrote(x)
           /\ x.pc = "append" => x.req.command.type # "FundCell"
  <2>1. /\ x \in WorkerState /\ x.req = worker[w].req /\ x.pc \in {"check", "claim", "append"}
        /\ x.outcome = "PERSISTENCE_FAILURE"
        /\ x.pc # "check" => Wrote(x)
        /\ x.pc = "append" => x.req.command.type # "FundCell"
        /\ Len(x.loaded) <= Len(rows[x.req.cell])
    BY <1>1, <1>4
  <2> QED
    BY <1>2, <2>1, GoesOn
<1> QED
  BY <1>1, <1>3, <1>4

LEMMA LoadCellMoves ==
  ASSUME WellFormed, Typed, Locks, NEW w \in Worker, LoadCell(w)
  PROVE  \E x : MovesTo(w, x)
<1> DEFINE stream == rows[worker[w].req.cell]
           loaded == [worker[w] EXCEPT !.loaded = stream]
           checking == [loaded EXCEPT !.pc = "check"]
           refused == [worker[w] EXCEPT !.pc = "commit", !.outcome = "KERNEL_REJECTION"]
<1>1. worker[w] \in WorkerState /\ worker[w] # Idle /\ worker[w].pc = "load"
  BY Busy DEF LoadCell
<1>2. UNCHANGED tables
  BY DEF LoadCell
<1>3. Outcomes(worker[w]) /\ Knows(worker[w]) /\ worker[w].outcome = "PERSISTENCE_FAILURE"
  BY <1>1 DEF Locks, Outcomes
<1>4. stream \in Seq(Event) /\ Len(stream) \in Nat
  BY <1>1, RequestAssumption DEF Typed, WorkerState
<1>5. /\ refused \in WorkerState /\ refused.req = worker[w].req /\ refused.pc = "commit"
      /\ refused.outcome = "KERNEL_REJECTION" /\ refused.loaded = worker[w].loaded
  BY <1>1 DEF WorkerState, Outcome, Rejected
<1>6. /\ loaded \in WorkerState /\ loaded.req = worker[w].req /\ loaded.loaded = stream
      /\ loaded.outcome = "PERSISTENCE_FAILURE"
  BY <1>1, <1>3, <1>4 DEF WorkerState
<1>7. /\ checking \in WorkerState /\ checking.req = worker[w].req /\ checking.loaded = stream
      /\ checking.outcome = "PERSISTENCE_FAILURE" /\ checking.pc = "check"
  BY <1>1, <1>3, <1>4 DEF WorkerState
<1>8. \/ worker' = [worker EXCEPT ![w] = refused]
      \/ worker' = [worker EXCEPT ![w] = checking]
      \/ worker' = [worker EXCEPT ![w] = Decided(loaded)]
  BY DEF LoadCell, CellOf
<1>9. Len(refused.loaded) <= Len(rows[refused.req.cell])
  BY <1>3, <1>5 DEF Knows
<1>10. Len(stream) <= Len(stream)
  BY <1>4
<1> HIDE DEF stream, loaded, checking, refused
<1>11. rows[worker[w].req.cell] = stream
  BY DEF stream
<1>12. CASE worker' = [worker EXCEPT ![w] = refused]
  BY <1>1, <1>2, <1>5, <1>9, <1>12, Refused DEF Rejected
<1>13. CASE worker' = [worker EXCEPT ![w] = checking]
  BY <1>1, <1>2, <1>7, <1>10, <1>11, <1>13, GoesOn
<1>14. CASE worker' = [worker EXCEPT ![w] = Decided(loaded)]
  BY <1>1, <1>2, <1>6, <1>10, <1>11, <1>14, DecidedMoves
<1> QED
  BY <1>8, <1>12, <1>13, <1>14

LEMMA CheckDisputeMoves ==
  ASSUME WellFormed, Typed, Locks, NEW w \in Worker, CheckDispute(w)
  PROVE  \E x : MovesTo(w, x)
<1> DEFINE holding == [worker[w] EXCEPT !.locked = (receipt[worker[w].req.cell] # Absent)]
           refused == [holding EXCEPT !.pc = "commit", !.outcome = "FUNDING_DISPUTE_BLOCKED"]
<1>1. worker[w] \in WorkerState /\ worker[w] # Idle /\ worker[w].pc = "check"
  BY Busy DEF CheckDispute
<1>2. UNCHANGED tables
  BY DEF CheckDispute
<1>3. Outcomes(worker[w]) /\ Knows(worker[w]) /\ worker[w].outcome = "PERSISTENCE_FAILURE"
  BY <1>1 DEF Locks, Outcomes
<1>4. /\ holding \in WorkerState /\ holding.req = worker[w].req
      /\ holding.loaded = worker[w].loaded /\ holding.outcome = "PERSISTENCE_FAILURE"
  BY <1>1, <1>3 DEF WorkerState
<1>5. /\ refused \in WorkerState /\ refused.req = worker[w].req /\ refused.pc = "commit"
      /\ refused.outcome = "FUNDING_DISPUTE_BLOCKED" /\ refused.loaded = worker[w].loaded
  BY <1>1 DEF WorkerState, Outcome, Rejected
<1>6. \/ worker' = [worker EXCEPT ![w] = refused]
      \/ worker' = [worker EXCEPT ![w] = Decided(holding)]
  BY DEF CheckDispute, CellOf
<1>7. Len(worker[w].loaded) <= Len(rows[worker[w].req.cell])
  BY <1>3 DEF Knows
<1> HIDE DEF holding, refused
<1>8. CASE worker' = [worker EXCEPT ![w] = refused]
  BY <1>1, <1>2, <1>5, <1>7, <1>8, Refused DEF Rejected
<1>9. CASE worker' = [worker EXCEPT ![w] = Decided(holding)]
  BY <1>1, <1>2, <1>4, <1>7, <1>9, DecidedMoves
<1> QED
  BY <1>6, <1>8, <1>9

LEMMA ClaimReceiptMoves ==
  ASSUME WellFormed, Typed, Locks, NEW w \in Worker, ClaimReceipt(w)
  PROVE  \E x : MovesTo(w, x)
<1> DEFINE refused == [worker[w] EXCEPT !.pc = "commit", !.outcome = "FUNDING_RECEIPT_CONFLICT"]
           x == [worker[w] EXCEPT !.pc = "append"]
<1>1. worker[w] \in WorkerState /\ worker[w] # Idle /\ worker[w].pc = "claim"
  BY Busy DEF ClaimReceipt
<1>2. UNCHANGED tables
  BY DEF ClaimReceipt
<1>3. Outcomes(worker[w]) /\ Knows(worker[w]) /\ worker[w].outcome = "PERSISTENCE_FAILURE"
  BY <1>1 DEF Locks, Outcomes
<1>4. Len(worker[w].loaded) <= Len(rows[worker[w].req.cell])
  BY <1>3 DEF Knows
<1>5. CASE ReceiptTaken(w)
  <2>1. worker' = [worker EXCEPT ![w] = refused]
    BY <1>5 DEF ClaimReceipt
  <2>2. /\ refused \in WorkerState /\ refused.req = worker[w].req /\ refused.pc = "commit"
        /\ refused.outcome = "FUNDING_RECEIPT_CONFLICT" /\ refused.loaded = worker[w].loaded
    BY <1>1 DEF WorkerState, Outcome, Rejected
  <2> HIDE DEF refused
  <2> QED
    BY <1>1, <1>2, <1>4, <2>1, <2>2, Refused DEF Rejected
<1>6. CASE ~ReceiptTaken(w)
  <2>1. worker' = [worker EXCEPT ![w] = x]
    BY <1>6 DEF ClaimReceipt
  <2>2. /\ x \in WorkerState /\ x.req = worker[w].req /\ x.pc = "append"
        /\ x.outcome = worker[w].outcome /\ x.loaded = worker[w].loaded
        /\ x.produced = worker[w].produced
    BY <1>1 DEF WorkerState
  <2> HIDE DEF x
  <2>3. Outcomes(x)
    BY <1>1, <1>3, <2>2 DEF Outcomes, Wrote
  <2>4. Knows(x)
    BY <1>1, <1>3, <1>4, <1>6, <2>2 DEF Knows, Open, Decides, Claims, ReceiptTaken, CellOf
  <2>5. ASSUME NEW v \in Worker \ {w}
        PROVE  Apart(x, worker[v])
    <3>1. Apart(worker[w], worker[v])
      BY DEF Locks
    <3>2. Claims(worker[v]) => /\ worker[v].req.cell # worker[w].req.cell
                               /\ worker[v].req.tx # worker[w].req.tx
      BY DEF ClaimReceipt, HoldsClaim, Claims, CellOf, TypeOf
    <3> QED
      BY <1>1, <2>2, <3>1, <3>2 DEF Apart, Open, Decides
  <2> QED
    BY <1>2, <2>1, <2>2, <2>3, <2>4, <2>5 DEF MovesTo
<1> QED
  BY <1>5, <1>6

LEMMA AppendEventsMoves ==
  ASSUME WellFormed, Typed, Locks, NEW w \in Worker, AppendEvents(w)
  PROVE  \E x : MovesTo(w, x)
<1> DEFINE aborted == [worker[w] EXCEPT !.pc = "abort"]
           x == [worker[w] EXCEPT !.pc = "commit", !.outcome = "SUCCESS"]
<1>1. worker[w] \in WorkerState /\ worker[w] # Idle /\ worker[w].pc = "append"
  BY Busy DEF AppendEvents
<1>2. UNCHANGED tables
  BY DEF AppendEvents
<1>3. Outcomes(worker[w]) /\ Knows(worker[w]) /\ worker[w].outcome = "PERSISTENCE_FAILURE"
      /\ Wrote(worker[w])
  BY <1>1 DEF Locks, Outcomes
<1>4. CASE VersionTaken(w)
  <2>1. worker' = [worker EXCEPT ![w] = aborted]
    BY <1>4 DEF AppendEvents
  <2>2. /\ aborted \in WorkerState /\ aborted.req = worker[w].req /\ aborted.pc = "abort"
        /\ aborted.outcome = worker[w].outcome /\ aborted.loaded = worker[w].loaded
    BY <1>1 DEF WorkerState
  <2> HIDE DEF aborted
  <2>3. Outcomes(aborted)
    BY <1>3, <2>2 DEF Outcomes
  <2>4. Knows(aborted)
    BY <1>1, <1>3, <2>2 DEF Knows, Open, Decides, Claims
  <2>5. \A v \in Worker \ {w} : Apart(aborted, worker[v])
    BY <1>1, <2>2, StaysApart DEF Open, Decides, Claims
  <2> QED
    BY <1>2, <2>1, <2>2, <2>3, <2>4, <2>5 DEF MovesTo
<1>5. CASE ~VersionTaken(w)
  <2>1. worker' = [worker EXCEPT ![w] = x]
    BY <1>5 DEF AppendEvents
  <2>2. /\ x \in WorkerState /\ x.req = worker[w].req /\ x.pc = "commit"
        /\ x.outcome = "SUCCESS" /\ x.loaded = worker[w].loaded
        /\ x.produced = worker[w].produced
    BY <1>1 DEF WorkerState, Outcome
  <2> HIDE DEF x
  <2>3. Outcomes(x)
    BY <1>3, <2>2 DEF Outcomes, Wrote
  <2>4. Len(worker[w].loaded) = Len(rows[worker[w].req.cell])
    <3>1. worker[w].req.cell \in Cell
      BY <1>1, RequestAssumption DEF WorkerState
    <3>2. rows[worker[w].req.cell] \in Seq(Event) /\ worker[w].loaded \in Seq(Event)
      BY <1>1, <3>1 DEF Typed, WorkerState
    <3>3. Len(worker[w].loaded) + 1 \notin 1 .. Len(rows[worker[w].req.cell])
      BY <1>5, <3>2 DEF VersionTaken, FirstVersion, CellOf
    <3>4. Len(worker[w].loaded) <= Len(rows[worker[w].req.cell])
      BY <1>3 DEF Knows
    <3>5. Len(worker[w].loaded) \in Nat /\ Len(rows[worker[w].req.cell]) \in Nat
      BY <3>2
    <3> QED
      BY <3>3, <3>4, <3>5
  <2>5. Knows(x)
    BY <1>1, <1>3, <2>2, <2>4 DEF Knows, Open, Decides, Claims
  <2>6. ASSUME NEW v \in Worker \ {w}
        PROVE  Apart(x, worker[v])
    <3>1. Apart(worker[w], worker[v])
      BY DEF Locks
    <3>2. Decides(worker[v]) => worker[v].req.cell # worker[w].req.cell
      BY DEF AppendEvents, HoldsRows, Decides, CellOf
    <3> QED
      BY <1>1, <2>2, <3>1, <3>2 DEF Apart, Open, Claims
  <2> QED
    BY <1>2, <2>1, <2>2, <2>3, <2>5, <2>6 DEF MovesTo
<1> QED
  BY <1>4, <1>5

LEMMA QuietMoves ==
  ASSUME WellFormed, Typed, Locks, NEW w \in Worker, QuietStep(w)
  PROVE  \E x : MovesTo(w, x)
<1>1. CASE RollBack(w) \/ SaveSnapshot(w) \/ Crash(w)
  BY <1>1, MovesToIdle DEF RollBack, SaveSnapshot, Crash, Answer
<1>2. CASE \E r \in Requests, now \in Time : Receive(w, r, now)
  BY <1>2, ReceiveMoves
<1> QED
  BY <1>1, <1>2, ClaimCommandMoves, LoadCellMoves, CheckDisputeMoves, ClaimReceiptMoves,
     AppendEventsMoves DEF QuietStep

-----------------------------------------------------------------------------
(* What a commit does to the tables.                                         *)
CommitStep(w) == Commit(w) \/ CommitUnacknowledged(w)
Authors(x) == [i \in DOMAIN x.produced |-> x.req.id]
ReceiptOf(x) == [tx |-> x.req.tx, id |-> x.req.id]

LEMMA CommitShape ==
  ASSUME WellFormed, Typed, Locks, NEW w \in Worker, CommitStep(w),
         NEW x, x = worker[w], NEW c, c = x.req.cell
  PROVE  /\ x \in WorkerState /\ x # Idle /\ x.pc = "commit"
         /\ Outcomes(x) /\ Knows(x)
         /\ x.req.id \in CommandId /\ c \in Cell
         /\ ledger[x.req.id] = Absent
         /\ ledger' = [ledger EXCEPT ![x.req.id] = LedgerRowOf(x)]
         /\ Decides(x) =>
              /\ Len(x.loaded) = Len(rows[c])
              /\ rows' = [rows EXCEPT ![c] = Extended(rows[c], x.produced)]
              /\ author' = [author EXCEPT ![c] = Extended(author[c], Authors(x))]
         /\ ~Decides(x) => rows' = rows /\ author' = author
         /\ receipt' = IF Claims(x) THEN [receipt EXCEPT ![c] = ReceiptOf(x)] ELSE receipt
         /\ \/ worker' = [worker EXCEPT ![w] = Idle]
            \/ Decides(x) /\ worker' = [worker EXCEPT ![w] = [x EXCEPT !.pc = "save"]]
<1>1. x \in WorkerState /\ x # Idle /\ x.pc = "commit"
  BY Busy DEF CommitStep, Commit, CommitUnacknowledged
<1>2. Outcomes(x) /\ Knows(x)
  BY <1>1 DEF Locks
<1>3. x.req.id \in CommandId /\ c \in Cell
  BY <1>1, RequestAssumption DEF WorkerState
<1>4. ledger[x.req.id] = Absent
  BY <1>1, <1>2 DEF Knows, Open
<1>5. Publish(w)
  BY DEF CommitStep, Commit, CommitUnacknowledged
<1>6. ledger' = [ledger EXCEPT ![x.req.id] = LedgerRowOf(x)]
  BY <1>5 DEF Publish, LedgerRowOf, ResultOf
<1>7. ASSUME Decides(x)
      PROVE  /\ Len(x.loaded) = Len(rows[c])
             /\ rows' = [rows EXCEPT ![c] = Extended(rows[c], x.produced)]
             /\ author' = [author EXCEPT ![c] = Extended(author[c], Authors(x))]
  <2>1. Len(x.loaded) = Len(rows[c]) /\ Len(author[c]) = Len(rows[c])
    BY <1>2, <1>3, <1>7 DEF Knows, Typed
  <2>2. FirstVersion(w) = Len(rows[c]) + 1
    BY <2>1 DEF FirstVersion
  <2> QED
    BY <1>5, <1>7, <2>1, <2>2 DEF Publish, Decides, CellOf, Authors, Extended
<1>8. ~Decides(x) => rows' = rows /\ author' = author
  BY <1>1, <1>5 DEF Publish, Decides
<1>9. HoldsClaim(w) <=> Claims(x)
  BY DEF HoldsClaim, Claims, TypeOf
<1>10. receipt' = IF Claims(x) THEN [receipt EXCEPT ![c] = ReceiptOf(x)] ELSE receipt
  BY <1>5, <1>9 DEF Publish, CellOf, ReceiptOf
<1>11. \/ worker' = [worker EXCEPT ![w] = Idle]
       \/ Decides(x) /\ worker' = [worker EXCEPT ![w] = [x EXCEPT !.pc = "save"]]
  <2>1. CASE CommitUnacknowledged(w)
    BY <2>1 DEF CommitUnacknowledged, Answer
  <2>2. CASE Commit(w)
    BY <1>1, <2>2 DEF Commit, Answer, Decides
  <2> QED
    BY <2>1, <2>2 DEF CommitStep
<1> QED
  BY <1>1, <1>2, <1>3, <1>4, <1>6, <1>7, <1>8, <1>10, <1>11

LEMMA LedgerRowTyped ==
  ASSUME NEW x \in WorkerState
  PROVE  LedgerRowOf(x) \in LedgerRow
<1>1. Fingerprint(x.req, x.now) \in Requests \X (Time \cup {Never})
  BY DEF Fingerprint, WorkerState
<1>2. ResultingVersion(x.loaded, x.produced) \in Nat
  BY DEF ResultingVersion, WorkerState
<1>3. x.outcome \in Outcome
  BY DEF WorkerState
<1> QED
  BY <1>1, <1>2, <1>3 DEF LedgerRowOf, LedgerRow, Result

LEMMA AuthorsTyped ==
  ASSUME NEW x \in WorkerState
  PROVE  /\ Authors(x) \in Seq(CommandId \cup {Prelude})
         /\ Len(Authors(x)) = Len(x.produced)
         /\ \A i \in 1 .. Len(x.produced) : Authors(x)[i] = x.req.id
<1>1. x.produced \in Seq(Event) /\ x.req.id \in CommandId
  BY RequestAssumption DEF WorkerState
<1>2. DOMAIN x.produced = 1 .. Len(x.produced) /\ Len(x.produced) \in Nat
  BY <1>1
<1>3. Authors(x) \in [1 .. Len(x.produced) -> CommandId \cup {Prelude}]
  BY <1>1, <1>2 DEF Authors
<1>4. DOMAIN Authors(x) = 1 .. Len(x.produced) /\ \A i \in 1 .. Len(x.produced) : Authors(x)[i] = x.req.id
  BY <1>2 DEF Authors
<1>5. Authors(x) \in Seq(CommandId \cup {Prelude})
  BY <1>2, <1>3, SeqDef
<1> QED
  BY <1>2, <1>4, <1>5, LenProperties

(* The events x decided on are appended to the stream of its cell.            *)
Grows(x) ==
  /\ rows' = [rows EXCEPT ![x.req.cell] = Extended(@, x.produced)]
  /\ author' = [author EXCEPT ![x.req.cell] = Extended(@, Authors(x))]

LEMMA GrownTyped ==
  ASSUME Typed, NEW x \in WorkerState, Grows(x)
  PROVE  /\ rows' \in [Cell -> Seq(Event)]
         /\ author' \in [Cell -> Seq(CommandId \cup {Prelude})]
         /\ \A d \in Cell : Len(author'[d]) = Len(rows'[d])
<1> DEFINE c == x.req.cell
           new == Extended(rows[c], x.produced)
           names == Extended(author[c], Authors(x))
<1>1. c \in Cell
  BY RequestAssumption DEF WorkerState
<1>2. x.produced \in Seq(Event) /\ rows[c] \in Seq(Event)
      /\ author[c] \in Seq(CommandId \cup {Prelude}) /\ Len(author[c]) = Len(rows[c])
  BY <1>1 DEF Typed, WorkerState
<1>3. new \in Seq(Event) /\ Len(new) = Len(rows[c]) + Len(x.produced)
  BY <1>2, ExtendedShape
<1>4. /\ Authors(x) \in Seq(CommandId \cup {Prelude})
      /\ Len(Authors(x)) = Len(x.produced)
  BY AuthorsTyped
<1>5. names \in Seq(CommandId \cup {Prelude}) /\ Len(names) = Len(author[c]) + Len(Authors(x))
  BY <1>2, <1>4, ExtendedShape
<1>6. rows' = [rows EXCEPT ![c] = new] /\ author' = [author EXCEPT ![c] = names]
  BY DEF Grows
<1> HIDE DEF new, names
<1>7. /\ rows \in [Cell -> Seq(Event)]
      /\ author \in [Cell -> Seq(CommandId \cup {Prelude})]
      /\ \A d \in Cell : Len(author[d]) = Len(rows[d])
  BY DEF Typed
<1>8. \A d \in Cell : /\ rows'[d] = IF d = c THEN new ELSE rows[d]
                      /\ author'[d] = IF d = c THEN names ELSE author[d]
  BY ONLY <1>6, <1>7
<1>9. Len(names) = Len(new)
  BY ONLY <1>2, <1>3, <1>4, <1>5
<1>10. rows' \in [Cell -> Seq(Event)] /\ author' \in [Cell -> Seq(CommandId \cup {Prelude})]
  BY ONLY <1>3, <1>5, <1>6, <1>7
<1> QED
  BY ONLY <1>7, <1>8, <1>9, <1>10

(* A commit that decides does that.                                          *)
LEMMA CommitGrows ==
  ASSUME WellFormed, Typed, Locks, NEW w \in Worker, CommitStep(w), Decides(worker[w])
  PROVE  worker[w] \in WorkerState /\ Wrote(worker[w]) /\ Grows(worker[w])
<1>1. worker[w] \in WorkerState /\ Outcomes(worker[w]) /\ Grows(worker[w])
  BY CommitShape DEF Grows
<1> QED
  BY <1>1 DEF Outcomes, Decides

LEMMA CommitTyped ==
  ASSUME WellFormed, Typed, Locks, NEW w \in Worker, CommitStep(w)
  PROVE  Typed'
<1> DEFINE x == worker[w]
           c == x.req.cell
           new == Extended(rows[c], x.produced)
           names == Extended(author[c], Authors(x))
<1>1. /\ x \in WorkerState /\ x.req.id \in CommandId /\ c \in Cell /\ x.pc = "commit"
      /\ ledger' = [ledger EXCEPT ![x.req.id] = LedgerRowOf(x)]
      /\ Decides(x) => rows' = [rows EXCEPT ![c] = new] /\ author' = [author EXCEPT ![c] = names]
      /\ ~Decides(x) => rows' = rows /\ author' = author
      /\ receipt' = IF Claims(x) THEN [receipt EXCEPT ![c] = ReceiptOf(x)] ELSE receipt
      /\ \/ worker' = [worker EXCEPT ![w] = Idle]
         \/ worker' = [worker EXCEPT ![w] = [x EXCEPT !.pc = "save"]]
  BY CommitShape
<1>2. ledger' \in [CommandId -> {Absent} \cup LedgerRow]
  BY <1>1, LedgerRowTyped DEF Typed
<1>3. receipt' \in [Cell -> {Absent} \cup Receipt]
  <2>1. Claims(x) => ReceiptOf(x) \in Receipt
    BY <1>1, RequestAssumption DEF Claims, ReceiptOf, Receipt, WorkerState
  <2> QED
    BY <1>1, <2>1 DEF Typed
<1>4. worker' \in [Worker -> {Idle} \cup WorkerState]
  <2>1. [x EXCEPT !.pc = "save"] \in WorkerState
    BY <1>1 DEF WorkerState
  <2> QED
    BY <1>1, <2>1 DEF Typed
<1>5. /\ rows' \in [Cell -> Seq(Event)]
      /\ author' \in [Cell -> Seq(CommandId \cup {Prelude})]
      /\ \A d \in Cell : Len(author'[d]) = Len(rows'[d])
  <2>1. CASE ~Decides(x)
    BY <1>1, <2>1 DEF Typed
  <2>2. CASE Decides(x)
    BY <2>2, CommitGrows, GrownTyped
  <2> QED
    BY <2>1, <2>2
<1> QED
  BY <1>2, <1>3, <1>4, <1>5 DEF Typed

LEMMA CommitLocks ==
  ASSUME WellFormed, Sentinels, Typed, Locks, NEW w \in Worker, CommitStep(w)
  PROVE  Locks'
<1> DEFINE x == worker[w]
           c == x.req.cell
           saving == [x EXCEPT !.pc = "save"]
<1>1. /\ x \in WorkerState /\ x # Idle /\ x.pc = "commit" /\ x.req.id \in CommandId /\ c \in Cell
      /\ Outcomes(x) /\ Knows(x)
      /\ ledger[x.req.id] = Absent
      /\ ledger' = [ledger EXCEPT ![x.req.id] = LedgerRowOf(x)]
      /\ Decides(x) =>
           /\ Len(x.loaded) = Len(rows[c])
           /\ rows' = [rows EXCEPT ![c] = Extended(rows[c], x.produced)]
      /\ ~Decides(x) => rows' = rows
      /\ receipt' = IF Claims(x) THEN [receipt EXCEPT ![c] = ReceiptOf(x)] ELSE receipt
      /\ \/ worker' = [worker EXCEPT ![w] = Idle]
         \/ Decides(x) /\ worker' = [worker EXCEPT ![w] = saving]
  BY CommitShape
<1>2. /\ saving \in WorkerState /\ saving.pc = "save" /\ saving.req = x.req /\ saving.now = x.now
      /\ saving.loaded = x.loaded /\ saving.produced = x.produced /\ saving.outcome = x.outcome
  BY <1>1 DEF WorkerState
<1>3. LedgerRowOf(saving) = LedgerRowOf(x)
  BY <1>2 DEF LedgerRowOf
<1>4. /\ \A d \in Cell \ {c} : rows'[d] = rows[d]
      /\ rows[c] \in Seq(Event) /\ rows'[c] \in Seq(Event) /\ Len(rows'[c]) >= Len(rows[c])
  <2>1. rows[c] \in Seq(Event) /\ x.produced \in Seq(Event)
    BY <1>1 DEF Typed, WorkerState
  <2>2. CASE Decides(x)
    <3> DEFINE new == Extended(rows[c], x.produced)
    <3>1. new \in Seq(Event) /\ Len(new) >= Len(rows[c])
      BY <2>1, ExtendedShape
    <3>3. rows'[c] = new /\ \A d \in Cell \ {c} : rows'[d] = rows[d]
      BY <1>1, <2>2 DEF Typed
    <3> HIDE DEF new, c, x
    <3> QED
      BY <2>1, <3>1, <3>3
  <2>3. CASE ~Decides(x)
    BY <1>1, <2>1, <2>3
  <2> QED
    BY <2>2, <2>3
<1>5. \A v \in Worker \ {w} : worker'[v] = worker[v]
  BY <1>1 DEF Typed
<1> HIDE DEF saving
<1>6. ASSUME worker'[w] # Idle
      PROVE  Outcomes(worker'[w]) /\ Knows(worker[w])'
  <2>1. worker'[w] = saving /\ Decides(x)
    BY <1>1, <1>6 DEF Typed
  <2>2. Outcomes(saving)
    BY <1>1, <1>2, <2>1 DEF Outcomes, Decides, Wrote
  <2>3. ledger'[x.req.id] = LedgerRowOf(saving)
    BY <1>1, <1>3 DEF Typed
  <2>4. Len(saving.loaded) <= Len(rows'[c])
    BY <1>1, <1>2, <1>4, <2>1
  <2>5. Knows(worker[w])'
    BY <1>2, <2>1, <2>3, <2>4 DEF Knows, Decides, Open, Claims
  <2> QED
    BY <2>1, <2>2, <2>5
<1>7. ASSUME NEW v \in Worker \ {w}, worker[v] # Idle
      PROVE  Knows(worker[v])'
  <2> DEFINE y == worker[v]
  <2>1. /\ y \in WorkerState /\ y.req.cell \in Cell /\ y.req.id \in CommandId
    BY <1>7, RequestAssumption DEF Typed, WorkerState
  <2>2. Knows(y) /\ Apart(x, y)
    BY <1>7 DEF Locks
  <2>3. rows[y.req.cell] \in Seq(Event) /\ y.loaded \in Seq(Event)
    BY <2>1 DEF Typed, WorkerState
  <2>4. Len(y.loaded) <= Len(rows'[y.req.cell])
    BY <1>4, <2>1, <2>2, <2>3 DEF Knows
  <2>5. Decides(y) => Len(y.loaded) = Len(rows'[y.req.cell])
    <3>1. CASE Decides(x)
      BY <1>4, <2>1, <2>2, <3>1 DEF Knows, Apart
    <3>2. CASE ~Decides(x)
      BY <1>1, <2>2, <3>2 DEF Knows
    <3> QED
      BY <3>1, <3>2
  <2>6. Open(y) => ledger'[y.req.id] = Absent
    BY <1>1, <2>1, <2>2 DEF Knows, Apart, Open, Typed
  <2>7. y.pc = "save" => ledger'[y.req.id] = LedgerRowOf(y)
    <3>1. y.pc = "save" => y.req.id # x.req.id
      BY <1>1, <2>1, <2>2, LedgerRowTyped DEF Knows, Sentinels
    <3> QED
      BY <1>1, <2>1, <2>2, <3>1 DEF Knows, Typed
  <2>8. ASSUME Claims(y)
        PROVE  /\ receipt'[y.req.cell] = Absent
               /\ \A d \in Cell : receipt'[d] # Absent => receipt'[d].tx # y.req.tx
    <3>1. CASE Claims(x)
      <4>1. x.req.cell # y.req.cell /\ x.req.tx # y.req.tx
        BY <2>2, <2>8, <3>1 DEF Apart
      <4>2. receipt' = [receipt EXCEPT ![c] = ReceiptOf(x)] /\ ReceiptOf(x).tx = x.req.tx
        BY <1>1, <3>1 DEF ReceiptOf
      <4> QED
        BY <1>1, <2>1, <2>2, <2>8, <4>1, <4>2 DEF Knows, Typed
    <3>2. CASE ~Claims(x)
      BY <1>1, <2>2, <2>8, <3>2 DEF Knows
    <3> QED
      BY <3>1, <3>2
  <2>9. y' = y
    BY <1>5
  <2> HIDE DEF y
  <2>10. Knows(y)'
    BY <2>4, <2>5, <2>6, <2>7, <2>8, <2>9 DEF Knows, Decides, Open, Claims, LedgerRowOf
  <2> QED
    BY <2>10 DEF y
<1>8. ASSUME NEW u \in Worker, NEW v \in Worker \ {u}
      PROVE  Apart(worker[u], worker[v])'
  <2>1. Apart(worker[u], worker[v])
    BY DEF Locks
  <2>2. \A t \in Worker : worker'[t] = worker[t] \/ worker'[t] = Idle \/ worker'[t].pc = "save"
    BY <1>1, <1>2 DEF Typed
  <2>3. \A t \in Worker :
          \/ worker'[t] = worker[t]
          \/ ~Open(worker'[t]) /\ ~Decides(worker'[t]) /\ ~Claims(worker'[t])
    BY <2>2 DEF Open, Decides, Claims, Idle
  <2>4. Apart(worker'[u], worker'[v])
    BY <2>1, <2>3 DEF Apart
  <2> QED
    BY <2>4 DEF Apart, Open, Decides, Claims
<1>9. \A v \in Worker : worker'[v] # Idle => Outcomes(worker'[v])
  BY <1>5, <1>6 DEF Locks
<1>10. \A v \in Worker : worker'[v] # Idle => Knows(worker[v])'
  BY <1>5, <1>6, <1>7
<1> QED
  BY <1>8, <1>9, <1>10 DEF Locks, Outcomes, Wrote

LEMMA MovesKeep ==
  ASSUME Typed, Locks, NEW w \in Worker, NEW x, MovesTo(w, x)
  PROVE  Typed' /\ Locks'
<1>1. /\ rows' = rows /\ ledger' = ledger /\ receipt' = receipt /\ author' = author
      /\ x \in {Idle} \cup WorkerState
      /\ worker' = [worker EXCEPT ![w] = x]
  BY DEF MovesTo, tables
<1>2. Typed'
  BY <1>1 DEF Typed
<1>3. worker'[w] = x /\ \A v \in Worker \ {w} : worker'[v] = worker[v]
  BY <1>1 DEF Typed
<1>4. ASSUME NEW v \in Worker, worker'[v] # Idle
      PROVE  Outcomes(worker'[v]) /\ Knows(worker'[v])
  BY <1>3, <1>4 DEF MovesTo, Locks
<1>5. ASSUME NEW u \in Worker, NEW v \in Worker \ {u}
      PROVE  Apart(worker'[u], worker'[v])
  <2>1. CASE u = w
    BY <1>3, <2>1 DEF MovesTo
  <2>2. CASE v = w
    <3>1. Apart(x, worker[u])
      BY <2>2 DEF MovesTo
    <3>2. Apart(worker[u], x)
      BY <3>1 DEF Apart
    <3> QED
      BY <1>3, <2>2, <3>2
  <2>3. CASE u # w /\ v # w
    BY <1>3, <2>3 DEF Locks
  <2> QED
    BY <2>1, <2>2, <2>3
<1>6. \A v \in Worker : worker'[v] # Idle => Outcomes(worker[v])' /\ Knows(worker[v])'
  BY <1>1, <1>4 DEF Outcomes, Wrote, Knows, Open, Decides, Claims, LedgerRowOf
<1>7. \A u \in Worker : \A v \in Worker \ {u} : Apart(worker[u], worker[v])'
  BY <1>5 DEF Apart, Open, Decides, Claims
<1> QED
  BY <1>2, <1>6, <1>7 DEF Locks

NegativeStep == \E c \in Cell : OpenNegative(c) \/ RecordNegative(c) \/ LiftNegative(c)

LEMMA LocksStep ==
  ASSUME WellFormed, Sentinels, Typed, Locks, [Next]_vars
  PROVE  Typed' /\ Locks'
<1>1. ASSUME NEW w \in Worker, QuietStep(w)
      PROVE  Typed' /\ Locks'
  BY <1>1, QuietMoves, MovesKeep
<1>2. ASSUME NEW w \in Worker, CommitStep(w)
      PROVE  Typed' /\ Locks'
  BY <1>2, CommitTyped, CommitLocks
<1>3. CASE NegativeStep \/ UNCHANGED vars
  <2>1. rows' = rows /\ ledger' = ledger /\ receipt' = receipt /\ author' = author /\ worker' = worker
    BY <1>3 DEF NegativeStep, OpenNegative, RecordNegative, LiftNegative, tables, vars
  <2>2. Typed'
    BY <2>1 DEF Typed
  <2>3. Locks'
    BY <2>1 DEF Locks, Outcomes, Wrote, Knows, Apart, Open, Decides, Claims, LedgerRowOf
  <2> QED
    BY <2>2, <2>3
<1> QED
  BY <1>1, <1>2, <1>3 DEF Next, QuietStep, CommitStep, NegativeStep

LEMMA LocksInit ==
  ASSUME WellFormed, Init
  PROVE  Typed /\ Locks
<1>1. ASSUME NEW c \in Cell
      PROVE  /\ rows[c] \in Seq(Event)
             /\ author[c] \in Seq(CommandId \cup {Prelude}) /\ Len(author[c]) = Len(rows[c])
             /\ \A v \in 1 .. Len(rows[c]) : author[c][v] = Prelude
  <2>1. rows[c] \in Seq(Event)
    BY DEF Init, WellFormed
  <2>2. Len(rows[c]) \in Nat /\ DOMAIN rows[c] = 1 .. Len(rows[c])
    BY <2>1
  <2>3. author[c] = [v \in 1 .. Len(rows[c]) |-> Prelude]
    BY <2>2 DEF Init
  <2>4. author[c] \in [1 .. Len(rows[c]) -> CommandId \cup {Prelude}] /\ DOMAIN author[c] = 1 .. Len(rows[c])
    BY <2>3
  <2>5. author[c] \in Seq(CommandId \cup {Prelude})
    BY <2>2, <2>4, SeqDef
  <2>6. Len(author[c]) = Len(rows[c])
    BY <2>2, <2>4, <2>5, LenProperties
  <2> QED
    BY <2>1, <2>3, <2>5, <2>6
<1>2. rows \in [Cell -> Seq(Event)] /\ author \in [Cell -> Seq(CommandId \cup {Prelude})]
  BY <1>1 DEF Init
<1>3. receipt \in [Cell -> {Absent} \cup Receipt]
  <2>1. \A c \in Cell : [tx |-> <<Prelude, c>>, id |-> Prelude] \in Receipt
    BY DEF Receipt
  <2> QED
    BY <2>1 DEF Init
<1>4. Typed
  BY <1>1, <1>2, <1>3 DEF Init, Typed
<1>5. Locks
  BY IdleHoldsNothing DEF Init, Locks
<1> QED
  BY <1>4, <1>5

-----------------------------------------------------------------------------
(* Answers.  What is answered is what the ledger holds, and it holds it for  *)
(* good.                                                                     *)
Backed(a) ==
  /\ a \in LedgerRow
  /\ LET row == ledger[a.fingerprint[1].id]
     IN IF a.result.outcome = "IDEMPOTENCY_CONFLICT"
        THEN row # Absent /\ row.fingerprint # a.fingerprint
        ELSE row = a
LedgerInv ==
  \A id \in CommandId : ledger[id] # Absent =>
    /\ ledger[id].fingerprint[1].id = id
    /\ ledger[id].result.outcome \in {"SUCCESS"} \cup Rejected
AnswersInv == LedgerInv /\ \A a \in replies : Backed(a)

LEMMA FingerprintOf ==
  ASSUME NEW x \in WorkerState
  PROVE  /\ Fingerprint(x.req, x.now) \in Requests \X (Time \cup {Never})
         /\ Fingerprint(x.req, x.now)[1] = x.req
BY DEF Fingerprint, WorkerState

LEMMA LedgerStep ==
  ASSUME WellFormed, Sentinels, Typed, Locks, LedgerInv, [Next]_vars
  PROVE  /\ LedgerInv'
         /\ \A id \in CommandId : ledger[id] # Absent => ledger'[id] = ledger[id]
<1>1. ASSUME NEW w \in Worker, CommitStep(w)
      PROVE  /\ LedgerInv'
             /\ \A id \in CommandId : ledger[id] # Absent => ledger'[id] = ledger[id]
  <2> DEFINE x == worker[w]
  <2>1. /\ x \in WorkerState /\ x.pc = "commit" /\ Outcomes(x) /\ x.req.id \in CommandId
        /\ ledger[x.req.id] = Absent
        /\ ledger' = [ledger EXCEPT ![x.req.id] = LedgerRowOf(x)]
    BY <1>1, CommitShape
  <2>2. /\ LedgerRowOf(x).fingerprint[1] = x.req
        /\ LedgerRowOf(x).result.outcome \in {"SUCCESS"} \cup Rejected
    BY <2>1, FingerprintOf DEF LedgerRowOf, Outcomes
  <2> QED
    BY <2>1, <2>2 DEF LedgerInv, Typed
<1>2. CASE ledger' = ledger
  BY <1>2 DEF LedgerInv
<1>3. ASSUME NEW w \in Worker, QuietStep(w)
      PROVE  ledger' = ledger
  BY <1>3, QuietMoves DEF MovesTo, tables
<1>4. NegativeStep \/ UNCHANGED vars => ledger' = ledger
  BY DEF NegativeStep, OpenNegative, RecordNegative, LiftNegative, tables, vars
<1> QED
  BY <1>1, <1>2, <1>3, <1>4 DEF Next, QuietStep, CommitStep, NegativeStep

(* The answers a record gives: to the request it was written for, and to     *)
(* another of its id.                                                        *)
LEMMA RecordAnswers ==
  ASSUME NEW x \in WorkerState, ledger'[x.req.id] = LedgerRowOf(x),
         x.outcome # "IDEMPOTENCY_CONFLICT", NEW a, a = LedgerRowOf(x)
  PROVE  Backed(a)'
<1>1. a \in LedgerRow
  BY LedgerRowTyped
<1>2. a.fingerprint[1].id = x.req.id /\ a.result.outcome = x.outcome
  BY FingerprintOf DEF LedgerRowOf
<1> QED
  BY <1>1, <1>2 DEF Backed

LEMMA RecordReplays ==
  ASSUME NEW x \in WorkerState, NEW row \in LedgerRow, row # Absent, ledger'[x.req.id] = row,
         row.result.outcome # "IDEMPOTENCY_CONFLICT",
         NEW fp, fp = Fingerprint(x.req, x.now), NEW a,
         \/ row.fingerprint = fp /\ a = [fingerprint |-> fp, result |-> row.result]
         \/ row.fingerprint # fp
            /\ a = [fingerprint |-> fp, result |-> [outcome |-> "IDEMPOTENCY_CONFLICT", version |-> 0]]
  PROVE  Backed(a)'
<1>1. fp \in Requests \X (Time \cup {Never}) /\ fp[1] = x.req
  BY FingerprintOf
<1>2. CASE row.fingerprint = fp /\ a = [fingerprint |-> fp, result |-> row.result]
  <2>1. a = row
    BY <1>2 DEF LedgerRow
  <2>2. ledger'[a.fingerprint[1].id] = a
    BY <1>1, <1>2, <2>1
  <2> QED
    BY <2>1, <2>2 DEF Backed
<1>3. CASE row.fingerprint # fp
           /\ a = [fingerprint |-> fp, result |-> [outcome |-> "IDEMPOTENCY_CONFLICT", version |-> 0]]
  <2>1. a \in LedgerRow
    BY <1>1, <1>3 DEF LedgerRow, Result, Outcome
  <2>2. /\ a.fingerprint = fp /\ a.result.outcome = "IDEMPOTENCY_CONFLICT"
        /\ ledger'[a.fingerprint[1].id] = row
    BY <1>1, <1>3
  <2> QED
    BY <1>3, <2>1, <2>2 DEF Backed
<1> QED
  BY <1>2, <1>3

(* An answer given in a step is backed by the ledger after it.               *)
LEMMA RepliesStep ==
  ASSUME WellFormed, Sentinels, Typed, Locks, LedgerInv, [Next]_vars,
         NEW a \in replies', a \notin replies
  PROVE  Backed(a)'
<1>1. PICK w \in Worker : ClaimCommand(w) \/ SaveSnapshot(w) \/ Commit(w)
  BY DEF Next, Receive, LoadCell, CheckDispute, ClaimReceipt, AppendEvents, CommitUnacknowledged, RollBack,
         Crash, Answer, OpenNegative, RecordNegative, LiftNegative, vars
<1> DEFINE x == worker[w]
           fp == Fingerprint(x.req, x.now)
<1>2. x \in WorkerState /\ x # Idle /\ x.req.id \in CommandId
  BY <1>1, Busy, RequestAssumption DEF ClaimCommand, SaveSnapshot, Commit, WorkerState
<1>3. CASE ClaimCommand(w)
  <2> DEFINE row == ledger[x.req.id]
  <2>1. row # Absent /\ ledger' = ledger
    BY <1>3 DEF ClaimCommand, tables
  <2>2. row \in LedgerRow
    BY <1>2, <2>1 DEF Typed
  <2>3. \/ row.fingerprint = fp /\ a = [fingerprint |-> fp, result |-> row.result]
        \/ row.fingerprint # fp
           /\ a = [fingerprint |-> fp, result |-> [outcome |-> "IDEMPOTENCY_CONFLICT", version |-> 0]]
    BY <1>3, <2>1 DEF ClaimCommand, Answer
  <2>4. row.result.outcome # "IDEMPOTENCY_CONFLICT"
    BY <1>2, <2>1 DEF LedgerInv, Rejected
  <2> HIDE DEF row
  <2>5. ledger'[x.req.id] = row
    BY <2>1 DEF row
  <2> QED
    BY <1>2, <2>1, <2>2, <2>3, <2>4, <2>5, RecordReplays
<1>4. CASE SaveSnapshot(w)
  <2>1. x.pc = "save" /\ Outcomes(x) /\ Knows(x) /\ ledger' = ledger
    BY <1>2, <1>4 DEF SaveSnapshot, Locks, tables
  <2>2. a = LedgerRowOf(x)
    BY <1>4 DEF SaveSnapshot, Answer, LedgerRowOf, ResultOf
  <2> QED
    BY <1>2, <2>1, <2>2, RecordAnswers DEF Outcomes, Knows
<1>5. CASE Commit(w)
  <2>1. /\ x.pc = "commit" /\ Outcomes(x)
        /\ ledger' = [ledger EXCEPT ![x.req.id] = LedgerRowOf(x)]
    BY <1>5, CommitShape DEF CommitStep
  <2>2. a = LedgerRowOf(x)
    BY <1>5 DEF Commit, Answer, LedgerRowOf, ResultOf
  <2>3. ledger'[x.req.id] = LedgerRowOf(x) /\ x.outcome # "IDEMPOTENCY_CONFLICT"
    BY <1>2, <2>1 DEF Outcomes, Typed, Rejected
  <2> QED
    BY <1>2, <2>2, <2>3, RecordAnswers
<1> QED
  BY <1>1, <1>3, <1>4, <1>5

LEMMA AnswersStep ==
  ASSUME WellFormed, Sentinels, Typed, Locks, AnswersInv, [Next]_vars
  PROVE  AnswersInv'
<1>1. LedgerInv' /\ \A id \in CommandId : ledger[id] # Absent => ledger'[id] = ledger[id]
  BY LedgerStep DEF AnswersInv
<1>2. ASSUME NEW a \in replies
      PROVE  Backed(a)'
  <2>1. Backed(a) /\ a \in LedgerRow
    BY DEF AnswersInv, Backed
  <2>2. a.fingerprint[1].id \in CommandId
    BY <2>1, RequestAssumption DEF LedgerRow
  <2>3. ledger[a.fingerprint[1].id] # Absent
    BY <2>1 DEF Backed, Sentinels
  <2>4. ledger'[a.fingerprint[1].id] = ledger[a.fingerprint[1].id]
    BY <1>1, <2>2, <2>3
  <2> QED
    BY <2>1, <2>4 DEF Backed
<1>3. ASSUME NEW a \in replies', a \notin replies
      PROVE  Backed(a)'
  BY <1>3, RepliesStep DEF AnswersInv
<1> QED
  BY <1>1, <1>2, <1>3 DEF AnswersInv

-----------------------------------------------------------------------------
(* Authors.  What a commit adds to the events of a command.                  *)
LEMMA Appended ==
  ASSUME NEW S, NEW q \in Seq(S), NEW new \in Seq(S)
  PROVE  /\ Len(q) \in Nat /\ Len(new) \in Nat /\ DOMAIN q = 1 .. Len(q)
         /\ DOMAIN Extended(q, new) = 1 .. Len(q) + Len(new)
         /\ \A v \in 1 .. Len(q) : Extended(q, new)[v] = q[v]
         /\ \A v \in Len(q) + 1 .. Len(q) + Len(new) :
              v - Len(q) \in 1 .. Len(new) /\ Extended(q, new)[v] = new[v - Len(q)]
<1>1. Len(q) \in Nat /\ Len(new) \in Nat /\ DOMAIN q = 1 .. Len(q)
  OBVIOUS
<1>2. \A v \in Len(q) + 1 .. Len(q) + Len(new) : v - Len(q) \in 1 .. Len(new)
  BY <1>1
<1> QED
  BY <1>1, <1>2, ExtendedShape, LenProperties

LEMMA Cut ==
  ASSUME NEW n \in Nat, NEW m \in Nat
  PROVE  1 .. n + m = (1 .. n) \cup (n + 1 .. n + m) /\ (1 .. n) \cap (n + 1 .. n + m) = {}
OBVIOUS

(* The rows a commit appends: those behind the last one.                     *)
New(x) == Len(rows[x.req.cell]) + 1 .. Len(rows[x.req.cell]) + Len(x.produced)

LEMMA GrownAuthors ==
  ASSUME Typed, NEW x \in WorkerState, Wrote(x), Grows(x)
  PROVE  LET c == x.req.cell
         IN /\ c \in Cell
            /\ DOMAIN rows[c] = DOMAIN author[c] /\ DOMAIN rows'[c] = DOMAIN author'[c]
            /\ DOMAIN author'[c] = DOMAIN author[c] \cup New(x)
            /\ DOMAIN author[c] \cap New(x) = {}
            /\ \A v \in DOMAIN author[c] : author'[c][v] = author[c][v] /\ rows'[c][v] = rows[c][v]
            /\ \A v \in New(x) :
                 /\ author'[c][v] = x.req.id
                 /\ rows'[c][v].type = "CellFunded" <=> x.req.command.type = "FundCell"
            /\ \A d \in Cell \ {c} : author'[d] = author[d] /\ rows'[d] = rows[d]
<1> DEFINE c == x.req.cell
           names == Authors(x)
<1>1. /\ x \in WorkerState /\ c \in Cell
      /\ rows' = [rows EXCEPT ![c] = Extended(rows[c], x.produced)]
      /\ author' = [author EXCEPT ![c] = Extended(author[c], names)]
  BY RequestAssumption DEF Grows, WorkerState
<1>2. /\ rows[c] \in Seq(Event) /\ x.produced \in Seq(Event)
      /\ author[c] \in Seq(CommandId \cup {Prelude}) /\ Len(author[c]) = Len(rows[c])
  BY <1>1 DEF Typed, WorkerState
<1>3. /\ names \in Seq(CommandId \cup {Prelude}) /\ Len(names) = Len(x.produced)
      /\ \A i \in 1 .. Len(x.produced) : names[i] = x.req.id
  BY <1>1, AuthorsTyped
<1>4. Wrote(x)
  OBVIOUS
<1>5. /\ rows'[c] = Extended(rows[c], x.produced) /\ author'[c] = Extended(author[c], names)
      /\ \A d \in Cell \ {c} : author'[d] = author[d] /\ rows'[d] = rows[d]
  BY <1>1 DEF Typed
<1> HIDE DEF names
<1>6. /\ Len(rows[c]) \in Nat /\ Len(x.produced) \in Nat /\ DOMAIN rows[c] = 1 .. Len(rows[c])
      /\ DOMAIN rows'[c] = 1 .. Len(rows[c]) + Len(x.produced)
      /\ \A v \in 1 .. Len(rows[c]) : rows'[c][v] = rows[c][v]
      /\ \A v \in New(x) : v - Len(rows[c]) \in 1 .. Len(x.produced)
                           /\ rows'[c][v] = x.produced[v - Len(rows[c])]
  <2> DEFINE q == rows[c]
             new == x.produced
             after == Extended(q, new)
  <2>1. q \in Seq(Event) /\ new \in Seq(Event)
    BY <1>2
  <2>2. New(x) = Len(q) + 1 .. Len(q) + Len(new)
    BY DEF New
  <2>3. rows'[c] = after
    BY <1>5
  <2> HIDE DEF q, new
  <2>4. /\ Len(q) \in Nat /\ Len(new) \in Nat /\ DOMAIN q = 1 .. Len(q)
        /\ DOMAIN after = 1 .. Len(q) + Len(new)
        /\ \A v \in 1 .. Len(q) : after[v] = q[v]
        /\ \A v \in Len(q) + 1 .. Len(q) + Len(new) :
             v - Len(q) \in 1 .. Len(new) /\ after[v] = new[v - Len(q)]
    BY <2>1, Appended
  <2> HIDE DEF after
  <2> QED
    BY <2>2, <2>3, <2>4 DEF q, new
<1>7. /\ DOMAIN author[c] = 1 .. Len(rows[c])
      /\ DOMAIN author'[c] = 1 .. Len(rows[c]) + Len(x.produced)
      /\ \A v \in 1 .. Len(rows[c]) : author'[c][v] = author[c][v]
      /\ \A v \in New(x) : author'[c][v] = names[v - Len(rows[c])]
  <2> DEFINE S == CommandId \cup {Prelude}
             q == author[c]
             after == Extended(q, names)
  <2>1. q \in Seq(S) /\ names \in Seq(S)
    BY <1>2, <1>3
  <2>2. New(x) = Len(q) + 1 .. Len(q) + Len(names)
    BY <1>2, <1>3 DEF New
  <2>3. author'[c] = after
    BY <1>5
  <2>4. Len(q) = Len(rows[c]) /\ Len(names) = Len(x.produced)
    BY <1>2, <1>3
  <2> HIDE DEF q, S
  <2>5. /\ DOMAIN q = 1 .. Len(q)
        /\ DOMAIN after = 1 .. Len(q) + Len(names)
        /\ \A v \in 1 .. Len(q) : after[v] = q[v]
        /\ \A v \in Len(q) + 1 .. Len(q) + Len(names) : after[v] = names[v - Len(q)]
    BY <2>1, Appended
  <2> HIDE DEF after
  <2> QED
    BY <2>2, <2>3, <2>4, <2>5 DEF q
<1>8. /\ 1 .. Len(rows[c]) + Len(x.produced) = (1 .. Len(rows[c])) \cup New(x)
      /\ (1 .. Len(rows[c])) \cap New(x) = {}
  BY <1>6, Cut DEF New
<1>9. ASSUME NEW v \in New(x)
      PROVE  /\ author'[c][v] = x.req.id
             /\ rows'[c][v].type = "CellFunded" <=> x.req.command.type = "FundCell"
  <2>1. v - Len(rows[c]) \in 1 .. Len(x.produced)
    BY <1>6
  <2>2. author'[c][v] = x.req.id
    BY <1>3, <1>7, <2>1
  <2>3. PICK i \in 1 .. Len(x.produced) : rows'[c][v] = x.produced[i]
    BY <1>6
  <2>4. x.produced[i].type = "CellFunded" <=> x.req.command.type = "FundCell"
    BY <1>4 DEF Wrote
  <2> QED
    BY <2>2, <2>3, <2>4
<1> QED
  BY <1>1, <1>5, <1>6, <1>7, <1>8, <1>9

LEMMA GrownWrites ==
  ASSUME Typed, NEW x \in WorkerState, Wrote(x), Grows(x),
         NEW own, own = x.req.id, NEW c, c = x.req.cell, NEW new, new = New(x)
  PROVE  /\ \A id : id # own => Written(id)' = Written(id)
         /\ Written(own)' = Written(own) \cup ({c} \X new)
<1>1. /\ c \in Cell
      /\ DOMAIN author'[c] = DOMAIN author[c] \cup new
      /\ DOMAIN author[c] \cap new = {}
      /\ \A v \in DOMAIN author[c] : author'[c][v] = author[c][v]
      /\ \A v \in new : author'[c][v] = own
      /\ \A d \in Cell \ {c} : author'[d] = author[d]
  BY GrownAuthors
<1>2. \A d \in Cell : \A id :
        {v \in DOMAIN author'[d] : author'[d][v] = id}
          = {v \in DOMAIN author[d] : author[d][v] = id}
            \cup {v \in new : d = c /\ id = own}
  <2> SUFFICES ASSUME NEW d \in Cell, NEW id
               PROVE  {v \in DOMAIN author'[d] : author'[d][v] = id}
                        = {v \in DOMAIN author[d] : author[d][v] = id}
                          \cup {v \in new : d = c /\ id = own}
    OBVIOUS
  <2>1. CASE d = c
    BY <1>1, <2>1
  <2>2. CASE d # c
    BY <1>1, <2>2
  <2> QED
    BY <2>1, <2>2
<1>3. \A id : Written(id)' = UNION {{d} \X {v \in DOMAIN author'[d] : author'[d][v] = id} : d \in Cell}
  BY DEF Written
<1>4. ASSUME NEW id, id # own
      PROVE  Written(id)' = Written(id)
  BY <1>2, <1>3, <1>4 DEF Written
<1>5. Written(own)' = Written(own) \cup ({c} \X new)
  <2>1. \A d \in Cell : {v \in DOMAIN author'[d] : author'[d][v] = own}
          = {v \in DOMAIN author[d] : author[d][v] = own} \cup {v \in new : d = c}
    BY <1>2
  <2>2. ASSUME NEW p \in Written(own)'
        PROVE  p \in Written(own) \cup ({c} \X new)
    <3>1. PICK d \in Cell : p \in {d} \X {v \in DOMAIN author'[d] : author'[d][v] = own}
      BY <1>3
    <3>2. \/ p \in {d} \X {v \in DOMAIN author[d] : author[d][v] = own}
          \/ p \in {c} \X new
      BY <2>1, <3>1
    <3> QED
      BY <3>2 DEF Written
  <2>3. ASSUME NEW p \in Written(own)
        PROVE  p \in Written(own)'
    <3>1. PICK d \in Cell : p \in {d} \X {v \in DOMAIN author[d] : author[d][v] = own}
      BY DEF Written
    <3>2. p \in {d} \X {v \in DOMAIN author'[d] : author'[d][v] = own}
      BY <2>1, <3>1
    <3> QED
      BY <1>3, <3>2
  <2>4. ASSUME NEW p \in {c} \X new
        PROVE  p \in Written(own)'
    <3>1. p \in {c} \X {v \in DOMAIN author'[c] : author'[c][v] = own}
      BY <1>1, <2>1
    <3> QED
      BY <1>1, <1>3, <3>1
  <2> QED
    BY <2>2, <2>3, <2>4
<1> QED
  BY <1>4, <1>5

(* A record of what is in the stream, or of nothing.                         *)
Placed(x) == {x.req.cell} \X (Len(x.loaded) + 1 .. Len(x.loaded) + Len(x.produced))

LEMMA RecordWhole ==
  ASSUME Sentinels, NEW x \in WorkerState, NEW id, id = x.req.id,
         ledger'[id] = LedgerRowOf(x),
         x.outcome = "SUCCESS" => Wrote(x) /\ Written(id)' = Placed(x),
         x.outcome # "SUCCESS" => Written(id)' = {}
  PROVE  Whole(id)'
<1>1. LedgerRowOf(x) # Absent
  BY LedgerRowTyped DEF Sentinels
<1>2. /\ LedgerRowOf(x).fingerprint[1] = x.req
      /\ LedgerRowOf(x).result.outcome = x.outcome
      /\ x.outcome = "SUCCESS" => LedgerRowOf(x).result.version = Len(x.loaded) + Len(x.produced)
  BY FingerprintOf DEF LedgerRowOf, ResultingVersion
<1>3. CASE x.outcome # "SUCCESS"
  BY <1>2, <1>3 DEF Whole
<1>4. CASE x.outcome = "SUCCESS"
  <2>1. Len(x.produced) = Emitted(x.req.command.type)
    BY <1>4 DEF Wrote
  <2>2. Len(x.loaded) \in Nat /\ Len(x.produced) \in Nat
    BY DEF WorkerState
  <2>3. Written(id)' = {x.req.cell} \X (Len(x.loaded) + 1 .. Len(x.loaded) + Len(x.produced))
    BY <1>4 DEF Placed
  <2>4. \A last, emitted :
          last = Len(x.loaded) + Len(x.produced) /\ emitted = Len(x.produced)
            => Written(id)' = {x.req.cell} \X (last - emitted + 1 .. last)
    <3>1. \A last, emitted :
            last = Len(x.loaded) + Len(x.produced) /\ emitted = Len(x.produced)
              => last - emitted + 1 = Len(x.loaded) + 1
      BY <2>2
    <3> QED
      BY <2>3, <3>1
  <2>5. Written(id)' =
          {x.req.cell} \X (LedgerRowOf(x).result.version - Emitted(x.req.command.type) + 1
                    .. LedgerRowOf(x).result.version)
    BY <1>2, <1>4, <2>1, <2>4
  <2>6. ~(ledger'[id] = Absent \/ ledger'[id].result.outcome # "SUCCESS")
    BY <1>1, <1>2, <1>4
  <2>7. ledger'[id].result.version = LedgerRowOf(x).result.version /\ ledger'[id].fingerprint[1] = x.req
    BY <1>2
  <2> QED
    BY <2>5, <2>6, <2>7 DEF Whole
<1> QED
  BY <1>3, <1>4

LEMMA ExactlyOnceStep ==
  ASSUME WellFormed, Sentinels, Typed, Locks, ExactlyOnce, [Next]_vars
  PROVE  ExactlyOnce'
<1>1. ASSUME ledger' = ledger, author' = author
      PROVE  ExactlyOnce'
  BY <1>1 DEF ExactlyOnce, Whole, Written
<1>2. ASSUME NEW w \in Worker, CommitStep(w)
      PROVE  ExactlyOnce'
  <2> SUFFICES ASSUME NEW x, x = worker[w], NEW id, id = x.req.id, NEW c, c = x.req.cell,
                      NEW j \in CommandId
               PROVE  Whole(j)'
    BY DEF ExactlyOnce
  <2>1. /\ x \in WorkerState /\ Outcomes(x) /\ id \in CommandId /\ c \in Cell
        /\ ledger[id] = Absent
        /\ ledger' = [ledger EXCEPT ![id] = LedgerRowOf(x)]
        /\ Decides(x) => Len(x.loaded) = Len(rows[c])
        /\ ~Decides(x) => author' = author
        /\ x.pc = "commit"
    BY <1>2, CommitShape
  <2>2. Written(id) = {}
    BY <2>1 DEF ExactlyOnce, Whole
  <2>3. ledger'[id] = LedgerRowOf(x) /\ (j # id => ledger'[j] = ledger[j])
    BY <2>1 DEF Typed
  <2>4. CASE j # id
    <3>1. Written(j)' = Written(j)
      <4>1. CASE Decides(x)
        BY <1>2, <2>4, <4>1, CommitGrows, GrownWrites
      <4>2. CASE ~Decides(x)
        BY <2>1, <4>2 DEF Written
      <4> QED
        BY <4>1, <4>2
    <3>2. Whole(j) /\ ledger'[j] = ledger[j]
      BY <2>3, <2>4 DEF ExactlyOnce
    <3> QED
      BY <3>1, <3>2 DEF Whole
  <2>5. CASE j = id /\ ~Decides(x)
    <3>1. x.outcome # "SUCCESS" /\ Written(id)' = {}
      BY <2>1, <2>2, <2>5 DEF Decides, Written
    <3> QED
      BY <2>1, <2>3, <2>5, <3>1, RecordWhole
  <2>6. CASE j = id /\ Decides(x)
    <3>1. Wrote(x) /\ x.outcome = "SUCCESS"
      BY <2>1, <2>6 DEF Outcomes, Decides
    <3>2. Written(id)' = Written(id) \cup ({c} \X New(x))
      BY <1>2, <2>6, CommitGrows, GrownWrites
    <3>3. Written(id)' = Placed(x)
      BY <2>1, <2>2, <2>6, <3>2 DEF New, Placed
    <3> QED
      BY <2>1, <2>3, <2>6, <3>1, <3>3, RecordWhole
  <2> QED
    BY <2>4, <2>5, <2>6
<1>3. ASSUME NEW w \in Worker, QuietStep(w)
      PROVE  ledger' = ledger /\ author' = author
  BY <1>3, QuietMoves DEF MovesTo, tables
<1>4. NegativeStep \/ UNCHANGED vars => ledger' = ledger /\ author' = author
  BY DEF NegativeStep, OpenNegative, RecordNegative, LiftNegative, tables, vars
<1> QED
  BY <1>1, <1>2, <1>3, <1>4 DEF Next, QuietStep, CommitStep, NegativeStep

-----------------------------------------------------------------------------
(* Receipts.  The commands whose events funded a cell.                       *)
Fundings(events, names) == {names[v] : v \in {v \in DOMAIN events : events[v].type = "CellFunded"}}
Evidence(r) == IF r = Absent THEN {} ELSE {r.id}


(* What a commit adds to them: the command's id, if it is a funding.         *)
LEMMA CommitFundings ==
  ASSUME WellFormed, Typed, Locks, NEW w \in Worker, CommitStep(w), Decides(worker[w]),
         NEW c, c = worker[w].req.cell
  PROVE  /\ Claims(worker[w]) =>
              Fundings(rows'[c], author'[c]) = Fundings(rows[c], author[c]) \cup {worker[w].req.id}
         /\ ~Claims(worker[w]) => Fundings(rows'[c], author'[c]) = Fundings(rows[c], author[c])
<1> DEFINE x == worker[w]
           new == New(x)
           own == x.req.id
           funds == x.req.command.type = "FundCell"
<1>1. /\ c \in Cell /\ x \in WorkerState
      /\ DOMAIN rows[c] = DOMAIN author[c] /\ DOMAIN rows'[c] = DOMAIN author'[c]
      /\ DOMAIN author'[c] = DOMAIN author[c] \cup new
      /\ DOMAIN author[c] \cap new = {}
      /\ \A v \in DOMAIN author[c] : author'[c][v] = author[c][v] /\ rows'[c][v] = rows[c][v]
      /\ \A v \in new : author'[c][v] = own /\ (rows'[c][v].type = "CellFunded" <=> funds)
  BY CommitGrows, GrownAuthors
<1>2. Claims(x) <=> funds
  BY DEF Claims, Decides
<1>3. funds => new # {}
  <2>1. Outcomes(x) /\ Len(rows[c]) \in Nat
    BY <1>1, CommitShape DEF Typed
  <2>2. funds => Len(x.produced) = 1
    BY <2>1 DEF Outcomes, Decides, Wrote, Emitted
  <2>3. ASSUME NEW n \in Nat
        PROVE  n + 1 \in n + 1 .. n + 1
    OBVIOUS
  <2>4. funds => Len(rows[c]) + 1 \in new
    BY <2>1, <2>2, <2>3 DEF New
  <2> HIDE DEF new, funds
  <2> QED
    BY <2>4
<1> HIDE DEF new, own, funds, x
<1>4. CASE funds
  <2>1. ASSUME NEW id \in Fundings(rows'[c], author'[c])
        PROVE  id \in Fundings(rows[c], author[c]) \cup {own}
    <3>1. PICK v \in DOMAIN rows'[c] : rows'[c][v].type = "CellFunded" /\ id = author'[c][v]
      BY <2>1 DEF Fundings
    <3>2. v \in DOMAIN author[c] \cup new
      BY <1>1
    <3>3. CASE v \in new
      BY ONLY <1>1, <3>1, <3>3
    <3>4. CASE v \in DOMAIN author[c]
      <4>1. v \in DOMAIN rows[c] /\ rows[c][v].type = "CellFunded" /\ id = author[c][v]
        BY ONLY <1>1, <3>1, <3>4
      <4> QED
        BY ONLY <4>1 DEF Fundings
    <3> QED
      BY <3>2, <3>3, <3>4
  <2>2. ASSUME NEW id \in Fundings(rows[c], author[c])
        PROVE  id \in Fundings(rows'[c], author'[c])
    <3>1. PICK v \in DOMAIN rows[c] : rows[c][v].type = "CellFunded" /\ id = author[c][v]
      BY <2>2 DEF Fundings
    <3> QED
      BY <1>1, <3>1 DEF Fundings
  <2>3. own \in Fundings(rows'[c], author'[c])
    <3>1. PICK v \in new : TRUE
      BY <1>3, <1>4
    <3> QED
      BY <1>1, <1>4, <3>1 DEF Fundings
  <2> QED
    BY <1>2, <1>4, <2>1, <2>2, <2>3 DEF x, own
<1>5. CASE ~funds
  <2>1. ASSUME NEW id \in Fundings(rows'[c], author'[c])
        PROVE  id \in Fundings(rows[c], author[c])
    <3>1. PICK v \in DOMAIN rows'[c] : rows'[c][v].type = "CellFunded" /\ id = author'[c][v]
      BY <2>1 DEF Fundings
    <3> QED
      BY <1>1, <1>5, <3>1 DEF Fundings
  <2>2. ASSUME NEW id \in Fundings(rows[c], author[c])
        PROVE  id \in Fundings(rows'[c], author'[c])
    <3>1. PICK v \in DOMAIN rows[c] : rows[c][v].type = "CellFunded" /\ id = author[c][v]
      BY <2>2 DEF Fundings
    <3> QED
      BY <1>1, <3>1 DEF Fundings
  <2> QED
    BY <1>2, <1>5, <2>1, <2>2 DEF x
<1> QED
  BY <1>4, <1>5

ReceiptsInv ==
  /\ \A c \in Cell : Fundings(rows[c], author[c]) = Evidence(receipt[c])
  /\ \A c, d \in Cell :
       receipt[c] # Absent /\ receipt[d] # Absent /\ receipt[c].tx = receipt[d].tx => c = d

LEMMA ReceiptsInvIsSound == ReceiptsInv <=> ReceiptBacksFunding
BY DEF ReceiptsInv, ReceiptBacksFunding, Fundings, Evidence

LEMMA ReceiptsStep ==
  ASSUME WellFormed, Sentinels, Typed, Locks, ReceiptsInv, [Next]_vars
  PROVE  ReceiptsInv'
<1>1. ASSUME rows' = rows, author' = author, receipt' = receipt
      PROVE  ReceiptsInv'
  BY <1>1 DEF ReceiptsInv, Fundings, Evidence
<1>2. ASSUME NEW w \in Worker, CommitStep(w)
      PROVE  ReceiptsInv'
  <2> SUFFICES ASSUME NEW x, x = worker[w], NEW c, c = x.req.cell
               PROVE  ReceiptsInv'
    OBVIOUS
  <2>1. /\ x \in WorkerState /\ x # Idle /\ x.pc = "commit" /\ c \in Cell /\ x.req.id \in CommandId
        /\ ~Decides(x) => rows' = rows /\ author' = author
        /\ receipt' = IF Claims(x) THEN [receipt EXCEPT ![c] = ReceiptOf(x)] ELSE receipt
    BY <1>2, CommitShape
  <2>2. CASE ~Decides(x)
    <3>1. ~Claims(x)
      BY <2>1, <2>2 DEF Claims, Decides
    <3> QED
      BY <1>1, <2>1, <2>2, <3>1
  <2>3. CASE Decides(x)
    <3>1. /\ Claims(x) => Fundings(rows'[c], author'[c]) = Fundings(rows[c], author[c]) \cup {x.req.id}
          /\ ~Claims(x) => Fundings(rows'[c], author'[c]) = Fundings(rows[c], author[c])
      BY <1>2, <2>3, CommitFundings
    <3>2. \A d \in Cell \ {c} : author'[d] = author[d] /\ rows'[d] = rows[d]
      BY <1>2, <2>3, CommitGrows, GrownAuthors
    <3>3. CASE ~Claims(x)
      <4>1. receipt' = receipt
        BY <2>1, <3>3
      <4>2. ASSUME NEW d \in Cell
            PROVE  Fundings(rows'[d], author'[d]) = Evidence(receipt'[d])
        BY <3>1, <3>2, <3>3, <4>1 DEF ReceiptsInv
      <4> QED
        BY <4>1, <4>2 DEF ReceiptsInv, Evidence
    <3>4. CASE Claims(x)
      <4>1. /\ receipt[c] = Absent
            /\ \A d \in Cell : receipt[d] # Absent => receipt[d].tx # x.req.tx
        BY <1>2, <3>4, CommitShape DEF Knows
      <4>2. ReceiptOf(x) # Absent /\ ReceiptOf(x).id = x.req.id /\ ReceiptOf(x).tx = x.req.tx
        <5>1. x.req.tx \in ProviderTx
          BY <2>1, <3>4, RequestAssumption DEF WorkerState, Claims
        <5>2. ReceiptOf(x) \in Receipt
          BY <2>1, <5>1 DEF ReceiptOf, Receipt
        <5> QED
          BY <5>2 DEF Sentinels, ReceiptOf
      <4>3. receipt'[c] = ReceiptOf(x) /\ \A d \in Cell \ {c} : receipt'[d] = receipt[d]
        BY <2>1, <3>4 DEF Typed
      <4>4. ASSUME NEW d \in Cell
            PROVE  Fundings(rows'[d], author'[d]) = Evidence(receipt'[d])
        <5>1. CASE d = c
          <6>1. Fundings(rows[c], author[c]) = {}
            BY <2>1, <4>1 DEF ReceiptsInv, Evidence
          <6>2. Fundings(rows'[c], author'[c]) = {x.req.id}
            BY <3>1, <3>4, <6>1
          <6> QED
            BY <4>2, <4>3, <5>1, <6>2 DEF Evidence
        <5>2. CASE d # c
          BY <3>2, <4>3, <5>2 DEF ReceiptsInv
        <5> QED
          BY <5>1, <5>2
      <4>5. ASSUME NEW d \in Cell, NEW e \in Cell, receipt'[d] # Absent, receipt'[e] # Absent,
                   receipt'[d].tx = receipt'[e].tx
            PROVE  d = e
        BY <2>1, <4>1, <4>2, <4>3, <4>5 DEF ReceiptsInv
      <4> QED
        BY <4>4, <4>5 DEF ReceiptsInv, Evidence
    <3> QED
      BY <3>3, <3>4
  <2> QED
    BY <2>2, <2>3
<1>3. ASSUME NEW w \in Worker, QuietStep(w)
      PROVE  rows' = rows /\ author' = author /\ receipt' = receipt
  BY <1>3, QuietMoves DEF MovesTo, tables
<1>4. NegativeStep \/ UNCHANGED vars => rows' = rows /\ author' = author /\ receipt' = receipt
  BY DEF NegativeStep, OpenNegative, RecordNegative, LiftNegative, tables, vars
<1> QED
  BY <1>1, <1>2, <1>3, <1>4 DEF Next, QuietStep, CommitStep, NegativeStep

-----------------------------------------------------------------------------
(* The beginning: every row was written by the prelude.                      *)
LEMMA Beginning ==
  ASSUME WellFormed, Sentinels, Init
  PROVE  ExactlyOnce /\ AnswersInv /\ ReceiptsInv
<1>1. \A c \in Cell : DOMAIN author[c] = DOMAIN rows[c] /\ \A v \in DOMAIN rows[c] : author[c][v] = Prelude
  BY DEF Init
<1>2. \A id \in CommandId : Written(id) = {}
  <2> SUFFICES ASSUME NEW id \in CommandId, NEW c \in Cell
               PROVE  {v \in DOMAIN author[c] : author[c][v] = id} = {}
    BY DEF Written
  <2> QED
    BY <1>1 DEF WellFormed
<1>3. ExactlyOnce
  BY <1>2 DEF Init, ExactlyOnce, Whole
<1>4. AnswersInv
  BY DEF Init, AnswersInv, LedgerInv
<1>5. ASSUME NEW c \in Cell
      PROVE  Fundings(rows[c], author[c]) = Evidence(receipt[c])
  <2> DEFINE first == [tx |-> <<Prelude, c>>, id |-> Prelude]
  <2>1. first # Absent /\ first.id = Prelude
    <3>1. first \in Receipt
      BY DEF Receipt
    <3> QED
      BY <3>1 DEF Sentinels
  <2> DEFINE funded == \E v \in DOMAIN rows[c] : rows[c][v].type = "CellFunded"
  <2>2. receipt[c] = IF funded THEN first ELSE Absent
    BY DEF Init
  <2>3. /\ funded => Fundings(rows[c], author[c]) = {Prelude}
        /\ ~funded => Fundings(rows[c], author[c]) = {}
    <3>1. \A id \in Fundings(rows[c], author[c]) : id = Prelude /\ funded
      BY <1>1 DEF Fundings
    <3>2. funded => Prelude \in Fundings(rows[c], author[c])
      BY <1>1 DEF Fundings
    <3> HIDE DEF funded
    <3> QED
      BY <3>1, <3>2
  <2> HIDE DEF first, funded
  <2>4. CASE funded
    BY <2>1, <2>2, <2>3, <2>4 DEF Evidence
  <2>5. CASE ~funded
    BY <2>2, <2>3, <2>5 DEF Evidence
  <2> QED
    BY <2>4, <2>5
<1>6. ASSUME NEW c \in Cell, NEW d \in Cell, receipt[c] # Absent, receipt[d] # Absent,
             receipt[c].tx = receipt[d].tx
      PROVE  c = d
  <2>1. receipt[c].tx = <<Prelude, c>> /\ receipt[d].tx = <<Prelude, d>>
    BY <1>6 DEF Init
  <2>2. <<Prelude, c>>[2] = c /\ <<Prelude, d>>[2] = d
    OBVIOUS
  <2>3. <<Prelude, c>> = <<Prelude, d>>
    BY <1>6, <2>1, Zenon
  <2> QED
    BY <2>2, <2>3
<1> QED
  BY <1>3, <1>4, <1>5, <1>6 DEF ReceiptsInv

-----------------------------------------------------------------------------
(* The theorems.  What a client was told is what the ledger holds for that   *)
(* very request, and stays it: no lost acknowledgement, rollback or crash    *)
(* between CommandExecutionStore.executeOnce and the answer changes it.      *)
THEOREM AnswersAreDurable ==
  ASSUME WellFormed, Sentinels
  PROVE  Spec => []AnswersDurable
<1>1. Init => Typed /\ Locks /\ AnswersInv
  BY LocksInit, Beginning
<1>2. Typed /\ Locks /\ AnswersInv /\ [Next]_vars => (Typed /\ Locks /\ AnswersInv)'
  BY LocksStep, AnswersStep
<1>3. AnswersInv => AnswersDurable
  BY DEF AnswersInv, Backed, AnswersDurable
<1> QED
  BY <1>1, <1>2, <1>3, PTL DEF Spec

(* A command's events are in its cell's stream once, contiguous and complete, *)
(* exactly when the ledger says SUCCESS, whatever the retries, races, failed  *)
(* statements and crashes around executeOnce and PostgresEventStore.append.   *)
THEOREM CommandsExactlyOnce ==
  ASSUME WellFormed, Sentinels
  PROVE  Spec => []ExactlyOnce
<1>1. Init => Typed /\ Locks /\ ExactlyOnce
  BY LocksInit, Beginning
<1>2. Typed /\ Locks /\ ExactlyOnce /\ [Next]_vars => (Typed /\ Locks /\ ExactlyOnce)'
  BY LocksStep, ExactlyOnceStep
<1> QED
  BY <1>1, <1>2, PTL DEF Spec

(* A cell has a receipt exactly when it was funded, from the command that    *)
(* funded it, and one provider transaction funds one cell: the receipt claim *)
(* of FundCell and the append of CellFunded succeed or vanish together.      *)
THEOREM ReceiptsBackFundings ==
  ASSUME WellFormed, Sentinels
  PROVE  Spec => []ReceiptBacksFunding
<1>1. Init => Typed /\ Locks /\ ReceiptsInv
  BY LocksInit, Beginning
<1>2. Typed /\ Locks /\ ReceiptsInv /\ [Next]_vars => (Typed /\ Locks /\ ReceiptsInv)'
  BY LocksStep, ReceiptsStep
<1>3. ReceiptsInv => ReceiptBacksFunding
  BY ReceiptsInvIsSound
<1> QED
  BY <1>1, <1>2, <1>3, PTL DEF Spec

(* What PostgreSQL commits of a command is all of it, once: its events, its   *)
(* ledger row and the receipts of its funding (processWithinUnitOfWork).      *)
THEOREM EffectsAreSound ==
  ASSUME WellFormed, Sentinels
  PROVE  Spec => []EffectsSound
<1>1. ExactlyOnce /\ ReceiptBacksFunding => EffectsSound
  BY DEF EffectsSound
<1> QED
  BY <1>1, CommandsExactlyOnce, ReceiptsBackFundings, PTL

-----------------------------------------------------------------------------
(* The streams, and the serial kernel.                                       *)

(* A cell that holds or held money has its funding on record. *)
Money == {"FUNDED", "DISPUTED", "RELEASED", "REFUNDED"}
FundedOnRecord(q) ==
  Evolve(q).status \in Money => \E v \in 1 .. Len(q) : q[v].type = "CellFunded"

(* The streams this kernel writes: evolve reads them back. *)
Sound(q) == q \in Seq(Event) /\ Evolve(q) \in CellState /\ FundedOnRecord(q)

(* What the tables hold when this code starts was written by this kernel. *)
KernelWritten == \A c \in Cell : \A q \in InitialRows[c] : Sound(q)

-----------------------------------------------------------------------------
(* One command on a sound stream.                                            *)

(* A command is refused unless its cell is open and its handler accepts. *)
LEMMA CommandAccepted ==
  ASSUME NEW s, NEW c, NEW now, ApplyCommand(s, c, now) # <<>>
  PROVE  /\ IsOpen(s) /\ Accepts(s, c, now)
         /\ ApplyCommand(s, c, now) = Emissions(c, now)
BY DEF ApplyCommand

(* A handler that settles or disputes a cell finds its money in escrow. *)
LEMMA EscrowTouched ==
  ASSUME NEW s, NEW c, NEW now, Accepts(s, c, now),
         c.type \in {"OpenDispute"} \cup FINANCIAL_SETTLEMENT_COMMANDS
  PROVE  s.status \in {"FUNDED", "DISPUTED"}
<1>1. CASE c.type = "OpenDispute"
  BY <1>1 DEF Accepts, CanOpenDispute
<1>2. CASE c.type = "ApproveRelease"
  BY <1>2 DEF Accepts, CanApproveRelease
<1>3. CASE c.type = "ApproveRefund"
  BY <1>3 DEF Accepts, CanApproveRefund
<1>4. CASE c.type = "ForceRefund"
  BY <1>4 DEF Accepts, CanForceRefund
<1>5. CASE c.type = "ResolveDispute"
  BY <1>5 DEF Accepts, CanResolveDispute
<1>. QED BY <1>1, <1>2, <1>3, <1>4, <1>5 DEF FINANCIAL_SETTLEMENT_COMMANDS

Moving == {"DisputeOpened", "Released", "Refunded"}

(* What a command emits: one event, or the two of an award.  Only a funding   *)
(* puts money in escrow, only a settlement moves it out.                     *)
LEMMA OneOrTwo ==
  ASSUME WellFormed, NEW r \in Requests, NEW now \in Time
  PROVE  LET p == Emissions(r.command, now) IN
         \/ /\ r.command.type # "ResolveDispute"
            /\ \E e \in Event :
                 /\ p = <<e>>
                 /\ e.type = "CellFunded" <=> r.command.type = "FundCell"
                 /\ e.type \in Moving =>
                      r.command.type \in {"OpenDispute"} \cup FINANCIAL_SETTLEMENT_COMMANDS
                 /\ e.type \in {"Released", "Refunded"} =>
                      r.command.type \in FINANCIAL_SETTLEMENT_COMMANDS
         \/ /\ r.command.type = "ResolveDispute"
            /\ \E e \in Event, f \in Event :
                 /\ p = <<e, f>>
                 /\ e.type = "DisputeResolved"
                 /\ f.type \in {"Released", "Refunded"}
<1>. DEFINE c == r.command
<1>0. c.type \in CommandType
  BY DEF WellFormed
<1>1. CASE c.type = "CreateCell"
  <2>. DEFINE e == CellCreated(c.terms, TRUE, now)
  <2>1. c.terms \in TermsType
    BY <1>1 DEF WellFormed
  <2>2. e \in Event /\ e.type = "CellCreated"
    BY <2>1 DEF CellCreated, Event, TermsType
  <2>3. Emissions(c, now) = <<e>>
    BY <1>1 DEF Emissions
  <2>. HIDE DEF e
  <2>. QED BY <1>1, <2>2, <2>3 DEF Moving
<1>2. CASE c.type = "FundCell"
  <2>. DEFINE e == CellFunded(c.by, c.amount, now)
  <2>1. c.by \in Actor /\ c.amount \in Amount
    BY <1>2 DEF WellFormed
  <2>2. e \in Event /\ e.type = "CellFunded"
    BY <2>1 DEF CellFunded, Event
  <2>3. Emissions(c, now) = <<e>>
    BY <1>2 DEF Emissions
  <2>. HIDE DEF e
  <2>. QED BY <1>2, <2>2, <2>3 DEF Moving
<1>3. CASE c.type = "ResolveDispute"
  <2>. DEFINE e == DisputeResolved(c.by, c.favourOf, now)
              f == SimpleEvent(Settlement(c.favourOf), c.by, now)
  <2>1. c.by \in Actor /\ c.favourOf \in {"payer", "payee"}
    BY <1>3 DEF WellFormed
  <2>2. e \in Event /\ e.type = "DisputeResolved"
    BY <2>1 DEF DisputeResolved, Event
  <2>3. f \in Event /\ f.type \in {"Released", "Refunded"}
    BY <2>1 DEF SimpleEvent, Settlement, Event, SimpleEventType
  <2>4. Emissions(c, now) = <<e, f>>
    BY <1>3 DEF Emissions
  <2>. HIDE DEF e, f
  <2>. QED BY <1>3, <2>2, <2>3, <2>4
<1>4. CASE c.type \in DOMAIN SimpleEmission
  <2>. DEFINE e == SimpleEvent(SimpleEmission[c.type], c.by, now)
  <2>1. c.type \notin {"CreateCell", "FundCell", "ResolveDispute"}
    BY <1>4 DEF SimpleEmission
  <2>2. c.by \in Actor
    BY <2>1 DEF WellFormed
  <2>3. SimpleEmission[c.type] \in SimpleEventType
    BY <1>4 DEF SimpleEmission, SimpleEventType
  <2>4. e \in Event /\ e.type = SimpleEmission[c.type]
    BY <2>2, <2>3 DEF SimpleEvent, Event
  <2>5. /\ e.type # "CellFunded"
        /\ e.type \in {"Released", "Refunded"} => c.type \in FINANCIAL_SETTLEMENT_COMMANDS
        /\ e.type = "DisputeOpened" => c.type = "OpenDispute"
    BY <1>4, <2>4 DEF SimpleEmission, FINANCIAL_SETTLEMENT_COMMANDS
  <2>6. Emissions(c, now) = <<e>>
    BY <2>1 DEF Emissions
  <2>. HIDE DEF e
  <2>. QED BY <2>1, <2>4, <2>5, <2>6 DEF Moving
<1>. QED BY <1>0, <1>1, <1>2, <1>3, <1>4 DEF CommandType

(* The status an event leaves. *)
LEMMA StatusLeft ==
  ASSUME NEW s \in CellState, NEW e \in Event
  PROVE  LET t == EventFolder(s, e).status IN
         /\ t \in Money => e.type \in {"CellFunded"} \cup Moving \/ s.status \in Money
         /\ t \in {"RELEASED", "REFUNDED"} =>
              e.type \in {"Released", "Refunded"} \/ s.status \in {"RELEASED", "REFUNDED"}
         /\ e.type = "DisputeResolved" => t = s.status
BY DEF EventFolder, CreatedState, StatusAfter, Money, Moving

(* q is where r begins. *)
Begins(q, r) == Len(q) <= Len(r) /\ \A v \in 1 .. Len(q) : r[v] = q[v]

(* p is what the request's command emits in the state the stream q leaves. *)
Answers(p, r, now, q) == p # <<>> /\ p = ApplyCommand(Evolve(q), r.command, now)

(* t is q and behind it p. *)
Continues(t, q, p) ==
  /\ t \in Seq(Event) /\ Len(t) = Len(q) + Len(p)
  /\ Begins(q, t)
  /\ \A i \in 1 .. Len(p) : t[Len(q) + i] = p[i]

(* A stream that a command extended is what the command folded, sound again, *)
(* and settled only by a settlement of a cell that held money.               *)
LEMMA CommandWritten ==
  ASSUME WellFormed, NEW r \in Requests, NEW now \in Time,
         NEW q, Sound(q), NEW p, Answers(p, r, now, q), NEW t, Continues(t, q, p)
  PROVE  /\ Evolve(t) = Fold(Evolve(q), p)
         /\ Sound(t)
         /\ Evolve(t).status \in {"RELEASED", "REFUNDED"} =>
              r.command.type \in FINANCIAL_SETTLEMENT_COMMANDS
<1>. DEFINE s == Evolve(q)
<1>. HIDE DEF s
<1>. SUFFICES /\ Evolve(t) = Fold(s, p)
              /\ Sound(t)
              /\ Evolve(t).status \in {"RELEASED", "REFUNDED"} =>
                   r.command.type \in FINANCIAL_SETTLEMENT_COMMANDS
  BY DEF s
<1>given. s = Evolve(q) /\ p = ApplyCommand(s, r.command, now) /\ p # <<>>
  BY DEF s, Answers
<1>laid. /\ t \in Seq(Event) /\ Len(t) = Len(q) + Len(p)
      /\ \A v \in 1 .. Len(q) : t[v] = q[v]
  BY DEF Continues, Begins
<1>behind. \A i \in 1 .. Len(p) : t[Len(q) + i] = p[i]
  BY DEF Continues
<1>0. /\ q \in Seq(Event) /\ s \in CellState /\ Len(q) \in Nat
      /\ s.status \in Money => \E v \in 1 .. Len(q) : q[v].type = "CellFunded"
  BY <1>given, <1>laid DEF Sound, FundedOnRecord
<1>1. IsOpen(s) /\ Accepts(s, r.command, now) /\ p = Emissions(r.command, now)
  BY <1>given, <1>laid, CommandAccepted
<1>2. s.status \notin {"RELEASED", "REFUNDED"}
  BY <1>1 DEF IsOpen, TERMINAL_STATUSES
<1>3. r.command.type \in {"OpenDispute"} \cup FINANCIAL_SETTLEMENT_COMMANDS =>
        s.status \in Money
  BY <1>1, EscrowTouched DEF Money
<1>4. CASE r.command.type # "ResolveDispute"
  <2>1. PICK e \in Event :
          /\ p = <<e>>
          /\ e.type \in Moving =>
               r.command.type \in {"OpenDispute"} \cup FINANCIAL_SETTLEMENT_COMMANDS
          /\ e.type \in {"Released", "Refunded"} =>
               r.command.type \in FINANCIAL_SETTLEMENT_COMMANDS
    BY <1>1, <1>4, OneOrTwo
  <2>2. Len(p) = 1 /\ p[1] = e /\ Len(t) = Len(q) + 1 /\ t[Len(q) + 1] = e
    <3>1. Len(p) = 1 /\ p[1] = e
      BY <2>1
    <3>2. 1 \in 1 .. Len(p)
      BY <3>1
    <3>3. t[Len(q) + 1] = p[1]
      BY <1>behind, <3>2
    <3>4. Len(t) = Len(q) + 1
      BY <1>laid, <3>1
    <3>. QED BY <3>1, <3>3, <3>4
  <2>3. Evolve(t) = EventFolder(s, e)
    BY <1>given, <1>laid, <1>0, <1>1, <2>2, EvolveExtended, OpenStep
  <2>4. Evolve(t) = Fold(s, p)
    BY <2>2, <2>3, FoldOne
  <2>5. Evolve(t) \in CellState
    BY <1>given, <1>laid, <1>0, <2>3, FolderTyped
  <2>6. FundedOnRecord(t)
    <3>. SUFFICES ASSUME Evolve(t).status \in Money
                  PROVE  \E v \in 1 .. Len(t) : t[v].type = "CellFunded"
      BY DEF FundedOnRecord
    <3>1. e.type = "CellFunded" \/ s.status \in Money
      BY <1>given, <1>laid, <1>0, <1>3, <2>1, <2>3, StatusLeft
    <3>2. CASE e.type = "CellFunded"
      <4>1. Len(q) + 1 \in 1 .. Len(t)
        BY <1>given, <1>laid, <1>0, <2>2
      <4>. QED BY <2>2, <3>2, <4>1
    <3>3. CASE s.status \in Money
      <4>1. \A v \in 1 .. Len(q) : v \in 1 .. Len(t)
        BY <1>given, <1>laid, <1>0, <2>2
      <4>. QED BY <1>given, <1>laid, <1>0, <3>3, <4>1
    <3>. QED BY <3>1, <3>2, <3>3
  <2>7. Evolve(t).status \in {"RELEASED", "REFUNDED"} =>
          r.command.type \in FINANCIAL_SETTLEMENT_COMMANDS
    BY <1>given, <1>laid, <1>0, <1>2, <2>1, <2>3, StatusLeft
  <2>. QED BY <2>4, <2>5, <2>6, <2>7, <1>given, <1>laid DEF Sound
<1>5. CASE r.command.type = "ResolveDispute"
  <2>1. PICK e \in Event, f \in Event :
          p = <<e, f>> /\ e.type = "DisputeResolved" /\ f.type \in {"Released", "Refunded"}
    BY <1>1, <1>5, OneOrTwo
  <2>2. /\ Len(p) = 2 /\ p[1] = e /\ p[2] = f /\ Len(t) = Len(q) + 2
        /\ t[Len(q) + 1] = e /\ t[Len(q) + 2] = f
    <3>1. Len(p) = 2 /\ p[1] = e /\ p[2] = f
      BY <2>1
    <3>2. 1 \in 1 .. Len(p) /\ 2 \in 1 .. Len(p)
      BY <3>1
    <3>3. t[Len(q) + 1] = p[1] /\ t[Len(q) + 2] = p[2]
      BY <1>behind, <3>2
    <3>4. Len(t) = Len(q) + 2
      BY <1>laid, <3>1
    <3>. QED BY <3>1, <3>3, <3>4
  <2>. DEFINE m == Append(q, e)
  <2>3. /\ m \in Seq(Event) /\ Len(m) = Len(q) + 1
        /\ \A v \in 1 .. Len(m) : t[v] = m[v]
    <3>1. /\ m \in Seq(Event) /\ Len(m) = Len(q) + 1 /\ m[Len(q) + 1] = e
          /\ \A v \in 1 .. Len(q) : m[v] = q[v]
      BY <1>given, <1>laid, <1>0
    <3>2. \A v \in 1 .. Len(q) + 1 : v \in 1 .. Len(q) \/ v = Len(q) + 1
      BY <1>given, <1>laid, <1>0
    <3>. HIDE DEF m
    <3>. QED BY <1>given, <1>laid, <2>2, <3>1, <3>2
  <2>. DEFINE mid == EventFolder(s, e)
  <2>4. Evolve(m) = mid
    BY <1>given, <1>laid, <1>0, <1>1, EvolveAppend, OpenStep
  <2>5. mid \in CellState /\ IsOpen(mid)
    <3>1. mid \in CellState
      BY <1>given, <1>laid, <1>0, FolderTyped
    <3>2. mid.status = s.status
      BY <1>given, <1>laid, <1>0, <2>1, StatusLeft
    <3>. QED BY <1>1, <3>1, <3>2 DEF IsOpen
  <2>. HIDE DEF m, mid
  <2>6. Evolve(t) = EventFolder(mid, f)
    <3>1. Len(t) = Len(m) + 1 /\ t[Len(t)] = f
      BY <1>given, <1>laid, <1>0, <2>2, <2>3
    <3>2. Evolve(t) = EvolveStep(mid, f)
      BY <1>given, <1>laid, <2>3, <2>4, <3>1, EvolveExtended
    <3>. QED BY <2>5, <3>2, OpenStep
  <2>7. Evolve(t) = Fold(s, p)
    BY <2>2, <2>6, FoldTwo DEF mid
  <2>8. Evolve(t) \in CellState
    BY <2>5, <2>6, FolderTyped
  <2>9. FundedOnRecord(t)
    <3>1. \A v \in 1 .. Len(q) : v \in 1 .. Len(t)
      BY <1>given, <1>laid, <1>0, <2>2
    <3>2. s.status \in Money
      BY <1>3, <1>5 DEF FINANCIAL_SETTLEMENT_COMMANDS
    <3>. QED BY <1>given, <1>laid, <1>0, <3>1, <3>2 DEF FundedOnRecord
  <2>10. r.command.type \in FINANCIAL_SETTLEMENT_COMMANDS
    BY <1>5 DEF FINANCIAL_SETTLEMENT_COMMANDS
  <2>. QED BY <2>7, <2>8, <2>9, <2>10, <1>given, <1>laid DEF Sound
<1>. QED BY <1>4, <1>5

-----------------------------------------------------------------------------
(* What a request in flight knows of the streams.                            *)

(* A request has read the beginning of its cell's stream, and what it will   *)
(* append is what its command emits in the state it read; once committed it  *)
(* is there, behind what was read.                                           *)
HasDecided(x) == x.pc \in {"claim", "append"} \/ x.outcome = "SUCCESS"
Laid(x) ==
  /\ Len(x.loaded) + Len(x.produced) <= Len(rows[x.req.cell])
  /\ \A i \in 1 .. Len(x.produced) :
       rows[x.req.cell][Len(x.loaded) + i] = x.produced[i]
Faithful(x) ==
  /\ Begins(x.loaded, rows[x.req.cell])
  /\ x.pc = "check" \/ HasDecided(x) => Sound(x.loaded)
  /\ HasDecided(x) => Answers(x.produced, x.req, x.now, x.loaded)
  /\ x.pc = "save" => Laid(x)

(* A settlement about to commit holds the receipt, and found no reversal that *)
(* holds or held it.                                                         *)
Settling(x) ==
  /\ x.req.command.type \in FINANCIAL_SETTLEMENT_COMMANDS
  /\ x.pc \in {"claim", "append"} \/ Decides(x)
Blocking(c) == negative[c].locked /\ negative[c].phase \in {"open", "recorded"}
Guarded(x) == Settling(x) => x.locked /\ ~Blocking(x.req.cell)

Remembered == [version : Nat \ {0}, state : CellState]
Negative == [phase : {"none", "open", "recorded", "lifted"}, locked : BOOLEAN]

StreamsInv == \A c \in Cell : Sound(rows[c])
WorkersInv == \A w \in Worker : worker[w] # Idle => Faithful(worker[w])
GuardsInv ==
  /\ negative \in [Cell -> Negative]
  /\ \A w \in Worker : worker[w] # Idle => Guarded(worker[w])
SnapshotsInv == snapshot \in [Cell -> {Absent} \cup Remembered] /\ SnapshotsSound

-----------------------------------------------------------------------------
(* Beginnings.                                                               *)
LEMMA BeginsWhole ==
  ASSUME NEW q \in Seq(Event)
  PROVE  Begins(q, q) /\ Begins(<<>>, q)
BY DEF Begins

(* Beginnings chain. *)
LEMMA BeginsOn ==
  ASSUME NEW q \in Seq(Event), NEW r \in Seq(Event), NEW t \in Seq(Event),
         Begins(q, r), Begins(r, t)
  PROVE  Begins(q, t)
<1>1. Len(q) \in Nat /\ Len(r) \in Nat /\ Len(t) \in Nat
  OBVIOUS
<1>2. Len(q) <= Len(t) /\ \A v \in 1 .. Len(q) : v \in 1 .. Len(r)
  BY <1>1 DEF Begins
<1>. QED BY <1>2 DEF Begins

(* A beginning as long as the stream is the stream. *)
LEMMA BeginsAll ==
  ASSUME NEW q \in Seq(Event), NEW r \in Seq(Event), Begins(q, r), Len(q) = Len(r)
  PROVE  q = r
BY DEF Begins

(* The states of a beginning are states of the stream. *)
LEMMA BeginsEvolve ==
  ASSUME NEW q \in Seq(Event), NEW r \in Seq(Event), Begins(q, r),
         NEW k \in Nat, k <= Len(q)
  PROVE  Evolve(SubSeq(r, 1, k)) = Evolve(SubSeq(q, 1, k))
<1>1. k <= Len(r) /\ \A i \in 1 .. k : q[i] = r[i]
  BY DEF Begins
<1>2. States(q)[k] = States(r)[k]
  BY <1>1, StatesAgree
<1>. QED BY <1>1, <1>2, EvolvePrefix

-----------------------------------------------------------------------------
(* The statements of one request.                                            *)

(* A request that only moves on keeps what it knows. *)
LEMMA Carried ==
  ASSUME NEW y \in WorkerState, Faithful(y), NEW x \in WorkerState,
         x.req = y.req, x.loaded = y.loaded, x.pc \notin {"check", "save"},
         HasDecided(x) => HasDecided(y) /\ x.produced = y.produced /\ x.now = y.now
  PROVE  Faithful(x)
BY DEF Faithful

(* The synchronous tail decides on what was loaded. *)
LEMMA DecidedFaithful ==
  ASSUME WellFormed, NEW y \in WorkerState, y.outcome = "PERSISTENCE_FAILURE",
         Begins(y.loaded, rows[y.req.cell]), Sound(y.loaded)
  PROVE  Faithful(Decided(y))
<1>. DEFINE x == Decided(y)
            p == ApplyCommand(Evolve(y.loaded), y.req.command, y.now)
<1>. SUFFICES Faithful(x)
  OBVIOUS
<1>1. /\ x.req = y.req /\ x.loaded = y.loaded /\ x.now = y.now
      /\ \/ x.pc = "commit" /\ x.outcome = "KERNEL_REJECTION"
         \/ x.pc \in {"claim", "append"}
  BY DecidedShape
<1>2. CASE p = <<>>
  <2>1. x = [y EXCEPT !.pc = "commit", !.outcome = "KERNEL_REJECTION"]
    BY <1>2 DEF Decided
  <2>2. x.pc = "commit" /\ x.outcome = "KERNEL_REJECTION"
    BY <2>1 DEF WorkerState
  <2>. QED BY <1>1, <2>2 DEF Faithful, HasDecided
<1>3. CASE p # <<>>
  <2>. DEFINE pc == IF y.req.command.type = "FundCell" THEN "claim" ELSE "append"
  <2>1. x = [y EXCEPT !.produced = p, !.pc = pc]
    BY <1>3 DEF Decided
  <2>2. pc \in {"claim", "append"}
    OBVIOUS
  <2>. HIDE DEF p, pc
  <2>3. x.pc = pc /\ x.produced = p
    BY <2>1 DEF WorkerState
  <2>. HIDE DEF x
  <2>. QED BY <1>1, <1>3, <2>2, <2>3 DEF Faithful, HasDecided, Answers, p
<1>. QED BY <1>2, <1>3

(* One statement of a request, none of which changes the streams. *)
LEMMA QuietFaithful ==
  ASSUME WellFormed, Typed, Locks, StreamsInv, WorkersInv,
         NEW w \in Worker, QuietStep(w), worker'[w] # Idle
  PROVE  Faithful(worker'[w])
<1>. DEFINE y == worker[w]
            x == worker'[w]
<1>. SUFFICES Faithful(x)
  OBVIOUS
<1>0. x \in WorkerState
  <2>1. PICK z : MovesTo(w, z)
    BY QuietMoves
  <2>. QED BY <2>1 DEF MovesTo, Typed
<1>1. ASSUME y.pc # "idle"
      PROVE  /\ y \in WorkerState /\ Faithful(y) /\ Outcomes(y)
             /\ y.req.cell \in Cell /\ rows[y.req.cell] \in Seq(Event)
             /\ Sound(rows[y.req.cell])
  <2>1. y \in WorkerState /\ y # Idle
    BY <1>1, Busy
  <2>2. y.req.cell \in Cell
    BY <2>1, RequestAssumption DEF WorkerState
  <2>. QED BY <2>1, <2>2 DEF WorkersInv, Locks, Typed, StreamsInv
<1>2. CASE \E r \in Requests, now \in Time : Receive(w, r, now)
  <2>1. PICK r \in Requests, now \in Time : Receive(w, r, now)
    BY <1>2
  <2>2. x = Received(r, now)
    BY <2>1 DEF Receive, Typed
  <2>3. x.pc = "begin" /\ x.loaded = <<>> /\ x.outcome = "PERSISTENCE_FAILURE" /\ x.req = r
    BY <2>2 DEF Received
  <2>4. rows[r.cell] \in Seq(Event)
    BY RequestAssumption DEF Typed
  <2>5. Begins(x.loaded, rows[x.req.cell])
    BY <2>3, <2>4, BeginsWhole
  <2>. QED BY <2>3, <2>5 DEF Faithful, HasDecided
<1>3. CASE ClaimCommand(w)
  <2>1. y.pc = "begin"
    BY <1>3 DEF ClaimCommand
  <2>2. x = Idle \/ x = [y EXCEPT !.pc = "load"]
    BY <1>3 DEF ClaimCommand, Answer, Typed
  <2>3. x.req = y.req /\ x.loaded = y.loaded /\ x.pc = "load" /\ x.outcome = y.outcome
    BY <1>1, <2>1, <2>2 DEF WorkerState
  <2>. QED BY <1>0, <1>1, <2>1, <2>3, Carried DEF HasDecided, Outcomes
<1>4. CASE LoadCell(w)
  <2>. DEFINE q == rows[y.req.cell]
              loaded == [y EXCEPT !.loaded = q]
  <2>0. y.pc = "load" /\ y.outcome = "PERSISTENCE_FAILURE"
    BY <1>1, <1>4 DEF LoadCell, Outcomes
  <2>1. \/ x = [y EXCEPT !.pc = "commit", !.outcome = "KERNEL_REJECTION"]
        \/ x = [loaded EXCEPT !.pc = "check"]
        \/ x = Decided(loaded)
    BY <1>4 DEF LoadCell, CellOf, Typed
  <2>2. /\ loaded \in WorkerState /\ loaded.req = y.req /\ loaded.loaded = q
        /\ loaded.outcome = "PERSISTENCE_FAILURE"
    BY <1>1, <2>0 DEF WorkerState
  <2>3. Begins(q, q) /\ Sound(q)
    BY <1>1, <2>0, BeginsWhole
  <2>4. CASE x = [y EXCEPT !.pc = "commit", !.outcome = "KERNEL_REJECTION"]
    <3>1. /\ x.req = y.req /\ x.loaded = y.loaded /\ x.pc = "commit"
          /\ x.outcome = "KERNEL_REJECTION"
      BY <1>1, <2>0, <2>4 DEF WorkerState
    <3>. QED BY <1>0, <1>1, <2>0, <3>1, Carried DEF HasDecided
  <2>5. CASE x = [loaded EXCEPT !.pc = "check"]
    <3>1. /\ x.req = y.req /\ x.loaded = q /\ x.pc = "check"
          /\ x.outcome = "PERSISTENCE_FAILURE"
      BY <2>2, <2>5 DEF WorkerState
    <3>. QED BY <2>3, <3>1 DEF Faithful, HasDecided
  <2>6. CASE x = Decided(loaded)
    <3>. HIDE DEF loaded, x
    <3>. QED BY <2>2, <2>3, <2>6, DecidedFaithful
  <2>. QED BY <2>1, <2>4, <2>5, <2>6
<1>5. CASE CheckDispute(w)
  <2>. DEFINE holding == [y EXCEPT !.locked = (receipt[y.req.cell] # Absent)]
  <2>0. y.pc = "check" /\ y.outcome = "PERSISTENCE_FAILURE"
    BY <1>1, <1>5 DEF CheckDispute, Outcomes
  <2>1. \/ x = [holding EXCEPT !.pc = "commit", !.outcome = "FUNDING_DISPUTE_BLOCKED"]
        \/ x = Decided(holding)
    BY <1>5 DEF CheckDispute, CellOf, Typed
  <2>2. /\ holding \in WorkerState /\ holding.req = y.req /\ holding.loaded = y.loaded
        /\ holding.outcome = "PERSISTENCE_FAILURE"
    BY <1>1, <2>0 DEF WorkerState
  <2>3. Begins(y.loaded, rows[y.req.cell]) /\ Sound(y.loaded)
    BY <1>1, <2>0 DEF Faithful
  <2>4. CASE x = [holding EXCEPT !.pc = "commit", !.outcome = "FUNDING_DISPUTE_BLOCKED"]
    <3>1. /\ x.req = y.req /\ x.loaded = y.loaded /\ x.pc = "commit"
          /\ x.outcome = "FUNDING_DISPUTE_BLOCKED"
      BY <2>2, <2>4 DEF WorkerState
    <3>. QED BY <1>0, <1>1, <2>0, <3>1, Carried DEF HasDecided
  <2>5. CASE x = Decided(holding)
    <3>. HIDE DEF holding, x
    <3>. QED BY <2>2, <2>3, <2>5, DecidedFaithful
  <2>. QED BY <2>1, <2>4, <2>5
<1>6. CASE ClaimReceipt(w)
  <2>1. y.pc = "claim"
    BY <1>6 DEF ClaimReceipt
  <2>2. \/ x = [y EXCEPT !.pc = "commit", !.outcome = "FUNDING_RECEIPT_CONFLICT"]
        \/ x = [y EXCEPT !.pc = "append"]
    BY <1>6 DEF ClaimReceipt, Typed
  <2>3. /\ x.req = y.req /\ x.loaded = y.loaded /\ x.produced = y.produced /\ x.now = y.now
        /\ x.pc \in {"commit", "append"}
    BY <1>1, <2>1, <2>2 DEF WorkerState
  <2>. QED BY <1>0, <1>1, <2>1, <2>3, Carried DEF HasDecided
<1>7. CASE AppendEvents(w)
  <2>1. y.pc = "append"
    BY <1>7 DEF AppendEvents
  <2>2. \/ x = [y EXCEPT !.pc = "commit", !.outcome = "SUCCESS"]
        \/ x = [y EXCEPT !.pc = "abort"]
    BY <1>7 DEF AppendEvents, Typed
  <2>3. /\ x.req = y.req /\ x.loaded = y.loaded /\ x.produced = y.produced /\ x.now = y.now
        /\ x.pc \in {"commit", "abort"}
    BY <1>1, <2>1, <2>2 DEF WorkerState
  <2>. QED BY <1>0, <1>1, <2>1, <2>3, Carried DEF HasDecided
<1>8. RollBack(w) \/ SaveSnapshot(w) \/ Crash(w) => x = Idle
  BY DEF RollBack, SaveSnapshot, Crash, Answer, Typed
<1>. QED BY <1>2, <1>3, <1>4, <1>5, <1>6, <1>7, <1>8 DEF QuietStep

-----------------------------------------------------------------------------
(* Rows inserted behind the last one continue the stream. *)
LEMMA ExtendedContinues ==
  ASSUME NEW q \in Seq(Event), NEW p \in Seq(Event)
  PROVE  Continues(Extended(q, p), q, p)
<1>. DEFINE t == Extended(q, p)
<1>1. Len(q) \in Nat /\ Len(p) \in Nat
  OBVIOUS
<1>2. /\ t \in Seq(Event) /\ Len(t) = Len(q) + Len(p) /\ Len(q) <= Len(t)
      /\ \A v \in 1 .. Len(q) : t[v] = q[v]
      /\ \A v \in Len(q) + 1 .. Len(q) + Len(p) : t[v] = p[v - Len(q)]
  BY <1>1, ExtendedShape
<1>. HIDE DEF t
<1>3. ASSUME NEW i \in 1 .. Len(p)
      PROVE  t[Len(q) + i] = p[i]
  <2>. DEFINE v == Len(q) + i
  <2>1. v \in Len(q) + 1 .. Len(q) + Len(p) /\ v - Len(q) = i
    BY <1>1
  <2>. HIDE DEF v
  <2>2. t[v] = p[i]
    BY <1>2, <2>1
  <2>. QED BY <2>2 DEF v
<1>4. Continues(t, q, p)
  BY <1>2, <1>3 DEF Continues, Begins
<1>. QED BY <1>4 DEF t

(* What a request that decided on the whole stream appends to it is one       *)
(* command applied to the current state.                                     *)
LEMMA GrownWritten ==
  ASSUME WellFormed, Typed, StreamsInv,
         NEW x \in WorkerState, Grows(x), Faithful(x), HasDecided(x),
         NEW c, c = x.req.cell, NEW q, q = rows[c], Len(x.loaded) = Len(q)
  PROVE  /\ c \in Cell /\ q \in Seq(Event) /\ x.loaded = q
         /\ \A d \in Cell \ {c} : rows'[d] = rows[d]
         /\ Answers(x.produced, x.req, x.now, q)
         /\ Continues(rows'[c], q, x.produced)
         /\ Evolve(rows'[c]) = Fold(Evolve(q), x.produced)
         /\ Sound(rows'[c])
         /\ Evolve(rows'[c]).status \in {"RELEASED", "REFUNDED"} =>
              x.req.command.type \in FINANCIAL_SETTLEMENT_COMMANDS
<1>1. c \in Cell /\ rows' = [rows EXCEPT ![c] = Extended(q, x.produced)]
  BY RequestAssumption DEF Grows, WorkerState
<1>2. /\ q \in Seq(Event) /\ x.loaded \in Seq(Event) /\ x.produced \in Seq(Event)
      /\ x.req \in Requests /\ x.now \in Time
  BY <1>1 DEF Typed, WorkerState
<1>3. Sound(q)
  BY <1>1 DEF StreamsInv
<1>4. x.loaded = q
  BY <1>2, BeginsAll DEF Faithful
<1>5. Answers(x.produced, x.req, x.now, q)
  BY <1>4 DEF Faithful
<1>6. rows'[c] = Extended(q, x.produced) /\ \A d \in Cell \ {c} : rows'[d] = rows[d]
  BY <1>1 DEF Typed
<1>7. Continues(rows'[c], q, x.produced)
  BY <1>2, <1>6, ExtendedContinues
<1>8. /\ Evolve(rows'[c]) = Fold(Evolve(q), x.produced)
      /\ Sound(rows'[c])
      /\ Evolve(rows'[c]).status \in {"RELEASED", "REFUNDED"} =>
           x.req.command.type \in FINANCIAL_SETTLEMENT_COMMANDS
  BY <1>2, <1>3, <1>5, <1>7, CommandWritten
<1>. QED BY <1>1, <1>2, <1>4, <1>5, <1>6, <1>7, <1>8

(* The commit of a deciding request.                                         *)
LEMMA CommitWritten ==
  ASSUME WellFormed, Typed, Locks, StreamsInv, WorkersInv,
         NEW w \in Worker, CommitStep(w), NEW x, x = worker[w], Decides(x),
         NEW c, c = x.req.cell, NEW q, q = rows[c]
  PROVE  /\ c \in Cell /\ x \in WorkerState /\ q \in Seq(Event) /\ x.loaded = q
         /\ \A d \in Cell \ {c} : rows'[d] = rows[d]
         /\ Answers(x.produced, x.req, x.now, q)
         /\ Continues(rows'[c], q, x.produced)
         /\ Evolve(rows'[c]) = Fold(Evolve(q), x.produced)
         /\ Sound(rows'[c])
         /\ Evolve(rows'[c]).status \in {"RELEASED", "REFUNDED"} =>
              x.req.command.type \in FINANCIAL_SETTLEMENT_COMMANDS
<1>1. x \in WorkerState /\ x # Idle /\ Grows(x) /\ Len(x.loaded) = Len(q)
  BY CommitShape, CommitGrows
<1>2. Faithful(x) /\ HasDecided(x)
  BY <1>1 DEF WorkersInv, Decides, HasDecided
<1>. QED BY <1>1, <1>2, GrownWritten

(* Nothing but such a commit changes a stream. *)
LEMMA RowsChange ==
  ASSUME WellFormed, Typed, Locks, [Next]_vars
  PROVE  rows' = rows \/ \E w \in Worker : CommitStep(w) /\ Decides(worker[w])
<1>1. ASSUME NEW w \in Worker, CommitStep(w), ~Decides(worker[w])
      PROVE  rows' = rows
  BY <1>1, CommitShape
<1>2. ASSUME NEW w \in Worker, QuietStep(w)
      PROVE  rows' = rows
  BY <1>2, QuietMoves DEF MovesTo, tables
<1>3. NegativeStep \/ UNCHANGED vars => rows' = rows
  BY DEF NegativeStep, OpenNegative, RecordNegative, LiftNegative, tables, vars
<1>. QED BY <1>1, <1>2, <1>3 DEF Next, QuietStep, CommitStep, NegativeStep

(* The streams only grow, and stay what the kernel writes. *)
LEMMA StreamsStep ==
  ASSUME WellFormed, Sentinels, Typed, Locks, StreamsInv, WorkersInv, [Next]_vars
  PROVE  StreamsInv' /\ \A c \in Cell : Begins(rows[c], rows'[c])
<1>0. \A c \in Cell : rows[c] \in Seq(Event) /\ Begins(rows[c], rows[c])
  BY BeginsWhole DEF Typed
<1>1. CASE rows' = rows
  BY <1>0, <1>1 DEF StreamsInv
<1>2. ASSUME NEW w \in Worker, CommitStep(w), Decides(worker[w])
      PROVE  StreamsInv' /\ \A c \in Cell : Begins(rows[c], rows'[c])
  <2>1. PICK c \in Cell :
          /\ \A d \in Cell \ {c} : rows'[d] = rows[d]
          /\ Begins(rows[c], rows'[c]) /\ Sound(rows'[c])
    BY <1>2, CommitWritten DEF Continues
  <2>. QED BY <1>0, <2>1 DEF StreamsInv
<1>. QED BY <1>1, <1>2, RowsChange

(* Events that lie in a stream lie there when it grows.                       *)
LEMMA GrownLaid ==
  ASSUME Typed, NEW x \in WorkerState, Laid(x),
         NEW t, t = rows'[x.req.cell], t \in Seq(Event), Begins(rows[x.req.cell], t)
  PROVE  /\ Len(x.loaded) + Len(x.produced) <= Len(t)
         /\ \A i \in 1 .. Len(x.produced) : t[Len(x.loaded) + i] = x.produced[i]
<1>. DEFINE q == rows[x.req.cell]
<1>1. /\ Len(x.loaded) + Len(x.produced) <= Len(q)
      /\ \A i \in 1 .. Len(x.produced) : q[Len(x.loaded) + i] = x.produced[i]
  BY DEF Laid
<1>2. q \in Seq(Event) /\ x.loaded \in Seq(Event) /\ x.produced \in Seq(Event)
  BY RequestAssumption DEF Typed, WorkerState
<1>. DEFINE n == Len(x.loaded)
            m == Len(x.produced)
            k == Len(q)
<1>3. n \in Nat /\ m \in Nat /\ k \in Nat /\ n + m <= k /\ k <= Len(t) /\ Len(t) \in Nat
  <2>1. n \in Nat /\ m \in Nat /\ k \in Nat /\ Len(t) \in Nat
    BY <1>2
  <2>2. k <= Len(t)
    BY DEF Begins
  <2>. QED BY <1>1, <2>1, <2>2
<1>4. \A j \in 1 .. k : t[j] = q[j]
  BY DEF Begins
<1>5. \A i \in 1 .. m : q[n + i] = x.produced[i]
  BY <1>1
<1>. HIDE DEF q, n, m, k
<1>6. n + m <= Len(t) /\ \A i \in 1 .. m : n + i \in 1 .. k
  BY <1>3
<1>7. \A i \in 1 .. m : t[n + i] = x.produced[i]
  BY <1>4, <1>5, <1>6
<1>. QED BY <1>6, <1>7 DEF n, m

(* What a request knows of the streams stays true when they grow. *)
LEMMA GrownFaithful ==
  ASSUME Typed, Typed', NEW v \in Worker, worker[v] # Idle, worker'[v] = worker[v],
         Faithful(worker[v]), \A c \in Cell : Begins(rows[c], rows'[c])
  PROVE  Faithful(worker[v])'
<1>. SUFFICES ASSUME NEW x, x = worker[v], NEW t, t = rows'[x.req.cell]
              PROVE  Faithful(worker[v])'
  OBVIOUS
<1>. DEFINE q == rows[x.req.cell]
<1>1. /\ x \in WorkerState /\ x.req.cell \in Cell /\ q \in Seq(Event) /\ t \in Seq(Event)
      /\ x.loaded \in Seq(Event) /\ x.produced \in Seq(Event)
  BY RequestAssumption DEF Typed, WorkerState
<1>2. Begins(x.loaded, q) /\ Begins(q, t)
  BY <1>1 DEF Faithful
<1>3. Begins(x.loaded, t)
  BY <1>1, <1>2, BeginsOn
<1>4. x.pc = "save" =>
        /\ Len(x.loaded) + Len(x.produced) <= Len(t)
        /\ \A i \in 1 .. Len(x.produced) : t[Len(x.loaded) + i] = x.produced[i]
  BY <1>1, <1>2, GrownLaid DEF Faithful
<1>5. /\ x.pc = "check" \/ HasDecided(x) => Sound(x.loaded)
      /\ HasDecided(x) => Answers(x.produced, x.req, x.now, x.loaded)
  BY DEF Faithful
<1>6. /\ Begins(x.loaded, rows'[x.req.cell])
      /\ x.pc = "save" =>
           /\ Len(x.loaded) + Len(x.produced) <= Len(rows'[x.req.cell])
           /\ \A i \in 1 .. Len(x.produced) :
                rows'[x.req.cell][Len(x.loaded) + i] = x.produced[i]
  BY <1>3, <1>4
<1>. HIDE DEF q
<1>7. x = worker'[v]
  OBVIOUS
<1>. QED BY <1>5, <1>6, <1>7 DEF Faithful, HasDecided, Laid

(* What a request knows of its cell stays true, whatever step is taken.      *)
LEMMA WorkersStep ==
  ASSUME WellFormed, Sentinels, Typed, Locks, StreamsInv, WorkersInv, [Next]_vars
  PROVE  WorkersInv'
<1>0. Typed' /\ \A c \in Cell : Begins(rows[c], rows'[c])
  BY LocksStep, StreamsStep
<1>1. ASSUME NEW w \in Worker, QuietStep(w)
      PROVE  WorkersInv'
  <2>1. PICK z : MovesTo(w, z)
    BY <1>1, QuietMoves
  <2>2. rows' = rows /\ \A v \in Worker \ {w} : worker'[v] = worker[v]
    BY <2>1 DEF MovesTo, tables, Typed
  <2>3. worker'[w] # Idle => Faithful(worker'[w])
    BY <1>1, QuietFaithful
  <2>4. \A v \in Worker : worker'[v] # Idle => Faithful(worker'[v])
    BY <2>2, <2>3 DEF WorkersInv
  <2>. QED BY <2>2, <2>4 DEF WorkersInv, Faithful, HasDecided, Laid
<1>2. ASSUME \A v \in Worker : worker'[v] = worker[v]
      PROVE  WorkersInv'
  <2>. SUFFICES ASSUME NEW v \in Worker, worker'[v] # Idle
                PROVE  Faithful(worker[v])'
    BY DEF WorkersInv
  <2>1. worker'[v] = worker[v] /\ worker[v] # Idle /\ Faithful(worker[v])
    BY <1>2 DEF WorkersInv
  <2>. QED BY <1>0, <2>1, GrownFaithful
<1>3. ASSUME NEW w \in Worker, CommitStep(w)
      PROVE  WorkersInv'
  <2>. DEFINE x == worker[w]
              saving == [x EXCEPT !.pc = "save"]
  <2>1. /\ x \in WorkerState /\ x # Idle
        /\ \/ worker' = [worker EXCEPT ![w] = Idle]
           \/ Decides(x) /\ worker' = [worker EXCEPT ![w] = saving]
    BY <1>3, CommitShape
  <2>2. \A v \in Worker \ {w} : worker'[v] = worker[v]
    BY <2>1 DEF Typed
  <2>3. ASSUME NEW v \in Worker \ {w}, worker'[v] # Idle
        PROVE  Faithful(worker[v])'
    <3>1. worker'[v] = worker[v] /\ worker[v] # Idle /\ Faithful(worker[v])
      BY <2>2, <2>3 DEF WorkersInv
    <3>. QED BY <1>0, <3>1, GrownFaithful
  <2>4. ASSUME worker'[w] # Idle
        PROVE  Faithful(worker[w])'
    <3>1. Decides(x) /\ worker'[w] = saving
      BY <2>1, <2>4 DEF Typed
    <3>2. /\ saving.req = x.req /\ saving.loaded = x.loaded /\ saving.produced = x.produced
          /\ saving.now = x.now /\ saving.outcome = x.outcome /\ saving.pc = "save"
      BY <2>1 DEF WorkerState
    <3>. DEFINE c == x.req.cell
                q == rows[c]
    <3>3. /\ x.loaded = q /\ q \in Seq(Event) /\ c \in Cell
          /\ Answers(x.produced, x.req, x.now, q) /\ Continues(rows'[c], q, x.produced)
      BY <1>3, <3>1, CommitWritten
    <3>4. Sound(q)
      BY <3>3 DEF StreamsInv
    <3>5. /\ Len(q) + Len(x.produced) <= Len(rows'[c])
          /\ Begins(q, rows'[c])
          /\ \A i \in 1 .. Len(x.produced) : rows'[c][Len(q) + i] = x.produced[i]
      <4>1. Len(q) \in Nat /\ Len(x.produced) \in Nat
        BY <2>1, <3>3 DEF WorkerState
      <4>2. /\ Len(rows'[c]) = Len(q) + Len(x.produced) /\ Begins(q, rows'[c])
            /\ \A i \in 1 .. Len(x.produced) : rows'[c][Len(q) + i] = x.produced[i]
        BY <3>3 DEF Continues
      <4>. HIDE DEF x, q, c
      <4>. QED BY ONLY <4>1, <4>2
    <3>. HIDE DEF saving, x, q
    <3>. QED BY <3>1, <3>2, <3>3, <3>4, <3>5 DEF Faithful, Laid, HasDecided
  <2>. QED BY <2>3, <2>4 DEF WorkersInv
<1>4. NegativeStep \/ UNCHANGED vars => worker' = worker
  BY DEF NegativeStep, OpenNegative, RecordNegative, LiftNegative, vars
<1>. QED BY <1>1, <1>2, <1>3, <1>4 DEF Next, QuietStep, CommitStep, NegativeStep

-----------------------------------------------------------------------------
(* Reversals.  A cell that was funded has a receipt to lock. *)
LEMMA FundedHasReceipt ==
  ASSUME Typed, ReceiptsInv, NEW c \in Cell, NEW q, Begins(q, rows[c]),
         \E v \in 1 .. Len(q) : q[v].type = "CellFunded", q \in Seq(Event)
  PROVE  receipt[c] # Absent
<1>1. PICK v \in 1 .. Len(q) : q[v].type = "CellFunded"
  OBVIOUS
<1>2. rows[c] \in Seq(Event) /\ Len(q) <= Len(rows[c]) /\ rows[c][v] = q[v]
  BY DEF Typed, Begins
<1>3. v \in DOMAIN rows[c]
  BY <1>2
<1>4. author[c][v] \in Fundings(rows[c], author[c])
  BY <1>1, <1>2, <1>3 DEF Fundings
<1>. QED BY <1>4 DEF ReceiptsInv, Evidence

(* A settlement that its kernel accepted has money to move. *)
LEMMA SettlementFunded ==
  ASSUME NEW x, Faithful(x), x.pc \in {"claim", "append"},
         x.req.command.type \in FINANCIAL_SETTLEMENT_COMMANDS
  PROVE  \E v \in 1 .. Len(x.loaded) : x.loaded[v].type = "CellFunded"
<1>1. Sound(x.loaded) /\ Answers(x.produced, x.req, x.now, x.loaded)
  BY DEF Faithful, HasDecided
<1>. DEFINE s == Evolve(x.loaded)
<1>2. Accepts(s, x.req.command, x.now)
  BY <1>1, CommandAccepted DEF Answers
<1>. HIDE DEF s
<1>3. s.status \in Money
  BY <1>2, EscrowTouched DEF Money
<1>. QED BY <1>1, <1>3 DEF s, Sound, FundedOnRecord

(* The look at the reversals, with the receipt locked. *)
LEMMA CheckGuards ==
  ASSUME WellFormed, Typed, Locks, ReceiptsInv, StreamsInv, WorkersInv,
         negative \in [Cell -> Negative],
         NEW w \in Worker, CheckDispute(w)
  PROVE  Guarded(worker'[w])
<1>. DEFINE y == worker[w]
            x == worker'[w]
            c == y.req.cell
            holding == [y EXCEPT !.locked = (receipt[c] # Absent)]
<1>. SUFFICES ASSUME Settling(x) PROVE x.locked /\ ~Blocking(x.req.cell)
  BY DEF Guarded
<1>1. /\ y \in WorkerState /\ y # Idle /\ y.pc = "check" /\ c \in Cell
      /\ y.outcome = "PERSISTENCE_FAILURE"
  BY Busy, RequestAssumption DEF CheckDispute, WorkerState, Locks, Outcomes
<1>2. x # Idle
  BY DEF Settling, Decides, Idle
<1>3. \/ x = [holding EXCEPT !.pc = "commit", !.outcome = "FUNDING_DISPUTE_BLOCKED"]
      \/ x = Decided(holding) /\ negative[c].phase # "recorded"
  BY DEF CheckDispute, CellOf, Typed
<1>4. /\ holding \in WorkerState /\ holding.req = y.req
      /\ holding.locked = (receipt[c] # Absent)
  BY <1>1 DEF WorkerState
<1>5. ~(x = [holding EXCEPT !.pc = "commit", !.outcome = "FUNDING_DISPUTE_BLOCKED"])
  BY <1>4 DEF Settling, Decides, WorkerState
<1>. HIDE DEF holding
<1>6. x.req = y.req /\ x.locked = (receipt[c] # Absent) /\ x.pc \in {"claim", "append"}
  BY <1>3, <1>4, <1>5, DecidedShape DEF Settling, Decides
<1>7. Faithful(x)
  BY <1>2, QuietFaithful DEF QuietStep
<1>8. receipt[c] # Absent
  <2>1. \E v \in 1 .. Len(x.loaded) : x.loaded[v].type = "CellFunded"
    BY <1>6, <1>7, SettlementFunded DEF Settling
  <2>2. Begins(x.loaded, rows[c]) /\ x.loaded \in Seq(Event)
    BY <1>6, <1>7 DEF Faithful, HasDecided, Sound
  <2>. QED BY <1>1, <2>1, <2>2, FundedHasReceipt
<1>9. ~NegativeHoldsReceipt(c) /\ negative[c].phase # "recorded"
  BY <1>3, <1>5, <1>8 DEF CheckDispute, CellOf
<1>. QED BY <1>6, <1>8, <1>9 DEF Blocking, NegativeHoldsReceipt

(* A request's other statements. *)
LEMMA QuietGuards ==
  ASSUME WellFormed, Typed, Locks, ReceiptsInv, StreamsInv, WorkersInv, GuardsInv,
         NEW w \in Worker, QuietStep(w), worker'[w] # Idle
  PROVE  Guarded(worker'[w])
<1>. DEFINE y == worker[w]
            x == worker'[w]
<1>. SUFFICES Guarded(x)
  OBVIOUS
<1>1. y.pc # "idle" => y \in WorkerState /\ y # Idle /\ Guarded(y) /\ Outcomes(y)
  BY Busy DEF GuardsInv, Locks
<1>2. CASE \E r \in Requests, now \in Time : Receive(w, r, now)
  <2>1. x.pc = "begin"
    BY <1>2 DEF Receive, Received, Typed
  <2>. QED BY <2>1 DEF Guarded, Settling, Decides
<1>3. CASE ClaimCommand(w)
  <2>1. x = Idle \/ x = [y EXCEPT !.pc = "load"]
    BY <1>3 DEF ClaimCommand, Answer, Typed
  <2>2. x.pc = "load"
    BY <1>1, <1>3, <2>1 DEF ClaimCommand, WorkerState
  <2>. QED BY <2>2 DEF Guarded, Settling, Decides
<1>4. CASE LoadCell(w)
  <2>. DEFINE loaded == [y EXCEPT !.loaded = rows[y.req.cell]]
  <2>0. /\ y \in WorkerState /\ y.pc = "load" /\ y.outcome = "PERSISTENCE_FAILURE"
        /\ rows[y.req.cell] \in Seq(Event)
    BY <1>1, <1>4, RequestAssumption DEF LoadCell, Outcomes, Typed, WorkerState
  <2>1. \/ x = [y EXCEPT !.pc = "commit", !.outcome = "KERNEL_REJECTION"]
        \/ x = [loaded EXCEPT !.pc = "check"]
        \/ x = Decided(loaded) /\ y.req.command.type \notin FINANCIAL_SETTLEMENT_COMMANDS
    BY <1>4 DEF LoadCell, CellOf, TypeOf, Typed
  <2>2. loaded \in WorkerState /\ loaded.req = y.req
    BY <2>0 DEF WorkerState
  <2>3. CASE x = [y EXCEPT !.pc = "commit", !.outcome = "KERNEL_REJECTION"]
    BY <2>0, <2>3 DEF Guarded, Settling, Decides, WorkerState
  <2>4. CASE x = [loaded EXCEPT !.pc = "check"]
    BY <2>2, <2>4 DEF Guarded, Settling, Decides, WorkerState
  <2>5. CASE x = Decided(loaded) /\ y.req.command.type \notin FINANCIAL_SETTLEMENT_COMMANDS
    <3>. HIDE DEF loaded
    <3>1. x.req = y.req
      BY <2>2, <2>5, DecidedShape
    <3>. QED BY <2>5, <3>1 DEF Guarded, Settling
  <2>. QED BY <2>1, <2>3, <2>4, <2>5
<1>5. CASE CheckDispute(w)
  BY <1>5, CheckGuards DEF GuardsInv
<1>6. CASE ClaimReceipt(w)
  <2>1. y \in WorkerState /\ y.pc = "claim"
    BY <1>1, <1>6 DEF ClaimReceipt
  <2>2. \/ x = [y EXCEPT !.pc = "commit", !.outcome = "FUNDING_RECEIPT_CONFLICT"]
        \/ x = [y EXCEPT !.pc = "append"]
    BY <1>6 DEF ClaimReceipt, Typed
  <2>3. /\ x.req = y.req /\ x.locked = y.locked
        /\ x.pc = "append" \/ ~Decides(x)
    BY <2>1, <2>2 DEF WorkerState, Decides
  <2>4. Settling(x) => Settling(y)
    BY <2>1, <2>2, <2>3 DEF Settling, WorkerState
  <2>. QED BY <1>1, <2>1, <2>3, <2>4 DEF Guarded
<1>7. CASE AppendEvents(w)
  <2>1. y \in WorkerState /\ y.pc = "append"
    BY <1>1, <1>7 DEF AppendEvents
  <2>2. \/ x = [y EXCEPT !.pc = "commit", !.outcome = "SUCCESS"]
        \/ x = [y EXCEPT !.pc = "abort"]
    BY <1>7 DEF AppendEvents, Typed
  <2>3. x.req = y.req /\ x.locked = y.locked
    BY <2>1, <2>2 DEF WorkerState
  <2>. QED BY <1>1, <2>1, <2>3 DEF Guarded, Settling
<1>8. RollBack(w) \/ SaveSnapshot(w) \/ Crash(w) => x = Idle
  BY DEF RollBack, SaveSnapshot, Crash, Answer, Typed
<1>. QED BY <1>2, <1>3, <1>4, <1>5, <1>6, <1>7, <1>8 DEF QuietStep

(* A reversal waits for a settlement that holds the receipt, and a settlement *)
(* that comes later sees the reversal.                                        *)
LEMMA GuardsStep ==
  ASSUME WellFormed, Typed, Locks, ReceiptsInv, StreamsInv, WorkersInv, GuardsInv,
         [Next]_vars
  PROVE  GuardsInv'
<1>1. ASSUME NEW w \in Worker, QuietStep(w)
      PROVE  GuardsInv'
  <2>1. PICK z : MovesTo(w, z)
    BY <1>1, QuietMoves
  <2>2. \A v \in Worker \ {w} : worker'[v] = worker[v]
    BY <2>1 DEF MovesTo, Typed
  <2>3. negative' = negative
    BY <1>1 DEF QuietStep, Receive, ClaimCommand, LoadCell, CheckDispute, ClaimReceipt,
                AppendEvents, RollBack, SaveSnapshot, Crash
  <2>4. worker'[w] # Idle => Guarded(worker'[w])
    BY <1>1, QuietGuards
  <2>5. \A v \in Worker : worker'[v] # Idle => Guarded(worker'[v])
    BY <2>2, <2>4 DEF GuardsInv
  <2>. QED BY <2>3, <2>5 DEF GuardsInv, Guarded, Settling, Blocking, Decides
<1>2. ASSUME NEW w \in Worker, CommitStep(w)
      PROVE  GuardsInv'
  <2>. DEFINE x == worker[w]
              saving == [x EXCEPT !.pc = "save"]
  <2>1. /\ x \in WorkerState
        /\ worker' = [worker EXCEPT ![w] = Idle] \/ worker' = [worker EXCEPT ![w] = saving]
    BY <1>2, CommitShape
  <2>2. \A v \in Worker \ {w} : worker'[v] = worker[v]
    BY <2>1 DEF Typed
  <2>3. worker'[w] # Idle => ~Settling(worker'[w])
    <3>1. saving.pc = "save"
      BY <2>1 DEF WorkerState
    <3>2. worker'[w] # Idle => worker'[w] = saving
      BY <2>1 DEF Typed
    <3>. HIDE DEF saving
    <3>. QED BY <3>1, <3>2 DEF Settling, Decides
  <2>4. negative' = negative
    BY <1>2 DEF CommitStep, Commit, CommitUnacknowledged
  <2>5. \A v \in Worker : worker'[v] # Idle => Guarded(worker'[v])
    BY <2>2, <2>3 DEF GuardsInv, Guarded
  <2>. QED BY <2>4, <2>5 DEF GuardsInv, Guarded, Settling, Blocking, Decides
<1>3. ASSUME NEW c \in Cell, OpenNegative(c) \/ RecordNegative(c) \/ LiftNegative(c)
      PROVE  GuardsInv'
  <2>1. worker' = worker
    BY <1>3 DEF OpenNegative, RecordNegative, LiftNegative
  <2>2. negative' \in [Cell -> Negative]
    <3>. DEFINE opened == [phase |-> "open", locked |-> receipt[c] # Absent]
                recorded == [negative[c] EXCEPT !.phase = "recorded"]
                lifted == [negative[c] EXCEPT !.phase = "lifted"]
    <3>1. negative \in [Cell -> Negative]
      BY DEF GuardsInv
    <3>2. opened \in Negative /\ recorded \in Negative /\ lifted \in Negative
      BY <3>1 DEF Negative
    <3>3. \/ negative' = [negative EXCEPT ![c] = opened]
          \/ negative' = [negative EXCEPT ![c] = recorded]
          \/ negative' = [negative EXCEPT ![c] = lifted]
      BY <1>3 DEF OpenNegative, RecordNegative, LiftNegative
    <3>. HIDE DEF opened, recorded, lifted
    <3>. QED BY <3>1, <3>2, <3>3
  <2>3. ASSUME NEW v \in Worker, worker[v] # Idle, Settling(worker[v])
        PROVE  worker[v].locked /\ ~Blocking(worker[v].req.cell)'
    <3>. DEFINE x == worker[v]
    <3>1. /\ x \in WorkerState /\ x.req.cell \in Cell
          /\ x.locked /\ ~Blocking(x.req.cell)
      BY <2>3, RequestAssumption DEF Typed, WorkerState, GuardsInv, Guarded
    <3>2. HoldsReceipt(v, x.req.cell)
      BY <2>3, <3>1 DEF HoldsReceipt, InTransaction, CellOf, Settling, Decides
    <3>3. ~Blocking(x.req.cell)'
      <4>1. CASE x.req.cell # c
        <5>1. negative'[x.req.cell] = negative[x.req.cell]
          BY <1>3, <3>1, <4>1 DEF OpenNegative, RecordNegative, LiftNegative, GuardsInv
        <5>. QED BY <2>1, <3>1, <5>1 DEF Blocking
      <4>2. CASE x.req.cell = c
        <5>1. ~OpenNegative(c)
          BY <3>2, <4>2 DEF OpenNegative
        <5>2. RecordNegative(c) =>
                ~negative[c].locked /\ negative'[c].locked = negative[c].locked
          BY <3>1, <4>2 DEF RecordNegative, Blocking, GuardsInv, Negative
        <5>3. LiftNegative(c) => negative'[c].phase = "lifted"
          BY DEF LiftNegative, GuardsInv, Negative
        <5>. QED BY <1>3, <2>1, <4>2, <5>1, <5>2, <5>3 DEF Blocking
      <4>. QED BY <4>1, <4>2
    <3>. QED BY <3>1, <3>3
  <2>. QED BY <2>1, <2>2, <2>3 DEF GuardsInv, Guarded, Settling, Decides, Blocking
<1>4. UNCHANGED vars => GuardsInv'
  BY DEF vars, GuardsInv, Guarded, Settling, Decides, Blocking
<1>. QED BY <1>1, <1>2, <1>3, <1>4 DEF Next, QuietStep, CommitStep

-----------------------------------------------------------------------------
(* Snapshots.  What is saved is the state the cell had at that version. *)
LEMMA SavedState ==
  ASSUME WellFormed, Typed, NEW w \in Worker, worker[w] \in WorkerState,
         worker[w].pc = "save", worker[w].outcome = "SUCCESS", Faithful(worker[w]),
         NEW c, c = CellOf(w)
  PROVE  /\ c \in Cell
         /\ ResultOf(w).version \in Nat \ {0}
         /\ ResultOf(w).version <= Len(rows[c])
         /\ NextState(w) \in CellState
         /\ NextState(w) = Evolve(SubSeq(rows[c], 1, ResultOf(w).version))
<1>. DEFINE x == worker[w]
            q == x.loaded
            p == x.produced
            n == Len(q) + Len(p)
<1>1. x \in WorkerState /\ x.pc = "save"
  OBVIOUS
<1>2. Faithful(x) /\ x.outcome = "SUCCESS"
  OBVIOUS
<1>3. /\ c = x.req.cell /\ c \in Cell /\ rows[c] \in Seq(Event)
      /\ q \in Seq(Event) /\ p \in Seq(Event) /\ x.req \in Requests /\ x.now \in Time
  BY <1>1, RequestAssumption DEF CellOf, WorkerState, Typed
<1>4. Sound(q) /\ Answers(p, x.req, x.now, q)
  BY <1>2 DEF Faithful, HasDecided
<1>5. n \in Nat /\ n # 0 /\ n <= Len(rows[c])
  <2>1. Len(q) \in Nat /\ Len(p) \in Nat /\ Len(p) # 0
    BY <1>3, <1>4 DEF Answers
  <2>2. n <= Len(rows[c])
    BY <1>1, <1>2, <1>3 DEF Faithful, Laid
  <2>3. Len(rows[c]) \in Nat
    BY <1>3
  <2>. HIDE DEF q, p
  <2>. QED BY <2>1, <2>2, <2>3
<1>6. ResultOf(w).version = n
  BY <1>2 DEF ResultOf, ResultingVersion
<1>. DEFINE t == SubSeq(rows[c], 1, n)
<1>7. Continues(t, q, p)
  <2>1. /\ Begins(q, rows[c])
        /\ \A i \in 1 .. Len(p) : rows[c][Len(q) + i] = p[i]
    BY <1>1, <1>2, <1>3 DEF Faithful, Laid
  <2>2. t \in Seq(Event) /\ Len(t) = n /\ \A v \in 1 .. n : t[v] = rows[c][v]
    <3>1. n \in Nat /\ n <= Len(rows[c]) /\ rows[c] \in Seq(Event)
      BY <1>3, <1>5
    <3>. HIDE DEF n
    <3>. QED BY <3>1
  <2>3. /\ Len(q) \in Nat /\ Len(p) \in Nat /\ n = Len(q) + Len(p) /\ Len(q) <= n
        /\ \A v \in 1 .. Len(q) : v \in 1 .. n
        /\ \A i \in 1 .. Len(p) : Len(q) + i \in 1 .. n
    <3>1. Len(q) \in Nat /\ Len(p) \in Nat
      BY <1>3
    <3>. HIDE DEF q, p
    <3>. QED BY <3>1
  <2>. HIDE DEF t, n, q, p, x
  <2>4. Len(t) = Len(q) + Len(p)
    BY <2>2, <2>3
  <2>5. Begins(q, t)
    BY <2>1, <2>2, <2>3 DEF Begins
  <2>6. ASSUME NEW i \in 1 .. Len(p)
        PROVE  t[Len(q) + i] = p[i]
    <3>1. Len(q) + i \in 1 .. n
      BY <2>3
    <3>2. t[Len(q) + i] = rows[c][Len(q) + i]
      BY <2>2, <3>1
    <3>. QED BY <2>1, <3>2
  <2>. QED BY <2>2, <2>4, <2>5, <2>6 DEF Continues
<1>. HIDE DEF t
<1>8. Evolve(t) = Fold(Evolve(q), p) /\ Evolve(t) \in CellState
  BY <1>3, <1>4, <1>7, CommandWritten DEF Sound
<1>9. NextState(w) = Fold(Evolve(q), p)
  BY DEF NextState
<1>. QED BY <1>3, <1>5, <1>6, <1>8, <1>9 DEF t

(* Streams that grow keep the states that snapshots remember.                *)
LEMMA SnapshotsKept ==
  ASSUME Typed, Typed', SnapshotsInv, snapshot' = snapshot,
         \A c \in Cell : Begins(rows[c], rows'[c])
  PROVE  SnapshotsInv'
<1>0. \A c \in Cell : rows[c] \in Seq(Event) /\ rows'[c] \in Seq(Event)
  BY DEF Typed
<1>. SUFFICES ASSUME NEW c \in Cell, snapshot[c] # Absent
              PROVE  /\ snapshot[c].version <= Len(rows'[c])
                     /\ snapshot[c].state = Evolve(SubSeq(rows'[c], 1, snapshot[c].version))
  BY DEF SnapshotsInv, SnapshotsSound
<1>. DEFINE k == snapshot[c].version
<1>1. /\ k \in Nat /\ k <= Len(rows[c])
      /\ snapshot[c].state = Evolve(SubSeq(rows[c], 1, k))
  BY DEF SnapshotsInv, SnapshotsSound, Remembered
<1>. HIDE DEF k
<1>2. k <= Len(rows'[c])
  BY <1>0, <1>1 DEF Begins
<1>3. Evolve(SubSeq(rows'[c], 1, k)) = Evolve(SubSeq(rows[c], 1, k))
  BY <1>0, <1>1, BeginsEvolve
<1>. QED BY <1>1, <1>2, <1>3 DEF k

(* What is saved when a command has succeeded is a state its cell had.        *)
LEMMA SnapshotSaved ==
  ASSUME WellFormed, Typed, SnapshotsInv, NEW w \in Worker, worker[w] \in WorkerState,
         worker[w].pc = "save", worker[w].outcome = "SUCCESS", Faithful(worker[w]),
         rows' = rows,
         snapshot' = [snapshot EXCEPT ![CellOf(w)] =
                        [version |-> ResultOf(w).version, state |-> NextState(w)]]
  PROVE  SnapshotsInv'
<1>. DEFINE c == CellOf(w)
            saved == [version |-> ResultOf(w).version, state |-> NextState(w)]
<1>1. snapshot' = [snapshot EXCEPT ![c] = saved]
  OBVIOUS
<1>2. /\ c \in Cell /\ saved \in Remembered
      /\ saved.version <= Len(rows[c])
      /\ saved.state = Evolve(SubSeq(rows[c], 1, saved.version))
  BY SavedState DEF Remembered
<1>. HIDE DEF saved, c
<1>3. snapshot' \in [Cell -> {Absent} \cup Remembered]
  BY <1>1, <1>2 DEF SnapshotsInv
<1>4. SnapshotsSound'
  BY <1>1, <1>2 DEF SnapshotsInv, SnapshotsSound
<1>. QED BY <1>3, <1>4 DEF SnapshotsInv

(* A snapshot is a state of its cell when it is saved, and stays one.        *)
LEMMA SnapshotsStep ==
  ASSUME WellFormed, Sentinels, Typed, Locks, StreamsInv, WorkersInv, SnapshotsInv,
         [Next]_vars
  PROVE  SnapshotsInv'
<1>0. Typed' /\ \A c \in Cell : Begins(rows[c], rows'[c])
  BY LocksStep, StreamsStep
<1>1. CASE snapshot' = snapshot
  BY <1>0, <1>1, SnapshotsKept
<1>2. ASSUME NEW w \in Worker, SaveSnapshot(w), snapshot' # snapshot
      PROVE  SnapshotsInv'
  <2>1. worker[w] \in WorkerState /\ worker[w] # Idle /\ worker[w].pc = "save"
    BY <1>2, Busy DEF SaveSnapshot
  <2>2. Faithful(worker[w]) /\ worker[w].outcome = "SUCCESS"
    BY <2>1 DEF WorkersInv, Locks, Outcomes
  <2>3. /\ rows' = rows
        /\ snapshot' = [snapshot EXCEPT ![CellOf(w)] =
                          [version |-> ResultOf(w).version, state |-> NextState(w)]]
    BY <1>2 DEF SaveSnapshot, tables
  <2>. QED BY <2>1, <2>2, <2>3, SnapshotSaved
<1>3. snapshot' = snapshot \/ \E w \in Worker : SaveSnapshot(w)
  BY DEF Next, Receive, ClaimCommand, LoadCell, CheckDispute, ClaimReceipt, AppendEvents,
         Commit, CommitUnacknowledged, RollBack, Crash, OpenNegative, RecordNegative,
         LiftNegative, vars
<1>. QED BY <1>1, <1>2, <1>3

-----------------------------------------------------------------------------
(* The inductive invariant: the ledger and the locks of the first part, and  *)
(* the streams, what requests know of them, reversals and snapshots.          *)
Inv ==
  /\ Typed /\ Locks /\ AnswersInv /\ ReceiptsInv
  /\ StreamsInv /\ WorkersInv /\ GuardsInv /\ SnapshotsInv

(* The invariant holds at the start. *)
LEMMA InvInit ==
  ASSUME WellFormed, Sentinels, KernelWritten, Init
  PROVE  Inv
<1>1. Typed /\ Locks /\ AnswersInv /\ ReceiptsInv
  BY LocksInit, Beginning
<1>2. StreamsInv
  BY DEF Init, KernelWritten, StreamsInv
<1>3. WorkersInv
  BY DEF Init, WorkersInv
<1>4. GuardsInv
  BY DEF Init, GuardsInv, NoNegative, Negative
<1>5. SnapshotsInv
  BY DEF Init, SnapshotsInv, SnapshotsSound
<1>. QED BY <1>1, <1>2, <1>3, <1>4, <1>5 DEF Inv

(* Every step preserves the invariant. *)
LEMMA InvStep ==
  ASSUME WellFormed, Sentinels, Inv, [Next]_vars
  PROVE  Inv'
<1>1. Typed' /\ Locks' /\ AnswersInv' /\ ReceiptsInv'
  BY LocksStep, AnswersStep, ReceiptsStep DEF Inv
<1>2. StreamsInv' /\ WorkersInv' /\ SnapshotsInv'
  BY StreamsStep, WorkersStep, SnapshotsStep DEF Inv
<1>3. GuardsInv'
  BY GuardsStep DEF Inv
<1>. QED BY <1>1, <1>2, <1>3 DEF Inv

(* The invariant says what is stored, and more. *)
LEMMA InvStores ==
  ASSUME Inv
  PROVE  StoresSound
<1>1. TypeOK
  <2>1. /\ \A c \in Cell : rows[c] \in Seq(Event)
        /\ \A w \in Worker : worker[w] = Idle \/ worker[w] \in WorkerState
    BY DEF Inv, Typed
  <2>2. \A id \in CommandId : ledger[id] # Absent => ledger[id] \in LedgerRow
    BY DEF Inv, Typed
  <2>3. replies \subseteq LedgerRow
    BY DEF Inv, AnswersInv, Backed
  <2>4. \A c \in Cell : snapshot[c] # Absent =>
          snapshot[c].version \in Nat \ {0} /\ snapshot[c].state \in CellState
    BY DEF Inv, SnapshotsInv, Remembered
  <2>5. negative \in [Cell -> Negative]
    BY DEF Inv, GuardsInv
  <2>. QED BY <2>1, <2>2, <2>3, <2>4, <2>5 DEF TypeOK, LedgerRow, Negative
<1>2. StreamsIntact
  BY ErrorIsNoState DEF Inv, StreamsInv, Sound, StreamsIntact
<1>3. SnapshotsSound
  BY DEF Inv, SnapshotsInv
<1>. QED BY <1>1, <1>2, <1>3 DEF StoresSound

(* A settlement that commits holds the receipt that a reversal locks. *)
LEMMA BlockedStep ==
  ASSUME WellFormed, Inv, [Next]_vars
  PROVE  UnsettledWhileBlocked
<1>. SUFFICES ASSUME NEW c \in Cell, negative[c].phase = "recorded", negative[c].locked,
                     Settles(c)
              PROVE  FALSE
  BY DEF UnsettledWhileBlocked
<1>0. Typed /\ Locks /\ StreamsInv /\ WorkersInv /\ GuardsInv
  BY DEF Inv
<1>1. rows'[c] # rows[c] /\ Evolve(rows'[c]).status \in {"RELEASED", "REFUNDED"}
  BY DEF Settles
<1>2. PICK w \in Worker : CommitStep(w) /\ Decides(worker[w])
  BY <1>0, <1>1, RowsChange
<1>3. /\ worker[w].req.cell = c
      /\ worker[w].req.command.type \in FINANCIAL_SETTLEMENT_COMMANDS
  BY <1>0, <1>1, <1>2, CommitWritten
<1>4. Guarded(worker[w]) /\ Settling(worker[w])
  BY <1>0, <1>2, <1>3 DEF GuardsInv, Settling, Decides, Idle
<1>. QED BY <1>3, <1>4 DEF Guarded, Blocking

-----------------------------------------------------------------------------
(* The theorems.  What is stored stays of its type, readable by evolve, and   *)
(* remembered by snapshots as it was, whatever commands decided on the same   *)
(* version, failed statements, crashes and lost acknowledgements: the primary *)
(* key of PostgresEventStore.append and the transaction of executeOnce are    *)
(* enough, and a snapshot saved behind the commit is never ahead of it.       *)
THEOREM StoresAreSound ==
  ASSUME WellFormed, Sentinels, KernelWritten
  PROVE  Spec => []StoresSound
<1>1. Init => Inv
  BY InvInit
<1>2. Inv /\ [Next]_vars => Inv'
  BY InvStep
<1>3. Inv => StoresSound
  BY InvStores
<1>. QED BY <1>1, <1>2, <1>3, PTL DEF Spec

(* No settlement commits past a recorded reversal that locked the receipt,    *)
(* even one that looked before the reversal arrived: hasBlockingDispute and   *)
(* appendNegativeObservation are ordered by the receipt row they lock.        *)
THEOREM BlockedFundsStay ==
  ASSUME WellFormed, Sentinels, KernelWritten
  PROVE  Spec => BlockedStaysUnsettled
<1>1. Init => Inv
  BY InvInit
<1>2. Inv /\ [Next]_vars => Inv'
  BY InvStep
<1>3. Inv /\ [Next]_vars => [UnsettledWhileBlocked]_vars
  BY BlockedStep
<1>. QED BY <1>1, <1>2, <1>3, PTL DEF Spec, BlockedStaysUnsettled

-----------------------------------------------------------------------------
(* The serial kernel.  A stream continued by one event, or by two. *)
LEMMA ContinuedOne ==
  ASSUME NEW q \in Seq(Event), NEW e \in Event, NEW t, Continues(t, q, <<e>>)
  PROVE  t = Append(q, e)
<1>. DEFINE p == <<e>>
            m == Append(q, e)
<1>1. Len(p) = 1 /\ p[1] = e /\ 1 \in 1 .. Len(p)
  OBVIOUS
<1>2. /\ m \in Seq(Event) /\ Len(m) = Len(q) + 1 /\ m[Len(q) + 1] = e
      /\ \A v \in 1 .. Len(q) : m[v] = q[v]
  OBVIOUS
<1>3. Continues(t, q, p)
  OBVIOUS
<1>. HIDE DEF p, m
<1>4. t \in Seq(Event) /\ Len(t) = Len(q) + 1
  BY <1>1, <1>3 DEF Continues
<1>5. \A v \in 1 .. Len(q) : t[v] = q[v]
  BY <1>3 DEF Continues, Begins
<1>6. \A i \in 1 .. Len(p) : t[Len(q) + i] = p[i]
  BY <1>3 DEF Continues
<1>7. t[Len(q) + 1] = e
  BY <1>1, <1>6
<1>8. \A v \in 1 .. Len(q) + 1 : v \in 1 .. Len(q) \/ v = Len(q) + 1
  OBVIOUS
<1>9. \A v \in 1 .. Len(t) : t[v] = m[v]
  BY <1>2, <1>4, <1>5, <1>7, <1>8
<1>. QED BY <1>2, <1>4, <1>9 DEF m

(* The same for the two events of an award. *)
LEMMA ContinuedTwo ==
  ASSUME NEW q \in Seq(Event), NEW e \in Event, NEW f \in Event,
         NEW t, Continues(t, q, <<e, f>>)
  PROVE  t = Append(Append(q, e), f)
<1>. DEFINE p == <<e, f>>
            a == Append(q, e)
            m == Append(a, f)
<1>1. Len(p) = 2 /\ p[1] = e /\ p[2] = f /\ 1 \in 1 .. Len(p) /\ 2 \in 1 .. Len(p)
  OBVIOUS
<1>2. /\ m \in Seq(Event) /\ Len(m) = Len(q) + 2 /\ Len(q) \in Nat
      /\ m[Len(q) + 1] = e /\ m[Len(q) + 2] = f
      /\ \A v \in 1 .. Len(q) : m[v] = q[v]
  <2>1. /\ a \in Seq(Event) /\ Len(a) = Len(q) + 1 /\ a[Len(q) + 1] = e
        /\ \A v \in 1 .. Len(q) : a[v] = q[v]
    OBVIOUS
  <2>2. Len(q) \in Nat
    OBVIOUS
  <2>. HIDE DEF a
  <2>3. /\ m \in Seq(Event) /\ Len(m) = Len(a) + 1 /\ m[Len(a) + 1] = f
        /\ \A v \in 1 .. Len(a) : m[v] = a[v]
    BY <2>1
  <2>. HIDE DEF m
  <2>4. /\ Len(a) + 1 = Len(q) + 2 /\ Len(q) + 1 \in 1 .. Len(a)
        /\ \A v \in 1 .. Len(q) : v \in 1 .. Len(a)
    BY <2>1, <2>2
  <2>. QED BY <2>1, <2>2, <2>3, <2>4
<1>3. Continues(t, q, p)
  OBVIOUS
<1>. HIDE DEF p, m, a
<1>4. t \in Seq(Event) /\ Len(t) = Len(q) + 2
  BY <1>1, <1>3 DEF Continues
<1>5. \A v \in 1 .. Len(q) : t[v] = q[v]
  BY <1>3 DEF Continues, Begins
<1>6. \A i \in 1 .. Len(p) : t[Len(q) + i] = p[i]
  BY <1>3 DEF Continues
<1>7. t[Len(q) + 1] = e /\ t[Len(q) + 2] = f
  BY <1>1, <1>6
<1>8. \A v \in 1 .. Len(q) + 2 : v \in 1 .. Len(q) \/ v = Len(q) + 1 \/ v = Len(q) + 2
  BY <1>2
<1>9. \A v \in 1 .. Len(t) : t[v] = m[v]
  BY <1>2, <1>4, <1>5, <1>7, <1>8
<1>. QED BY <1>2, <1>4, <1>9 DEF m, a

(* A commit that continues the stream by a command its state accepts is that  *)
(* command's action of Escrow.                                               *)
LEMMA SerialStep ==
  ASSUME WellFormed, NEW c \in Cell, NEW r \in Requests, NEW now \in Time,
         rows[c] \in Seq(Event),
         IsOpen(Evolve(rows[c])), Accepts(Evolve(rows[c]), r.command, now),
         NEW p, p = Emissions(r.command, now), Continues(rows'[c], rows[c], p),
         Evolve(rows'[c]) = Fold(Evolve(rows[c]), p)
  PROVE  Serial(c)!Next
<1>. DEFINE k == r.command
<1>0. k.type \in CommandType
  BY DEF WellFormed
<1>appended. ASSUME NEW e \in Event, p = <<e>>
             PROVE  /\ rows'[c] = Append(rows[c], e)
                    /\ Evolve(rows'[c]) = EventFolder(Evolve(rows[c]), e)
  <2>1. rows'[c] = Append(rows[c], e)
    BY <1>appended, ContinuedOne
  <2>2. Len(p) = 1 /\ p[1] = e
    BY <1>appended
  <2>. QED BY <2>1, <2>2, FoldOne
<1>1. CASE k.type = "AcceptCell"
  <2>. DEFINE e == SimpleEvent("CellAccepted", k.by, now)
  <2>1. k.by \in Actor /\ e \in Event
    BY <1>1 DEF WellFormed, SimpleEvent, Event, SimpleEventType
  <2>2. p = <<e>>
    BY <1>1 DEF Emissions, SimpleEmission
  <2>3. CanAcceptCell(Evolve(rows[c]), k.by, now)
    BY <1>1 DEF Accepts
  <2>4. /\ rows'[c] = Append(rows[c], e)
        /\ Evolve(rows'[c]) = EventFolder(Evolve(rows[c]), e)
    BY <1>appended, <2>1, <2>2
  <2>5. Serial(c)!AcceptCell(k.by, now)
    BY <2>3, <2>4 DEF Serial!AcceptCell, Serial!CanAcceptCell, CanAcceptCell, Serial!SimpleEvent, SimpleEvent,
      Serial!Emit, Serial!EventFolder, EventFolder, Serial!IsOpen, IsOpen, Serial!TERMINAL_STATUSES, TERMINAL_STATUSES, Serial!StatusAfter, StatusAfter, Serial!AcceptanceAfter, AcceptanceAfter, Serial!CreatedState, CreatedState, Serial!Never, Never
  <2>. QED BY <2>1, <2>5 DEF Serial!Next
<1>2. CASE k.type = "RejectCell"
  <2>. DEFINE e == SimpleEvent("CellRejected", k.by, now)
  <2>1. k.by \in Actor /\ e \in Event
    BY <1>2 DEF WellFormed, SimpleEvent, Event, SimpleEventType
  <2>2. p = <<e>>
    BY <1>2 DEF Emissions, SimpleEmission
  <2>3. CanRejectCell(Evolve(rows[c]), k.by)
    BY <1>2 DEF Accepts
  <2>4. /\ rows'[c] = Append(rows[c], e)
        /\ Evolve(rows'[c]) = EventFolder(Evolve(rows[c]), e)
    BY <1>appended, <2>1, <2>2
  <2>5. Serial(c)!RejectCell(k.by, now)
    BY <2>3, <2>4 DEF Serial!RejectCell, Serial!CanRejectCell, CanRejectCell, Serial!SimpleEvent, SimpleEvent,
      Serial!Emit, Serial!EventFolder, EventFolder, Serial!IsOpen, IsOpen, Serial!TERMINAL_STATUSES, TERMINAL_STATUSES, Serial!StatusAfter, StatusAfter, Serial!AcceptanceAfter, AcceptanceAfter, Serial!CreatedState, CreatedState, Serial!Never, Never
  <2>. QED BY <2>1, <2>5 DEF Serial!Next
<1>3. CASE k.type = "RequestRelease"
  <2>. DEFINE e == SimpleEvent("ReleaseRequested", k.by, now)
  <2>1. k.by \in Actor /\ e \in Event
    BY <1>3 DEF WellFormed, SimpleEvent, Event, SimpleEventType
  <2>2. p = <<e>>
    BY <1>3 DEF Emissions, SimpleEmission
  <2>3. CanRequestRelease(Evolve(rows[c]), k.by)
    BY <1>3 DEF Accepts
  <2>4. /\ rows'[c] = Append(rows[c], e)
        /\ Evolve(rows'[c]) = EventFolder(Evolve(rows[c]), e)
    BY <1>appended, <2>1, <2>2
  <2>5. Serial(c)!RequestRelease(k.by, now)
    BY <2>3, <2>4 DEF Serial!RequestRelease, Serial!CanRequestRelease, CanRequestRelease, Serial!SimpleEvent, SimpleEvent,
      Serial!Emit, Serial!EventFolder, EventFolder, Serial!IsOpen, IsOpen, Serial!TERMINAL_STATUSES, TERMINAL_STATUSES, Serial!StatusAfter, StatusAfter, Serial!AcceptanceAfter, AcceptanceAfter, Serial!CreatedState, CreatedState, Serial!Never, Never
  <2>. QED BY <2>1, <2>5 DEF Serial!Next
<1>4. CASE k.type = "ApproveRelease"
  <2>. DEFINE e == SimpleEvent("Released", k.by, now)
  <2>1. k.by \in Actor /\ e \in Event
    BY <1>4 DEF WellFormed, SimpleEvent, Event, SimpleEventType
  <2>2. p = <<e>>
    BY <1>4 DEF Emissions, SimpleEmission
  <2>3. CanApproveRelease(Evolve(rows[c]), k.by)
    BY <1>4 DEF Accepts
  <2>4. /\ rows'[c] = Append(rows[c], e)
        /\ Evolve(rows'[c]) = EventFolder(Evolve(rows[c]), e)
    BY <1>appended, <2>1, <2>2
  <2>5. Serial(c)!ApproveRelease(k.by, now)
    BY <2>3, <2>4 DEF Serial!ApproveRelease, Serial!CanApproveRelease, CanApproveRelease, Serial!SimpleEvent, SimpleEvent,
      Serial!Emit, Serial!EventFolder, EventFolder, Serial!IsOpen, IsOpen, Serial!TERMINAL_STATUSES, TERMINAL_STATUSES, Serial!StatusAfter, StatusAfter, Serial!AcceptanceAfter, AcceptanceAfter, Serial!CreatedState, CreatedState, Serial!Never, Never
  <2>. QED BY <2>1, <2>5 DEF Serial!Next
<1>5. CASE k.type = "RequestRefund"
  <2>. DEFINE e == SimpleEvent("RefundRequested", k.by, now)
  <2>1. k.by \in Actor /\ e \in Event
    BY <1>5 DEF WellFormed, SimpleEvent, Event, SimpleEventType
  <2>2. p = <<e>>
    BY <1>5 DEF Emissions, SimpleEmission
  <2>3. CanRequestRefund(Evolve(rows[c]), k.by)
    BY <1>5 DEF Accepts
  <2>4. /\ rows'[c] = Append(rows[c], e)
        /\ Evolve(rows'[c]) = EventFolder(Evolve(rows[c]), e)
    BY <1>appended, <2>1, <2>2
  <2>5. Serial(c)!RequestRefund(k.by, now)
    BY <2>3, <2>4 DEF Serial!RequestRefund, Serial!CanRequestRefund, CanRequestRefund, Serial!SimpleEvent, SimpleEvent,
      Serial!Emit, Serial!EventFolder, EventFolder, Serial!IsOpen, IsOpen, Serial!TERMINAL_STATUSES, TERMINAL_STATUSES, Serial!StatusAfter, StatusAfter, Serial!AcceptanceAfter, AcceptanceAfter, Serial!CreatedState, CreatedState, Serial!Never, Never
  <2>. QED BY <2>1, <2>5 DEF Serial!Next
<1>6. CASE k.type = "ApproveRefund"
  <2>. DEFINE e == SimpleEvent("Refunded", k.by, now)
  <2>1. k.by \in Actor /\ e \in Event
    BY <1>6 DEF WellFormed, SimpleEvent, Event, SimpleEventType
  <2>2. p = <<e>>
    BY <1>6 DEF Emissions, SimpleEmission
  <2>3. CanApproveRefund(Evolve(rows[c]), k.by)
    BY <1>6 DEF Accepts
  <2>4. /\ rows'[c] = Append(rows[c], e)
        /\ Evolve(rows'[c]) = EventFolder(Evolve(rows[c]), e)
    BY <1>appended, <2>1, <2>2
  <2>5. Serial(c)!ApproveRefund(k.by, now)
    BY <2>3, <2>4 DEF Serial!ApproveRefund, Serial!CanApproveRefund, CanApproveRefund, Serial!SimpleEvent, SimpleEvent,
      Serial!Emit, Serial!EventFolder, EventFolder, Serial!IsOpen, IsOpen, Serial!TERMINAL_STATUSES, TERMINAL_STATUSES, Serial!StatusAfter, StatusAfter, Serial!AcceptanceAfter, AcceptanceAfter, Serial!CreatedState, CreatedState, Serial!Never, Never
  <2>. QED BY <2>1, <2>5 DEF Serial!Next
<1>7. CASE k.type = "ForceRefund"
  <2>. DEFINE e == SimpleEvent("Refunded", k.by, now)
  <2>1. k.by \in Actor /\ e \in Event
    BY <1>7 DEF WellFormed, SimpleEvent, Event, SimpleEventType
  <2>2. p = <<e>>
    BY <1>7 DEF Emissions, SimpleEmission
  <2>3. CanForceRefund(Evolve(rows[c]), k.by, now)
    BY <1>7 DEF Accepts
  <2>4. /\ rows'[c] = Append(rows[c], e)
        /\ Evolve(rows'[c]) = EventFolder(Evolve(rows[c]), e)
    BY <1>appended, <2>1, <2>2
  <2>5. Serial(c)!ForceRefund(k.by, now)
    BY <2>3, <2>4 DEF Serial!ForceRefund, Serial!CanForceRefund, CanForceRefund, Serial!SimpleEvent, SimpleEvent,
      Serial!Emit, Serial!EventFolder, EventFolder, Serial!IsOpen, IsOpen, Serial!TERMINAL_STATUSES, TERMINAL_STATUSES, Serial!StatusAfter, StatusAfter, Serial!AcceptanceAfter, AcceptanceAfter, Serial!CreatedState, CreatedState, Serial!Never, Never
  <2>. QED BY <2>1, <2>5 DEF Serial!Next
<1>8. CASE k.type = "ExpireCell"
  <2>. DEFINE e == SimpleEvent("CellExpired", k.by, now)
  <2>1. k.by \in Actor /\ e \in Event
    BY <1>8 DEF WellFormed, SimpleEvent, Event, SimpleEventType
  <2>2. p = <<e>>
    BY <1>8 DEF Emissions, SimpleEmission
  <2>3. CanExpireCell(Evolve(rows[c]), now)
    BY <1>8 DEF Accepts
  <2>4. /\ rows'[c] = Append(rows[c], e)
        /\ Evolve(rows'[c]) = EventFolder(Evolve(rows[c]), e)
    BY <1>appended, <2>1, <2>2
  <2>5. Serial(c)!ExpireCell(k.by, now)
    BY <2>3, <2>4 DEF Serial!ExpireCell, Serial!CanExpireCell, CanExpireCell, Serial!SimpleEvent, SimpleEvent,
      Serial!Emit, Serial!EventFolder, EventFolder, Serial!IsOpen, IsOpen, Serial!TERMINAL_STATUSES, TERMINAL_STATUSES, Serial!StatusAfter, StatusAfter, Serial!AcceptanceAfter, AcceptanceAfter, Serial!CreatedState, CreatedState, Serial!Never, Never
  <2>. QED BY <2>1, <2>5 DEF Serial!Next
<1>9. CASE k.type = "OpenDispute"
  <2>. DEFINE e == SimpleEvent("DisputeOpened", k.by, now)
  <2>1. k.by \in Actor /\ e \in Event
    BY <1>9 DEF WellFormed, SimpleEvent, Event, SimpleEventType
  <2>2. p = <<e>>
    BY <1>9 DEF Emissions, SimpleEmission
  <2>3. CanOpenDispute(Evolve(rows[c]), k.by, now)
    BY <1>9 DEF Accepts
  <2>4. /\ rows'[c] = Append(rows[c], e)
        /\ Evolve(rows'[c]) = EventFolder(Evolve(rows[c]), e)
    BY <1>appended, <2>1, <2>2
  <2>5. Serial(c)!OpenDispute(k.by, now)
    BY <2>3, <2>4 DEF Serial!OpenDispute, Serial!CanOpenDispute, CanOpenDispute, Serial!SimpleEvent, SimpleEvent,
      Serial!Emit, Serial!EventFolder, EventFolder, Serial!IsOpen, IsOpen, Serial!TERMINAL_STATUSES, TERMINAL_STATUSES, Serial!StatusAfter, StatusAfter, Serial!AcceptanceAfter, AcceptanceAfter, Serial!CreatedState, CreatedState, Serial!Never, Never
  <2>. QED BY <2>1, <2>5 DEF Serial!Next
<1>10. CASE k.type = "CreateCell"
  <2>. DEFINE e == CellCreated(k.terms, TRUE, now)
  <2>1. k.terms \in TermsType /\ k.terms \in OfferedTerms
    BY <1>10 DEF WellFormed, OfferedTerms
  <2>2. e \in Event
    BY <2>1 DEF CellCreated, Event, TermsType
  <2>3. p = <<e>>
    BY <1>10 DEF Emissions
  <2>4. CanCreateCell(Evolve(rows[c]), k.terms, TRUE)
    BY <1>10 DEF Accepts, CanCreateCell
  <2>5. /\ rows'[c] = Append(rows[c], e)
        /\ Evolve(rows'[c]) = EventFolder(Evolve(rows[c]), e)
    BY <1>appended, <2>2, <2>3
  <2>6. Serial(c)!CreateCell(k.terms, TRUE, now)
    BY <2>4, <2>5 DEF Serial!CreateCell, Serial!CanCreateCell, CanCreateCell,
      Serial!CellCreated, CellCreated, Serial!Emit, Serial!EventFolder, EventFolder, Serial!IsOpen, IsOpen, Serial!TERMINAL_STATUSES, TERMINAL_STATUSES, Serial!StatusAfter, StatusAfter, Serial!AcceptanceAfter, AcceptanceAfter, Serial!CreatedState, CreatedState, Serial!Never, Never
  <2>. QED BY <2>1, <2>6 DEF Serial!Next
<1>11. CASE k.type = "FundCell"
  <2>. DEFINE e == CellFunded(k.by, k.amount, now)
  <2>1. k.by \in Actor /\ k.amount \in Amount /\ e \in Event
    BY <1>11 DEF WellFormed, CellFunded, Event
  <2>2. p = <<e>>
    BY <1>11 DEF Emissions
  <2>3. CanFundCell(Evolve(rows[c]), k.by, k.amount, now)
    BY <1>11 DEF Accepts
  <2>4. /\ rows'[c] = Append(rows[c], e)
        /\ Evolve(rows'[c]) = EventFolder(Evolve(rows[c]), e)
    BY <1>appended, <2>1, <2>2
  <2>5. Serial(c)!FundCell(k.by, k.amount, now)
    BY <2>3, <2>4 DEF Serial!FundCell, Serial!CanFundCell, CanFundCell,
      Serial!CellFunded, CellFunded, Serial!Emit, Serial!EventFolder, EventFolder, Serial!IsOpen, IsOpen, Serial!TERMINAL_STATUSES, TERMINAL_STATUSES, Serial!StatusAfter, StatusAfter, Serial!AcceptanceAfter, AcceptanceAfter, Serial!CreatedState, CreatedState, Serial!Never, Never
  <2>. QED BY <2>1, <2>5 DEF Serial!Next
<1>12. CASE k.type = "ResolveDispute"
  <2>. DEFINE e == DisputeResolved(k.by, k.favourOf, now)
              f == SimpleEvent(Settlement(k.favourOf), k.by, now)
  <2>1. k.by \in Actor /\ k.favourOf \in {"payer", "payee"} /\ e \in Event /\ f \in Event
    BY <1>12 DEF WellFormed, DisputeResolved, SimpleEvent, Settlement, Event, SimpleEventType
  <2>2. p = <<e, f>>
    BY <1>12 DEF Emissions
  <2>3. CanResolveDispute(Evolve(rows[c]), k.by)
    BY <1>12 DEF Accepts
  <2>4. rows'[c] = Append(Append(rows[c], e), f)
    BY <2>1, <2>2, ContinuedTwo
  <2>5. Evolve(rows'[c]) = EventFolder(EventFolder(Evolve(rows[c]), e), f)
    <3>1. Len(p) = 2 /\ p[1] = e /\ p[2] = f
      BY <2>2
    <3>. QED BY <3>1, FoldTwo
  <2>6. Serial(c)!ResolveDispute(k.by, k.favourOf, now)
    BY <2>3, <2>4, <2>5 DEF Serial!ResolveDispute, Serial!CanResolveDispute, CanResolveDispute,
      Serial!DisputeResolved, DisputeResolved, Serial!SimpleEvent, SimpleEvent,
      Serial!Settlement, Settlement, Serial!Emit, Serial!EventFolder, EventFolder, Serial!IsOpen, IsOpen, Serial!TERMINAL_STATUSES, TERMINAL_STATUSES, Serial!StatusAfter, StatusAfter, Serial!AcceptanceAfter, AcceptanceAfter, Serial!CreatedState, CreatedState, Serial!Never, Never
  <2>. QED BY <2>1, <2>6 DEF Serial!Next
<1>. QED
  BY <1>0, <1>1, <1>2, <1>3, <1>4, <1>5, <1>6, <1>7, <1>8, <1>9, <1>10, <1>11, <1>12
  DEF CommandType, SimpleEmission

(* Every commit is one handler of the serial kernel on the current state. *)
LEMMA CommitSerial ==
  ASSUME WellFormed, Inv, [Next]_vars
  PROVE  StepsLikeEscrow
<1>. SUFFICES ASSUME NEW c \in Cell, rows'[c] # rows[c]
              PROVE  Serial(c)!Next
  BY DEF StepsLikeEscrow
<1>0. Typed /\ Locks /\ StreamsInv /\ WorkersInv
  BY DEF Inv
<1>1. PICK w \in Worker : CommitStep(w) /\ Decides(worker[w])
  BY <1>0, RowsChange
<1>. DEFINE x == worker[w]
<1>2. /\ x.req.cell = c /\ x \in WorkerState /\ rows[c] \in Seq(Event)
      /\ Answers(x.produced, x.req, x.now, rows[c])
      /\ Continues(rows'[c], rows[c], x.produced)
      /\ Evolve(rows'[c]) = Fold(Evolve(rows[c]), x.produced)
  BY <1>0, <1>1, CommitWritten
<1>3. x.req \in Requests /\ x.now \in Time
  BY <1>2 DEF WorkerState
<1>. HIDE DEF x
<1>4. /\ IsOpen(Evolve(rows[c])) /\ Accepts(Evolve(rows[c]), x.req.command, x.now)
      /\ x.produced = Emissions(x.req.command, x.now)
  BY <1>2, CommandAccepted DEF Answers
<1>. QED BY <1>2, <1>3, <1>4, SerialStep

(* Each cell implements the serial kernel: whatever was loaded, waited for    *)
(* and retried by handleCommand, a commit is one command handler applied to   *)
(* the state the cell then has, as if commands came one at a time.            *)
THEOREM CommitsAreSerial ==
  ASSUME WellFormed, Sentinels, KernelWritten
  PROVE  Spec => CommitsLikeKernel
<1>1. Init => Inv
  BY InvInit
<1>2. Inv /\ [Next]_vars => Inv'
  BY InvStep
<1>3. Inv /\ [Next]_vars => [StepsLikeEscrow]_vars
  BY CommitSerial
<1>. QED BY <1>1, <1>2, <1>3, PTL DEF Spec, CommitsLikeKernel

-----------------------------------------------------------------------------
(* Commands in memory (InMemoryExecution).  A request x in flight: its       *)
(* outcome, and what it knows of the stores.  Its events are in the stream   *)
(* before the record of its id says so, its receipt before its events.       *)
MemoryOutcomes(x) ==
  /\ x.pc # "abort"
  /\ x.pc \in {"begin", "load", "check", "claim", "append"} => x.outcome = "PERSISTENCE_FAILURE"
  /\ x.pc = "commit" => x.outcome \in {"SUCCESS", "PERSISTENCE_FAILURE"} \cup Rejected
  /\ x.pc = "save" => x.outcome = "SUCCESS"
  /\ x.pc = "claim" => x.req.command.type = "FundCell"
  /\ HasDecided(x) => Wrote(x)
MemoryKnows(x) ==
  /\ Open(x) => ledger[x.req.id] = Absent
  /\ x.pc = "save" => ledger[x.req.id] = LedgerRowOf(x)
  /\ x.pc = "append" /\ x.req.command.type = "FundCell" => receipt[x.req.cell] = ReceiptOf(x)
  /\ Decides(x) => Laid(x)
WellKnown(w) ==
  worker[w] # Idle =>
    MemoryOutcomes(worker[w]) /\ MemoryKnows(worker[w]) /\ Faithful(worker[w])
MemoryRequests == \A w \in Worker : WellKnown(w)

(* The chain q of an id holds its requests until they have a result, each    *)
(* once, and only its head has begun; y are the requests in flight.          *)
Waits(x, id) == x # Idle /\ x.pc # "save" /\ x.req.id = id
Chained(id, q, y) ==
  /\ \A i \in 1 .. Len(q) : Waits(y[q[i]], id) /\ (i # 1 => y[q[i]].pc = "begin")
  /\ \A i, j \in 1 .. Len(q) : q[i] = q[j] => i = j
  /\ \A w \in Worker : Waits(y[w], id) => \E i \in 1 .. Len(q) : q[i] = w
Queued ==
  /\ tails \in [CommandId -> Seq(Worker)]
  /\ \A id \in CommandId : Chained(id, tails[id], worker)

(* One request, that of w, becomes x.                                        *)
Becomes(y, w, x, z) == \A v \in Worker : z[v] = IF v = w THEN x ELSE y[v]

(* It is its turn, and it goes on.                                           *)
LEMMA ChainStays ==
  ASSUME NEW id, NEW q \in Seq(Worker), NEW y, NEW z, NEW w \in Worker, NEW x,
         Chained(id, q, y), Becomes(y, w, x, z), q[1] = w, 1 \in 1 .. Len(q), Waits(x, id)
  PROVE  Chained(id, q, z)
<1>1. \A i \in 1 .. Len(q) : q[i] \in Worker /\ (q[i] = w => i = 1)
  BY DEF Chained
<1>2. \A i \in 1 .. Len(q) : Waits(z[q[i]], id) /\ (i # 1 => z[q[i]].pc = "begin")
  BY <1>1 DEF Chained, Becomes
<1>3. \A v \in Worker : Waits(z[v], id) => \E i \in 1 .. Len(q) : q[i] = v
  BY DEF Chained, Becomes
<1>. QED BY <1>2, <1>3 DEF Chained

(* It was its turn, and it has its result.                                   *)
LEMMA ChainMovesUp ==
  ASSUME NEW id, NEW q \in Seq(Worker), NEW y, NEW z, NEW w \in Worker, NEW x,
         Chained(id, q, y), Becomes(y, w, x, z), q[1] = w, 1 \in 1 .. Len(q), ~Waits(x, id)
  PROVE  Chained(id, Tail(q), z)
<1>. DEFINE r == Tail(q)
            n == Len(q)
<1>1. /\ n \in Nat /\ Len(r) = n - 1
      /\ \A i \in 1 .. n - 1 : i + 1 \in 1 .. n /\ i + 1 # 1 /\ r[i] = q[i + 1]
  BY DEF r
<1>. HIDE DEF r
<1>2. \A i \in 1 .. n : q[i] \in Worker /\ (i # 1 => q[i] # w)
  BY DEF Chained
<1>. HIDE DEF n
<1>3. ASSUME NEW i \in 1 .. Len(r)
      PROVE  Waits(z[r[i]], id) /\ z[r[i]].pc = "begin"
  <2>1. i + 1 \in 1 .. n /\ i + 1 # 1 /\ r[i] = q[i + 1]
    BY <1>1
  <2>2. q[i + 1] \in Worker /\ q[i + 1] # w
    BY <1>2, <2>1
  <2>3. Waits(y[q[i + 1]], id) /\ y[q[i + 1]].pc = "begin"
    BY <2>1 DEF Chained, n
  <2>. QED BY <2>1, <2>2, <2>3 DEF Becomes
<1>4. ASSUME NEW i \in 1 .. Len(r), NEW j \in 1 .. Len(r), r[i] = r[j]
      PROVE  i = j
  <2>1. i + 1 \in 1 .. n /\ j + 1 \in 1 .. n /\ q[i + 1] = q[j + 1]
    BY <1>1, <1>4
  <2>2. i + 1 = j + 1
    BY <2>1 DEF Chained, n
  <2>. QED BY <2>2
<1>5. ASSUME NEW v \in Worker, Waits(z[v], id)
      PROVE  \E i \in 1 .. Len(r) : r[i] = v
  <2>1. v # w /\ Waits(y[v], id)
    BY <1>5 DEF Becomes
  <2>2. PICK j \in 1 .. n : q[j] = v
    BY <2>1 DEF Chained, n
  <2>3. j # 1 /\ j - 1 \in 1 .. n - 1 /\ (j - 1) + 1 = j
    BY <1>1, <2>1, <2>2
  <2>4. r[j - 1] = v /\ j - 1 \in 1 .. Len(r)
    BY <1>1, <2>2, <2>3
  <2>. QED BY <2>4
<1>6. Chained(id, r, z)
  BY <1>3, <1>4, <1>5 DEF Chained
<1>. QED BY <1>6 DEF r

(* It joins.                                                                 *)
LEMMA ChainJoined ==
  ASSUME NEW id, NEW q \in Seq(Worker), NEW y, NEW z, NEW w \in Worker, NEW x,
         Chained(id, q, y), Becomes(y, w, x, z), ~Waits(y[w], id), Waits(x, id), x.pc = "begin"
  PROVE  Chained(id, Append(q, w), z)
<1>. DEFINE r == Append(q, w)
            n == Len(q)
<1>1. /\ n \in Nat /\ Len(r) = n + 1 /\ r[n + 1] = w
      /\ \A i \in 1 .. n : r[i] = q[i]
  BY DEF r
<1>. HIDE DEF r
<1>2. \A i \in 1 .. n : q[i] \in Worker /\ q[i] # w
  BY DEF Chained
<1>. HIDE DEF n
<1>3. \A i \in 1 .. n + 1 : i \in 1 .. n \/ i = n + 1
  BY <1>1
<1>4. n + 1 \in 1 .. n + 1 /\ \A i \in 1 .. n : i \in 1 .. n + 1
  BY <1>1
<1>5. ASSUME NEW i \in 1 .. Len(r)
      PROVE  Waits(z[r[i]], id) /\ (i # 1 => z[r[i]].pc = "begin")
  <2>1. CASE i = n + 1
    BY <1>1, <2>1 DEF Becomes
  <2>2. CASE i \in 1 .. n
    <3>1. r[i] = q[i] /\ q[i] \in Worker /\ q[i] # w
      BY <1>1, <1>2, <2>2
    <3>2. Waits(y[q[i]], id) /\ (i # 1 => y[q[i]].pc = "begin")
      BY <2>2 DEF Chained, n
    <3>. QED BY <3>1, <3>2 DEF Becomes
  <2>. QED BY <1>1, <1>3, <2>1, <2>2
<1>6. ASSUME NEW i \in 1 .. Len(r), NEW j \in 1 .. Len(r), r[i] = r[j]
      PROVE  i = j
  <2>1. i \in 1 .. n /\ j \in 1 .. n => q[i] = q[j]
    BY <1>1, <1>6
  <2>2. i \in 1 .. n /\ j \in 1 .. n => i = j
    BY <2>1 DEF Chained, n
  <2>. QED BY <1>1, <1>2, <1>3, <1>6, <2>2
<1>7. ASSUME NEW v \in Worker, Waits(z[v], id)
      PROVE  \E i \in 1 .. Len(r) : r[i] = v
  <2>1. CASE v = w
    BY <1>1, <1>4, <2>1
  <2>2. CASE v # w
    <3>1. Waits(y[v], id)
      BY <1>7, <2>2 DEF Becomes
    <3>2. PICK j \in 1 .. n : q[j] = v
      BY <3>1 DEF Chained, n
    <3>. QED BY <1>1, <1>4, <3>2
  <2>. QED BY <2>1, <2>2
<1>8. Chained(id, r, z)
  BY <1>5, <1>6, <1>7 DEF Chained
<1>. QED BY <1>8 DEF r

(* It is none of this id, or has left.                                       *)
LEMMA ChainKept ==
  ASSUME NEW id, NEW q \in Seq(Worker), NEW y, NEW z, NEW w \in Worker, NEW x,
         Chained(id, q, y), Becomes(y, w, x, z), ~Waits(y[w], id), ~Waits(x, id)
  PROVE  Chained(id, q, z)
<1>1. \A i \in 1 .. Len(q) : q[i] \in Worker /\ q[i] # w
  BY DEF Chained
<1>2. \A i \in 1 .. Len(q) : Waits(z[q[i]], id) /\ (i # 1 => z[q[i]].pc = "begin")
  BY <1>1 DEF Chained, Becomes
<1>3. \A v \in Worker : Waits(z[v], id) => \E i \in 1 .. Len(q) : q[i] = v
  BY DEF Chained, Becomes
<1>. QED BY <1>2, <1>3 DEF Chained

-----------------------------------------------------------------------------
(* The chains as the steps leave them.                                       *)
LEMMA Waiting ==
  ASSUME Typed, Queued, NEW w \in Worker, worker[w] # Idle, worker[w].pc # "save"
  PROVE  /\ worker[w] \in WorkerState /\ IdOf(w) \in CommandId /\ Waits(worker[w], IdOf(w))
         /\ tails[IdOf(w)] \in Seq(Worker) /\ 1 \in 1 .. Len(tails[IdOf(w)])
         /\ Head(tails[IdOf(w)]) = tails[IdOf(w)][1]
         /\ Open(worker[w]) => Turn(w)
<1>. DEFINE q == tails[IdOf(w)]
<1>1. worker[w] \in WorkerState
  BY DEF Typed
<1>2. IdOf(w) \in CommandId /\ Waits(worker[w], IdOf(w))
  BY <1>1, RequestAssumption DEF WorkerState, IdOf, Waits
<1>3. q \in Seq(Worker) /\ Chained(IdOf(w), q, worker)
  BY <1>2 DEF Queued
<1>4. PICK i \in 1 .. Len(q) : q[i] = w
  BY <1>2, <1>3 DEF Chained
<1>5. 1 \in 1 .. Len(q) /\ Head(q) = q[1]
  BY <1>3, <1>4
<1>6. ASSUME Open(worker[w]) PROVE Turn(w)
  <2>1. i = 1
    BY <1>3, <1>4, <1>6 DEF Chained, Open
  <2>. QED BY <1>4, <1>5, <2>1 DEF Turn
<1>. QED BY <1>1, <1>2, <1>3, <1>5, <1>6

(* One request of an id is past its beginning.                               *)
LEMMA OneOpen ==
  ASSUME Typed, Queued, NEW v \in Worker, NEW w \in Worker, v # w,
         worker[w] # Idle, worker[w].pc # "save", Turn(w), Open(worker[v])
  PROVE  worker[v].req.id # worker[w].req.id
<1>1. worker[v] # Idle /\ worker[v].pc # "save"
  BY DEF Open, Idle
<1>2. Turn(v)
  BY <1>1, Waiting
<1>. QED BY <1>2 DEF Turn, IdOf

LEMMA QueueStays ==
  ASSUME Typed, Queued, NEW w \in Worker, worker[w] # Idle, worker[w].pc # "save", Turn(w),
         NEW x, x # Idle, x.pc # "save", x.req = worker[w].req,
         worker' = [worker EXCEPT ![w] = x], tails' = tails
  PROVE  Queued'
<1>1. Becomes(worker, w, x, worker')
  BY DEF Typed, Becomes
<1>2. ASSUME NEW id \in CommandId
      PROVE  Chained(id, tails[id], worker')
  <2>1. tails[id] \in Seq(Worker) /\ Chained(id, tails[id], worker)
    BY DEF Queued
  <2>2. CASE id = IdOf(w)
    <3>1. Waits(x, id) /\ tails[id][1] = w /\ 1 \in 1 .. Len(tails[id])
      BY <2>2, Waiting DEF Turn, Waits, IdOf
    <3>. QED BY <1>1, <2>1, <3>1, ChainStays
  <2>3. CASE id # IdOf(w)
    <3>1. ~Waits(worker[w], id) /\ ~Waits(x, id)
      BY <2>3 DEF Waits, IdOf
    <3>. QED BY <1>1, <2>1, <3>1, ChainKept
  <2>. QED BY <2>2, <2>3
<1>. QED BY <1>2 DEF Queued

LEMMA QueueMovesUp ==
  ASSUME Typed, Queued, NEW w \in Worker, worker[w] # Idle, worker[w].pc # "save", Turn(w),
         NEW x, x = Idle \/ x.pc = "save",
         worker' = [worker EXCEPT ![w] = x], Left(w)
  PROVE  Queued'
<1>1. Becomes(worker, w, x, worker')
  BY DEF Typed, Becomes
<1>2. /\ IdOf(w) \in CommandId /\ tails[IdOf(w)] \in Seq(Worker)
      /\ tails[IdOf(w)][1] = w /\ 1 \in 1 .. Len(tails[IdOf(w)])
  BY Waiting DEF Turn
<1>3. Tail(tails[IdOf(w)]) \in Seq(Worker)
  BY <1>2
<1>4. /\ tails' \in [CommandId -> Seq(Worker)]
      /\ tails'[IdOf(w)] = Tail(tails[IdOf(w)])
      /\ \A id \in CommandId \ {IdOf(w)} : tails'[id] = tails[id]
  BY <1>2, <1>3 DEF Left, Queued
<1>5. \A id : ~Waits(x, id)
  BY DEF Waits
<1>6. ASSUME NEW id \in CommandId
      PROVE  Chained(id, tails'[id], worker')
  <2>1. tails[id] \in Seq(Worker) /\ Chained(id, tails[id], worker)
    BY DEF Queued
  <2>2. CASE id = IdOf(w)
    BY <1>1, <1>2, <1>4, <1>5, <2>1, <2>2, ChainMovesUp
  <2>3. CASE id # IdOf(w)
    <3>1. ~Waits(worker[w], id)
      BY <2>3 DEF Waits, IdOf
    <3>. QED BY <1>1, <1>4, <1>5, <2>1, <2>3, <3>1, ChainKept
  <2>. QED BY <2>2, <2>3
<1>. QED BY <1>4, <1>6 DEF Queued

LEMMA QueueJoined ==
  ASSUME Typed, Queued, NEW w \in Worker, worker[w].pc = "idle", NEW r \in Requests,
         NEW x, x # Idle, x.pc = "begin", x.req = r,
         worker' = [worker EXCEPT ![w] = x],
         tails' = [tails EXCEPT ![r.id] = Append(@, w)]
  PROVE  Queued'
<1>1. Becomes(worker, w, x, worker')
  BY DEF Typed, Becomes
<1>2. r.id \in CommandId /\ tails[r.id] \in Seq(Worker)
  BY RequestAssumption DEF Queued
<1>3. /\ tails' \in [CommandId -> Seq(Worker)]
      /\ tails'[r.id] = Append(tails[r.id], w)
      /\ \A id \in CommandId \ {r.id} : tails'[id] = tails[id]
  BY <1>2 DEF Queued
<1>4. worker[w] = Idle
  BY DEF Typed, WorkerState
<1>5. ASSUME NEW id \in CommandId
      PROVE  Chained(id, tails'[id], worker')
  <2>1. tails[id] \in Seq(Worker) /\ Chained(id, tails[id], worker) /\ ~Waits(worker[w], id)
    BY <1>4 DEF Queued, Waits
  <2>2. CASE id = r.id
    <3>1. Waits(x, id)
      BY <2>2 DEF Waits
    <3>. QED BY <1>1, <1>3, <2>1, <2>2, <3>1, ChainJoined
  <2>3. CASE id # r.id
    <3>1. ~Waits(x, id)
      BY <2>3 DEF Waits
    <3>. QED BY <1>1, <1>3, <2>1, <2>3, <3>1, ChainKept
  <2>. QED BY <2>2, <2>3
<1>. QED BY <1>3, <1>5 DEF Queued

LEMMA QueueKept ==
  ASSUME Typed, Queued, NEW w \in Worker, worker[w].pc = "save",
         worker' = [worker EXCEPT ![w] = Idle], tails' = tails
  PROVE  Queued'
<1>1. Becomes(worker, w, Idle, worker')
  BY DEF Typed, Becomes
<1>2. \A id : ~Waits(worker[w], id) /\ ~Waits(Idle, id)
  BY DEF Waits
<1>. QED BY <1>1, <1>2, ChainKept DEF Queued

-----------------------------------------------------------------------------
(* The request whose turn it is goes on as x, to its next await.             *)
GoesOnAs(w, x) ==
  /\ worker[w] # Idle /\ worker[w].pc # "save" /\ Turn(w) /\ ~Decides(worker[w])
  /\ x \in WorkerState /\ x.pc # "save" /\ x.req = worker[w].req
  /\ worker' = [worker EXCEPT ![w] = x] /\ tails' = tails /\ ledger' = ledger
  /\ MemoryOutcomes(x)
(* No store is written.                                                      *)
Quietly(w, x) ==
  /\ GoesOnAs(w, x) /\ ~Decides(x) /\ UNCHANGED tables
  /\ MemoryKnows(x) /\ Faithful(x)

LEMMA MemoryOpen ==
  ASSUME Typed, Queued, MemoryRequests, NEW w \in Worker,
         worker[w].pc \in {"begin", "load", "check", "claim", "append", "commit"}
  PROVE  /\ worker[w] # Idle /\ worker[w] \in WorkerState
         /\ MemoryOutcomes(worker[w]) /\ MemoryKnows(worker[w]) /\ Faithful(worker[w])
         /\ worker[w].req \in Requests /\ worker[w].now \in Time
         /\ worker[w].req.id \in CommandId /\ worker[w].req.cell \in Cell
         /\ worker[w].pc # "begin" => Open(worker[w]) /\ Turn(w)
                                      /\ ledger[worker[w].req.id] = Absent
<1>1. worker[w] # Idle /\ worker[w] \in WorkerState
  BY Busy
<1>2. MemoryOutcomes(worker[w]) /\ MemoryKnows(worker[w]) /\ Faithful(worker[w])
  BY <1>1 DEF MemoryRequests, WellKnown
<1>3. worker[w].req \in Requests /\ worker[w].now \in Time
  BY <1>1 DEF WorkerState
<1>4. worker[w].req.id \in CommandId /\ worker[w].req.cell \in Cell
  BY <1>3, RequestAssumption
<1>5. worker[w].pc # "begin" => Open(worker[w])
  BY DEF Open
<1>6. worker[w].pc # "begin" => Turn(w)
  BY <1>1, <1>5, Waiting
<1>7. worker[w].pc # "begin" => ledger[worker[w].req.id] = Absent
  BY <1>2, <1>5 DEF MemoryKnows
<1>. QED BY <1>1, <1>2, <1>3, <1>4, <1>5, <1>6, <1>7

(* It is refused, or its batch does not begin at the end of the stream.      *)
LEMMA MemoryRefused ==
  ASSUME Typed, Queued, MemoryRequests, NEW w \in Worker,
         worker[w].pc \in {"load", "check", "claim", "append"},
         NEW outcome \in {"PERSISTENCE_FAILURE"} \cup Rejected,
         NEW x, x = [worker[w] EXCEPT !.pc = "commit", !.outcome = outcome],
         worker' = [worker EXCEPT ![w] = x], UNCHANGED tables, tails' = tails
  PROVE  Quietly(w, x)
<1>. DEFINE y == worker[w]
<1>1. /\ y # Idle /\ y \in WorkerState /\ Faithful(y) /\ Turn(w) /\ y.pc # "save"
      /\ ledger[y.req.id] = Absent /\ ~Decides(y)
  BY MemoryOpen DEF Decides
<1>2. outcome \in Outcome /\ outcome # "SUCCESS"
  BY DEF Outcome, Rejected
<1>3. /\ x \in WorkerState /\ x.pc = "commit" /\ x.outcome = outcome /\ x.req = y.req
      /\ x.loaded = y.loaded
  BY <1>1, <1>2 DEF WorkerState
<1>4. ~HasDecided(x) /\ ~Decides(x)
  BY <1>2, <1>3 DEF HasDecided, Decides
<1>5. Faithful(x)
  BY <1>1, <1>3, <1>4, Carried
<1>6. MemoryOutcomes(x)
  BY <1>3, <1>4 DEF MemoryOutcomes
<1>7. MemoryKnows(x)
  BY <1>1, <1>3, <1>4 DEF MemoryKnows
<1>8. GoesOnAs(w, x)
  BY <1>1, <1>3, <1>6 DEF GoesOnAs, tables
<1>. QED BY <1>4, <1>5, <1>7, <1>8 DEF Quietly

(* It decides on what it loaded.                                             *)
LEMMA MemoryDecided ==
  ASSUME WellFormed, Typed, Queued, MemoryRequests, NEW w \in Worker,
         worker[w].pc \in {"load", "check"},
         NEW y \in WorkerState, y.req = worker[w].req, y.outcome = "PERSISTENCE_FAILURE",
         Begins(y.loaded, rows[y.req.cell]), Sound(y.loaded),
         worker' = [worker EXCEPT ![w] = Decided(y)], UNCHANGED tables, tails' = tails
  PROVE  Quietly(w, Decided(y))
<1>. DEFINE x == Decided(y)
<1>. SUFFICES Quietly(w, x)
  OBVIOUS
<1>1. /\ worker[w] # Idle /\ Turn(w) /\ worker[w].pc # "save" /\ ~Decides(worker[w])
      /\ ledger[y.req.id] = Absent
  BY MemoryOpen DEF Decides
<1>2. /\ x \in WorkerState /\ x.req = y.req
      /\ \/ x.pc = "commit" /\ x.outcome = "KERNEL_REJECTION"
         \/ /\ x.pc \in {"claim", "append"} /\ x.outcome = "PERSISTENCE_FAILURE" /\ Wrote(x)
            /\ x.pc = "append" => x.req.command.type # "FundCell"
            /\ x.pc = "claim" => x.req.command.type = "FundCell"
  BY DecidedShape
<1>3. Faithful(x)
  BY DecidedFaithful
<1>4. worker' = [worker EXCEPT ![w] = x]
  OBVIOUS
<1>. HIDE DEF x
<1>5. ~Decides(x) /\ x.pc # "save"
  BY <1>2 DEF Decides
<1>6. MemoryOutcomes(x)
  BY <1>2 DEF MemoryOutcomes, HasDecided, Rejected
<1>7. MemoryKnows(x)
  BY <1>1, <1>2, <1>5 DEF MemoryKnows
<1>8. GoesOnAs(w, x)
  BY <1>1, <1>2, <1>4, <1>5, <1>6 DEF GoesOnAs, tables
<1>. QED BY <1>3, <1>5, <1>7, <1>8 DEF Quietly

LEMMA GetEventsMoves ==
  ASSUME WellFormed, Typed, Queued, MemoryRequests, StreamsInv, NEW w \in Worker, GetEvents(w)
  PROVE  \E x : Quietly(w, x)
<1>. DEFINE y == worker[w]
            q == rows[y.req.cell]
            loaded == [y EXCEPT !.loaded = q]
            checking == [loaded EXCEPT !.pc = "check"]
<1>0. y.pc = "load" /\ UNCHANGED tables /\ tails' = tails
  BY DEF GetEvents, LoadCell
<1>1. /\ y # Idle /\ y \in WorkerState /\ MemoryOutcomes(y) /\ y.req.cell \in Cell /\ Turn(w)
      /\ ledger[y.req.id] = Absent /\ y.outcome = "PERSISTENCE_FAILURE" /\ ~Decides(y)
  BY <1>0, MemoryOpen DEF MemoryOutcomes, Decides
<1>2. q \in Seq(Event) /\ Sound(q) /\ Begins(q, q)
  BY <1>1, BeginsWhole DEF Typed, StreamsInv
<1>3. /\ loaded \in WorkerState /\ loaded.req = y.req /\ loaded.loaded = q
      /\ loaded.outcome = "PERSISTENCE_FAILURE"
  BY <1>1, <1>2 DEF WorkerState
<1>4. /\ checking \in WorkerState /\ checking.req = y.req /\ checking.loaded = q
      /\ checking.outcome = "PERSISTENCE_FAILURE" /\ checking.pc = "check"
  BY <1>1, <1>2 DEF WorkerState
<1>5. \/ worker' = [worker EXCEPT ![w] = [y EXCEPT !.pc = "commit", !.outcome = "KERNEL_REJECTION"]]
      \/ worker' = [worker EXCEPT ![w] = checking]
      \/ worker' = [worker EXCEPT ![w] = Decided(loaded)]
  BY DEF GetEvents, LoadCell, CellOf
<1>6. CASE worker' = [worker EXCEPT ![w] = [y EXCEPT !.pc = "commit", !.outcome = "KERNEL_REJECTION"]]
  BY <1>0, <1>6, MemoryRefused DEF Rejected
<1>7. rows[y.req.cell] = q
  OBVIOUS
<1>. HIDE DEF q, loaded, checking
<1>8. CASE worker' = [worker EXCEPT ![w] = checking]
  <2>1. ~Decides(checking) /\ ~HasDecided(checking)
    BY <1>4 DEF Decides, HasDecided
  <2>2. Faithful(checking)
    BY <1>2, <1>4, <1>7, <2>1 DEF Faithful
  <2>3. MemoryOutcomes(checking) /\ MemoryKnows(checking)
    BY <1>1, <1>4, <2>1 DEF MemoryOutcomes, MemoryKnows
  <2>4. GoesOnAs(w, checking)
    BY <1>0, <1>1, <1>4, <1>8, <2>3 DEF GoesOnAs, tables
  <2>. QED BY <1>0, <2>1, <2>2, <2>3, <2>4 DEF Quietly
<1>9. CASE worker' = [worker EXCEPT ![w] = Decided(loaded)]
  BY <1>0, <1>2, <1>3, <1>7, <1>9, MemoryDecided
<1>. QED BY <1>5, <1>6, <1>8, <1>9

LEMMA CheckBlockedMoves ==
  ASSUME WellFormed, Typed, Queued, MemoryRequests, NEW w \in Worker, CheckBlocked(w)
  PROVE  \E x : Quietly(w, x)
<1>. DEFINE y == worker[w]
            refused == [y EXCEPT !.pc = "commit", !.outcome = "FUNDING_DISPUTE_BLOCKED"]
<1>0. y.pc = "check" /\ UNCHANGED tables /\ tails' = tails
  BY DEF CheckBlocked
<1>1. /\ y \in WorkerState /\ y.outcome = "PERSISTENCE_FAILURE"
      /\ Begins(y.loaded, rows[y.req.cell]) /\ Sound(y.loaded)
  BY <1>0, MemoryOpen DEF MemoryOutcomes, Faithful
<1>2. worker' = [worker EXCEPT ![w] = refused] \/ worker' = [worker EXCEPT ![w] = Decided(y)]
  BY DEF CheckBlocked
<1>3. CASE worker' = [worker EXCEPT ![w] = refused]
  BY <1>0, <1>3, MemoryRefused DEF Rejected
<1>4. CASE worker' = [worker EXCEPT ![w] = Decided(y)]
  BY <1>0, <1>1, <1>4, MemoryDecided
<1>. QED BY <1>2, <1>3, <1>4

(* The records know nothing of the id: its work begins.                      *)
LEMMA LookUpMoves ==
  ASSUME WellFormed, Typed, Queued, MemoryRequests, NEW w \in Worker, LookUp(w)
  PROVE  \/ \E x : Quietly(w, x)
         \/ /\ worker' = [worker EXCEPT ![w] = Idle] /\ Left(w) /\ UNCHANGED tables
<1>. DEFINE y == worker[w]
            x == [y EXCEPT !.pc = "load"]
<1>0. y.pc = "begin" /\ Turn(w) /\ UNCHANGED tables
  BY DEF LookUp
<1>1. /\ y # Idle /\ y \in WorkerState /\ MemoryOutcomes(y) /\ Faithful(y)
      /\ y.outcome = "PERSISTENCE_FAILURE" /\ ~Decides(y)
  BY <1>0, MemoryOpen DEF MemoryOutcomes, Decides
<1>2. CASE ledger[IdOf(w)] # Absent
  BY <1>0, <1>2 DEF LookUp, Answer
<1>3. CASE ledger[IdOf(w)] = Absent
  <2>1. worker' = [worker EXCEPT ![w] = x] /\ tails' = tails
    BY <1>3 DEF LookUp
  <2>2. /\ x \in WorkerState /\ x.req = y.req /\ x.pc = "load" /\ x.loaded = y.loaded
        /\ x.outcome = "PERSISTENCE_FAILURE"
    BY <1>1 DEF WorkerState
  <2>. HIDE DEF x
  <2>3. ~Decides(x) /\ ~HasDecided(x)
    BY <2>2 DEF Decides, HasDecided
  <2>4. Faithful(x)
    BY <1>1, <2>2, <2>3, Carried
  <2>5. MemoryOutcomes(x) /\ MemoryKnows(x)
    BY <1>3, <2>2, <2>3 DEF MemoryOutcomes, MemoryKnows, IdOf
  <2>6. GoesOnAs(w, x)
    BY <1>0, <1>1, <2>1, <2>2, <2>5 DEF GoesOnAs, tables
  <2>. QED BY <1>0, <2>3, <2>4, <2>5, <2>6 DEF Quietly
<1>. QED BY <1>2, <1>3

(* It has the receipt that no other has.                                     *)
Claiming(w, x) ==
  /\ GoesOnAs(w, x) /\ ~Decides(x) /\ Faithful(x) /\ ledger[x.req.id] = Absent
  /\ x.req.command.type = "FundCell"
  /\ UNCHANGED <<rows, author>>
  /\ receipt[x.req.cell] = Absent
  /\ \A c \in Cell : receipt[c] # Absent => receipt[c].tx # x.req.tx
  /\ receipt' = [receipt EXCEPT ![x.req.cell] = ReceiptOf(x)]

LEMMA ClaimMoves ==
  ASSUME WellFormed, Typed, Queued, MemoryRequests, NEW w \in Worker, Claim(w)
  PROVE  \E x : Quietly(w, x) \/ Claiming(w, x)
<1>. DEFINE y == worker[w]
            x == [y EXCEPT !.pc = "append"]
            refused == [y EXCEPT !.pc = "commit", !.outcome = "FUNDING_RECEIPT_CONFLICT"]
            new == [tx |-> y.req.tx, id |-> IdOf(w)]
            taken == \E c \in Cell : receipt[c] # Absent /\ ConflictsWith(c, receipt[c], CellOf(w), new)
<1>0. y.pc = "claim" /\ UNCHANGED <<rows, ledger, author>> /\ tails' = tails /\ Claimed(w)
  BY DEF Claim
<1>1. /\ y # Idle /\ y \in WorkerState /\ MemoryOutcomes(y) /\ Faithful(y) /\ Turn(w)
      /\ y.outcome = "PERSISTENCE_FAILURE" /\ ~Decides(y) /\ HasDecided(y)
      /\ y.req.cell \in Cell /\ ledger[y.req.id] = Absent
  BY <1>0, MemoryOpen DEF MemoryOutcomes, Decides, HasDecided
<1>2. CASE taken
  <2>1. worker' = [worker EXCEPT ![w] = refused] /\ UNCHANGED tables
    BY <1>0, <1>2 DEF Claimed, tables
  <2>. QED BY <1>0, <2>1, MemoryRefused DEF Rejected
<1>3. CASE ~taken
  <2>1. worker' = [worker EXCEPT ![w] = x] /\ receipt' = [receipt EXCEPT ![CellOf(w)] = new]
    BY <1>0, <1>3 DEF Claimed
  <2>2. \A c \in Cell : receipt[c] # Absent => c # y.req.cell /\ receipt[c].tx # y.req.tx
    BY <1>3 DEF ConflictsWith, CellOf
  <2>3. /\ x \in WorkerState /\ x.req = y.req /\ x.pc = "append" /\ x.loaded = y.loaded
        /\ x.outcome = "PERSISTENCE_FAILURE" /\ x.produced = y.produced /\ x.now = y.now
    BY <1>1 DEF WorkerState
  <2>4. new = ReceiptOf(x)
    BY <2>3 DEF ReceiptOf, IdOf
  <2>. HIDE DEF x, new, taken
  <2>5. ~Decides(x) /\ HasDecided(x) /\ Wrote(x)
    BY <1>1, <2>3 DEF Decides, HasDecided, MemoryOutcomes, Wrote
  <2>6. Faithful(x)
    BY <1>1, <2>3, Carried
  <2>7. MemoryOutcomes(x)
    BY <2>3, <2>5 DEF MemoryOutcomes
  <2>8. GoesOnAs(w, x)
    BY <1>0, <1>1, <2>1, <2>3, <2>7 DEF GoesOnAs
  <2>9. x.req.command.type = "FundCell"
    BY <1>0, <1>1, <2>3 DEF MemoryOutcomes
  <2>. QED BY <1>0, <1>1, <2>1, <2>2, <2>3, <2>4, <2>5, <2>6, <2>8, <2>9 DEF Claiming, CellOf
<1>. QED BY <1>2, <1>3

(* Its events are in the stream.                                             *)
Appending(w, x) ==
  /\ GoesOnAs(w, x) /\ Decides(x) /\ Wrote(x) /\ Grows(x) /\ receipt' = receipt
  /\ Faithful(x) /\ ledger[x.req.id] = Absent /\ Len(x.loaded) = Len(rows[x.req.cell])
  /\ x.req.command.type = "FundCell" => receipt[x.req.cell] = ReceiptOf(x)

LEMMA Concatenated ==
  ASSUME NEW S, NEW q \in Seq(S), NEW p \in Seq(S)
  PROVE  q \o p = Extended(q, p)
<1>. DEFINE t == q \o p
            u == Extended(q, p)
<1>1. Len(q) \in Nat /\ Len(p) \in Nat
  OBVIOUS
<1>2. /\ t \in Seq(S) /\ Len(t) = Len(q) + Len(p)
      /\ \A i \in 1 .. Len(q) + Len(p) : t[i] = IF i <= Len(q) THEN q[i] ELSE p[i - Len(q)]
  BY ConcatProperties
<1>3. /\ u \in Seq(S) /\ Len(u) = Len(q) + Len(p)
      /\ \A v \in 1 .. Len(q) : u[v] = q[v]
      /\ \A v \in Len(q) + 1 .. Len(q) + Len(p) : u[v] = p[v - Len(q)]
  BY ExtendedShape
<1>. HIDE DEF t, u
<1>4. \A i \in 1 .. Len(t) : t[i] = u[i]
  <2>. SUFFICES ASSUME NEW i \in 1 .. Len(t) PROVE t[i] = u[i]
    OBVIOUS
  <2>1. CASE i <= Len(q)
    BY <1>1, <1>2, <1>3, <2>1
  <2>2. CASE ~(i <= Len(q))
    <3>1. i \in Len(q) + 1 .. Len(q) + Len(p)
      BY <1>1, <1>2, <2>2
    <3>. QED BY <1>2, <1>3, <2>2, <3>1
  <2>. QED BY <2>1, <2>2
<1>5. t = u
  BY <1>2, <1>3, <1>4, SeqEqual
<1>. QED BY <1>5 DEF t, u

LEMMA AppendBatchMoves ==
  ASSUME WellFormed, Typed, Queued, MemoryRequests, NEW w \in Worker, AppendBatch(w)
  PROVE  \E x : Quietly(w, x) \/ Appending(w, x)
<1>. DEFINE y == worker[w]
            x == [y EXCEPT !.pc = "commit", !.outcome = "SUCCESS"]
            refused == [y EXCEPT !.pc = "commit", !.outcome = "PERSISTENCE_FAILURE"]
            c == y.req.cell
<1>0. y.pc = "append" /\ UNCHANGED <<ledger, receipt>> /\ tails' = tails
  BY DEF AppendBatch
<1>1. /\ y # Idle /\ y \in WorkerState /\ MemoryOutcomes(y) /\ MemoryKnows(y) /\ Faithful(y)
      /\ Turn(w) /\ ~Decides(y) /\ HasDecided(y) /\ c \in Cell /\ ledger[y.req.id] = Absent
  BY <1>0, MemoryOpen DEF MemoryOutcomes, Decides, HasDecided
<1>2. CASE ~StartsAtEnd(w)
  <2>1. worker' = [worker EXCEPT ![w] = refused] /\ UNCHANGED tables
    BY <1>0, <1>2 DEF AppendBatch, tables
  <2>. QED BY <1>0, <2>1, MemoryRefused
<1>3. CASE StartsAtEnd(w)
  <2>1. /\ worker' = [worker EXCEPT ![w] = x]
        /\ rows' = [rows EXCEPT ![c] = @ \o y.produced]
        /\ author' = [author EXCEPT ![c] = @ \o Authors(y)]
    BY <1>3 DEF AppendBatch, CellOf, Authors, IdOf
  <2>2. /\ x \in WorkerState /\ x.req = y.req /\ x.pc = "commit" /\ x.loaded = y.loaded
        /\ x.outcome = "SUCCESS" /\ x.produced = y.produced /\ x.now = y.now
    BY <1>1 DEF WorkerState, Outcome
  <2>3. /\ rows[c] \in Seq(Event) /\ y.produced \in Seq(Event) /\ y.loaded \in Seq(Event)
        /\ author[c] \in Seq(CommandId \cup {Prelude})
        /\ Authors(y) \in Seq(CommandId \cup {Prelude})
    BY <1>1, AuthorsTyped DEF Typed, WorkerState
  <2>4. Len(y.loaded) = Len(rows[c])
    BY <1>3, <2>3 DEF StartsAtEnd, FirstVersion, CellOf
  <2>5. rows[c] \o y.produced = Extended(rows[c], y.produced)
    BY <2>3, Concatenated
  <2>6. author[c] \o Authors(y) = Extended(author[c], Authors(y))
    BY <2>3, Concatenated
  <2>7. Authors(x) = Authors(y)
    BY <2>2 DEF Authors
  <2>. HIDE DEF x
  <2>8. Grows(x)
    BY <2>1, <2>2, <2>5, <2>6, <2>7 DEF Grows
  <2>9. Decides(x) /\ HasDecided(x) /\ Wrote(x)
    BY <1>1, <2>2 DEF Decides, HasDecided, MemoryOutcomes, Wrote
  <2>10. Faithful(x)
    BY <1>1, <2>2, Carried
  <2>11. MemoryOutcomes(x)
    BY <2>2, <2>9 DEF MemoryOutcomes
  <2>12. GoesOnAs(w, x)
    BY <1>0, <1>1, <2>1, <2>2, <2>11 DEF GoesOnAs
  <2>13. x.req.command.type = "FundCell" => receipt[x.req.cell] = ReceiptOf(x)
    BY <1>0, <1>1, <2>2 DEF MemoryKnows, ReceiptOf
  <2>14. receipt' = receipt /\ ledger[x.req.id] = Absent /\ Len(x.loaded) = Len(rows[x.req.cell])
    BY <1>0, <1>1, <2>2, <2>4
  <2>15. Appending(w, x)
    BY <2>8, <2>9, <2>10, <2>12, <2>13, <2>14 DEF Appending
  <2>. QED BY <2>15
<1>. QED BY <1>2, <1>3

-----------------------------------------------------------------------------
(* Nothing is taken back: streams and receipts grow, records stay.           *)
NothingUndone ==
  /\ Typed'
  /\ \A c \in Cell : Begins(rows[c], rows'[c])
  /\ \A c \in Cell : receipt[c] # Absent => receipt'[c] = receipt[c]
  /\ \A id \in CommandId : ledger[id] # Absent => ledger'[id] = ledger[id]

LEMMA ReceiptPresent ==
  ASSUME Sentinels, NEW x \in WorkerState, x.req.command.type = "FundCell"
  PROVE  ReceiptOf(x) \in Receipt /\ ReceiptOf(x) # Absent
<1>1. x.req.tx \in ProviderTx /\ x.req.id \in CommandId
  BY RequestAssumption DEF WorkerState
<1>2. ReceiptOf(x) \in Receipt
  BY <1>1 DEF ReceiptOf, Receipt
<1>. QED BY <1>2 DEF Sentinels

LEMMA SameTables ==
  ASSUME Typed, worker' \in [Worker -> {Idle} \cup WorkerState], UNCHANGED tables
  PROVE  NothingUndone
<1>1. rows' = rows /\ author' = author /\ ledger' = ledger /\ receipt' = receipt
  BY DEF tables
<1>2. Typed'
  BY <1>1 DEF Typed
<1>3. \A c \in Cell : Begins(rows[c], rows[c])
  BY BeginsWhole DEF Typed
<1>. QED BY <1>1, <1>2, <1>3 DEF NothingUndone

(* What a request knows, it knows after the steps of others.                 *)
LEMMA StillKnown ==
  ASSUME Sentinels, Typed, NothingUndone, NEW v \in Worker, WellKnown(v),
         worker'[v] = worker[v],
         Open(worker[v]) => ledger'[worker[v].req.id] = ledger[worker[v].req.id]
  PROVE  WellKnown(v)'
<1>. SUFFICES ASSUME NEW x, x = worker[v], x # Idle
              PROVE  MemoryOutcomes(worker[v])' /\ MemoryKnows(worker[v])' /\ Faithful(worker[v])'
  BY DEF WellKnown
<1>1. /\ x \in WorkerState /\ x.req.id \in CommandId /\ x.req.cell \in Cell
      /\ MemoryOutcomes(x) /\ MemoryKnows(x) /\ Faithful(x)
  BY RequestAssumption DEF Typed, WorkerState, WellKnown
<1>2. Typed' /\ \A c \in Cell : Begins(rows[c], rows'[c])
  BY DEF NothingUndone
<1>3. Faithful(worker[v])'
  BY <1>1, <1>2, GrownFaithful
<1>4. MemoryOutcomes(worker[v])'
  BY <1>1 DEF MemoryOutcomes, HasDecided, Wrote
<1>5. Open(x) => ledger'[x.req.id] = Absent
  BY <1>1 DEF MemoryKnows
<1>6. x.pc = "save" => ledger'[x.req.id] = LedgerRowOf(x)
  <2>1. LedgerRowOf(x) # Absent
    BY <1>1, LedgerRowTyped DEF Sentinels
  <2>. QED BY <1>1, <2>1 DEF MemoryKnows, NothingUndone
<1>7. x.pc = "append" /\ x.req.command.type = "FundCell" => receipt'[x.req.cell] = ReceiptOf(x)
  BY <1>1, ReceiptPresent DEF MemoryKnows, NothingUndone
<1>8. ASSUME Decides(x)
      PROVE  /\ Len(x.loaded) + Len(x.produced) <= Len(rows'[x.req.cell])
             /\ \A i \in 1 .. Len(x.produced) :
                  rows'[x.req.cell][Len(x.loaded) + i] = x.produced[i]
  <2>1. Laid(x)
    BY <1>1, <1>8 DEF MemoryKnows
  <2>2. rows'[x.req.cell] \in Seq(Event) /\ Begins(rows[x.req.cell], rows'[x.req.cell])
    BY <1>1, <1>2 DEF Typed
  <2>. QED BY <1>1, <2>1, <2>2, GrownLaid
<1>9. MemoryKnows(worker[v])'
  <2>1. worker'[v] = x
    OBVIOUS
  <2>. QED BY <1>5, <1>6, <1>7, <1>8, <2>1 DEF MemoryKnows, Open, Decides, Laid, LedgerRowOf, ReceiptOf
<1>. QED BY <1>3, <1>4, <1>9

(* One request becomes x.                                                    *)
LEMMA OneChanges ==
  ASSUME Sentinels, Typed, MemoryRequests, NothingUndone, NEW w \in Worker, NEW x,
         worker' = [worker EXCEPT ![w] = x],
         x # Idle => MemoryOutcomes(x) /\ MemoryKnows(x)' /\ Faithful(x)',
         \A v \in Worker \ {w} :
           Open(worker[v]) => ledger'[worker[v].req.id] = ledger[worker[v].req.id]
  PROVE  MemoryRequests'
<1>. SUFFICES ASSUME NEW v \in Worker
              PROVE  WellKnown(v)'
  BY DEF MemoryRequests
<1>1. CASE v # w
  <2>1. worker'[v] = worker[v] /\ WellKnown(v)
    BY <1>1 DEF Typed, MemoryRequests
  <2>. QED BY <1>1, <2>1, StillKnown
<1>2. CASE v = w
  <2>1. worker'[v] = x
    BY <1>2 DEF Typed
  <2>. QED BY <2>1 DEF WellKnown, MemoryOutcomes, MemoryKnows, Faithful, HasDecided, Wrote,
                       Open, Decides, Laid, LedgerRowOf, ReceiptOf
<1>. QED BY <1>1, <1>2

-----------------------------------------------------------------------------
(* The core of the invariant, and what each kind of step makes of it.        *)
MemoryCore == Typed /\ Queued /\ MemoryRequests /\ StreamsInv
CoreKept == NothingUndone /\ MemoryCore'

LEMMA SameStreams ==
  ASSUME StreamsInv, rows' = rows
  PROVE  StreamsInv'
BY DEF StreamsInv

LEMMA QuietlyKept ==
  ASSUME Sentinels, MemoryCore, NEW w \in Worker, NEW x, Quietly(w, x)
  PROVE  CoreKept
<1>1. /\ worker' = [worker EXCEPT ![w] = x] /\ x \in WorkerState /\ UNCHANGED tables
      /\ rows' = rows /\ author' = author /\ ledger' = ledger /\ receipt' = receipt
      /\ MemoryOutcomes(x) /\ MemoryKnows(x) /\ Faithful(x) /\ x.pc # "save"
      /\ x # Idle
  <2>1. x # Idle
    BY DEF Quietly, GoesOnAs, WorkerState, Idle
  <2>. QED BY <2>1 DEF Quietly, GoesOnAs, tables
<1>2. worker' \in [Worker -> {Idle} \cup WorkerState]
  BY <1>1 DEF MemoryCore, Typed
<1>3. NothingUndone
  BY <1>1, <1>2, SameTables DEF MemoryCore
<1>4. Queued'
  BY <1>1, QueueStays DEF MemoryCore, Quietly, GoesOnAs
<1>5. MemoryKnows(x)' /\ Faithful(x)'
  BY <1>1 DEF MemoryKnows, Faithful, Laid, Decides, Open
<1>6. MemoryRequests'
  BY <1>1, <1>3, <1>5, OneChanges DEF MemoryCore
<1>. QED BY <1>1, <1>3, <1>4, <1>6, SameStreams DEF MemoryCore, CoreKept, NothingUndone

LEMMA ClaimingKept ==
  ASSUME Sentinels, MemoryCore, NEW w \in Worker, NEW x, Claiming(w, x)
  PROVE  CoreKept
<1>1. /\ worker' = [worker EXCEPT ![w] = x] /\ x \in WorkerState
      /\ rows' = rows /\ author' = author /\ ledger' = ledger
      /\ receipt' = [receipt EXCEPT ![x.req.cell] = ReceiptOf(x)]
      /\ receipt[x.req.cell] = Absent /\ x.req.command.type = "FundCell"
      /\ MemoryOutcomes(x) /\ ~Decides(x) /\ Faithful(x) /\ x.pc # "save"
      /\ x # Idle
  <2>1. x # Idle
    BY DEF Claiming, GoesOnAs, WorkerState, Idle
  <2>. QED BY <2>1 DEF Claiming, GoesOnAs
<1>2. x.req.cell \in Cell /\ ReceiptOf(x) \in Receipt
  BY <1>1, ReceiptPresent, RequestAssumption DEF WorkerState
<1>3. /\ receipt'[x.req.cell] = ReceiptOf(x)
      /\ \A c \in Cell : receipt[c] # Absent => receipt'[c] = receipt[c]
  BY <1>1, <1>2 DEF MemoryCore, Typed
<1>4. Typed'
  BY <1>1, <1>2 DEF MemoryCore, Typed
<1>5. \A c \in Cell : Begins(rows[c], rows[c])
  BY BeginsWhole DEF MemoryCore, Typed
<1>6. NothingUndone
  BY <1>1, <1>3, <1>4, <1>5 DEF NothingUndone
<1>7. Queued'
  BY <1>1, QueueStays DEF MemoryCore, Claiming, GoesOnAs
<1>8. Faithful(x)'
  BY <1>1 DEF Faithful, Laid
<1>9. MemoryKnows(x)'
  <2>1. Open(x) => ledger'[x.req.id] = Absent
    BY <1>1 DEF Claiming
  <2>. QED BY <1>1, <1>3, <2>1 DEF MemoryKnows, Decides
<1>10. MemoryRequests'
  BY <1>1, <1>6, <1>8, <1>9, OneChanges DEF MemoryCore
<1>. QED BY <1>1, <1>4, <1>6, <1>7, <1>10, SameStreams DEF MemoryCore, CoreKept

LEMMA AppendingKept ==
  ASSUME WellFormed, Sentinels, MemoryCore, NEW w \in Worker, NEW x, Appending(w, x)
  PROVE  CoreKept
<1>. DEFINE c == x.req.cell
            q == rows[c]
<1>1. /\ worker' = [worker EXCEPT ![w] = x] /\ x \in WorkerState /\ Grows(x)
      /\ ledger' = ledger /\ receipt' = receipt
      /\ MemoryOutcomes(x) /\ Decides(x) /\ Faithful(x) /\ x.pc = "commit"
      /\ Len(x.loaded) = Len(q) /\ x # Idle
  <2>1. x # Idle
    BY DEF Appending, GoesOnAs, WorkerState, Idle
  <2>. QED BY <2>1 DEF Appending, GoesOnAs, Decides
<1>2. HasDecided(x)
  BY <1>1 DEF Decides, HasDecided
<1>3. /\ c \in Cell /\ q \in Seq(Event) /\ x.loaded = q
      /\ \A d \in Cell \ {c} : rows'[d] = rows[d]
      /\ Continues(rows'[c], q, x.produced) /\ Sound(rows'[c])
  BY <1>1, <1>2, GrownWritten DEF MemoryCore
<1>4. Typed'
  <2>1. /\ rows' \in [Cell -> Seq(Event)]
        /\ author' \in [Cell -> Seq(CommandId \cup {Prelude})]
        /\ \A d \in Cell : Len(author'[d]) = Len(rows'[d])
    BY <1>1, GrownTyped DEF MemoryCore
  <2>. QED BY <1>1, <2>1 DEF MemoryCore, Typed
<1>5. \A d \in Cell : Begins(rows[d], rows'[d])
  BY <1>3, BeginsWhole DEF MemoryCore, Typed, Continues
<1>6. NothingUndone
  BY <1>1, <1>4, <1>5 DEF NothingUndone
<1>7. Queued'
  BY <1>1, QueueStays DEF MemoryCore, Appending, GoesOnAs
<1>8. StreamsInv'
  BY <1>3 DEF MemoryCore, StreamsInv
<1>9. Laid(x)'
  <2>1. Len(x.loaded) \in Nat /\ Len(x.produced) \in Nat
    BY <1>1 DEF WorkerState
  <2>2. /\ Len(rows'[c]) = Len(x.loaded) + Len(x.produced)
        /\ \A i \in 1 .. Len(x.produced) : rows'[c][Len(x.loaded) + i] = x.produced[i]
    BY <1>3 DEF Continues
  <2>. QED BY <2>1, <2>2 DEF Laid
<1>10. Faithful(x)'
  <2>1. Begins(x.loaded, rows'[c])
    BY <1>3 DEF Continues
  <2>. QED BY <1>1, <2>1 DEF Faithful
<1>11. MemoryKnows(x)'
  <2>1. Open(x) => ledger'[x.req.id] = Absent
    BY <1>1 DEF Appending
  <2>. QED BY <1>1, <1>9, <2>1 DEF MemoryKnows
<1>12. MemoryRequests'
  BY <1>1, <1>6, <1>10, <1>11, OneChanges DEF MemoryCore
<1>. QED BY <1>4, <1>6, <1>7, <1>8, <1>12 DEF MemoryCore, CoreKept

(* A request that is answered without having written.                        *)
LEMMA AnsweredKept ==
  ASSUME Sentinels, MemoryCore, NEW w \in Worker,
         worker' = [worker EXCEPT ![w] = Idle], UNCHANGED tables, Queued'
  PROVE  CoreKept
<1>1. worker' \in [Worker -> {Idle} \cup WorkerState] /\ rows' = rows /\ ledger' = ledger
  BY DEF MemoryCore, Typed, tables
<1>2. NothingUndone
  BY <1>1, SameTables DEF MemoryCore
<1>3. MemoryRequests'
  BY <1>1, <1>2, OneChanges DEF MemoryCore
<1>. QED BY <1>1, <1>2, <1>3, SameStreams DEF MemoryCore, CoreKept, NothingUndone

LEMMA ExecuteKept ==
  ASSUME Sentinels, MemoryCore, NEW w \in Worker, NEW r \in Requests, NEW now \in Time,
         Execute(w, r, now)
  PROVE  CoreKept /\ UNCHANGED <<ledger, author, snapshot, replies>>
<1>. SUFFICES ASSUME NEW x, x = Received(r, now)
              PROVE  CoreKept /\ UNCHANGED <<ledger, author, snapshot, replies>>
  OBVIOUS
<1>1. /\ worker[w].pc = "idle" /\ worker' = [worker EXCEPT ![w] = x]
      /\ UNCHANGED tables /\ UNCHANGED <<ledger, author, snapshot, replies>>
      /\ tails' = [tails EXCEPT ![r.id] = Append(@, w)]
      /\ rows' = rows /\ ledger' = ledger
  BY DEF Execute, Receive, tables
<1>2. /\ x \in WorkerState /\ x # Idle /\ x.pc = "begin" /\ x.req = r
      /\ x.outcome = "PERSISTENCE_FAILURE" /\ x.loaded = <<>>
  BY DEF Received, WorkerState, Idle, Outcome
<1>3. worker' \in [Worker -> {Idle} \cup WorkerState]
  BY <1>1, <1>2 DEF MemoryCore, Typed
<1>4. NothingUndone
  BY <1>1, <1>3, SameTables DEF MemoryCore
<1>5. Queued'
  BY <1>1, <1>2, QueueJoined DEF MemoryCore
<1>6. r.cell \in Cell /\ rows[r.cell] \in Seq(Event)
  BY RequestAssumption DEF MemoryCore, Typed
<1>7. Faithful(x)'
  BY <1>1, <1>2, <1>6, BeginsWhole DEF Faithful, HasDecided
<1>8. MemoryOutcomes(x) /\ MemoryKnows(x)'
  BY <1>2 DEF MemoryOutcomes, MemoryKnows, HasDecided, Open, Decides
<1>9. MemoryRequests'
  BY <1>1, <1>4, <1>7, <1>8, OneChanges DEF MemoryCore
<1>. QED BY <1>1, <1>4, <1>5, <1>9, SameStreams DEF MemoryCore, CoreKept, NothingUndone

(* It has a result: the record of its id.                                    *)
LEMMA SettleShape ==
  ASSUME MemoryCore, NEW w \in Worker, Settle(w), NEW x, x = worker[w]
  PROVE  /\ x \in WorkerState /\ x # Idle /\ x.pc = "commit" /\ Turn(w) /\ Left(w)
         /\ x.req.id \in CommandId /\ x.req.cell \in Cell /\ ledger[x.req.id] = Absent
         /\ MemoryOutcomes(x) /\ MemoryKnows(x) /\ Faithful(x)
         /\ ledger' = [ledger EXCEPT ![x.req.id] = LedgerRowOf(x)]
         /\ UNCHANGED <<rows, author, receipt, snapshot, negative>>
         /\ \/ /\ x.outcome = "SUCCESS" /\ replies' = replies
               /\ worker' = [worker EXCEPT ![w] = [x EXCEPT !.pc = "save"]]
            \/ x.outcome # "SUCCESS" /\ Answer(w, ResultOf(w))
<1>1. /\ x.pc = "commit" /\ Left(w) /\ UNCHANGED <<rows, author, receipt, snapshot, negative>>
      /\ ledger' = [ledger EXCEPT ![x.req.id] = LedgerRowOf(x)]
      /\ \/ /\ x.outcome = "SUCCESS" /\ replies' = replies
            /\ worker' = [worker EXCEPT ![w] = [x EXCEPT !.pc = "save"]]
         \/ x.outcome # "SUCCESS" /\ Answer(w, ResultOf(w))
  BY DEF Settle, LedgerRowOf, ResultOf, IdOf
<1>. QED BY <1>1, MemoryOpen DEF MemoryCore

LEMMA SettleKept ==
  ASSUME Sentinels, MemoryCore, NEW w \in Worker, Settle(w)
  PROVE  CoreKept
<1>. SUFFICES ASSUME NEW x, x = worker[w], NEW id, id = x.req.id
              PROVE  CoreKept
  OBVIOUS
<1>. DEFINE saving == [x EXCEPT !.pc = "save"]
<1>1. /\ x \in WorkerState /\ x # Idle /\ x.pc = "commit" /\ Turn(w) /\ Left(w)
      /\ id \in CommandId /\ x.req.cell \in Cell /\ ledger[id] = Absent
      /\ MemoryOutcomes(x) /\ MemoryKnows(x) /\ Faithful(x)
      /\ ledger' = [ledger EXCEPT ![id] = LedgerRowOf(x)]
      /\ UNCHANGED <<rows, author, receipt>>
      /\ \/ x.outcome = "SUCCESS" /\ worker' = [worker EXCEPT ![w] = saving]
         \/ worker' = [worker EXCEPT ![w] = Idle]
  BY SettleShape DEF Answer
<1>2. /\ saving \in WorkerState /\ saving.pc = "save" /\ saving.req = x.req
      /\ saving.now = x.now /\ saving.loaded = x.loaded /\ saving.produced = x.produced
      /\ saving.outcome = x.outcome /\ saving # Idle
  <2>1. saving \in WorkerState /\ saving.pc = "save"
    BY <1>1 DEF WorkerState
  <2>2. saving # Idle
    BY <2>1 DEF Idle
  <2>. QED BY <1>1, <2>1, <2>2 DEF WorkerState
<1>. HIDE DEF saving
<1>3. PICK z : /\ worker' = [worker EXCEPT ![w] = z]
               /\ z = Idle \/ z = saving
               /\ z # Idle => x.outcome = "SUCCESS"
  BY <1>1
<1>4. /\ LedgerRowOf(x) \in LedgerRow
      /\ ledger'[id] = LedgerRowOf(x)
      /\ \A j \in CommandId : j # id => ledger'[j] = ledger[j]
  BY <1>1, LedgerRowTyped DEF MemoryCore, Typed
<1>5. Typed'
  BY <1>1, <1>2, <1>3, <1>4 DEF MemoryCore, Typed
<1>6. \A c \in Cell : Begins(rows[c], rows[c])
  BY BeginsWhole DEF MemoryCore, Typed
<1>7. NothingUndone
  BY <1>1, <1>4, <1>5, <1>6 DEF NothingUndone
<1>8. Queued'
  BY <1>1, <1>2, <1>3, QueueMovesUp DEF MemoryCore
<1>9. \A v \in Worker \ {w} :
        Open(worker[v]) => ledger'[worker[v].req.id] = ledger[worker[v].req.id]
  <2>. SUFFICES ASSUME NEW v \in Worker \ {w}, Open(worker[v])
                PROVE  ledger'[worker[v].req.id] = ledger[worker[v].req.id]
    OBVIOUS
  <2>1. worker[v].req.id # id
    BY <1>1, OneOpen DEF MemoryCore
  <2>2. worker[v].req.id \in CommandId
    BY Busy, RequestAssumption DEF MemoryCore, Open, WorkerState
  <2>. QED BY <1>4, <2>1, <2>2
<1>10. x.outcome = "SUCCESS" => MemoryOutcomes(saving) /\ MemoryKnows(saving)' /\ Faithful(saving)'
  <2>. SUFFICES ASSUME x.outcome = "SUCCESS"
                PROVE  MemoryOutcomes(saving) /\ MemoryKnows(saving)' /\ Faithful(saving)'
    OBVIOUS
  <2>1. Decides(x) /\ HasDecided(x) /\ Laid(x) /\ Wrote(x)
    BY <1>1 DEF Decides, HasDecided, MemoryKnows, MemoryOutcomes
  <2>2. MemoryOutcomes(saving)
    BY <1>2, <2>1 DEF MemoryOutcomes, HasDecided, Wrote
  <2>3. LedgerRowOf(saving) = LedgerRowOf(x)
    BY <1>2 DEF LedgerRowOf
  <2>4. MemoryKnows(saving)'
    BY <1>1, <1>2, <1>4, <2>3 DEF MemoryKnows, Open, Decides
  <2>5. Faithful(saving)'
    BY <1>1, <1>2, <2>1 DEF Faithful, HasDecided, Laid
  <2>. QED BY <2>2, <2>4, <2>5
<1>11. MemoryRequests'
  <2>1. z # Idle => MemoryOutcomes(z) /\ MemoryKnows(z)' /\ Faithful(z)'
    BY <1>3, <1>10
  <2>. QED BY <1>3, <1>7, <1>9, <2>1, OneChanges DEF MemoryCore
<1>. QED BY <1>1, <1>5, <1>7, <1>8, <1>11, SameStreams DEF MemoryCore, CoreKept

-----------------------------------------------------------------------------
(* Effects: what a request that has appended wrote, and what is written of   *)
(* an id when none has appended since its record was written.                *)
DecidesOn(w, id) == Decides(worker[w]) /\ worker[w].req.id = id
MemoryEffects ==
  /\ \A w \in Worker : Decides(worker[w]) => Written(worker[w].req.id) = Placed(worker[w])
  /\ \A id \in CommandId : (\A w \in Worker : ~DecidesOn(w, id)) => Whole(id)

LEMMA EffectsKept ==
  ASSUME Typed, MemoryEffects, NEW w \in Worker, NEW x, worker' = [worker EXCEPT ![w] = x],
         ~Decides(worker[w]), ~Decides(x), UNCHANGED <<ledger, author>>
  PROVE  MemoryEffects'
<1>1. \A v \in Worker : worker'[v] = IF v = w THEN x ELSE worker[v]
  BY DEF Typed
<1>2. \A id : Written(id)' = Written(id) /\ Whole(id)' = Whole(id)
  BY DEF Written, Whole
<1>3. ASSUME NEW v \in Worker, Decides(worker'[v])
      PROVE  Written(worker[v].req.id)' = Placed(worker'[v])
  <2>1. worker'[v] = worker[v] /\ Decides(worker[v])
    BY <1>1, <1>3
  <2>2. Written(worker[v].req.id) = Placed(worker[v])
    BY <2>1 DEF MemoryEffects
  <2>. QED BY <2>1, <2>2 DEF Written
<1>4. ASSUME NEW id \in CommandId, \A v \in Worker : ~(Decides(worker'[v]) /\ worker'[v].req.id = id)
      PROVE  Whole(id)'
  <2>1. \A v \in Worker : ~DecidesOn(v, id)
    BY <1>1, <1>4 DEF DecidesOn
  <2>. QED BY <1>2, <2>1 DEF MemoryEffects
<1>. QED BY <1>3, <1>4 DEF MemoryEffects, DecidesOn, Decides, Placed

LEMMA NobodyDecides ==
  ASSUME MemoryCore, MemoryEffects, NEW w \in Worker, worker[w] # Idle, worker[w].pc # "save",
         Turn(w), ~Decides(worker[w]), NEW id \in CommandId, id = worker[w].req.id
  PROVE  Whole(id)
<1>1. ASSUME NEW v \in Worker, DecidesOn(v, id)
      PROVE  FALSE
  <2>1. Open(worker[v]) /\ v # w
    BY <1>1 DEF DecidesOn, Decides, Open
  <2>. QED BY <1>1, <2>1, OneOpen DEF MemoryCore, DecidesOn
<1>. QED BY <1>1 DEF MemoryEffects

LEMMA AppendingEffects ==
  ASSUME MemoryCore, MemoryEffects, NEW w \in Worker, NEW x, Appending(w, x)
  PROVE  MemoryEffects'
<1>. SUFFICES ASSUME NEW id, id = x.req.id, NEW c, c = x.req.cell
              PROVE  MemoryEffects'
  OBVIOUS
<1>1. /\ worker' = [worker EXCEPT ![w] = x] /\ x \in WorkerState /\ Grows(x) /\ ledger' = ledger
      /\ Decides(x) /\ Wrote(x) /\ ledger[id] = Absent /\ Len(x.loaded) = Len(rows[c])
      /\ worker[w] # Idle /\ worker[w].pc # "save" /\ Turn(w) /\ ~Decides(worker[w])
      /\ id = worker[w].req.id /\ id \in CommandId
  BY RequestAssumption DEF Appending, GoesOnAs, WorkerState
<1>2. \A v \in Worker : worker'[v] = IF v = w THEN x ELSE worker[v]
  BY <1>1 DEF MemoryCore, Typed
<1>3. Written(id) = {}
  BY <1>1, NobodyDecides DEF Whole
<1>4. /\ \A j : j # id => Written(j)' = Written(j)
      /\ Written(id)' = Written(id) \cup ({c} \X New(x))
  <2>1. Typed /\ x \in WorkerState /\ Wrote(x) /\ Grows(x)
    BY <1>1 DEF MemoryCore
  <2>. QED BY <2>1, GrownWrites
<1>5. Written(id)' = Placed(x)
  BY <1>1, <1>3, <1>4 DEF New, Placed
<1>6. ASSUME NEW v \in Worker, Decides(worker'[v]), NEW j, j = worker'[v].req.id
      PROVE  Written(j)' = Placed(worker'[v])
  <2>1. CASE v = w
    BY <1>2, <1>5, <1>6, <2>1
  <2>2. CASE v # w
    <3>1. worker'[v] = worker[v] /\ Decides(worker[v]) /\ Open(worker[v])
      BY <1>2, <1>6, <2>2 DEF Decides, Open
    <3>2. j # id
      BY <1>1, <1>6, <2>2, <3>1, OneOpen DEF MemoryCore
    <3>3. Written(j) = Placed(worker[v])
      BY <1>6, <3>1 DEF MemoryEffects
    <3>. QED BY <1>4, <3>1, <3>2, <3>3
  <2>. QED BY <2>1, <2>2
<1>7. ASSUME NEW j \in CommandId, \A v \in Worker : ~(Decides(worker'[v]) /\ worker'[v].req.id = j)
      PROVE  Whole(j)'
  <2>1. j # id
    BY <1>1, <1>2, <1>7
  <2>2. \A v \in Worker : ~DecidesOn(v, j)
    BY <1>1, <1>2, <1>7 DEF DecidesOn
  <2>3. Whole(j) /\ Written(j)' = Written(j) /\ ledger'[j] = ledger[j]
    BY <1>1, <1>4, <2>1, <2>2 DEF MemoryEffects
  <2>. QED BY <2>3 DEF Whole
<1>8. \A v \in Worker : Decides(worker'[v]) => Written(worker[v].req.id)' = Placed(worker'[v])
  <2>. SUFFICES ASSUME NEW v \in Worker, Decides(worker'[v]), NEW j, j = worker'[v].req.id
                PROVE  Written(j)' = Placed(worker'[v])
    BY DEF Written
  <2>. QED BY <1>6
<1>. QED BY <1>7, <1>8 DEF MemoryEffects, DecidesOn, Decides, Placed

LEMMA SettleEffects ==
  ASSUME Sentinels, MemoryCore, MemoryEffects, NEW w \in Worker, Settle(w)
  PROVE  MemoryEffects'
<1>. SUFFICES ASSUME NEW x, x = worker[w], NEW id, id = x.req.id
              PROVE  MemoryEffects'
  OBVIOUS
<1>. DEFINE saving == [x EXCEPT !.pc = "save"]
<1>1. /\ x \in WorkerState /\ x # Idle /\ x.pc = "commit" /\ Turn(w)
      /\ id \in CommandId /\ ledger[id] = Absent /\ MemoryOutcomes(x)
      /\ ledger' = [ledger EXCEPT ![id] = LedgerRowOf(x)]
      /\ author' = author
      /\ \/ worker' = [worker EXCEPT ![w] = saving]
         \/ worker' = [worker EXCEPT ![w] = Idle]
  BY SettleShape DEF Answer
<1>2. ~Decides(saving) /\ ~Decides(Idle)
  BY <1>1 DEF Decides, WorkerState, Idle
<1>. HIDE DEF saving
<1>3. \A v \in Worker : /\ v # w => worker'[v] = worker[v]
                        /\ Decides(worker'[v]) => v # w
  BY <1>1, <1>2 DEF MemoryCore, Typed
<1>4. /\ ledger'[id] = LedgerRowOf(x)
      /\ \A j \in CommandId : j # id => ledger'[j] = ledger[j]
  BY <1>1 DEF MemoryCore, Typed
<1>5. \A j : Written(j)' = Written(j)
  BY <1>1 DEF Written
<1>6. Whole(id)'
  <2>1. CASE x.outcome = "SUCCESS"
    <3>1. Decides(x) /\ HasDecided(x) /\ Wrote(x)
      BY <1>1, <2>1 DEF Decides, HasDecided, MemoryOutcomes
    <3>2. Written(id) = Placed(x)
      BY <3>1 DEF MemoryEffects
    <3>. QED BY <1>1, <1>4, <1>5, <2>1, <3>1, <3>2, RecordWhole
  <2>2. CASE x.outcome # "SUCCESS"
    <3>1. Whole(id)
      BY <1>1, <2>2, NobodyDecides DEF Decides
    <3>2. Written(id) = {}
      BY <1>1, <3>1 DEF Whole
    <3>. QED BY <1>1, <1>4, <1>5, <2>2, <3>2, RecordWhole
  <2>. QED BY <2>1, <2>2
<1>7. ASSUME NEW v \in Worker, Decides(worker'[v]), NEW j, j = worker'[v].req.id
      PROVE  Written(j)' = Placed(worker'[v])
  BY <1>3, <1>5, <1>7 DEF MemoryEffects
<1>8. ASSUME NEW j \in CommandId, \A v \in Worker : ~(Decides(worker'[v]) /\ worker'[v].req.id = j)
      PROVE  Whole(j)'
  <2>1. CASE j = id
    BY <1>6, <2>1
  <2>2. CASE j # id
    <3>1. \A v \in Worker : ~DecidesOn(v, j)
      BY <1>3, <1>8, <2>2 DEF DecidesOn
    <3>2. Whole(j) /\ Written(j)' = Written(j) /\ ledger'[j] = ledger[j]
      BY <1>4, <1>5, <2>2, <3>1 DEF MemoryEffects
    <3>. QED BY <3>2 DEF Whole
  <2>. QED BY <2>1, <2>2
<1>9. \A v \in Worker : Decides(worker'[v]) => Written(worker[v].req.id)' = Placed(worker'[v])
  <2>. SUFFICES ASSUME NEW v \in Worker, Decides(worker'[v]), NEW j, j = worker'[v].req.id
                PROVE  Written(j)' = Placed(worker'[v])
    BY DEF Written
  <2>. QED BY <1>7
<1>. QED BY <1>8, <1>9 DEF MemoryEffects, DecidesOn, Decides, Placed

-----------------------------------------------------------------------------
(* Receipts: had before the events that need them, and kept.                 *)
LEMMA ClaimingReceipts ==
  ASSUME Sentinels, MemoryCore, FundingsHaveReceipts, NEW w \in Worker, NEW x, Claiming(w, x)
  PROVE  FundingsHaveReceipts'
<1>. DEFINE new == ReceiptOf(x)
<1>1. /\ x \in WorkerState /\ x.req.cell \in Cell /\ rows' = rows /\ author' = author
      /\ receipt[x.req.cell] = Absent
      /\ \A c \in Cell : receipt[c] # Absent => receipt[c].tx # x.req.tx
      /\ receipt' = [receipt EXCEPT ![x.req.cell] = new]
      /\ new.tx = x.req.tx
  BY RequestAssumption DEF Claiming, GoesOnAs, WorkerState, ReceiptOf
<1>. HIDE DEF new
<1>2. \A c \in Cell : receipt'[c] = IF c = x.req.cell THEN new ELSE receipt[c]
  BY <1>1 DEF MemoryCore, Typed
<1>3. ASSUME NEW c \in Cell, NEW v \in DOMAIN rows'[c], rows'[c][v].type = "CellFunded"
      PROVE  receipt'[c] # Absent /\ receipt'[c].id = author'[c][v]
  <2>1. receipt[c] # Absent /\ receipt[c].id = author[c][v]
    BY <1>1, <1>3 DEF FundingsHaveReceipts
  <2>. QED BY <1>1, <1>2, <2>1
<1>4. ASSUME NEW c \in Cell, NEW d \in Cell, receipt'[c] # Absent, receipt'[d] # Absent,
             receipt'[c].tx = receipt'[d].tx
      PROVE  c = d
  BY <1>1, <1>2, <1>4 DEF FundingsHaveReceipts
<1>. QED BY <1>3, <1>4 DEF FundingsHaveReceipts

LEMMA AppendingReceipts ==
  ASSUME Sentinels, MemoryCore, FundingsHaveReceipts, NEW w \in Worker, NEW x, Appending(w, x)
  PROVE  FundingsHaveReceipts'
<1>. SUFFICES ASSUME NEW k, k = x.req.cell
              PROVE  FundingsHaveReceipts'
  OBVIOUS
<1>1. /\ Typed /\ x \in WorkerState /\ Wrote(x) /\ Grows(x) /\ receipt' = receipt
      /\ x.req.command.type = "FundCell" => receipt[k] = ReceiptOf(x)
  BY DEF MemoryCore, Appending, GoesOnAs
<1>2. /\ k \in Cell /\ DOMAIN rows[k] = DOMAIN author[k] /\ DOMAIN rows'[k] = DOMAIN author'[k]
      /\ DOMAIN author'[k] = DOMAIN author[k] \cup New(x)
      /\ \A v \in DOMAIN author[k] : author'[k][v] = author[k][v] /\ rows'[k][v] = rows[k][v]
      /\ \A v \in New(x) :
           /\ author'[k][v] = x.req.id
           /\ rows'[k][v].type = "CellFunded" <=> x.req.command.type = "FundCell"
      /\ \A d \in Cell \ {k} : author'[d] = author[d] /\ rows'[d] = rows[d]
  BY <1>1, GrownAuthors
<1>3. ASSUME NEW c \in Cell, NEW v \in DOMAIN rows'[c], rows'[c][v].type = "CellFunded"
      PROVE  receipt[c] # Absent /\ receipt[c].id = author'[c][v]
  <2>1. CASE c = k /\ v \in New(x)
    <3>1. x.req.command.type = "FundCell" /\ author'[k][v] = x.req.id
      BY <1>2, <1>3, <2>1
    <3>. QED BY <1>1, <2>1, <3>1, ReceiptPresent DEF ReceiptOf
  <2>2. CASE c # k \/ v \notin New(x)
    <3>1. v \in DOMAIN rows[c] /\ rows[c][v] = rows'[c][v] /\ author[c][v] = author'[c][v]
      BY <1>2, <1>3, <2>2
    <3>. QED BY <1>3, <3>1 DEF FundingsHaveReceipts
  <2>. QED BY <2>1, <2>2
<1>. QED BY <1>1, <1>3 DEF FundingsHaveReceipts

-----------------------------------------------------------------------------
(* Answers: a record says what its request was told, a failure included.     *)
MemoryLedger ==
  \A id \in CommandId : ledger[id] # Absent =>
    /\ ledger[id].fingerprint[1].id = id
    /\ ledger[id].result.outcome # "IDEMPOTENCY_CONFLICT"
MemoryAnswers == MemoryLedger /\ \A a \in replies : Backed(a)

LEMMA MemoryAnswersKept ==
  ASSUME Sentinels, MemoryAnswers, NothingUndone, MemoryLedger',
         \A a \in replies' \ replies : Backed(a)'
  PROVE  MemoryAnswers'
<1>1. ASSUME NEW a \in replies
      PROVE  Backed(a)'
  <2>1. Backed(a) /\ a \in LedgerRow
    BY DEF MemoryAnswers, Backed
  <2>2. a.fingerprint[1].id \in CommandId
    BY <2>1, RequestAssumption DEF LedgerRow
  <2>3. ledger[a.fingerprint[1].id] # Absent
    BY <2>1 DEF Backed, Sentinels
  <2>4. ledger'[a.fingerprint[1].id] = ledger[a.fingerprint[1].id]
    BY <2>2, <2>3 DEF NothingUndone
  <2>. QED BY <2>1, <2>4 DEF Backed
<1>. QED BY <1>1 DEF MemoryAnswers

LEMMA LookUpAnswers ==
  ASSUME MemoryCore, MemoryAnswers, NEW w \in Worker, LookUp(w),
         NEW a \in replies', a \notin replies
  PROVE  Backed(a)'
<1>. DEFINE x == worker[w]
            fp == Fingerprint(x.req, x.now)
            row == ledger[x.req.id]
<1>1. x.pc = "begin" /\ ledger' = ledger
  BY DEF LookUp, tables
<1>2. x \in WorkerState /\ x.req.id \in CommandId
  BY <1>1, MemoryOpen DEF MemoryCore
<1>3. /\ row # Absent
      /\ \/ row.fingerprint = fp /\ a = [fingerprint |-> fp, result |-> row.result]
         \/ row.fingerprint # fp
            /\ a = [fingerprint |-> fp, result |-> [outcome |-> "IDEMPOTENCY_CONFLICT", version |-> 0]]
  BY DEF LookUp, Answer, IdOf
<1>4. row \in LedgerRow /\ row.result.outcome # "IDEMPOTENCY_CONFLICT"
  BY <1>2, <1>3 DEF MemoryCore, Typed, MemoryAnswers, MemoryLedger
<1>5. ledger'[x.req.id] = row
  BY <1>1
<1>. HIDE DEF row
<1>. QED BY <1>2, <1>3, <1>4, <1>5, RecordReplays

LEMMA SettleAnswers ==
  ASSUME Sentinels, MemoryCore, MemoryAnswers, NEW w \in Worker, Settle(w)
  PROVE  MemoryLedger' /\ \A a \in replies' \ replies : Backed(a)'
<1>. SUFFICES ASSUME NEW x, x = worker[w], NEW id, id = x.req.id
              PROVE  MemoryLedger' /\ \A a \in replies' \ replies : Backed(a)'
  OBVIOUS
<1>1. /\ x \in WorkerState /\ x.pc = "commit" /\ id \in CommandId /\ MemoryOutcomes(x)
      /\ ledger' = [ledger EXCEPT ![id] = LedgerRowOf(x)]
      /\ replies' = replies \/ Answer(w, ResultOf(w))
  BY SettleShape
<1>2. x.outcome # "IDEMPOTENCY_CONFLICT"
  BY <1>1 DEF MemoryOutcomes, Rejected
<1>3. /\ ledger'[id] = LedgerRowOf(x)
      /\ \A j \in CommandId : j # id => ledger'[j] = ledger[j]
  BY <1>1 DEF MemoryCore, Typed
<1>4. LedgerRowOf(x).fingerprint[1] = x.req /\ LedgerRowOf(x).result.outcome = x.outcome
  BY <1>1, FingerprintOf DEF LedgerRowOf
<1>5. MemoryLedger'
  BY <1>2, <1>3, <1>4 DEF MemoryAnswers, MemoryLedger
<1>6. ASSUME NEW a \in replies' \ replies
      PROVE  Backed(a)'
  <2>1. a = LedgerRowOf(x)
    BY <1>1, <1>6 DEF Answer, LedgerRowOf, ResultOf
  <2>. QED BY <1>1, <1>2, <1>3, <2>1, RecordAnswers
<1>. QED BY <1>5, <1>6

LEMMA SaveAnswers ==
  ASSUME MemoryCore, NEW w \in Worker, Save(w), NEW a \in replies', a \notin replies
  PROVE  Backed(a)'
<1>. SUFFICES ASSUME NEW x, x = worker[w]
              PROVE  Backed(a)'
  OBVIOUS
<1>1. x.pc = "save" /\ ledger' = ledger
  BY DEF Save, tables
<1>2. /\ x \in WorkerState /\ x # Idle /\ MemoryOutcomes(x) /\ MemoryKnows(x)
  BY <1>1, Busy DEF MemoryCore, MemoryRequests, WellKnown
<1>3. a = LedgerRowOf(x)
  BY DEF Save, Answer, LedgerRowOf, ResultOf
<1>. QED BY <1>1, <1>2, <1>3, RecordAnswers DEF MemoryOutcomes, MemoryKnows

-----------------------------------------------------------------------------
(* The disputes and the reversals.  Versions tell the observations of one    *)
(* dispute apart, so one of them is the latest; so is one disposition of a    *)
(* reversal, and its version is their number.                                *)
Latest(o) ==
  /\ o \in observations
  /\ \A q \in observations : q.dispute = o.dispute => q.version <= o.version
EvidenceInv ==
  /\ observations \subseteq Reports /\ negatives \subseteq Cell
  /\ dispositions \in [Cell -> SUBSET Findings]
  /\ \A o, q \in observations : q.dispute = o.dispute =>
       q.cell = o.cell /\ (q.version = o.version => q = o)
  /\ \A o \in observations : \E l \in observations : Latest(l) /\ l.dispute = o.dispute
  /\ \A c \in Cell : LET D == dispositions[c] IN
       /\ IsFiniteSet(D)
       /\ \A d \in D : d.version \in 1 .. Cardinality(D)
       /\ D # {} => \E d \in D : d.version = Cardinality(D)

LEMMA RecordEvidence ==
  ASSUME ReportsAssumption, EvidenceInv, NEW o \in Reports, Record(o)
  PROVE  EvidenceInv'
<1>1. /\ observations' = observations \cup {o} /\ negatives' = negatives
      /\ dispositions' = dispositions
      /\ \A q \in observations : q.dispute = o.dispute => q.cell = o.cell /\ q.version # o.version
  BY DEF Record
<1>2. observations \subseteq Reports /\ \A q \in Reports : q.version \in Nat
  BY DEF EvidenceInv, ReportsAssumption
<1>3. ASSUME NEW p \in observations', NEW q \in observations', q.dispute = p.dispute
      PROVE  q.cell = p.cell /\ (q.version = p.version => q = p)
  BY <1>1, <1>3 DEF EvidenceInv
<1>4. ASSUME NEW p \in observations'
      PROVE  \E l \in observations' :
               /\ l.dispute = p.dispute
               /\ \A q \in observations' : q.dispute = l.dispute => q.version <= l.version
  <2>1. CASE \A q \in observations : q.dispute = p.dispute => q.version <= o.version
    <3>1. CASE p.dispute = o.dispute
      <4>1. o.version <= o.version
        BY <1>2
      <4>. QED BY <1>1, <2>1, <3>1, <4>1
    <3>2. CASE p.dispute # o.dispute
      <4>1. p \in observations
        BY <1>1, <3>2
      <4>2. PICK l \in observations : Latest(l) /\ l.dispute = p.dispute
        BY <4>1 DEF EvidenceInv
      <4>. QED BY <1>1, <3>2, <4>2 DEF Latest
    <3>. QED BY <3>1, <3>2
  <2>2. CASE \E q \in observations : q.dispute = p.dispute /\ ~(q.version <= o.version)
    <3>1. PICK q \in observations : q.dispute = p.dispute /\ ~(q.version <= o.version)
      BY <2>2
    <3>2. PICK l \in observations : Latest(l) /\ l.dispute = p.dispute
      BY <3>1 DEF EvidenceInv
    <3>3. q.version <= l.version
      BY <3>1, <3>2 DEF Latest
    <3>4. o.version <= l.version
      BY <1>2, <3>1, <3>2, <3>3
    <3>. QED BY <1>1, <3>2, <3>4 DEF Latest
  <2>. QED BY <2>1, <2>2
<1>. QED BY <1>1, <1>2, <1>3, <1>4 DEF EvidenceInv, Latest

LEMMA DispositionEvidence ==
  ASSUME EvidenceInv, NEW c \in Cell, NEW d \in Findings, AppendNegativeDisposition(c, d)
  PROVE  EvidenceInv'
<1>. DEFINE D == dispositions[c]
            E == D \cup {d}
            n == Cardinality(D)
<1>1. /\ dispositions' = [dispositions EXCEPT ![c] = E] /\ d.version = n + 1
      /\ observations' = observations /\ negatives' = negatives
  BY DEF AppendNegativeDisposition
<1>2. /\ dispositions \in [Cell -> SUBSET Findings] /\ IsFiniteSet(D)
      /\ \A e \in D : e.version \in 1 .. n
  BY DEF EvidenceInv
<1>3. n \in Nat
  BY <1>2, FS_CardinalityType
<1>. HIDE DEF n
<1>4. d \notin D
  BY <1>1, <1>2, <1>3
<1>5. IsFiniteSet(E) /\ Cardinality(E) = n + 1
  BY <1>2, <1>4, FS_AddElement DEF n
<1>6. \A e \in E : e.version \in 1 .. n + 1
  BY <1>1, <1>2, <1>3
<1>7. dispositions'[c] = E /\ \A k \in Cell \ {c} : dispositions'[k] = dispositions[k]
  BY <1>1, <1>2
<1>8. dispositions' \in [Cell -> SUBSET Findings]
  BY <1>1, <1>2
<1>9. ASSUME NEW k \in Cell
      PROVE  LET F == dispositions'[k] IN
             /\ IsFiniteSet(F)
             /\ \A e \in F : e.version \in 1 .. Cardinality(F)
             /\ F # {} => \E e \in F : e.version = Cardinality(F)
  <2>1. CASE k = c
    <3>1. d \in E
      OBVIOUS
    <3>. HIDE DEF E
    <3>. QED BY <1>1, <1>5, <1>6, <1>7, <2>1, <3>1
  <2>2. CASE k # c
    <3>1. dispositions'[k] = dispositions[k]
      BY <1>7, <2>2
    <3>. QED BY <3>1 DEF EvidenceInv
  <2>. QED BY <2>1, <2>2
<1>10. observations' \subseteq Reports /\ negatives' \subseteq Cell
  BY <1>1 DEF EvidenceInv
<1>. HIDE DEF D, E
<1>11. /\ \A o, q \in observations' : q.dispute = o.dispute =>
            q.cell = o.cell /\ (q.version = o.version => q = o)
       /\ \A o \in observations' : \E l \in observations' :
            Latest(l)' /\ l.dispute = o.dispute
  BY <1>1 DEF EvidenceInv, Latest
<1>. QED BY <1>8, <1>9, <1>10, <1>11 DEF EvidenceInv

LEMMA EvidenceKept ==
  ASSUME EvidenceInv,
         \/ UNCHANGED evidence
         \/ \E c \in Cell : AppendNegativeObservation(c)
  PROVE  EvidenceInv'
<1>1. /\ observations' = observations /\ dispositions' = dispositions
      /\ negatives' \subseteq negatives \cup Cell
  BY DEF evidence, AppendNegativeObservation
<1>. QED BY <1>1 DEF EvidenceInv, Latest

(* What PostgreSQL's queries find in the same evidence: the latest            *)
(* observation of each dispute of the cell, and whether the last disposition  *)
(* of its reversal clears it.                                                *)
LEMMA LatestFound ==
  ASSUME ReportsAssumption, EvidenceInv, NEW c \in Cell, NEW l, Latest(l), l.cell = c
  PROVE  InPostgres(c)!LatestObservation(l.dispute) = l
<1>. DEFINE P == {o \in observations : o.cell = c}
            top(o) == \A p \in P : p.dispute = l.dispute => p.version <= o.version
            S == {p \in P : p.dispute = l.dispute}
<1>1. InPostgres(c)!LatestObservation(l.dispute) = CHOOSE o \in S : top(o)
  BY DEF InPostgres!LatestObservation
<1>2. l \in S /\ top(l)
  BY DEF Latest
<1>3. ASSUME NEW o \in S, top(o)
      PROVE  o = l
  <2>1. o \in observations /\ o.dispute = l.dispute /\ l \in observations
    BY DEF Latest
  <2>2. o.version <= l.version /\ l.version <= o.version
    BY <1>2, <1>3, <2>1 DEF Latest
  <2>3. o.version \in Nat /\ l.version \in Nat
    BY <2>1 DEF EvidenceInv, ReportsAssumption
  <2>4. o.version = l.version
    BY <2>2, <2>3
  <2>. QED BY <2>1, <2>4 DEF EvidenceInv
<1>4. (CHOOSE o \in S : top(o)) = l
  <2>. HIDE DEF S, top
  <2>1. \A o : o \in S /\ top(o) <=> o = l
    BY <1>2, <1>3
  <2>. QED BY <2>1
<1>. QED BY <1>1, <1>4

LEMMA LastVersion ==
  ASSUME EvidenceInv, NEW c \in Cell
  PROVE  InPostgres(c)!LatestVersion(c) = Cardinality(dispositions[c])
<1>. DEFINE D == dispositions[c]
            n == Cardinality(D)
            V == {0} \cup {d.version : d \in D}
<1>1. InPostgres(c)!LatestVersion(c) = InPostgres(c)!Max(V)
  <2>. DEFINE copy(d) == [negative |-> c, version |-> d.version, status |-> d.status,
                          outcome |-> d.outcome]
  <2>1. \A d \in D : copy(d).negative = c /\ copy(d).version = d.version
    OBVIOUS
  <2>2. InPostgres(c)!Series(c) = {e \in {copy(d) : d \in D} : e.negative = c}
    BY DEF InPostgres!Series
  <2>. HIDE DEF copy
  <2>3. {e.version : e \in InPostgres(c)!Series(c)} = {d.version : d \in D}
    BY <2>1, <2>2
  <2>. QED BY <2>3 DEF InPostgres!LatestVersion
<1>2. n \in Nat /\ (D = {} => n = 0) /\ \A v \in V : v \in Nat /\ v <= n
  BY FS_CardinalityType, FS_EmptySet DEF EvidenceInv
<1>3. n \in V
  BY <1>2 DEF EvidenceInv
<1>. HIDE DEF n, V
<1>4. (CHOOSE x \in V : \A y \in V : x >= y) = n
  <2>1. \A x \in V : (\A y \in V : x >= y) <=> x = n
    BY <1>2, <1>3
  <2>. QED BY <1>3, <2>1
<1>. QED BY <1>1, <1>4 DEF InPostgres!Max, n

LEMMA ClearedAlike ==
  ASSUME EvidenceInv, NEW c \in Cell
  PROVE  InPostgres(c)!Cleared(c) <=>
           \E d \in dispositions[c] :
             (\A e \in dispositions[c] : e.version <= d.version) /\ Lifts(d)
<1>. DEFINE D == dispositions[c]
            n == Cardinality(D)
            copy(d) == [negative |-> c, version |-> d.version, status |-> d.status,
                        outcome |-> d.outcome]
            clears(e) == /\ e.version = n
                         /\ e.status \in {"RESOLVED", "CLOSED"} /\ e.outcome = "FUNDS_RETAINED"
<1>1. \A d \in D : /\ copy(d).negative = c /\ copy(d).version = d.version
                   /\ copy(d).status = d.status /\ copy(d).outcome = d.outcome
  OBVIOUS
<1>2. InPostgres(c)!Series(c) = {e \in {copy(d) : d \in D} : e.negative = c}
  BY DEF InPostgres!Series
<1>3. InPostgres(c)!Cleared(c) <=> \E e \in InPostgres(c)!Series(c) : clears(e)
  BY LastVersion DEF InPostgres!Cleared
<1>. HIDE DEF copy
<1>4. InPostgres(c)!Cleared(c) <=> \E d \in D : d.version = n /\ Lifts(d)
  BY <1>1, <1>2, <1>3 DEF Lifts
<1>5. \A d \in D : d.version = n <=> \A e \in D : e.version <= d.version
  <2>1. n \in Nat /\ \A e \in D : e.version \in Nat /\ e.version <= n
    BY FS_CardinalityType DEF EvidenceInv
  <2>2. D # {} => \E e \in D : e.version = n
    BY DEF EvidenceInv
  <2>. HIDE DEF D, n
  <2>. QED BY <2>1, <2>2
<1>. QED BY <1>4, <1>5

LEMMA DisputesAlike ==
  ASSUME ReportsAssumption, EvidenceInv, NEW c \in Cell
  PROVE  HasBlockingDispute(c) <=>
           \E o \in {p \in observations : p.cell = c} :
             InPostgres(c)!IsBlocking(InPostgres(c)!LatestObservation(o.dispute).outcome)
<1>1. ASSUME HasBlockingDispute(c)
      PROVE  \E o \in {p \in observations : p.cell = c} :
               InPostgres(c)!IsBlocking(InPostgres(c)!LatestObservation(o.dispute).outcome)
  <2>1. PICK o \in observations :
          o.cell = c /\ IsBlockingFundingDispute(o.outcome) /\ Latest(o)
    BY <1>1 DEF HasBlockingDispute, Latest
  <2>2. InPostgres(c)!LatestObservation(o.dispute) = o
    BY <2>1, LatestFound
  <2>. QED BY <2>1, <2>2 DEF InPostgres!IsBlocking, IsBlockingFundingDispute
<1>2. ASSUME NEW o \in {p \in observations : p.cell = c},
             InPostgres(c)!IsBlocking(InPostgres(c)!LatestObservation(o.dispute).outcome)
      PROVE  HasBlockingDispute(c)
  <2>1. PICK l \in observations : Latest(l) /\ l.dispute = o.dispute
    BY DEF EvidenceInv
  <2>2. l.cell = c
    BY <2>1 DEF EvidenceInv
  <2>3. InPostgres(c)!LatestObservation(o.dispute) = l
    BY <2>1, <2>2, LatestFound
  <2>4. IsBlockingFundingDispute(l.outcome)
    BY <1>2, <2>3 DEF InPostgres!IsBlocking, IsBlockingFundingDispute
  <2>. QED BY <2>1, <2>2, <2>4 DEF HasBlockingDispute, Latest
<1>. QED BY <1>1, <1>2

LEMMA EvidenceBlocksAlike ==
  ASSUME ReportsAssumption, EvidenceInv
  PROVE  BlockedAlike
<1>. SUFFICES ASSUME NEW c \in Cell
              PROVE  Blocked(c) <=> InPostgres(c)!HasBlockingDispute
  BY DEF BlockedAlike
<1>1. InPostgres(c)!HasBlockingDispute <=>
        \/ \E o \in {p \in observations : p.cell = c} :
             InPostgres(c)!IsBlocking(InPostgres(c)!LatestObservation(o.dispute).outcome)
        \/ c \in negatives /\ ~InPostgres(c)!Cleared(c)
  <2>1. \A n : n \in negatives \cap {c} <=> c \in negatives /\ n = c
    OBVIOUS
  <2>2. InPostgres(c)!HasBlockingDispute <=>
          \/ \E o \in {p \in observations : p.cell = c} :
               InPostgres(c)!IsBlocking(InPostgres(c)!LatestObservation(o.dispute).outcome)
          \/ \E n \in negatives \cap {c} : ~InPostgres(c)!Cleared(n)
    BY DEF InPostgres!HasBlockingDispute
  <2>. QED BY <2>1, <2>2
<1>2. HasBlockingNegativeForCell(c) <=> c \in negatives /\ ~InPostgres(c)!Cleared(c)
  BY ClearedAlike DEF HasBlockingNegativeForCell
<1>. QED BY <1>1, <1>2, DisputesAlike DEF Blocked

-----------------------------------------------------------------------------
(* The inductive invariant of the commands in memory.                        *)
MemoryCommands ==
  MemoryCore /\ SnapshotsInv /\ MemoryEffects /\ FundingsHaveReceipts /\ MemoryAnswers
MemoryInv == MemoryCommands /\ EvidenceInv /\ negative \in [Cell -> Negative]

LEMMA SameReceipts ==
  ASSUME FundingsHaveReceipts, UNCHANGED <<rows, author, receipt>>
  PROVE  FundingsHaveReceipts'
BY DEF FundingsHaveReceipts

LEMMA SameAnswers ==
  ASSUME Sentinels, MemoryAnswers, NothingUndone, ledger' = ledger,
         \A a \in replies' \ replies : Backed(a)'
  PROVE  MemoryAnswers'
<1>1. MemoryLedger'
  BY DEF MemoryAnswers, MemoryLedger
<1>. QED BY <1>1, MemoryAnswersKept

(* A step up to the next await.                                              *)
LEMMA AwaitStep ==
  ASSUME WellFormed, Sentinels, MemoryCommands, NEW w \in Worker,
         LookUp(w) \/ GetEvents(w) \/ CheckBlocked(w) \/ Claim(w) \/ AppendBatch(w)
  PROVE  MemoryCommands'
<1>0. /\ MemoryCore /\ Typed /\ Queued /\ MemoryRequests /\ StreamsInv /\ SnapshotsInv
      /\ MemoryEffects /\ FundingsHaveReceipts /\ MemoryAnswers
  BY DEF MemoryCommands, MemoryCore
<1>1. snapshot' = snapshot /\ ledger' = ledger
  BY DEF LookUp, GetEvents, LoadCell, CheckBlocked, Claim, AppendBatch, tables
<1>2. \A a \in replies' \ replies : Backed(a)'
  <2>1. replies' = replies \/ LookUp(w)
    BY DEF GetEvents, LoadCell, CheckBlocked, Claim, AppendBatch
  <2>. QED BY <1>0, <2>1, LookUpAnswers
<1>3. \/ \E x : Quietly(w, x) \/ Claiming(w, x) \/ Appending(w, x)
      \/ /\ LookUp(w) /\ worker' = [worker EXCEPT ![w] = Idle]
         /\ Left(w) /\ UNCHANGED tables
  BY <1>0, LookUpMoves, GetEventsMoves, CheckBlockedMoves, ClaimMoves, AppendBatchMoves
<1>4. SUFFICES CoreKept /\ MemoryEffects' /\ FundingsHaveReceipts'
  <2>1. ASSUME CoreKept, MemoryEffects', FundingsHaveReceipts'
        PROVE  MemoryCommands'
    <3>1. SnapshotsInv'
      BY <1>0, <1>1, <2>1, SnapshotsKept DEF CoreKept, NothingUndone
    <3>2. MemoryAnswers'
      BY <1>0, <1>1, <1>2, <2>1, SameAnswers DEF CoreKept
    <3>. QED BY <2>1, <3>1, <3>2 DEF MemoryCommands, CoreKept
  <2>. QED BY <2>1
<1>5. ASSUME NEW x, Quietly(w, x)
      PROVE  CoreKept /\ MemoryEffects' /\ FundingsHaveReceipts'
  <2>1. /\ worker' = [worker EXCEPT ![w] = x] /\ ~Decides(worker[w]) /\ ~Decides(x)
        /\ UNCHANGED <<rows, ledger, receipt, author>>
    BY <1>5 DEF Quietly, GoesOnAs, tables
  <2>. QED BY <1>0, <1>5, <2>1, QuietlyKept, EffectsKept, SameReceipts
<1>6. ASSUME NEW x, Claiming(w, x)
      PROVE  CoreKept /\ MemoryEffects' /\ FundingsHaveReceipts'
  <2>1. /\ worker' = [worker EXCEPT ![w] = x] /\ ~Decides(worker[w]) /\ ~Decides(x)
        /\ UNCHANGED <<ledger, author>>
    BY <1>6 DEF Claiming, GoesOnAs
  <2>. QED BY <1>0, <1>6, <2>1, ClaimingKept, EffectsKept, ClaimingReceipts
<1>7. ASSUME NEW x, Appending(w, x)
      PROVE  CoreKept /\ MemoryEffects' /\ FundingsHaveReceipts'
  BY <1>0, <1>7, AppendingKept, AppendingEffects, AppendingReceipts
<1>8. ASSUME LookUp(w), worker' = [worker EXCEPT ![w] = Idle], Left(w), UNCHANGED tables
      PROVE  CoreKept /\ MemoryEffects' /\ FundingsHaveReceipts'
  <2>1. /\ worker[w].pc = "begin" /\ Turn(w) /\ ~Decides(worker[w]) /\ ~Decides(Idle)
        /\ worker[w] # Idle /\ UNCHANGED <<rows, ledger, receipt, author>>
    BY <1>8 DEF LookUp, Decides, Idle, tables
  <2>2. Queued'
    BY <1>0, <1>8, <2>1, QueueMovesUp
  <2>. QED BY <1>0, <1>8, <2>1, <2>2, AnsweredKept, EffectsKept, SameReceipts
<1>. QED BY <1>3, <1>5, <1>6, <1>7, <1>8

LEMMA EndStep ==
  ASSUME WellFormed, Sentinels, MemoryCommands, NEW w \in Worker, Settle(w) \/ Save(w)
  PROVE  MemoryCommands'
<1>0. /\ MemoryCore /\ Typed /\ Queued /\ MemoryRequests /\ StreamsInv /\ SnapshotsInv
      /\ MemoryEffects /\ FundingsHaveReceipts /\ MemoryAnswers
  BY DEF MemoryCommands, MemoryCore
<1>1. CASE Settle(w)
  <2>1. UNCHANGED <<rows, author, receipt>> /\ snapshot' = snapshot
    BY <1>1 DEF Settle
  <2>2. CoreKept /\ MemoryEffects' /\ FundingsHaveReceipts'
    BY <1>0, <1>1, <2>1, SettleKept, SettleEffects, SameReceipts
  <2>3. SnapshotsInv'
    BY <1>0, <2>1, <2>2, SnapshotsKept DEF CoreKept, NothingUndone
  <2>4. MemoryAnswers'
    BY <1>0, <1>1, <2>2, SettleAnswers, MemoryAnswersKept DEF CoreKept
  <2>. QED BY <2>2, <2>3, <2>4 DEF MemoryCommands, CoreKept
<1>2. CASE Save(w)
  <2>1. /\ worker[w].pc = "save" /\ worker' = [worker EXCEPT ![w] = Idle] /\ tails' = tails
        /\ UNCHANGED tables /\ UNCHANGED <<rows, ledger, receipt, author>>
        /\ snapshot' = [snapshot EXCEPT ![CellOf(w)] =
                         [version |-> ResultOf(w).version, state |-> NextState(w)]]
    BY <1>2 DEF Save, Answer, tables, StateSaved
  <2>2. /\ worker[w] \in WorkerState /\ worker[w] # Idle /\ worker[w].outcome = "SUCCESS"
        /\ Faithful(worker[w])
    BY <1>0, <2>1, Busy DEF MemoryRequests, WellKnown, MemoryOutcomes
  <2>3. Queued'
    BY <1>0, <2>1, QueueKept
  <2>4. ~Decides(worker[w]) /\ ~Decides(Idle)
    BY <2>1 DEF Decides, Idle
  <2>5. CoreKept /\ MemoryEffects' /\ FundingsHaveReceipts'
    BY <1>0, <2>1, <2>3, <2>4, AnsweredKept, EffectsKept, SameReceipts
  <2>6. SnapshotsInv'
    BY <1>0, <2>1, <2>2, SnapshotSaved
  <2>7. MemoryAnswers'
    BY <1>0, <1>2, <2>1, <2>5, SaveAnswers, SameAnswers DEF CoreKept
  <2>. QED BY <2>5, <2>6, <2>7 DEF MemoryCommands, CoreKept
<1>. QED BY <1>1, <1>2

LEMMA ArrivalStep ==
  ASSUME WellFormed, Sentinels, MemoryCommands, NEW w \in Worker, NEW r \in Requests,
         NEW now \in Time, Execute(w, r, now)
  PROVE  MemoryCommands'
<1>0. /\ MemoryCore /\ Typed /\ SnapshotsInv
      /\ MemoryEffects /\ FundingsHaveReceipts /\ MemoryAnswers
  BY DEF MemoryCommands, MemoryCore
<1>1. CoreKept /\ UNCHANGED <<ledger, author, snapshot, replies>>
  BY <1>0, ExecuteKept
<1>2. MemoryEffects'
  <2>1. worker' = [worker EXCEPT ![w] = Received(r, now)] /\ worker[w].pc = "idle"
    BY DEF Execute, Receive
  <2>2. ~Decides(worker[w]) /\ ~Decides(Received(r, now))
    BY <2>1 DEF Decides, Received
  <2>. QED BY <1>0, <1>1, <2>1, <2>2, EffectsKept
<1>3. FundingsHaveReceipts'
  BY <1>0, SameReceipts DEF Execute, Receive, tables
<1>4. SnapshotsInv'
  BY <1>0, <1>1, SnapshotsKept DEF CoreKept, NothingUndone
<1>5. MemoryAnswers'
  BY <1>0, <1>1, SameAnswers DEF CoreKept
<1>. QED BY <1>1, <1>2, <1>3, <1>4, <1>5 DEF MemoryCommands, CoreKept

(* Evidence arrives, or nothing happens.                                     *)
LEMMA OutsideStep ==
  ASSUME WellFormed, Sentinels, MemoryCommands, UNCHANGED <<vars, tails>>
  PROVE  MemoryCommands'
<1>0. /\ MemoryCore /\ Typed /\ Queued /\ MemoryRequests /\ StreamsInv /\ SnapshotsInv
      /\ MemoryEffects /\ FundingsHaveReceipts /\ MemoryAnswers
  BY DEF MemoryCommands, MemoryCore
<1>1. /\ UNCHANGED tables /\ UNCHANGED <<rows, ledger, receipt, author>>
      /\ worker' = worker /\ tails' = tails /\ snapshot' = snapshot /\ replies' = replies
  BY DEF vars, tables
<1>2. NothingUndone
  <2>1. worker' \in [Worker -> {Idle} \cup WorkerState]
    BY <1>0, <1>1 DEF Typed
  <2>. QED BY <1>0, <1>1, <2>1, SameTables
<1>3. Queued'
  BY <1>0, <1>1 DEF Queued
<1>4. MemoryRequests'
  BY <1>0, <1>1, <1>2, StillKnown DEF MemoryRequests
<1>5. MemoryCore'
  BY <1>0, <1>1, <1>2, <1>3, <1>4, SameStreams DEF MemoryCore, NothingUndone
<1>6. MemoryEffects'
  <2>1. \A id : Written(id)' = Written(id) /\ Whole(id)' = Whole(id)
    BY <1>1 DEF Written, Whole
  <2>2. \A v \in Worker : Decides(worker'[v]) => Written(worker[v].req.id)' = Placed(worker'[v])
    BY <1>0, <1>1 DEF MemoryEffects, Written
  <2>3. \A id \in CommandId :
          (\A v \in Worker : ~(Decides(worker'[v]) /\ worker'[v].req.id = id)) => Whole(id)'
    BY <1>0, <1>1, <2>1 DEF MemoryEffects, DecidesOn
  <2>. QED BY <2>2, <2>3 DEF MemoryEffects, DecidesOn, Decides, Placed
<1>7. FundingsHaveReceipts' /\ SnapshotsInv' /\ MemoryAnswers'
  BY <1>0, <1>1, <1>2, SameReceipts, SnapshotsKept, SameAnswers DEF NothingUndone
<1>. QED BY <1>5, <1>6, <1>7 DEF MemoryCommands

LEMMA MemoryInvStep ==
  ASSUME WellFormed, Sentinels, ReportsAssumption, MemoryInv, [MemoryNext]_memory
  PROVE  MemoryInv'
<1>0. MemoryCommands /\ EvidenceInv
  BY DEF MemoryInv
<1>1. ASSUME NEW w \in Worker, NEW r \in Requests, NEW now \in Time, Execute(w, r, now)
      PROVE  MemoryCommands' /\ UNCHANGED evidence
  BY <1>0, <1>1, ArrivalStep DEF Execute
<1>2. ASSUME NEW w \in Worker, MemoryStep(w)
      PROVE  MemoryCommands' /\ UNCHANGED evidence
  <2>1. MemoryCommands'
    BY <1>0, <1>2, AwaitStep, EndStep DEF MemoryStep
  <2>2. UNCHANGED evidence
    BY <1>2 DEF MemoryStep, LookUp, GetEvents, CheckBlocked, Claim, AppendBatch, Settle, Save, evidence
  <2>. QED BY <2>1, <2>2
<1>3. ASSUME \/ UNCHANGED memory
             \/ \E o \in Reports : Record(o)
             \/ \E c \in Cell : AppendNegativeObservation(c)
             \/ \E c \in Cell, d \in Findings : AppendNegativeDisposition(c, d)
      PROVE  UNCHANGED <<vars, tails>>
  BY <1>3 DEF memory, Record, AppendNegativeObservation, AppendNegativeDisposition
<1>4. MemoryCommands'
  BY <1>0, <1>1, <1>2, <1>3, OutsideStep DEF MemoryNext
<1>5. EvidenceInv'
  <2>1. UNCHANGED memory => UNCHANGED evidence
    BY DEF memory, evidence
  <2>. QED BY <1>0, <1>1, <1>2, <2>1, RecordEvidence, DispositionEvidence, EvidenceKept
           DEF MemoryNext
<1>6. negative' = negative
  <2>1. ASSUME NEW w \in Worker, MemoryStep(w) PROVE negative' = negative
    BY <2>1 DEF MemoryStep, LookUp, GetEvents, LoadCell, CheckBlocked, Claim, AppendBatch, Settle, Save
  <2>2. ASSUME NEW w \in Worker, NEW r \in Requests, NEW now \in Time, Execute(w, r, now)
        PROVE  negative' = negative
    BY <2>2 DEF Execute, Receive
  <2>3. UNCHANGED <<vars, tails>> => negative' = negative
    BY DEF vars
  <2>. QED BY <1>3, <2>1, <2>2, <2>3 DEF MemoryNext
<1>. QED BY <1>4, <1>5, <1>6 DEF MemoryInv

LEMMA MemoryInvInit ==
  ASSUME WellFormed, Sentinels, KernelWritten, MemoryInit
  PROVE  MemoryInv
<1>1. Init /\ tails = [id \in CommandId |-> <<>>] /\ worker = [w \in Worker |-> Idle]
  BY DEF MemoryInit, Init
<1>2. Typed /\ StreamsInv /\ SnapshotsInv /\ negative \in [Cell -> Negative] /\ ExactlyOnce
  BY <1>1, InvInit, Beginning DEF Inv, GuardsInv
<1>3. Queued
  <2>1. \A q \in Seq(Worker) : \A id : q = <<>> => Chained(id, q, worker)
    BY <1>1 DEF Chained, Waits
  <2>2. \A id \in CommandId : tails[id] \in Seq(Worker) /\ tails[id] = <<>>
    BY <1>1
  <2>3. tails \in [CommandId -> Seq(Worker)]
    BY <1>1
  <2>. QED BY <2>1, <2>2, <2>3 DEF Queued
<1>4. MemoryRequests
  BY <1>1 DEF MemoryRequests, WellKnown
<1>5. MemoryEffects
  BY <1>1, <1>2 DEF MemoryEffects, ExactlyOnce, Decides, Idle
<1>6. FundingsHaveReceipts
  <2>1. ReceiptsInv
    BY <1>1, Beginning
  <2>2. ASSUME NEW c \in Cell, NEW v \in DOMAIN rows[c], rows[c][v].type = "CellFunded"
        PROVE  receipt[c] # Absent /\ receipt[c].id = author[c][v]
    <3>1. author[c][v] \in Fundings(rows[c], author[c])
      BY <2>2 DEF Fundings
    <3>2. author[c][v] \in Evidence(receipt[c])
      BY <2>1, <3>1 DEF ReceiptsInv
    <3>. QED BY <3>2 DEF Evidence
  <2>. QED BY <2>1, <2>2 DEF FundingsHaveReceipts, ReceiptsInv
<1>7. MemoryAnswers
  BY <1>1 DEF Init, MemoryAnswers, MemoryLedger
<1>8. EvidenceInv
  BY FS_EmptySet DEF MemoryInit, EvidenceInv
<1>. QED BY <1>2, <1>3, <1>4, <1>5, <1>6, <1>7, <1>8 DEF MemoryInv, MemoryCommands, MemoryCore

LEMMA MemoryTyped ==
  ASSUME MemoryInv
  PROVE  MemoryTypeOK
<1>0. /\ Typed /\ Queued /\ SnapshotsInv /\ MemoryAnswers /\ EvidenceInv
      /\ negative \in [Cell -> Negative]
  BY DEF MemoryInv, MemoryCommands, MemoryCore
<1>1. TypeOK
  <2>1. /\ \A c \in Cell : rows[c] \in Seq(Event)
        /\ \A w \in Worker : worker[w] = Idle \/ worker[w] \in WorkerState
    BY <1>0 DEF Typed
  <2>2. \A id \in CommandId : ledger[id] # Absent => ledger[id] \in LedgerRow
    BY <1>0 DEF Typed
  <2>3. replies \subseteq LedgerRow
    BY <1>0 DEF MemoryAnswers, Backed
  <2>4. \A c \in Cell : snapshot[c] # Absent =>
          snapshot[c].version \in Nat \ {0} /\ snapshot[c].state \in CellState
    BY <1>0 DEF SnapshotsInv, Remembered
  <2>. QED BY <1>0, <2>1, <2>2, <2>3, <2>4 DEF TypeOK, LedgerRow, Negative
<1>2. ASSUME NEW id \in CommandId, NEW i \in DOMAIN tails[id]
      PROVE  worker[tails[id][i]] # Idle /\ IdOf(tails[id][i]) = id
  <2>1. tails[id] \in Seq(Worker) /\ Chained(id, tails[id], worker)
    BY <1>0 DEF Queued
  <2>2. i \in 1 .. Len(tails[id])
    BY <2>1
  <2>. QED BY <2>1, <2>2 DEF Chained, Waits, IdOf
<1>3. /\ observations \subseteq Reports /\ negatives \subseteq Cell
      /\ \A c \in Cell : dispositions[c] \subseteq Findings
  BY <1>0 DEF EvidenceInv
<1>. QED BY <1>1, <1>2, <1>3 DEF MemoryTypeOK

(* A chain that is empty has nobody who has appended and not yet settled.    *)
LEMMA SettledOnce ==
  ASSUME MemoryInv
  PROVE  OnceSettled
<1>. SUFFICES ASSUME NEW id \in CommandId, tails[id] = <<>>
              PROVE  Whole(id)
  BY DEF OnceSettled
<1>1. Typed /\ Queued /\ MemoryEffects
  BY DEF MemoryInv, MemoryCommands, MemoryCore
<1>2. ASSUME NEW w \in Worker, DecidesOn(w, id)
      PROVE  FALSE
  <2>1. worker[w].pc = "commit" /\ worker[w] # Idle /\ worker[w].req.id = id
    BY <1>2 DEF DecidesOn, Decides, Idle
  <2>2. 1 \in 1 .. Len(tails[id])
    BY <1>1, <2>1, Waiting DEF IdOf
  <2>. QED BY <2>2
<1>. QED BY <1>1, <1>2 DEF MemoryEffects

(* In memory too: a command's effects are whole or absent once its id is      *)
(* settled, a funding has its receipt, an answer is what the record says,      *)
(* streams and snapshots are sound, and the same settlements are blocked as   *)
(* by PostgreSQL's queries, for any workers, cells, commands and evidence     *)
(* (InMemoryPersistenceAdapter and the in-memory dispute and negative stores).*)
THEOREM MemoryIsSound ==
  ASSUME WellFormed, Sentinels, KernelWritten, ReportsAssumption
  PROVE  MemorySpec => []MemorySound
<1>1. MemoryInit => MemoryInv
  BY MemoryInvInit
<1>2. MemoryInv /\ [MemoryNext]_memory => MemoryInv'
  BY MemoryInvStep
<1>3. MemoryInv => MemorySound
  <2>. SUFFICES ASSUME MemoryInv PROVE MemorySound
    OBVIOUS
  <2>1. /\ StreamsInv /\ SnapshotsInv /\ FundingsHaveReceipts /\ MemoryAnswers /\ EvidenceInv
    BY DEF MemoryInv, MemoryCommands, MemoryCore
  <2>2. StreamsIntact
    BY <2>1, ErrorIsNoState DEF StreamsInv, Sound, StreamsIntact
  <2>3. AnswersDurable
    BY <2>1 DEF MemoryAnswers, Backed, AnswersDurable
  <2>. QED BY <2>1, <2>2, <2>3, MemoryTyped, SettledOnce, EvidenceBlocksAlike
           DEF MemorySound, SnapshotsInv
<1>. QED BY <1>1, <1>2, <1>3, PTL DEF MemorySpec
=============================================================================
