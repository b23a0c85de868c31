---------------------------- MODULE KernelProofs ----------------------------
(***************************************************************************)
(* What evolve computes, for every stream: the equations of the recursion   *)
(* in CellKernel!Evolve, proved from the definition, and their consequences *)
(* for a stream that grows and for its prefixes.                            *)
(*                                                                         *)
(* The induction theorems of the library take a predicate, which no backend *)
(* can instantiate; here induction is over a set of numbers instead, from   *)
(* the fact that every set of numbers has a least element.                  *)
(***************************************************************************)
EXTENDS CellKernel, SequenceTheorems, WellFoundedInduction, TLAPS

-----------------------------------------------------------------------------
(* Induction and recursion over sets of numbers.                             *)

(* The order of the numbers is well founded. *)
LEMMA NatWF == IsWellFoundedOn({ss \in Nat \X Nat : ss[1] < ss[2]}, Nat)
BY NatLessThanWellFounded DEF OpToRel

(* A set of numbers has a least element. *)
LEMMA LeastNat ==
  ASSUME NEW T \in SUBSET Nat, T # {}
  PROVE  \E n \in T : \A m \in T : n <= m
<1>. DEFINE R == {ss \in Nat \X Nat : ss[1] < ss[2]}
<1>1. PICK n \in T : \A m \in T : <<m, n>> \notin R
  BY NatWF, WFMin
<1>2. ASSUME NEW m \in T
      PROVE  n <= m
  <2>1. m \in Nat /\ n \in Nat
    OBVIOUS
  <2>2. ~(m < n)
    BY <1>1, <2>1
  <2>. QED BY <2>1, <2>2
<1>. QED BY <1>2

(* A set of numbers that holds zero and every successor holds them all. *)
LEMMA NatSetInduction ==
  ASSUME NEW T \in SUBSET Nat, 0 \in T, \A n \in T : n + 1 \in T
  PROVE  T = Nat
<1>. SUFFICES ASSUME Nat \ T # {} PROVE FALSE
  OBVIOUS
<1>1. PICK n \in Nat \ T : \A m \in Nat \ T : n <= m
  BY LeastNat
<1>2. n # 0 /\ n - 1 \in Nat /\ n - 1 < n
  BY <1>1
<1>3. n - 1 \in T
  BY <1>1, <1>2
<1>4. n \in T
  BY <1>2, <1>3
<1>. QED BY <1>1, <1>4

(* g is the run of f from base: what a recursion over 0 .. m defines. *)
IsRun(g, base, f, m) ==
  /\ g[0] = base
  /\ \A n \in 1 .. m : g[n] = f[<<g[n - 1], n>>]

(* Every recursion over 0 .. m defines a function. *)
LEMMA Recursion ==
  ASSUME NEW D, NEW m \in Nat, NEW base \in D, NEW f \in [D \X (1 .. m) -> D]
  PROVE  \E g \in [0 .. m -> D] : IsRun(g, base, f, m)
<1>. DEFINE T == {k \in Nat : k <= m => \E g \in [0 .. k -> D] : IsRun(g, base, f, k)}
<1>1. 0 \in T
  <2>1. [n \in 0 .. 0 |-> base] \in [0 .. 0 -> D] /\ IsRun([n \in 0 .. 0 |-> base], base, f, 0)
    BY DEF IsRun
  <2>. QED BY <2>1
<1>2. ASSUME NEW k \in T, k + 1 <= m
      PROVE  \E g \in [0 .. k + 1 -> D] : IsRun(g, base, f, k + 1)
  <2>0. k \in Nat /\ k <= m /\ k + 1 \in 1 .. m
    BY <1>2
  <2>1. PICK g \in [0 .. k -> D] : IsRun(g, base, f, k)
    BY <2>0
  <2>. DEFINE h == [n \in 0 .. k + 1 |-> IF n = k + 1 THEN f[<<g[k], k + 1>>] ELSE g[n]]
  <2>2. g[k] \in D /\ f[<<g[k], k + 1>>] \in D
    BY <2>0
  <2>3. \A n \in 0 .. k : n \in 0 .. k + 1 /\ n # k + 1 /\ h[n] = g[n] /\ g[n] \in D
    BY <2>0
  <2>4. h[k + 1] = f[<<g[k], k + 1>>]
    BY <2>0
  <2>5. h \in [0 .. k + 1 -> D]
    BY <2>0, <2>2
  <2>6. h[0] = base
    BY <2>0, <2>1, <2>3 DEF IsRun
  <2>7. ASSUME NEW n \in 1 .. k + 1
        PROVE  h[n] = f[<<h[n - 1], n>>]
    <3>1. CASE n = k + 1
      <4>1. n - 1 = k /\ k \in 0 .. k
        BY <2>0, <3>1
      <4>. QED BY <2>3, <2>4, <3>1, <4>1
    <3>2. CASE n # k + 1
      <4>1. n \in 1 .. k /\ n \in 0 .. k /\ n - 1 \in 0 .. k
        BY <2>0, <3>2
      <4>2. g[n] = f[<<g[n - 1], n>>]
        BY <2>1, <4>1 DEF IsRun
      <4>. QED BY <2>3, <4>1, <4>2
    <3>. QED BY <3>1, <3>2
  <2>. HIDE DEF h
  <2>. QED BY <2>5, <2>6, <2>7 DEF IsRun
<1>3. \A k \in T : k + 1 \in T
  BY <1>2
<1>4. m \in T
  BY <1>1, <1>3, NatSetInduction
<1>. QED BY <1>4

-----------------------------------------------------------------------------
(* The recursion of evolve.                                                  *)

(* The set that binds a state for TLC holds just what it is built from. *)
LEMMA ChosenStep ==
  ASSUME NEW s, NEW e
  PROVE  (CHOOSE t \in {EvolveStep(u, e) : u \in {s}} : TRUE) = EvolveStep(s, e)
<1>1. {EvolveStep(u, e) : u \in {s}} = {EvolveStep(s, e)}
  OBVIOUS
<1>. QED BY <1>1

(* The states evolve passes through, from the initial one. *)
After(q, g) ==
  g = [n \in 0 .. Len(q) |->
         IF n = 0 THEN InitialState
         ELSE CHOOSE t \in {EvolveStep(s, q[n]) : s \in {g[n - 1]}} : TRUE]
States(q) == CHOOSE g : After(q, g)

(* What evolve can return. *)
Readable == CellState \cup {StreamError}

(* The sentinel state of an unborn cell is a state. *)
LEMMA InitialStateTyped == InitialState \in CellState
BY DEF InitialState, CellState, CellStatus, AcceptanceStatus, Never

(* eventFolder maps a state and an event to a state. *)
LEMMA FolderTyped ==
  ASSUME NEW s \in CellState, NEW e \in Event
  PROVE  EventFolder(s, e) \in CellState
<1>1. CASE e.type = "CellCreated"
  <2>1. e.terms \in TermsType
    BY <1>1 DEF Event, SimpleEventType
  <2>. QED
    BY <1>1, <2>1 DEF EventFolder, CreatedState, CellState, CellStatus, AcceptanceStatus,
                      Never, TermsType
<1>2. CASE e.type = "CellFunded"
  <2>1. e.amount \in Amount /\ e.at \in Time
    BY <1>2 DEF Event, SimpleEventType
  <2>. QED
    BY <1>2, <2>1 DEF EventFolder, StatusAfter, AcceptanceAfter, CellState, CellStatus
<1>3. CASE e.type \notin {"CellCreated", "CellFunded"}
  <2>1. e.by \in Actor
    BY DEF Event
  <2>. QED
    BY <1>3, <2>1 DEF EventFolder, StatusAfter, AcceptanceAfter, CellState, CellStatus,
                      AcceptanceStatus, TERMINAL_STATUSES
<1>. QED BY <1>1, <1>2, <1>3

(* No state is the error of a broken stream: its status is none of theirs. *)
LEMMA ErrorIsNoState ==
  /\ StreamError \notin CellState
  /\ \A s \in CellState : s.status # StreamError.status
  /\ StreamError.status = "STREAM_INTEGRITY_ERROR"
BY DEF StreamError, CellState, CellStatus, TERMINAL_STATUSES

(* A step of evolve from a state, an open one or a closed one. *)
LEMMA StepTyped ==
  ASSUME NEW s \in Readable, NEW e \in Event
  PROVE  EvolveStep(s, e) \in Readable
BY FolderTyped, ErrorIsNoState DEF Readable, EvolveStep

(* The step of evolve is the folder's while the cell is open. *)
LEMMA OpenStep ==
  ASSUME NEW s \in CellState, NEW e
  PROVE  EvolveStep(s, e) = IF IsOpen(s) THEN EventFolder(s, e) ELSE StreamError
BY ErrorIsNoState DEF EvolveStep, IsOpen

(* The recursion has its equations: a state for every prefix of the stream. *)
LEMMA StatesRun ==
  ASSUME NEW q \in Seq(Event)
  PROVE  /\ States(q) \in [0 .. Len(q) -> Readable]
         /\ States(q)[0] = InitialState
         /\ \A n \in 1 .. Len(q) : States(q)[n] = EvolveStep(States(q)[n - 1], q[n])
<1>. DEFINE f == [x \in Readable \X (1 .. Len(q)) |-> EvolveStep(x[1], q[x[2]])]
<1>1. Len(q) \in Nat /\ InitialState \in Readable
  BY InitialStateTyped DEF Readable
<1>2. f \in [Readable \X (1 .. Len(q)) -> Readable]
  <2>1. \A x \in Readable \X (1 .. Len(q)) : x[1] \in Readable /\ q[x[2]] \in Event
    OBVIOUS
  <2>. QED BY <2>1, StepTyped
<1>3. \A s \in Readable, n \in 1 .. Len(q) : f[<<s, n>>] = EvolveStep(s, q[n])
  OBVIOUS
<1>. HIDE DEF f
<1>4. PICK g \in [0 .. Len(q) -> Readable] : IsRun(g, InitialState, f, Len(q))
  BY <1>1, <1>2, Recursion
<1>5. \A n \in 1 .. Len(q) : n - 1 \in 0 .. Len(q)
  BY <1>1
<1>6. \A n \in 1 .. Len(q) : g[n] = EvolveStep(g[n - 1], q[n])
  BY <1>3, <1>4, <1>5 DEF IsRun
<1>7. After(q, g)
  <2>. DEFINE h == [n \in 0 .. Len(q) |->
         IF n = 0 THEN InitialState
         ELSE CHOOSE t \in {EvolveStep(s, q[n]) : s \in {g[n - 1]}} : TRUE]
  <2>1. ASSUME NEW n \in 0 .. Len(q)
        PROVE  g[n] = h[n]
    <3>1. CASE n = 0
      BY <1>4, <3>1 DEF IsRun
    <3>2. CASE n # 0
      <4>1. n \in 1 .. Len(q)
        BY <1>1, <3>2
      <4>2. h[n] = EvolveStep(g[n - 1], q[n])
        BY <3>2, ChosenStep
      <4>. QED BY <1>6, <4>1, <4>2
    <3>. QED BY <3>1, <3>2
  <2>2. g = h
    BY <2>1
  <2>. QED BY <2>2 DEF After
<1>8. After(q, States(q))
  BY <1>7 DEF States
<1>. DEFINE S == States(q)
<1>9. S = [n \in 0 .. Len(q) |->
             IF n = 0 THEN InitialState
             ELSE CHOOSE t \in {EvolveStep(s, q[n]) : s \in {S[n - 1]}} : TRUE]
  BY <1>8 DEF After
<1>. HIDE DEF S
<1>10. S[0] = InitialState
  BY <1>1, <1>9
<1>11. ASSUME NEW n \in 1 .. Len(q)
       PROVE  S[n] = EvolveStep(S[n - 1], q[n])
  <2>1. n \in 0 .. Len(q) /\ n # 0
    BY <1>1
  <2>2. S[n] = CHOOSE t \in {EvolveStep(s, q[n]) : s \in {S[n - 1]}} : TRUE
    BY <1>9, <2>1
  <2>. QED BY <2>2, ChosenStep
<1>12. S \in [0 .. Len(q) -> Readable]
  <2>. DEFINE T == {k \in Nat : k <= Len(q) => S[k] \in Readable}
  <2>1. 0 \in T
    BY <1>1, <1>10
  <2>2. ASSUME NEW k \in T, k + 1 <= Len(q)
        PROVE  S[k + 1] \in Readable
    <3>1. k + 1 \in 1 .. Len(q) /\ (k + 1) - 1 = k /\ S[k] \in Readable
      BY <1>1, <2>2
    <3>2. q[k + 1] \in Event
      BY <3>1
    <3>3. S[k + 1] = EvolveStep(S[k], q[k + 1])
      BY <1>11, <3>1
    <3>. QED BY <3>1, <3>2, <3>3, StepTyped
  <2>3. \A k \in T : k + 1 \in T
    BY <2>2
  <2>4. T = Nat
    BY <2>1, <2>3, NatSetInduction
  <2>5. \A n \in 0 .. Len(q) : S[n] \in Readable
    BY <1>1, <2>4
  <2>. QED BY <1>9, <2>5
<1>. QED BY <1>10, <1>11, <1>12 DEF S

(* A stream's versions have no gap, and evolve returns the last state. *)
LEMMA EvolveIsLast ==
  ASSUME NEW q \in Seq(Event)
  PROVE  Evolve(q) = States(q)[Len(q)] /\ Evolve(q) \in Readable
<1>1. Gapless(q)
  BY DEF Gapless
<1>2. Evolve(q) = States(q)[Len(q)]
  BY <1>1 DEF Evolve, States, After
<1>3. Len(q) \in 0 .. Len(q)
  OBVIOUS
<1>. QED BY <1>2, <1>3, StatesRun

(* Streams that agree up to a version have the same states up to it. *)
LEMMA StatesAgree ==
  ASSUME NEW q \in Seq(Event), NEW r \in Seq(Event), NEW k \in Nat,
         k <= Len(q), k <= Len(r), \A i \in 1 .. k : q[i] = r[i]
  PROVE  States(q)[k] = States(r)[k]
<1>. DEFINE T == {n \in Nat : n <= k => States(q)[n] = States(r)[n]}
<1>1. 0 \in T
  BY StatesRun
<1>2. ASSUME NEW n \in T, n + 1 <= k
      PROVE  States(q)[n + 1] = States(r)[n + 1]
  <2>1. /\ n + 1 \in 1 .. k /\ n + 1 \in 1 .. Len(q) /\ n + 1 \in 1 .. Len(r)
        /\ (n + 1) - 1 = n
        /\ States(q)[n] = States(r)[n]
    BY <1>2
  <2>2. /\ States(q)[n + 1] = EvolveStep(States(q)[n], q[n + 1])
        /\ States(r)[n + 1] = EvolveStep(States(r)[n], r[n + 1])
    BY <2>1, StatesRun
  <2>. QED BY <2>1, <2>2
<1>3. \A n \in T : n + 1 \in T
  BY <1>2
<1>4. k \in T
  BY <1>1, <1>3, NatSetInduction
<1>. QED BY <1>4

-----------------------------------------------------------------------------
(* evolve as its callers use it.                                             *)

(* An empty stream is an unborn cell. *)
LEMMA EvolveEmpty == Evolve(<<>>) = InitialState
<1>1. <<>> \in Seq(Event) /\ Len(<<>>) = 0
  OBVIOUS
<1>. QED BY <1>1, StatesRun, EvolveIsLast

(* One more event is one more step, whatever sequence extends the stream. *)
LEMMA EvolveExtended ==
  ASSUME NEW q \in Seq(Event), NEW r \in Seq(Event),
         Len(r) = Len(q) + 1, \A i \in 1 .. Len(q) : r[i] = q[i]
  PROVE  Evolve(r) = EvolveStep(Evolve(q), r[Len(r)])
<1>1. Len(q) \in Nat /\ Len(r) \in 1 .. Len(r) /\ Len(r) - 1 = Len(q)
  OBVIOUS
<1>2. States(r)[Len(r)] = EvolveStep(States(r)[Len(q)], r[Len(r)])
  BY <1>1, StatesRun
<1>3. States(q)[Len(q)] = States(r)[Len(q)]
  BY <1>1, StatesAgree
<1>. QED BY <1>2, <1>3, EvolveIsLast

(* The same, for Append. *)
LEMMA EvolveAppend ==
  ASSUME NEW q \in Seq(Event), NEW e \in Event
  PROVE  Evolve(Append(q, e)) = EvolveStep(Evolve(q), e)
<1>1. /\ Append(q, e) \in Seq(Event)
      /\ Len(Append(q, e)) = Len(q) + 1
      /\ \A i \in 1 .. Len(q) : Append(q, e)[i] = q[i]
      /\ Append(q, e)[Len(Append(q, e))] = e
  OBVIOUS
<1>. QED BY <1>1, EvolveExtended

(* A stream of one event. *)
LEMMA EvolveSingle ==
  ASSUME NEW e \in Event
  PROVE  Evolve(<<e>>) = EventFolder(InitialState, e)
<1>1. <<>> \in Seq(Event) /\ <<e>> = Append(<<>>, e)
  OBVIOUS
<1>2. IsOpen(InitialState)
  BY DEF IsOpen, InitialState, TERMINAL_STATUSES
<1>. QED BY <1>1, <1>2, EvolveEmpty, EvolveAppend, OpenStep, InitialStateTyped

(* evolve of a prefix is the state the whole stream passes through. *)
LEMMA EvolvePrefix ==
  ASSUME NEW q \in Seq(Event), NEW k \in Nat, k <= Len(q)
  PROVE  /\ SubSeq(q, 1, k) \in Seq(Event)
         /\ Len(SubSeq(q, 1, k)) = k
         /\ Evolve(SubSeq(q, 1, k)) = States(q)[k]
<1>. DEFINE p == SubSeq(q, 1, k)
<1>1. /\ p \in Seq(Event)
      /\ Len(p) = k
      /\ \A i \in 1 .. k : p[i] = q[i]
  OBVIOUS
<1>. HIDE DEF p
<1>2. States(p)[k] = States(q)[k]
  BY <1>1, StatesAgree
<1>3. Evolve(p) = States(p)[k]
  BY <1>1, EvolveIsLast
<1>. QED BY <1>1, <1>2, <1>3 DEF p

-----------------------------------------------------------------------------
(* The fold of what one command emits: one event, or two.                    *)

(* The states a fold passes through. *)
FoldRun(g, s, q) ==
  g = [n \in 0 .. Len(q) |-> IF n = 0 THEN s ELSE EventFolder(g[n - 1], q[n])]

(* A fold is the last of them, if there is a run. *)
LEMMA FoldIsLast ==
  ASSUME NEW s, NEW q, Len(q) \in Nat, NEW h, FoldRun(h, s, q)
  PROVE  \E g : /\ Fold(s, q) = g[Len(q)]
                /\ g[0] = s
                /\ \A n \in 1 .. Len(q) : g[n] = EventFolder(g[n - 1], q[n])
<1>. DEFINE g == CHOOSE g : FoldRun(g, s, q)
<1>1. FoldRun(g, s, q)
  OBVIOUS
<1>2. Fold(s, q) = g[Len(q)]
  BY DEF Fold, FoldRun
<1>. HIDE DEF g
<1>3. g[0] = s /\ \A n \in 1 .. Len(q) : g[n] = EventFolder(g[n - 1], q[n])
  BY <1>1 DEF FoldRun
<1>. QED BY <1>2, <1>3

(* One event, one step of the folder. *)
LEMMA FoldOne ==
  ASSUME NEW s, NEW q, Len(q) = 1
  PROVE  Fold(s, q) = EventFolder(s, q[1])
<1>1. FoldRun([n \in 0 .. 1 |-> IF n = 0 THEN s ELSE EventFolder(s, q[1])], s, q)
  BY DEF FoldRun
<1>2. 1 \in 1 .. Len(q) /\ 1 - 1 = 0 /\ Len(q) \in Nat
  OBVIOUS
<1>. QED BY <1>1, <1>2, FoldIsLast

(* Two events, two steps. *)
LEMMA FoldTwo ==
  ASSUME NEW s, NEW q, Len(q) = 2
  PROVE  Fold(s, q) = EventFolder(EventFolder(s, q[1]), q[2])
<1>. DEFINE h == [n \in 0 .. 2 |-> IF n = 0 THEN s
                                   ELSE IF n = 1 THEN EventFolder(s, q[1])
                                   ELSE EventFolder(EventFolder(s, q[1]), q[2])]
<1>1. FoldRun(h, s, q)
  BY DEF FoldRun
<1>2. /\ 1 \in 1 .. Len(q) /\ 1 - 1 = 0
      /\ 2 \in 1 .. Len(q) /\ 2 - 1 = 1 /\ Len(q) \in Nat
  OBVIOUS
<1>. HIDE DEF h
<1>. QED BY <1>1, <1>2, FoldIsLast
=============================================================================
