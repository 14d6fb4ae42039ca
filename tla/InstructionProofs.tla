------------------------- MODULE InstructionProofs -------------------------
(***************************************************************************)
(* Proofs about the instructions and blocks of a program.  CpuTime, the    *)
(* timers and the clock memory: for every set of durations and time steps  *)
(* and for every bound on the time, where the run stops soon after the     *)
(* clock memory's first wrap-around.  IecTimer and Counting, by induction  *)
(* over all that was done with a block or a counter: for every modulus of  *)
(* a TIME and range of an INT, all preset times and values, and every      *)
(* number of calls.  Accumulators: for every width of a word, all values,  *)
(* and every number of instructions, by arithmetic with the powers of two. *)
(* SmallPrograms: the four together.                                       *)
(***************************************************************************)
EXTENDS CpuTime, SmallPrograms, SequenceTheorems, WellFoundedInduction, TLAPS

Timers ==
  [prevVKE_S : BOOLEAN, prevVKE_FR : BOOLEAN, deadlineActionSetStatus : BOOLEAN,
   deadline : Nat, remaining : Nat, status : BOOLEAN, running : BOOLEAN]

----------------------------------------------------------------------------
(* The clock memory.                                                       *)

\* The steps of the clock memory since it was initialised.
StepsDone == clock.next - origin - 1

CountIsRemainder ==
  StepsDone \in Nat /\ clock.count = StepsDone % CountLCM

\* How one step changes the phase of a bit, and what the count says of it.
PhaseStep(d) ==
  \A s \in Nat :
    /\ (s + 1) % d = 0 =>
         (((s + 1) \div d) % 2 = 1 <=> ~((s \div d) % 2 = 1))
    /\ (s + 1) % d # 0 =>
         (((s + 1) \div d) % 2 = 1 <=> (s \div d) % 2 = 1)
    /\ ((s % 80) + 1) % d = 0 <=> (s + 1) % d = 0

\* The dividers all divide the least common multiple, 80.
LEMMA PhaseSteps ==
  \A d \in {1, 2, 4, 5, 8, 10, 16, 20} : PhaseStep(d)
<1>1. PhaseStep(1)  BY DEF PhaseStep
<1>2. PhaseStep(2)  BY DEF PhaseStep
<1>3. PhaseStep(4)  BY DEF PhaseStep
<1>4. PhaseStep(5)  BY DEF PhaseStep
<1>5. PhaseStep(8)  BY DEF PhaseStep
<1>6. PhaseStep(10) BY DEF PhaseStep
<1>7. PhaseStep(16) BY DEF PhaseStep
<1>8. PhaseStep(20) BY DEF PhaseStep
<1> HIDE DEF PhaseStep
<1> QED BY <1>1, <1>2, <1>3, <1>4, <1>5, <1>6, <1>7, <1>8

\* The dividers are those of PhaseSteps.
LEMMA DividerFact ==
  ASSUME NEW b \in Bits
  PROVE  Divider[b] \in {1, 2, 4, 5, 8, 10, 16, 20}
BY DEF Bits, Divider

\* Counting modulo 80.
LEMMA RemainderStep ==
  ASSUME NEW s \in Nat
  PROVE  /\ s % 80 \in 0 .. 79
         /\ (s + 1) % 80 = IF (s % 80) + 1 >= 80 THEN 0 ELSE (s % 80) + 1
OBVIOUS

\* One step of the clock memory, taken on its own.
LEMMA ToggleStep ==
  ASSUME NEW c, NEW s \in Nat,
         c.byte \subseteq Bits, c.count = s % CountLCM, c.next \in Nat,
         \A b \in Bits : b \in c.byte <=> (s \div Divider[b]) % 2 = 1
  PROVE  /\ Toggle(c).byte \subseteq Bits
         /\ Toggle(c).count = (s + 1) % CountLCM
         /\ Toggle(c).next = c.next + 1
         /\ \A b \in Bits : b \in Toggle(c).byte <=> ((s + 1) \div Divider[b]) % 2 = 1
<1>1. Toggle(c).next = c.next + 1
  BY DEF Toggle
<1>2. Toggle(c).count = (s + 1) % CountLCM
  BY RemainderStep DEF Toggle, CountLCM
<1>3. Toggle(c).byte \subseteq Bits
  BY DEF Toggle, Xor
<1>4. ASSUME NEW b \in Bits
      PROVE  b \in Toggle(c).byte <=> ((s + 1) \div Divider[b]) % 2 = 1
  <2> DEFINE d == Divider[b]
  <2>1. b \in Toggle(c).byte <=> ~(b \in c.byte <=> (c.count + 1) % d = 0)
    BY DEF Toggle, Xor
  <2>2. PhaseStep(d)
    BY DividerFact, PhaseSteps
  <2>3. (c.count + 1) % d = 0 <=> (s + 1) % d = 0
    BY <2>2 DEF PhaseStep, CountLCM
  <2>4. b \in c.byte <=> (s \div d) % 2 = 1
    OBVIOUS
  <2>5. CASE (s + 1) % d = 0
    <3>1. ((s + 1) \div d) % 2 = 1 <=> ~((s \div d) % 2 = 1)
      BY <2>2, <2>5 DEF PhaseStep
    <3>2. b \in Toggle(c).byte <=> ~(b \in c.byte)
      BY <2>1, <2>3, <2>5
    <3> QED BY <3>1, <3>2, <2>4
  <2>6. CASE (s + 1) % d # 0
    <3>1. ((s + 1) \div d) % 2 = 1 <=> (s \div d) % 2 = 1
      BY <2>2, <2>6 DEF PhaseStep
    <3>2. b \in Toggle(c).byte <=> b \in c.byte
      BY <2>1, <2>3, <2>6
    <3> QED BY <3>1, <3>2, <2>4
  <2> QED BY <2>5, <2>6
<1> QED BY <1>1, <1>2, <1>3, <1>4

----------------------------------------------------------------------------
(* The timer.                                                              *)

\* Typing of the operators on the timer, and what a read finds.
LEMMA CheckDeadlineFact ==
  ASSUME NEW t \in Timers, NEW n \in Nat
  PROVE  /\ CheckDeadline(t, n) \in Timers
         /\ CheckDeadline(t, n).prevVKE_S = t.prevVKE_S
         /\ CheckDeadline(t, n).prevVKE_FR = t.prevVKE_FR
         /\ CheckDeadline(t, n).deadlineActionSetStatus = t.deadlineActionSetStatus
         /\ CheckDeadline(t, n).deadline = t.deadline
         /\ CheckDeadline(t, n).running <=> t.running /\ t.deadline > n
         /\ CheckDeadline(t, n).status =
              IF t.running /\ t.deadline <= n THEN t.deadlineActionSetStatus ELSE t.status
         /\ CheckDeadline(t, n).remaining =
              IF ~t.running THEN t.remaining
              ELSE IF t.deadline > n THEN t.deadline - n ELSE 0
<1> DEFINE u == [t EXCEPT !.remaining = IF t.deadline > n THEN t.deadline - n ELSE 0]
<1>1. u \in Timers
  BY DEF Timers
<1>2. CASE ~t.running
  <2>1. CheckDeadline(t, n) = t
    BY <1>2 DEF CheckDeadline
  <2> QED BY <1>2, <2>1 DEF Timers
<1>3. CASE t.running /\ t.deadline > n
  <2>1. CheckDeadline(t, n) = u
    BY <1>3 DEF CheckDeadline, UpdateRemaining, Timers
  <2> QED BY <1>1, <1>3, <2>1 DEF Timers
<1>4. CASE t.running /\ t.deadline <= n
  <2> DEFINE v == [u EXCEPT !.running = FALSE, !.status = t.deadlineActionSetStatus]
  <2>1. CheckDeadline(t, n) = v
    BY <1>4 DEF CheckDeadline, UpdateRemaining, Timers
  <2>2. v \in Timers
    BY <1>1 DEF Timers
  <2>3. v.running = FALSE /\ v.status = t.deadlineActionSetStatus
    BY <1>1 DEF Timers
  <2>4. v.remaining = 0 /\ v.deadline = t.deadline
    BY <1>4 DEF Timers
  <2>5. /\ v.prevVKE_S = t.prevVKE_S /\ v.prevVKE_FR = t.prevVKE_FR
        /\ v.deadlineActionSetStatus = t.deadlineActionSetStatus
    BY DEF Timers
  <2>6. t.deadline \in Nat
    BY DEF Timers
  <2>7. ~(t.deadline > n)
    BY <1>4, <2>6
  <2> HIDE DEF v
  <2> QED BY <1>4, <2>1, <2>2, <2>3, <2>4, <2>5, <2>7
<1> QED BY <1>2, <1>3, <1>4 DEF Timers

\* The time starts: the deadline is d units away and all of them are left.
LEMMA StartFact ==
  ASSUME NEW t \in Timers, NEW n \in Nat, NEW d \in Nat
  PROVE  /\ Start(t, n, d) \in Timers
         /\ Start(t, n, d).prevVKE_FR = t.prevVKE_FR
         /\ Start(t, n, d).deadlineActionSetStatus = t.deadlineActionSetStatus
         /\ Start(t, n, d).deadline = n + d
         /\ Start(t, n, d).running
         /\ Start(t, n, d).status = t.status
         /\ Start(t, n, d).remaining = d
<1> DEFINE u == [t EXCEPT !.deadline = n + d]
           v == [u EXCEPT !.remaining = d]
           w == [v EXCEPT !.running = TRUE]
<1>1. u \in Timers
  BY DEF Timers
<1>2. UpdateRemaining(u, n) = v
  <2>1. u.deadline = n + d
    BY DEF Timers
  <2>2. (IF u.deadline > n THEN u.deadline - n ELSE 0) = d
    BY <2>1
  <2> HIDE DEF u
  <2> QED BY <2>2, Zenon DEF UpdateRemaining
<1>3. Start(t, n, d) = w
  BY <1>2 DEF Start
<1>4. v \in Timers
  BY <1>1 DEF Timers
<1>5. w \in Timers /\ w.running = TRUE /\ w.remaining = d /\ w.deadline = n + d
  BY <1>4 DEF Timers
<1>6. /\ w.prevVKE_FR = t.prevVKE_FR /\ w.status = t.status
      /\ w.deadlineActionSetStatus = t.deadlineActionSetStatus
  BY DEF Timers
<1> HIDE DEF w
<1> QED BY <1>3, <1>5, <1>6

\* The timer that VKE = 0 switches off.
LEMMA OffFact ==
  ASSUME NEW t \in Timers, NEW n \in Nat
  PROVE  /\ Off(t, n) \in Timers
         /\ Off(t, n).prevVKE_FR = t.prevVKE_FR
         /\ Off(t, n).running = FALSE /\ Off(t, n).status = FALSE
         /\ Off(t, n).remaining = CheckDeadline(t, n).remaining
<1> DEFINE c == CheckDeadline(t, n)
<1>1. c \in Timers /\ c.prevVKE_FR = t.prevVKE_FR
  BY CheckDeadlineFact
<1>2. Off(t, n) = [c EXCEPT !.running = FALSE, !.status = FALSE]
  BY DEF Off
<1> HIDE DEF c
<1>3. Off(t, n) \in Timers
  BY <1>1, <1>2 DEF Timers
<1>4. /\ Off(t, n).running = FALSE /\ Off(t, n).status = FALSE
      /\ Off(t, n).remaining = c.remaining /\ Off(t, n).prevVKE_FR = c.prevVKE_FR
  BY <1>1, <1>2 DEF Timers
<1> QED BY <1>1, <1>3, <1>4 DEF c

\* The timer with the deadline action of kind k.
Fitted(t, k) == [t EXCEPT !.deadlineActionSetStatus = k \in {"SE", "SS"}]

\* Setting the deadline action leaves the rest of the timer alone.
LEMMA FittedFact ==
  ASSUME NEW t \in Timers, NEW k
  PROVE  /\ Fitted(t, k) \in Timers
         /\ Fitted(t, k).deadlineActionSetStatus = (k \in {"SE", "SS"})
         /\ Fitted(t, k).prevVKE_S = t.prevVKE_S
         /\ Fitted(t, k).prevVKE_FR = t.prevVKE_FR
         /\ Fitted(t, k).running = t.running /\ Fitted(t, k).status = t.status
         /\ Fitted(t, k).deadline = t.deadline
         /\ Fitted(t, k).remaining = t.remaining
<1> DEFINE a == k \in {"SE", "SS"}
<1>1. a \in BOOLEAN
  OBVIOUS
<1>2. Fitted(t, k) = [t EXCEPT !.deadlineActionSetStatus = a]
  BY DEF Fitted
<1> HIDE DEF a
<1>3. Fitted(t, k) \in Timers /\ Fitted(t, k).deadlineActionSetStatus = a
  BY <1>1, <1>2 DEF Timers
<1>4. /\ Fitted(t, k).prevVKE_S = t.prevVKE_S
      /\ Fitted(t, k).prevVKE_FR = t.prevVKE_FR
      /\ Fitted(t, k).running = t.running /\ Fitted(t, k).status = t.status
      /\ Fitted(t, k).deadline = t.deadline
      /\ Fitted(t, k).remaining = t.remaining
  BY <1>2 DEF Timers
<1> QED BY <1>3, <1>4 DEF a

\* A start of the time: the status is level, the deadline is d units away.
Started(u, k, n, d, level) ==
  /\ u.running = TRUE /\ u.status = level
  /\ u.deadlineActionSetStatus = (k \in {"SE", "SS"})
  /\ u.deadline = n + d /\ u.remaining = d

\* A stop of the time, with what is left of it.
Stopped(u, t, n, level) ==
  /\ u.running = FALSE /\ u.status = level
  /\ u.remaining = CheckDeadline(t, n).remaining

\* What a read finds left does not depend on the deadline action.
LEMMA FittedRemaining ==
  ASSUME NEW t \in Timers, NEW k, NEW n \in Nat
  PROVE  CheckDeadline(Fitted(t, k), n).remaining = CheckDeadline(t, n).remaining
<1>1. CheckDeadline(Fitted(t, k), n).remaining =
        IF ~Fitted(t, k).running THEN Fitted(t, k).remaining
        ELSE IF Fitted(t, k).deadline > n THEN Fitted(t, k).deadline - n ELSE 0
  BY FittedFact, CheckDeadlineFact
<1>2. CheckDeadline(t, n).remaining =
        IF ~t.running THEN t.remaining
        ELSE IF t.deadline > n THEN t.deadline - n ELSE 0
  BY CheckDeadlineFact
<1> QED BY <1>1, <1>2, FittedFact

\* Which of the four responses an instruction gives.
Rises(t, v) == v /\ ~t.prevVKE_S
Begins(k, t, v) ==
  IF k = "SA" THEN ~v /\ t.prevVKE_S ELSE Rises(t, v)
Ends(k, t, v) ==
  IF k = "SA" THEN Rises(t, v) ELSE ~v /\ k \in {"SI", "SE"}
Level(k, t) == IF k \in {"SE", "SS"} THEN t.status ELSE TRUE

\* Run without its last assignment.
Core(k, t, v, n, d) ==
  IF k = "SA" THEN RunSA(t, v, n, d) ELSE RunOnEdge(k, t, v, n, d)

\* An instruction that begins the time starts it.
LEMMA BeginFact ==
  ASSUME NEW t \in Timers, NEW k \in Kinds, NEW v \in BOOLEAN, NEW n \in Nat, NEW d \in Nat,
         Begins(k, t, v)
  PROVE  /\ Core(k, t, v, n, d) \in Timers
         /\ Core(k, t, v, n, d).prevVKE_FR = t.prevVKE_FR
         /\ Started(Core(k, t, v, n, d), k, n, d, Level(k, t))
<1> DEFINE p == [Fitted(t, k) EXCEPT !.status = Level(k, t)]
<1>1. Fitted(t, k) \in Timers
  BY FittedFact
<1>2. Level(k, t) \in BOOLEAN
  BY DEF Level, Timers
<1>3. p \in Timers /\ p.status = Level(k, t)
  BY <1>1, <1>2 DEF Timers
<1>4. /\ p.prevVKE_FR = t.prevVKE_FR
      /\ p.deadlineActionSetStatus = (k \in {"SE", "SS"})
  BY <1>1, FittedFact DEF Timers
<1>5. Core(k, t, v, n, d) = Start(p, n, d)
  <2>1. CASE k = "SA"
    <3>1. p = [[t EXCEPT !.deadlineActionSetStatus = FALSE] EXCEPT !.status = TRUE]
      <4>1. (k \in {"SE", "SS"}) = FALSE
        BY <2>1
      <4>2. Level(k, t) = TRUE
        BY <2>1 DEF Level
      <4> QED BY <4>1, <4>2, Zenon DEF Fitted
    <3>2. ~(v /\ ~t.prevVKE_S) /\ ~v /\ t.prevVKE_S
      BY <2>1 DEF Begins
    <3> HIDE DEF p
    <3> QED BY <2>1, <3>1, <3>2 DEF Core, RunSA
  <2>2. CASE k \in {"SI", "SV"}
    <3>1. p = [Fitted(t, k) EXCEPT !.status = @ \/ k \in {"SI", "SV"}]
      BY <2>2 DEF Level
    <3> HIDE DEF p
    <3> QED BY <2>2, <3>1 DEF Core, RunOnEdge, Begins, Rises, Fitted
  <2>3. CASE k \in {"SE", "SS"}
    <3>1. Fitted(t, k).status = t.status /\ t.status \in BOOLEAN
      BY FittedFact DEF Timers
    <3>2. (Fitted(t, k).status \/ k \in {"SI", "SV"}) = t.status
      BY <2>3, <3>1
    <3>3. p = [Fitted(t, k) EXCEPT !.status = @ \/ k \in {"SI", "SV"}]
      BY <2>3, <3>2 DEF Level
    <3> HIDE DEF p
    <3> QED BY <2>3, <3>3 DEF Core, RunOnEdge, Begins, Rises, Fitted
  <2> QED BY <2>1, <2>2, <2>3 DEF Kinds
<1> HIDE DEF p
<1>6. /\ Start(p, n, d) \in Timers
      /\ Start(p, n, d).prevVKE_FR = t.prevVKE_FR
      /\ Start(p, n, d).deadlineActionSetStatus = (k \in {"SE", "SS"})
      /\ Start(p, n, d).deadline = n + d /\ Start(p, n, d).remaining = d
      /\ Start(p, n, d).status = Level(k, t)
  BY <1>3, <1>4, StartFact, ZenonT(30)
<1>7. Start(p, n, d).running = TRUE
  BY <1>3, <1>6, StartFact DEF Timers
<1> QED BY <1>5, <1>6, <1>7 DEF Started

\* An instruction that ends the time stops it, and keeps what is left.
LEMMA EndFact ==
  ASSUME NEW t \in Timers, NEW k \in Kinds, NEW v \in BOOLEAN, NEW n \in Nat, NEW d \in Nat,
         Ends(k, t, v)
  PROVE  /\ Core(k, t, v, n, d) \in Timers
         /\ Core(k, t, v, n, d).prevVKE_FR = t.prevVKE_FR
         /\ Stopped(Core(k, t, v, n, d), t, n, k = "SA")
<1> DEFINE f == Fitted(t, k)
           c == CheckDeadline(f, n)
           w == [c EXCEPT !.status = (k = "SA"), !.running = FALSE]
<1>1. f \in Timers /\ f.prevVKE_FR = t.prevVKE_FR
  BY FittedFact
<1>2. /\ c \in Timers /\ c.prevVKE_FR = t.prevVKE_FR
      /\ c.remaining = CheckDeadline(t, n).remaining
  BY <1>1, CheckDeadlineFact, FittedRemaining
<1>3. w \in Timers /\ w.running = FALSE /\ w.status = (k = "SA")
  <2> HIDE DEF c
  <2>1. (k = "SA") \in BOOLEAN
    OBVIOUS
  <2> QED BY <1>2, <2>1 DEF Timers
<1>4. w.prevVKE_FR = c.prevVKE_FR /\ w.remaining = c.remaining
  <2> HIDE DEF c
  <2> QED BY <1>2 DEF Timers
<1>5. Core(k, t, v, n, d) = w
  <2>1. CASE k = "SA"
    <3>1. f = [t EXCEPT !.deadlineActionSetStatus = FALSE]
      <4>1. (k \in {"SE", "SS"}) = FALSE
        BY <2>1
      <4> QED BY <4>1, Zenon DEF Fitted
    <3>2. (k = "SA") = TRUE /\ v /\ ~t.prevVKE_S
      BY <2>1 DEF Ends, Rises
    <3>3. RunSA(t, v, n, d) = [c EXCEPT !.status = TRUE, !.running = FALSE]
      <4> HIDE DEF f
      <4> QED BY <3>1, <3>2, Zenon DEF RunSA
    <3> HIDE DEF c
    <3> QED BY <2>1, <3>2, <3>3, Zenon DEF Core
  <2>2. CASE k # "SA"
    <3>1. ~v /\ k \in {"SI", "SE"} /\ ~(v /\ ~t.prevVKE_S)
      BY <2>2 DEF Ends
    <3>2. Core(k, t, v, n, d) = Off(f, n)
      BY <2>2, <3>1, Zenon DEF Core, RunOnEdge, Fitted
    <3>3. Off(f, n) = [c EXCEPT !.running = FALSE, !.status = FALSE]
      BY Zenon DEF Off
    <3>4. (k = "SA") = FALSE
      BY <2>2
    <3> HIDE DEF c
    <3>5. w = [c EXCEPT !.status = FALSE, !.running = FALSE]
      BY <3>4, Zenon
    <3> QED BY <1>2, <3>2, <3>3, <3>5 DEF Timers
  <2> QED BY <2>1, <2>2
<1> HIDE DEF w, c, f
<1> QED BY <1>2, <1>3, <1>4, <1>5 DEF Stopped

\* Any other instruction only sets the deadline action.
LEMMA IdleFact ==
  ASSUME NEW t \in Timers, NEW k \in Kinds, NEW v \in BOOLEAN, NEW n \in Nat, NEW d \in Nat,
         ~Begins(k, t, v), ~Ends(k, t, v)
  PROVE  Core(k, t, v, n, d) = Fitted(t, k)
<1>1. CASE k = "SA"
  <2>1. ~(v /\ ~t.prevVKE_S) /\ ~(~v /\ t.prevVKE_S)
    BY <1>1 DEF Begins, Ends, Rises
  <2>2. (k \in {"SE", "SS"}) = FALSE
    BY <1>1
  <2> QED BY <1>1, <2>1, <2>2, Zenon DEF Core, RunSA, Fitted
<1>2. CASE k # "SA"
  <2>1. ~(v /\ ~t.prevVKE_S) /\ ~(~v /\ k \in {"SI", "SE"})
    BY <1>2 DEF Begins, Ends, Rises
  <2> QED BY <1>2, <2>1, Zenon DEF Core, RunOnEdge, Fitted
<1> QED BY <1>1, <1>2

\* The last assignment of a run: what matters of the timer stays.
LEMMA RunFact ==
  ASSUME NEW t \in Timers, NEW k, NEW v \in BOOLEAN, NEW n, NEW d,
         Core(k, t, v, n, d) \in Timers
  PROVE  /\ Run(k, t, v, n, d) \in Timers
         /\ Run(k, t, v, n, d).prevVKE_S = v
         /\ Run(k, t, v, n, d).prevVKE_FR = Core(k, t, v, n, d).prevVKE_FR
         /\ Run(k, t, v, n, d).status = Core(k, t, v, n, d).status
         /\ Run(k, t, v, n, d).running = Core(k, t, v, n, d).running
         /\ Run(k, t, v, n, d).remaining = Core(k, t, v, n, d).remaining
         /\ Run(k, t, v, n, d).deadline = Core(k, t, v, n, d).deadline
         /\ Run(k, t, v, n, d).deadlineActionSetStatus
              = Core(k, t, v, n, d).deadlineActionSetStatus
<1> DEFINE c == Core(k, t, v, n, d)
<1>1. Run(k, t, v, n, d) = [c EXCEPT !.prevVKE_S = v]
  BY DEF Run, Core
<1>2. c \in Timers
  OBVIOUS
<1> HIDE DEF c
<1>3. [c EXCEPT !.prevVKE_S = v] \in Timers
  BY <1>2 DEF Timers
<1> QED BY <1>1, <1>2, <1>3 DEF Timers, c

\* A run keeps the types, and a timer that runs has the action of its kind.
LEMMA RunTyped ==
  ASSUME NEW t \in Timers, NEW k \in Kinds, NEW v \in BOOLEAN, NEW n \in Nat, NEW d \in Nat
  PROVE  /\ Core(k, t, v, n, d) \in Timers
         /\ Run(k, t, v, n, d) \in Timers
         /\ Run(k, t, v, n, d).running =>
              Run(k, t, v, n, d).deadlineActionSetStatus = (k \in {"SE", "SS"})
<1> DEFINE c == Core(k, t, v, n, d)
<1>1. c \in Timers /\ (c.running => c.deadlineActionSetStatus = (k \in {"SE", "SS"}))
  <2>1. CASE Begins(k, t, v)
    <3>1. c \in Timers /\ Started(c, k, n, d, Level(k, t))
      BY <2>1, BeginFact
    <3> QED BY <3>1, Zenon DEF Started
  <2>2. CASE Ends(k, t, v)
    BY <2>2, EndFact, ZenonT(30) DEF Stopped
  <2>3. CASE ~Begins(k, t, v) /\ ~Ends(k, t, v)
    BY <2>3, IdleFact, FittedFact
  <2> QED BY <2>1, <2>2, <2>3
<1> QED BY <1>1, RunFact

----------------------------------------------------------------------------
(* The inductive invariant.                                                *)

\* What happens at the deadline is fixed by the kind of the timer.
ActionFitsKind ==
  timer.running => (timer.deadlineActionSetStatus <=> kind \in {"SE", "SS"})

IInv ==
  /\ TypeOK
  /\ CountIsRemainder
  /\ ClockPhases
  /\ ActionFitsKind

\* The clock memory when it is initialised: no step done, all bits off.
LEMMA ClockInit ==
  ASSUME NEW t \in Nat
  PROVE  /\ NewClock(t) = [byte |-> {}, count |-> 0, next |-> t + 1]
         /\ 0 % CountLCM = 0
         /\ \A b \in Bits : (0 \div Divider[b]) % 2 # 1
<1>1. \A b \in Bits : 0 \div Divider[b] = 0
  BY DividerFact
<1> QED BY <1>1 DEF NewClock, CountLCM

\* The invariant holds when the CPU starts.
LEMMA InitInv == Init => IInv
<1> SUFFICES ASSUME Init PROVE IInv
  OBVIOUS
<1> USE DEF Init
<1>1. TypeOK
  BY CpuTimeAssumption DEF TypeOK, NewTimer, NewClock, CountLCM, Bits
<1>2. CountIsRemainder
  BY ClockInit DEF CountIsRemainder, StepsDone, NewClock
<1>3. ClockPhases
  BY ClockInit DEF ClockPhases, NewClock
<1>4. ActionFitsKind
  BY DEF ActionFitsKind, NewTimer
<1> QED BY <1>1, <1>2, <1>3, <1>4 DEF IInv

\* Every step keeps the invariant.
LEMMA StepInv == IInv /\ [Next]_vars => IInv'
<1> SUFFICES ASSUME IInv, [Next]_vars PROVE IInv'
  OBVIOUS
<1>1. timer \in Timers /\ now \in Nat /\ origin \in Nat /\ kind \in Kinds
  BY CpuTimeAssumption DEF IInv, TypeOK, Timers
<1>2. ASSUME UNCHANGED <<clock, origin>>
      PROVE  (CountIsRemainder /\ ClockPhases)'
  BY <1>2 DEF IInv, CountIsRemainder, StepsDone, ClockPhases
<1>3. ASSUME UNCHANGED <<kind, now, clock, origin>>, timer' \in Timers
      PROVE  TypeOK'
  BY <1>3 DEF IInv, TypeOK, Timers
<1>4. CASE UpdateTimestamp
  <2> PICK d \in TimeSteps :
        /\ now + d <= MaxTime
        /\ now' = now + d
        /\ clock' = IF now + d >= clock.next THEN Toggle(clock) ELSE clock
        /\ UNCHANGED <<kind, timer, origin>>
    BY <1>4 DEF UpdateTimestamp
  <2>1. now' \in 0 .. MaxTime /\ origin' \in 0 .. now'
    BY <1>1, CpuTimeAssumption DEF IInv, TypeOK
  <2>2. ActionFitsKind'
    BY DEF IInv, ActionFitsKind
  <2>3. CASE now + d >= clock.next
    <3> DEFINE s == StepsDone
    <3>1. /\ s \in Nat /\ clock.byte \subseteq Bits
          /\ clock.count = s % CountLCM /\ clock.next \in Nat
          /\ \A b \in Bits : b \in clock.byte <=> (s \div Divider[b]) % 2 = 1
      BY DEF IInv, TypeOK, CountIsRemainder, ClockPhases, StepsDone
    <3>2. /\ clock'.byte \subseteq Bits
          /\ clock'.count = (s + 1) % CountLCM
          /\ clock'.next = clock.next + 1
          /\ \A b \in Bits : b \in clock'.byte <=> ((s + 1) \div Divider[b]) % 2 = 1
      <4> HIDE DEF s
      <4> QED BY <2>3, <3>1, ToggleStep
    <3>3. StepsDone' = s + 1 /\ origin' = origin
      BY <1>1, <3>1, <3>2 DEF StepsDone
    <3>4. clock'.count \in 0 .. CountLCM - 1 /\ clock'.next \in Nat
      BY <3>1, <3>2 DEF CountLCM
    <3>5. TypeOK'
      BY <2>1, <3>2, <3>4 DEF IInv, TypeOK
    <3>6. CountIsRemainder'
      BY <3>1, <3>2, <3>3 DEF CountIsRemainder
    <3>7. clock'.next - origin' - 1 = s + 1
      BY <3>3 DEF StepsDone
    <3>8. ClockPhases'
      BY <3>2, <3>7, Zenon DEF ClockPhases
    <3> QED BY <2>2, <3>5, <3>6, <3>8 DEF IInv
  <2>4. CASE ~(now + d >= clock.next)
    <3>1. clock' = clock
      BY <2>4
    <3>2. TypeOK'
      BY <2>1, <3>1 DEF IInv, TypeOK
    <3> QED BY <1>2, <2>2, <3>1, <3>2 DEF IInv
  <2> QED BY <2>3, <2>4
<1>5. CASE Restart
  <2>1. clock' = [byte |-> {}, count |-> 0, next |-> now + 1] /\ origin' = now
    BY <1>1, <1>5, ClockInit DEF Restart
  <2>2. UNCHANGED <<kind, timer, now>>
    BY <1>5 DEF Restart
  <2>3. TypeOK'
    BY <1>1, <2>1, <2>2 DEF IInv, TypeOK, CountLCM
  <2>4. clock'.next - origin' - 1 = 0
    BY <1>1, <2>1
  <2>5. CountIsRemainder'
    BY <2>1, <2>4, ClockInit DEF CountIsRemainder, StepsDone
  <2>6. ClockPhases'
    BY <1>1, <2>1, <2>4, ClockInit DEF ClockPhases
  <2>7. ActionFitsKind'
    BY <2>2 DEF IInv, ActionFitsKind
  <2> QED BY <2>3, <2>5, <2>6, <2>7 DEF IInv
<1>6. CASE Drive
  <2> PICK v \in BOOLEAN, d \in Durations :
        /\ timer' = Run(kind, timer, v, now, d)
        /\ UNCHANGED <<kind, now, clock, origin>>
    BY <1>6 DEF Drive
  <2>1. d \in Nat
    BY CpuTimeAssumption
  <2>2. /\ timer' \in Timers
        /\ timer'.running => timer'.deadlineActionSetStatus = (kind \in {"SE", "SS"})
    BY <1>1, <2>1, RunTyped
  <2> QED BY <1>2, <1>3, <2>2 DEF IInv, ActionFitsKind
<1>7. CASE Enable
  <2> PICK v \in BOOLEAN :
        /\ timer' = RunFR(timer, v)
        /\ UNCHANGED <<kind, now, clock, origin>>
    BY <1>7 DEF Enable
  <2>1. /\ timer' \in Timers /\ timer'.running = timer.running
        /\ timer'.deadlineActionSetStatus = timer.deadlineActionSetStatus
    BY <1>1 DEF RunFR, Timers
  <2> QED BY <1>2, <1>3, <2>1 DEF IInv, ActionFitsKind
<1>8. CASE ResetTimer
  <2>1. /\ timer' = Reset(timer)
        /\ UNCHANGED <<kind, now, clock, origin>>
    BY <1>8 DEF ResetTimer
  <2>2. timer' \in Timers /\ ~timer'.running
    BY <1>1, <2>1 DEF Reset, Timers
  <2> QED BY <1>2, <1>3, <2>1, <2>2 DEF IInv, ActionFitsKind
<1>9. CASE Read
  <2>1. /\ timer' = CheckDeadline(timer, now)
        /\ UNCHANGED <<kind, now, clock, origin>>
    BY <1>9 DEF Read
  <2>2. /\ timer' \in Timers /\ (timer'.running => timer.running)
        /\ timer'.deadlineActionSetStatus = timer.deadlineActionSetStatus
    BY <1>1, <2>1, CheckDeadlineFact
  <2> QED BY <1>2, <1>3, <2>1, <2>2 DEF IInv, ActionFitsKind
<1>10. CASE UNCHANGED vars
  <2>1. UNCHANGED <<kind, timer, now, clock, origin>>
    BY <1>10 DEF vars
  <2> QED BY <1>2, <1>3, <1>1, <2>1 DEF IInv, ActionFitsKind
<1> QED BY <1>4, <1>5, <1>6, <1>7, <1>8, <1>9, <1>10 DEF Next

\* The state has its types at all times.
THEOREM TypeCorrect == Spec => []TypeOK
<1>1. IInv => TypeOK
  BY DEF IInv
<1> QED BY <1>1, InitInv, StepInv, PTL DEF Spec

\* The clock memory bits keep their periods and phases for ever, through any
\* number of wrap-arounds of the count (updateTimestamp).
THEOREM PhasesHold == Spec => []ClockPhases
<1>1. IInv => ClockPhases
  BY DEF IInv
<1> QED BY <1>1, InitInv, StepInv, PTL DEF Spec

----------------------------------------------------------------------------
(* The refinement.  A read of the timer now gives what the ideal timer      *)
(* shows: q, timing and left.                                              *)

\* A read at n finds the same in both timers.
SameView(t, u, m, n) ==
  /\ CheckDeadline(t, m).status = CheckDeadline(u, n).status
  /\ CheckDeadline(t, m).running = CheckDeadline(u, n).running
  /\ CheckDeadline(t, m).remaining = CheckDeadline(u, n).remaining

\* What a read finds, in the three states of a timer.
LEMMA ViewFact ==
  ASSUME NEW t \in Timers, NEW n \in Nat
  PROVE  /\ ~t.running =>
              /\ CheckDeadline(t, n).status = t.status
              /\ CheckDeadline(t, n).running = FALSE
              /\ CheckDeadline(t, n).remaining = t.remaining
         /\ t.running /\ t.deadline > n =>
              /\ CheckDeadline(t, n).status = t.status
              /\ CheckDeadline(t, n).running = TRUE
              /\ CheckDeadline(t, n).remaining = t.deadline - n
         /\ t.running /\ ~(t.deadline > n) =>
              /\ CheckDeadline(t, n).status = t.deadlineActionSetStatus
              /\ CheckDeadline(t, n).running = FALSE
              /\ CheckDeadline(t, n).remaining = 0
<1> DEFINE c == CheckDeadline(t, n)
<1>1. /\ c \in Timers
      /\ c.running <=> t.running /\ t.deadline > n
      /\ c.status = IF t.running /\ t.deadline <= n THEN t.deadlineActionSetStatus
                    ELSE t.status
      /\ c.remaining = IF ~t.running THEN t.remaining
                       ELSE IF t.deadline > n THEN t.deadline - n ELSE 0
  BY CheckDeadlineFact
<1>2. c.running \in BOOLEAN /\ t.running \in BOOLEAN /\ t.deadline \in Nat
  BY <1>1 DEF Timers
<1> HIDE DEF c
<1>3. t.deadline <= n <=> ~(t.deadline > n)
  BY <1>2
<1>4. CASE ~t.running
  <2>1. c.running = FALSE
    BY <1>1, <1>2, <1>4
  <2> QED BY <1>1, <1>4, <2>1 DEF c
<1>5. CASE t.running /\ t.deadline > n
  <2>1. c.running = TRUE
    BY <1>1, <1>2, <1>5
  <2> QED BY <1>1, <1>3, <1>5, <2>1 DEF c
<1>6. CASE t.running /\ ~(t.deadline > n)
  <2>1. c.running = FALSE
    BY <1>1, <1>2, <1>6
  <2> QED BY <1>1, <1>3, <1>6, <2>1 DEF c
<1> QED BY <1>4, <1>5, <1>6 DEF c

\* Timers that agree where a read looks have the same view.
LEMMA SameViewFact ==
  ASSUME NEW t \in Timers, NEW u \in Timers, NEW n \in Nat,
         u.running = t.running, u.status = t.status, u.remaining = t.remaining,
         u.deadline = t.deadline,
         t.running => u.deadlineActionSetStatus = t.deadlineActionSetStatus
  PROVE  SameView(u, t, n, n)
<1>1. CASE ~t.running
  <2>1. ~u.running
    BY <1>1
  <2>2. /\ CheckDeadline(t, n).status = t.status
        /\ CheckDeadline(t, n).running = FALSE
        /\ CheckDeadline(t, n).remaining = t.remaining
    BY <1>1, ViewFact
  <2>3. /\ CheckDeadline(u, n).status = u.status
        /\ CheckDeadline(u, n).running = FALSE
        /\ CheckDeadline(u, n).remaining = u.remaining
    BY <2>1, ViewFact
  <2> QED BY <1>1, <2>2, <2>3, Zenon DEF SameView
<1>2. CASE t.running /\ t.deadline > n
  <2>1. u.running /\ u.deadline > n
    BY <1>2
  <2>2. /\ CheckDeadline(t, n).status = t.status
        /\ CheckDeadline(t, n).running = TRUE
        /\ CheckDeadline(t, n).remaining = t.deadline - n
    BY <1>2, ViewFact
  <2>3. /\ CheckDeadline(u, n).status = u.status
        /\ CheckDeadline(u, n).running = TRUE
        /\ CheckDeadline(u, n).remaining = u.deadline - n
    BY <2>1, ViewFact
  <2> QED BY <1>2, <2>2, <2>3, Zenon DEF SameView
<1>3. CASE t.running /\ ~(t.deadline > n)
  <2>1. u.running /\ ~(u.deadline > n)
    BY <1>3
  <2>2. /\ CheckDeadline(t, n).status = t.deadlineActionSetStatus
        /\ CheckDeadline(t, n).running = FALSE
        /\ CheckDeadline(t, n).remaining = 0
    BY <1>3, ViewFact
  <2>3. /\ CheckDeadline(u, n).status = u.deadlineActionSetStatus
        /\ CheckDeadline(u, n).running = FALSE
        /\ CheckDeadline(u, n).remaining = 0
    BY <2>1, ViewFact
  <2> QED BY <1>3, <2>2, <2>3, Zenon DEF SameView
<1> QED BY <1>1, <1>2, <1>3

\* A start of the time looks like Launch of the ideal timer.
LEMMA StartedView ==
  ASSUME NEW u \in Timers, NEW k, NEW n \in Nat, NEW d \in Nat, NEW level,
         Started(u, k, n, d, level)
  PROVE  /\ CheckDeadline(u, n).remaining = d
         /\ CheckDeadline(u, n).running = (d > 0)
         /\ CheckDeadline(u, n).status = IF d > 0 THEN level ELSE k \in {"SE", "SS"}
<1>1. u.running /\ u.deadline = n + d /\ u.status = level
  BY DEF Started
<1>2. u.deadlineActionSetStatus = (k \in {"SE", "SS"})
  BY Zenon DEF Started
<1>3. CASE d > 0
  <2>1. u.deadline > n /\ u.deadline - n = d /\ (d > 0) = TRUE
    BY <1>1, <1>3
  <2> QED BY <1>1, <2>1, <1>3, ViewFact
<1>4. CASE ~(d > 0)
  <2>1. ~(u.deadline > n) /\ d = 0 /\ (d > 0) = FALSE
    BY <1>1, <1>4
  <2> QED BY <1>1, <1>2, <2>1, ViewFact
<1> QED BY <1>3, <1>4

\* A new timer is a new ideal timer.
LEMMA IdealInit == Init => Ideal!Init
<1> SUFFICES ASSUME Init PROVE Ideal!Init
  OBVIOUS
<1>1. timer = NewTimer /\ now = 0 /\ kind \in Kinds
  BY DEF Init
<1>2. NewTimer \in Timers /\ NewTimer.running = FALSE /\ NewTimer.status = FALSE
      /\ NewTimer.remaining = 0 /\ NewTimer.prevVKE_S = FALSE /\ NewTimer.prevVKE_FR = FALSE
  BY DEF NewTimer, Timers
<1>3. /\ CheckDeadline(NewTimer, 0).status = NewTimer.status
      /\ CheckDeadline(NewTimer, 0).running = FALSE
      /\ CheckDeadline(NewTimer, 0).remaining = NewTimer.remaining
  <2>1. 0 \in Nat /\ ~NewTimer.running
    BY <1>2
  <2> QED BY <1>2, <2>1, ViewFact
<1>4. /\ timer.prevVKE_S = FALSE /\ timer.prevVKE_FR = FALSE
      /\ timer.status = FALSE
      /\ CheckDeadline(timer, now).status = FALSE
      /\ CheckDeadline(timer, now).running = FALSE
      /\ CheckDeadline(timer, now).remaining = 0
  BY <1>1, <1>2, <1>3, Zenon
<1> QED BY <1>1, <1>4, Zenon DEF Ideal!Init, Kinds

\* A step that changes neither the inputs nor the view is a stutter.
LEMMA SameViewStutters ==
  ASSUME timer'.prevVKE_S = timer.prevVKE_S, timer'.prevVKE_FR = timer.prevVKE_FR,
         timer'.status = timer.status,
         kind' = kind, SameView(timer', timer, now', now)
  PROVE  UNCHANGED Ideal!vars
BY Zenon DEF SameView, Ideal!vars

\* Time that passes is seen as the ideal timer's time.
LEMMA IdealTime ==
  ASSUME IInv, UpdateTimestamp
  PROVE  [Ideal!Next]_Ideal!vars
<1> PICK d \in TimeSteps :
      /\ now' = now + d
      /\ UNCHANGED <<kind, timer>>
  BY DEF UpdateTimestamp
<1>1. timer \in Timers /\ now \in Nat /\ d \in Nat /\ now' \in Nat
  BY CpuTimeAssumption DEF IInv, TypeOK, Timers
<1>2. timer.deadline \in Nat /\ timer.running \in BOOLEAN
  BY <1>1 DEF Timers
<1>3. CASE ~timer.running
  <2>1. SameView(timer', timer, now', now)
    <3>1. /\ CheckDeadline(timer, now).status = timer.status
          /\ CheckDeadline(timer, now).running = FALSE
          /\ CheckDeadline(timer, now).remaining = timer.remaining
      BY <1>1, <1>3, ViewFact
    <3>2. /\ CheckDeadline(timer, now').status = timer.status
          /\ CheckDeadline(timer, now').running = FALSE
          /\ CheckDeadline(timer, now').remaining = timer.remaining
      BY <1>1, <1>3, ViewFact
    <3> QED BY <3>1, <3>2, Zenon DEF SameView
  <2> QED BY <2>1, SameViewStutters
<1>4. CASE timer.running /\ ~(timer.deadline > now)
  <2>1. SameView(timer', timer, now', now)
    <3>1. /\ CheckDeadline(timer, now).status = timer.deadlineActionSetStatus
          /\ CheckDeadline(timer, now).running = FALSE
          /\ CheckDeadline(timer, now).remaining = 0
      BY <1>1, <1>4, ViewFact
    <3>2. ~(timer.deadline > now')
      BY <1>1, <1>2, <1>4
    <3>3. /\ CheckDeadline(timer, now').status = timer.deadlineActionSetStatus
          /\ CheckDeadline(timer, now').running = FALSE
          /\ CheckDeadline(timer, now').remaining = 0
      BY <1>1, <1>4, <3>2, ViewFact
    <3> QED BY <3>1, <3>3, Zenon DEF SameView
  <2> QED BY <2>1, SameViewStutters
<1>5. CASE timer.running /\ timer.deadline > now
  <2> DEFINE left == timer.deadline - now
  <2>1. /\ CheckDeadline(timer, now).status = timer.status
        /\ CheckDeadline(timer, now).running = TRUE
        /\ CheckDeadline(timer, now).remaining = left
    BY <1>1, <1>5, ViewFact
  <2>2. timer.deadlineActionSetStatus = Ideal!Final
    <3>1. timer.deadlineActionSetStatus \in BOOLEAN
      BY <1>1 DEF Timers
    <3> QED BY <1>5, <3>1 DEF IInv, ActionFitsKind, Ideal!Final
  <2>3. /\ CheckDeadline(timer, now').status = IF left > d THEN timer.status ELSE Ideal!Final
        /\ CheckDeadline(timer, now').running = (left > d)
        /\ CheckDeadline(timer, now').remaining = IF left > d THEN left - d ELSE 0
    <3>1. CASE left > d
      <4>1. timer.deadline > now' /\ timer.deadline - now' = left - d /\ (left > d) = TRUE
        BY <1>1, <1>2, <3>1
      <4> HIDE DEF left
      <4> QED BY <1>1, <1>5, <3>1, <4>1, ViewFact
    <3>2. CASE ~(left > d)
      <4>1. ~(timer.deadline > now') /\ (left > d) = FALSE
        BY <1>1, <1>2, <3>2
      <4> HIDE DEF left
      <4> QED BY <1>1, <1>5, <3>2, <4>1, <2>2, ViewFact
    <3> QED BY <3>1, <3>2
  <2> HIDE DEF left
  <2>4. Ideal!Elapse
    BY <2>1, <2>3, Zenon DEF Ideal!Elapse
  <2> QED BY <2>4 DEF Ideal!Next
<1> QED BY <1>2, <1>3, <1>4, <1>5

\* A start of the time is one of the ideal timer.
LEMMA IdealLaunch ==
  ASSUME IInv, NEW v \in BOOLEAN, NEW d \in Nat,
         timer' = Run(kind, timer, v, now, d), now' = now,
         Begins(kind, timer, v)
  PROVE  Ideal!Respond(v, d)
<1>1. timer \in Timers /\ now \in Nat /\ kind \in Kinds
  BY CpuTimeAssumption DEF IInv, TypeOK, Timers
<1> DEFINE c == Core(kind, timer, v, now, d)
           r == Run(kind, timer, v, now, d)
<1>2. c \in Timers /\ Started(c, kind, now, d, Level(kind, timer))
  BY <1>1, BeginFact
<1>3. r \in Timers /\ Started(r, kind, now, d, Level(kind, timer))
  <2>1. /\ r \in Timers /\ r.status = c.status /\ r.running = c.running
        /\ r.remaining = c.remaining /\ r.deadline = c.deadline
        /\ r.deadlineActionSetStatus = c.deadlineActionSetStatus
    BY <1>1, <1>2, RunFact
  <2> HIDE DEF r, c
  <2> QED BY <1>2, <2>1, Zenon DEF Started
<1>4. /\ CheckDeadline(timer', now').remaining = d
      /\ CheckDeadline(timer', now').running = (d > 0)
      /\ CheckDeadline(timer', now').status =
           IF d > 0 THEN Level(kind, timer) ELSE kind \in {"SE", "SS"}
      /\ timer'.status = Level(kind, timer)
  <2>1. timer' = r
    OBVIOUS
  <2> HIDE DEF r
  <2>2. /\ CheckDeadline(r, now).remaining = d
        /\ CheckDeadline(r, now).running = (d > 0)
        /\ CheckDeadline(r, now).status =
             IF d > 0 THEN Level(kind, timer) ELSE kind \in {"SE", "SS"}
    BY <1>1, <1>3, StartedView
  <2>3. r.status = Level(kind, timer)
    BY <1>3 DEF Started
  <2> QED BY <2>1, <2>2, <2>3, Zenon
<1>5. ASSUME NEW level, Level(kind, timer) = level
      PROVE  Ideal!Launch(d, level)
  BY <1>4, <1>5, Zenon DEF Ideal!Launch, Ideal!Final
<1>6. CASE kind = "SA"
  <2>1. Level(kind, timer) = TRUE /\ ~v /\ timer.prevVKE_S
    BY <1>6 DEF Level, Begins
  <2>2. Ideal!Launch(d, TRUE)
    BY <1>5, <2>1, Zenon
  <2> QED BY <1>6, <2>1, <2>2, Zenon DEF Ideal!Respond, Ideal!Falling
<1>7. CASE kind \in {"SI", "SV"}
  <2>1. Level(kind, timer) = TRUE /\ v /\ ~timer.prevVKE_S
    BY <1>7 DEF Level, Begins, Rises
  <2>2. Ideal!Launch(d, TRUE)
    BY <1>5, <2>1, Zenon
  <2> QED BY <1>7, <2>1, <2>2, Zenon DEF Ideal!Respond, Ideal!Rising
<1>8. CASE kind \in {"SE", "SS"}
  <2>1. v /\ ~timer.prevVKE_S
    BY <1>8 DEF Begins, Rises
  <2>2. Level(kind, timer) = timer.status
    BY <1>8 DEF Level
  <2>3. Ideal!Launch(d, timer.status)
    BY <1>5, <2>2, Zenon
  <2> QED BY <1>8, <2>1, <2>3, Zenon DEF Ideal!Respond, Ideal!Rising
<1> QED BY <1>1, <1>6, <1>7, <1>8 DEF Kinds

\* A stop of the time is one of the ideal timer.
LEMMA IdealEnd ==
  ASSUME IInv, NEW v \in BOOLEAN, NEW d \in Nat,
         timer' = Run(kind, timer, v, now, d), now' = now,
         Ends(kind, timer, v)
  PROVE  Ideal!Respond(v, d)
<1>1. timer \in Timers /\ now \in Nat /\ kind \in Kinds
  BY CpuTimeAssumption DEF IInv, TypeOK, Timers
<1> DEFINE c == Core(kind, timer, v, now, d)
           r == Run(kind, timer, v, now, d)
<1>2. c \in Timers /\ Stopped(c, timer, now, kind = "SA")
  BY <1>1, EndFact
<1>3. r \in Timers /\ Stopped(r, timer, now, kind = "SA")
  <2>1. /\ r \in Timers /\ r.status = c.status /\ r.running = c.running
        /\ r.remaining = c.remaining
    BY <1>1, <1>2, RunFact
  <2> HIDE DEF r, c
  <2> QED BY <1>2, <2>1, Zenon DEF Stopped
<1>4. /\ CheckDeadline(timer', now').status = (kind = "SA")
      /\ CheckDeadline(timer', now').running = FALSE
      /\ CheckDeadline(timer', now').remaining = CheckDeadline(timer, now).remaining
      /\ timer'.status = (kind = "SA")
  <2>1. timer' = r
    OBVIOUS
  <2> HIDE DEF r
  <2>2. /\ r.running = FALSE /\ r.status = (kind = "SA")
        /\ r.remaining = CheckDeadline(timer, now).remaining
    BY <1>3, Zenon DEF Stopped
  <2>3. ~r.running
    BY <2>2
  <2>4. /\ CheckDeadline(r, now).status = r.status
        /\ CheckDeadline(r, now).running = FALSE
        /\ CheckDeadline(r, now).remaining = r.remaining
    BY <1>1, <1>3, <2>3, ViewFact
  <2> QED BY <2>1, <2>2, <2>4, Zenon
<1>5. Ideal!Stop(kind = "SA")
  BY <1>4, Zenon DEF Ideal!Stop
<1>6. CASE kind = "SA"
  <2>1. (kind = "SA") = TRUE /\ v /\ ~timer.prevVKE_S
    BY <1>6 DEF Ends, Rises
  <2>2. Ideal!Stop(TRUE)
    BY <1>5, <2>1, Zenon
  <2> QED BY <1>6, <2>1, <2>2, Zenon DEF Ideal!Respond, Ideal!Rising
<1>7. CASE kind # "SA"
  <2>1. (kind = "SA") = FALSE /\ ~v /\ kind \in {"SI", "SE"}
    BY <1>7 DEF Ends
  <2>2. Ideal!Stop(FALSE)
    BY <1>5, <2>1, Zenon
  <2> QED BY <2>1, <2>2, Zenon DEF Ideal!Respond
<1> QED BY <1>6, <1>7

\* An instruction without an edge changes nothing that a read finds.
LEMMA IdealIdle ==
  ASSUME IInv, NEW v \in BOOLEAN, NEW d \in Nat,
         timer' = Run(kind, timer, v, now, d), now' = now,
         ~Begins(kind, timer, v), ~Ends(kind, timer, v)
  PROVE  /\ Ideal!Idle(v) /\ SameView(timer', timer, now', now)
         /\ timer'.status = timer.status
<1>1. timer \in Timers /\ now \in Nat /\ kind \in Kinds
  BY CpuTimeAssumption DEF IInv, TypeOK, Timers
<1>2. Ideal!Idle(v)
  BY <1>1 DEF Ideal!Idle, Ideal!Rising, Ideal!Falling, Begins, Ends, Rises, Kinds
<1> DEFINE r == Run(kind, timer, v, now, d)
           f == Fitted(timer, kind)
<1>3. Core(kind, timer, v, now, d) = f /\ f \in Timers
  BY <1>1, IdleFact, FittedFact
<1>4. /\ r \in Timers /\ r.running = f.running /\ r.status = f.status
      /\ r.remaining = f.remaining /\ r.deadline = f.deadline
      /\ r.deadlineActionSetStatus = f.deadlineActionSetStatus
  <2>1. Core(kind, timer, v, now, d) \in Timers
    BY <1>3
  <2> QED BY <1>1, <1>3, <2>1, RunFact
<1>5. /\ f.running = timer.running /\ f.status = timer.status
      /\ f.remaining = timer.remaining /\ f.deadline = timer.deadline
      /\ f.deadlineActionSetStatus = (kind \in {"SE", "SS"})
  BY <1>1, FittedFact
<1>6. timer.running =>
        timer.deadlineActionSetStatus = (kind \in {"SE", "SS"})
  BY <1>1 DEF IInv, ActionFitsKind, Timers
<1>7. SameView(r, timer, now, now)
  <2> HIDE DEF r, f
  <2>1. /\ r.running = timer.running /\ r.status = timer.status
        /\ r.remaining = timer.remaining /\ r.deadline = timer.deadline
    BY <1>4, <1>5
  <2>2. timer.running => r.deadlineActionSetStatus = timer.deadlineActionSetStatus
    BY <1>4, <1>5, <1>6, Zenon
  <2> QED BY <1>1, <1>4, <2>1, <2>2, SameViewFact
<1>8. r.status = timer.status
  <2> HIDE DEF r, f
  <2> QED BY <1>4, <1>5, Zenon
<1> QED BY <1>2, <1>7, <1>8, Zenon

\* A start instruction begins the time, ends it, or leaves what is seen alone.
LEMMA IdealDrive ==
  ASSUME IInv, Drive
  PROVE  Ideal!Drive
<1> PICK v \in BOOLEAN, d \in Durations :
      /\ timer' = Run(kind, timer, v, now, d)
      /\ UNCHANGED <<kind, now, clock, origin>>
  BY DEF Drive
<1>1. timer \in Timers /\ now \in Nat /\ d \in Nat /\ kind \in Kinds
  BY CpuTimeAssumption DEF IInv, TypeOK, Timers
<1>2. now' = now /\ kind' = kind
  OBVIOUS
<1>3. timer'.prevVKE_S = v /\ timer'.prevVKE_FR = timer.prevVKE_FR
  <2> DEFINE c == Core(kind, timer, v, now, d)
  <2>1. c \in Timers
    BY <1>1, RunTyped
  <2>2. c.prevVKE_FR = timer.prevVKE_FR
    <3>1. CASE Begins(kind, timer, v)
      BY <1>1, <3>1, BeginFact
    <3>2. CASE Ends(kind, timer, v)
      BY <1>1, <3>2, EndFact
    <3>3. CASE ~Begins(kind, timer, v) /\ ~Ends(kind, timer, v)
      BY <1>1, <3>3, IdleFact, FittedFact
    <3> QED BY <3>1, <3>2, <3>3
  <2> QED BY <1>1, <2>1, <2>2, RunFact
<1>4. \/ Ideal!Respond(v, d)
      \/ /\ Ideal!Idle(v) /\ SameView(timer', timer, now', now)
         /\ timer'.status = timer.status
  BY <1>1, <1>2, IdealLaunch, IdealEnd, IdealIdle
<1> QED BY <1>2, <1>3, <1>4, Zenon DEF Ideal!Drive, SameView

\* FR changes what the next start instruction sees, and nothing of the time.
LEMMA IdealEnable ==
  ASSUME IInv, Enable
  PROVE  Ideal!Enable
<1> PICK v \in BOOLEAN :
      /\ timer' = RunFR(timer, v)
      /\ UNCHANGED <<kind, now, clock, origin>>
  BY DEF Enable
<1>1. timer \in Timers /\ now \in Nat
  BY CpuTimeAssumption DEF IInv, TypeOK, Timers
<1>2. /\ timer' \in Timers /\ timer'.running = timer.running
      /\ timer'.status = timer.status /\ timer'.remaining = timer.remaining
      /\ timer'.deadline = timer.deadline
      /\ timer'.deadlineActionSetStatus = timer.deadlineActionSetStatus
  BY <1>1 DEF RunFR, Timers
<1>3. SameView(timer', timer, now, now)
  BY <1>1, <1>2, SameViewFact
<1>4. /\ timer'.prevVKE_FR = v
      /\ timer'.prevVKE_S = (timer.prevVKE_S /\ ~(v /\ ~timer.prevVKE_FR))
  BY <1>1 DEF RunFR, Timers
<1>5. now' = now /\ kind' = kind
  OBVIOUS
<1> QED BY <1>2, <1>3, <1>4, <1>5, Zenon DEF Ideal!Enable, SameView

\* R T resets the ideal timer.
LEMMA IdealReset ==
  ASSUME IInv, ResetTimer
  PROVE  Ideal!Reset
<1>1. timer' = Reset(timer) /\ UNCHANGED <<kind, now, clock, origin>>
  BY DEF ResetTimer
<1>2. timer \in Timers /\ now \in Nat
  BY CpuTimeAssumption DEF IInv, TypeOK, Timers
<1>3. /\ timer' \in Timers /\ timer'.running = FALSE /\ timer'.status = FALSE
      /\ timer'.remaining = 0 /\ timer'.prevVKE_S = timer.prevVKE_S
      /\ timer'.prevVKE_FR = timer.prevVKE_FR
  BY <1>1, <1>2 DEF Reset, Timers
<1>4. /\ CheckDeadline(timer', now).status = timer'.status
      /\ CheckDeadline(timer', now).running = FALSE
      /\ CheckDeadline(timer', now).remaining = timer'.remaining
  <2>1. ~timer'.running
    BY <1>3
  <2> QED BY <1>2, <1>3, <2>1, ViewFact
<1>5. now' = now /\ kind' = kind
  BY <1>1
<1> QED BY <1>3, <1>4, <1>5, Zenon DEF Ideal!Reset

\* A read changes nothing that a read finds, and shows the status it finds.
LEMMA IdealRead ==
  ASSUME IInv, Read
  PROVE  Ideal!Look
<1>1. timer' = CheckDeadline(timer, now) /\ now' = now /\ kind' = kind
  BY DEF Read
<1>2. timer \in Timers /\ now \in Nat
  BY CpuTimeAssumption DEF IInv, TypeOK, Timers
<1> DEFINE c == CheckDeadline(timer, now)
<1>3. /\ c \in Timers /\ c.prevVKE_S = timer.prevVKE_S
      /\ c.prevVKE_FR = timer.prevVKE_FR /\ c.deadline = timer.deadline
      /\ (c.running => timer.running /\ timer.deadline > now)
  BY <1>2, CheckDeadlineFact
<1>4. SameView(c, timer, now, now)
  <2>1. CASE ~c.running
    <3>1. c.running = FALSE
      BY <1>3, <2>1 DEF Timers
    <3>2. CheckDeadline(c, now).status = c.status
          /\ CheckDeadline(c, now).running = FALSE
          /\ CheckDeadline(c, now).remaining = c.remaining
      <4> HIDE DEF c
      <4> QED BY <1>2, <1>3, <2>1, ViewFact
    <3> QED BY <3>1, <3>2, Zenon DEF SameView
  <2>2. CASE c.running
    <3>1. /\ c.status = timer.status /\ c.running = TRUE
          /\ c.remaining = timer.deadline - now
      BY <1>2, <1>3, <2>2, ViewFact
    <3>2. c.running /\ c.deadline > now
      BY <1>3, <2>2
    <3>3. /\ CheckDeadline(c, now).status = c.status
          /\ CheckDeadline(c, now).running = TRUE
          /\ CheckDeadline(c, now).remaining = c.deadline - now
      <4> HIDE DEF c
      <4> QED BY <1>2, <1>3, <3>2, ViewFact
    <3>4. c.deadline - now = timer.deadline - now
      BY <1>3
    <3> QED BY <3>1, <3>3, <3>4, Zenon DEF SameView
  <2> QED BY <2>1, <2>2
<1> HIDE DEF c
<1>5. SameView(timer', timer, now', now)
  BY <1>1, <1>4, Zenon DEF c
<1> QED BY <1>1, <1>3, <1>5, Zenon DEF c, SameView, Ideal!Look

\* Every step is one of the ideal timer or a stutter.
LEMMA IdealStep ==
  ASSUME IInv, [Next]_vars
  PROVE  [Ideal!Next]_Ideal!vars
<1>1. CASE UpdateTimestamp
  BY <1>1, IdealTime
<1>2. CASE Restart
  <2>1. UNCHANGED <<kind, timer, now>>
    BY <1>2 DEF Restart
  <2> QED BY <2>1 DEF Ideal!vars
<1>3. CASE Drive
  BY <1>3, IdealDrive DEF Ideal!Next
<1>4. CASE Enable
  BY <1>4, IdealEnable DEF Ideal!Next
<1>5. CASE ResetTimer
  BY <1>5, IdealReset DEF Ideal!Next
<1>6. CASE Read
  BY <1>6, IdealRead DEF Ideal!Next
<1>7. CASE UNCHANGED vars
  BY <1>7 DEF vars, Ideal!vars
<1> QED BY <1>1, <1>2, <1>3, <1>4, <1>5, <1>6, <1>7 DEF Next

\* What a program sees of a timer is what it would see of one that acts at its
\* deadline, although the timer only looks at the time when it is used
\* (__checkDeadline), save that an SE or SS which is started again begins with
\* the status that was looked at last (run_SE and run_SS do not look).
THEOREM TimerIsIdealTimer == Spec => TimerIsIdeal
<1>1. IInv /\ [Next]_vars => [Ideal!Next]_Ideal!vars
  BY IdealStep
<1> QED BY <1>1, IdealInit, InitInv, StepInv, PTL DEF Spec, TimerIsIdeal, Ideal!Spec

----------------------------------------------------------------------------
(* Induction, which the histories of timers and counters, and powers of    *)
(* two, call for.                                                          *)

\* A set of numbers has a least one.
LEMMA LeastOfSet ==
  ASSUME NEW T, T \subseteq Nat, T # {}
  PROVE  \E x \in T : \A y \in T : x <= y
<1> DEFINE R == {ss \in Nat \X Nat : ss[1] < ss[2]}
<1>1. IsWellFoundedOn(R, Nat)
  BY NatLessThanWellFounded, Zenon DEF OpToRel
<1> HIDE DEF R
<1>2. PICK x \in T : \A y \in T : <<y, x>> \notin R
  BY <1>1, WFMin, Zenon
<1>3. ASSUME NEW y \in T PROVE x <= y
  <2>1. <<y, x>> \notin R
    BY <1>2
  <2>2. x \in Nat /\ y \in Nat
    OBVIOUS
  <2> QED BY <2>1, <2>2 DEF R
<1> QED BY <1>3

\* A set that has 0, and with a number the next one, has them all.
LEMMA SetInduction ==
  ASSUME NEW S, 0 \in S, \A n \in Nat : n \in S => n + 1 \in S
  PROVE  Nat \subseteq S
<1> DEFINE T == Nat \ S
<1>1. ASSUME T # {} PROVE FALSE
  <2>1. PICK x \in T : \A y \in T : x <= y
    BY <1>1, LeastOfSet
  <2>2. x \in Nat /\ x # 0
    BY <2>1
  <2>3. x - 1 \in Nat /\ x - 1 \notin T
    BY <2>1, <2>2
  <2> QED BY <2>1, <2>2, <2>3
<1> QED BY <1>1

\* What is computed step by step can be computed as far as one likes.
StepByStep(g, X, c, m, F) ==
  g \in [0..m -> X] /\ g[0] = c /\ \A k \in 1..m : g[k] = F[<<g[k - 1], k>>]

LEMMA Recursion ==
  ASSUME NEW X, NEW c \in X, NEW m \in Nat, NEW F \in [X \X (1..m) -> X]
  PROVE  \E g : StepByStep(g, X, c, m, F)
<1> DEFINE Steps(n, g) == g \in [0..n -> X] /\ g[0] = c /\ \A k \in 1..n : g[k] = F[<<g[k - 1], k>>]
           S == {n \in Nat : n <= m => \E g : Steps(n, g)}
<1>1. 0 \in S
  <2>1. Steps(0, [k \in 0..0 |-> c])
    OBVIOUS
  <2> QED BY <2>1
<1>2. ASSUME NEW n \in Nat, n \in S PROVE n + 1 \in S
  <2> SUFFICES ASSUME n + 1 <= m PROVE \E h : Steps(n + 1, h)
    OBVIOUS
  <2>1. PICK g : Steps(n, g)
    BY <1>2
  <2> DEFINE h == [k \in 0..(n + 1) |-> IF k <= n THEN g[k] ELSE F[<<g[n], n + 1>>]]
  <2>2. g[n] \in X /\ <<g[n], n + 1>> \in X \X (1..m)
    BY <2>1
  <2>3. h \in [0..(n + 1) -> X] /\ h[0] = c
    BY <2>1, <2>2
  <2>4. ASSUME NEW k \in 1..(n + 1) PROVE h[k] = F[<<h[k - 1], k>>]
    <3>1. k - 1 \in 0..n /\ h[k - 1] = g[k - 1]
      OBVIOUS
    <3>2. CASE k <= n
      BY <2>1, <3>1, <3>2
    <3>3. CASE k = n + 1
      BY <3>1, <3>3
    <3> QED BY <3>2, <3>3
  <2> QED BY <2>3, <2>4
<1> HIDE DEF Steps
<1> HIDE DEF S
<1>3. m \in S
  BY <1>1, <1>2, SetInduction
<1>4. \E g : Steps(m, g)
  BY <1>3 DEF S
<1> QED BY <1>4 DEF Steps, StepByStep

----------------------------------------------------------------------------
(* Quotients and remainders.                                               *)

\* Quotients and remainders are unique.
LEMMA QuotientAndRest ==
  ASSUME NEW M \in Nat \ {0}, NEW a \in Int, NEW q, NEW r, q = a \div M, r = a % M
  PROVE  q \in Int /\ r \in 0..(M - 1) /\ a = M * q + r
<1>1. q \in Int /\ r \in 0..(M - 1)
  OBVIOUS
<1>2. a = M * q + r
  OBVIOUS
<1> QED BY <1>1, <1>2

LEMMA Quotients ==
  ASSUME NEW M \in Nat \ {0}, NEW q \in Int, NEW r \in 0..(M - 1)
  PROVE  (M * q + r) \div M = q /\ (M * q + r) % M = r
OBVIOUS

LEMMA UniquePair ==
  ASSUME NEW M \in Nat \ {0}, NEW p \in Int, NEW q \in Int, NEW r \in 0..(M - 1),
         NEW s \in 0..(M - 1),
         M * p + r = M * q + s
  PROVE  p = q /\ r = s
OBVIOUS

LEMMA Divided ==
  ASSUME NEW M \in Nat \ {0}, NEW a \in Int
  PROVE  /\ a \div M \in Int /\ a % M \in 0..(M - 1)
         /\ a = M * (a \div M) + (a % M)
<1>1. PICK q, r : q = a \div M /\ r = a % M
  OBVIOUS
<1>2. q \in Int /\ r \in 0..(M - 1) /\ a = M * q + r
  BY <1>1, QuotientAndRest
<1> QED BY <1>1, <1>2, Zenon

----------------------------------------------------------------------------
(* The TIME.                                                               *)

LEMMA DivMod ==
  ASSUME NEW M \in Nat \ {0}, NEW a \in Nat
  PROVE  \E q \in Int : \E r \in 0..(M - 1) : a = M * q + r /\ a % M = r
<1>1. PICK q, r : q = a \div M /\ r = a % M
  OBVIOUS
<1>2. q \in Int /\ r \in 0..(M - 1) /\ a = M * q + r
  BY <1>1, QuotientAndRest
<1> QED BY <1>1, <1>2

\* The difference of two TIMEs is that of the times, wherever they wrap around.
LEMMA DifferenceOfTimes ==
  ASSUME NEW M \in Nat \ {0}, NEW a \in Nat, NEW t \in Nat, a <= t, t - a < M
  PROVE  ((t % M) - (a % M)) % M = t - a
<1>1. PICK p \in Int, r \in 0..(M - 1) : t = M * p + r /\ t % M = r
  BY DivMod
<1>2. PICK q \in Int, s \in 0..(M - 1) : a = M * q + s /\ a % M = s
  BY DivMod
<1> DEFINE k == p - q
           d == t - a
<1>3. d \in 0..(M - 1) /\ k \in Int /\ r - s = d - M * k
  BY <1>1, <1>2
<1>4. k = 0 \/ k = 1
  <2>1. -M < r - s /\ r - s < M
    OBVIOUS
  <2> HIDE DEF k, d
  <2> QED BY <1>3, <2>1
<1> HIDE DEF k, d
<1>5. r - s = M * 0 + d \/ r - s = M * (-1) + d
  BY <1>3, <1>4
<1>6. (M * 0 + d) % M = d /\ (M * (-1) + d) % M = d
  BY <1>3
<1> QED BY <1>1, <1>2, <1>5, <1>6 DEF d

----------------------------------------------------------------------------
(* The calls of a timer block.                                             *)

Delays == {pt \in Presets : pt > 0}
Calls == [at : Nat, in : BOOLEAN, pt : Delays]

LEMMA CallFact ==
  ASSUME NEW log \in Seq(Calls), NEW k \in 1..Len(log)
  PROVE  /\ log[k].at \in Nat /\ log[k].in \in BOOLEAN
         /\ log[k].pt \in Presets /\ log[k].pt \in Nat /\ log[k].pt > 0
<1>1. log[k] \in Calls
  OBVIOUS
<1>2. log[k].at \in Nat /\ log[k].in \in BOOLEAN /\ log[k].pt \in Delays
  BY <1>1 DEF Calls
<1>3. \A pt \in Delays : pt \in Presets /\ pt \in Nat /\ pt > 0
  <2>1. Presets \subseteq Int
    BY IecTimerAssumption
  <2> QED BY <2>1 DEF Delays
<1> QED BY <1>2, <1>3

\* One more call.
LEMMA OneMore ==
  ASSUME NEW S, NEW log \in Seq(S), NEW c \in S
  PROVE  /\ Append(log, c) \in Seq(S) /\ Append(log, c) # <<>>
         /\ Len(log) \in Nat /\ Len(Append(log, c)) = Len(log) + 1
         /\ \A k \in 1..Len(log) : Append(log, c)[k] = log[k]
         /\ Append(log, c)[Len(log) + 1] = c
OBVIOUS

Ended(log, s, k) == log[k].at - log[s].at >= log[k].pt

\* The first call that ends the time.
LEMMA OverFacts ==
  ASSUME NEW log \in Seq(Calls), NEW s \in 1..Len(log), NEW o, o = Iec!Over(log, s)
  PROVE  \/ o = 0 /\ \A k \in s..Len(log) : ~Ended(log, s, k)
         \/ o \in s..Len(log) /\ Ended(log, s, o) /\ \A k \in s..(o - 1) : ~Ended(log, s, k)
<1> DEFINE E == {k \in s..Len(log) : Ended(log, s, k)}
<1>1. o = IF s = 0 \/ E = {} THEN 0 ELSE CHOOSE k \in E : \A l \in E : k <= l
  BY DEF Iec!Over, Ended
<1>2. CASE E = {}
  BY <1>1, <1>2
<1>3. CASE E # {}
  <2>1. E \subseteq Nat
    OBVIOUS
  <2>2. \E k \in E : \A l \in E : k <= l
    BY <1>3, <2>1, LeastOfSet
  <2> HIDE DEF E
  <2>a. o = CHOOSE k \in E : \A l \in E : k <= l
    BY <1>1, <1>3
  <2>3. o \in E /\ \A l \in E : o <= l
    BY <2>2, <2>a, Zenon
  <2>4. o \in s..Len(log) /\ Ended(log, s, o)
    BY <2>3 DEF E
  <2>5. ASSUME NEW k \in s..(o - 1), Ended(log, s, k) PROVE FALSE
    <3>1. k \in E
      BY <2>4, <2>5 DEF E
    <3> QED BY <2>3, <2>4, <3>1
  <2> QED BY <2>4, <2>5
<1> QED BY <1>2, <1>3

LEMMA OverIs ==
  ASSUME NEW log \in Seq(Calls), NEW s \in 1..Len(log)
  PROVE  /\ (\A k \in s..Len(log) : ~Ended(log, s, k)) => Iec!Over(log, s) = 0
         /\ \A o \in s..Len(log) :
              Ended(log, s, o) /\ (\A k \in s..(o - 1) : ~Ended(log, s, k)) => Iec!Over(log, s) = o
<1> DEFINE p == Iec!Over(log, s)
<1>1. \/ p = 0 /\ \A k \in s..Len(log) : ~Ended(log, s, k)
      \/ p \in s..Len(log) /\ Ended(log, s, p) /\ \A k \in s..(p - 1) : ~Ended(log, s, k)
  BY OverFacts
<1> HIDE DEF p
<1>2. ASSUME \A k \in s..Len(log) : ~Ended(log, s, k) PROVE p = 0
  BY <1>1, <1>2
<1>3. ASSUME NEW o \in s..Len(log), Ended(log, s, o), \A k \in s..(o - 1) : ~Ended(log, s, k) PROVE p = o
  BY <1>1, <1>3
<1> QED BY <1>2, <1>3 DEF p

\* One more call ends a time that was not over, or not.
LEMMA OverStep ==
  ASSUME NEW log \in Seq(Calls), NEW c \in Calls, NEW s \in 1..Len(log)
  PROVE  Iec!Over(Append(log, c), s) =
           IF Iec!Over(log, s) # 0 THEN Iec!Over(log, s)
           ELSE IF c.at - log[s].at >= c.pt THEN Len(log) + 1 ELSE 0
<1> DEFINE L == Append(log, c)
           o == Iec!Over(log, s)
<1>1. /\ L \in Seq(Calls) /\ Len(log) \in Nat /\ Len(L) = Len(log) + 1
      /\ \A k \in 1..Len(log) : L[k] = log[k]
      /\ L[Len(log) + 1] = c
  BY OneMore
<1>2. \/ o = 0 /\ \A k \in s..Len(log) : ~Ended(log, s, k)
      \/ o \in s..Len(log) /\ Ended(log, s, o) /\ \A k \in s..(o - 1) : ~Ended(log, s, k)
  BY OverFacts
<1> HIDE DEF L, o
<1>3. s \in 1..Len(L) /\ L[s] = log[s]
  BY <1>1
<1>4. \A k \in s..Len(log) : Ended(L, s, k) <=> Ended(log, s, k)
  BY <1>1, <1>3 DEF Ended
<1>5. Ended(L, s, Len(log) + 1) <=> c.at - log[s].at >= c.pt
  BY <1>1, <1>3 DEF Ended
<1>6. CASE o # 0
  <2>1. o \in s..Len(log) /\ o \in s..Len(L) /\ \A k \in s..(o - 1) : k \in s..Len(log)
    BY <1>1, <1>2, <1>6
  <2>2. Ended(L, s, o) /\ \A k \in s..(o - 1) : ~Ended(L, s, k)
    BY <1>2, <1>4, <1>6, <2>1
  <2>3. Iec!Over(L, s) = o
    BY <1>1, <1>3, <2>1, <2>2, OverIs
  <2> QED BY <1>6, <2>3 DEF L, o
<1>7. CASE o = 0 /\ c.at - log[s].at >= c.pt
  <2>1. Len(log) + 1 \in s..Len(L) /\ \A k \in s..((Len(log) + 1) - 1) : k \in s..Len(log)
    BY <1>1
  <2>2. Ended(L, s, Len(log) + 1) /\ \A k \in s..((Len(log) + 1) - 1) : ~Ended(L, s, k)
    BY <1>2, <1>4, <1>5, <1>7, <2>1
  <2>3. Iec!Over(L, s) = Len(log) + 1
    BY <1>1, <1>3, <2>1, <2>2, OverIs
  <2> QED BY <1>7, <2>3 DEF L, o
<1>8. CASE o = 0 /\ ~(c.at - log[s].at >= c.pt)
  <2>1. \A k \in s..Len(L) : k \in s..Len(log) \/ k = Len(log) + 1
    BY <1>1
  <2>2. \A k \in s..Len(L) : ~Ended(L, s, k)
    BY <1>2, <1>4, <1>5, <1>8, <2>1
  <2>3. Iec!Over(L, s) = 0
    BY <1>1, <1>3, <2>2, OverIs
  <2> QED BY <1>8, <2>3 DEF L, o
<1> QED BY <1>6, <1>7, <1>8

\* A time that begins is not over yet.
LEMMA OverNew ==
  ASSUME NEW log \in Seq(Calls), NEW c \in Calls
  PROVE  Iec!Over(Append(log, c), Len(log) + 1) = 0
<1> DEFINE L == Append(log, c)
           s == Len(log) + 1
<1>1. L \in Seq(Calls) /\ Len(log) \in Nat /\ Len(L) = s
  BY OneMore
<1> HIDE DEF L, s
<1>2. s \in 1..Len(L)
  BY <1>1 DEF s
<1>3. L[s].at \in Nat /\ L[s].pt \in Nat /\ L[s].pt > 0
  BY <1>1, <1>2, CallFact
<1>4. ~Ended(L, s, s)
  BY <1>3 DEF Ended
<1>5. Iec!Over(L, s) = 0
  BY <1>1, <1>2, <1>4, OverIs
<1> QED BY <1>5 DEF L, s

\* The input has been on since call s; off since call s, which found it off again.
OnFrom(log, s) ==
  /\ s \in 1..Len(log) /\ \A k \in s..Len(log) : log[k].in
  /\ s > 1 => ~log[s - 1].in
OffFrom(log, s) == s \in 2..Len(log) /\ log[s - 1].in /\ \A k \in s..Len(log) : ~log[k].in

LEMMA OnFacts ==
  ASSUME NEW log \in Seq(Calls), NEW s, s = Iec!OnSince(log)
  PROVE  \/ s = 0 /\ (log # <<>> => ~log[Len(log)].in)
         \/ OnFrom(log, s)
<1> DEFINE T == {j \in 1..Len(log) : \A k \in j..Len(log) : log[k].in}
<1>1. s = IF T = {} THEN 0 ELSE CHOOSE j \in T : \A k \in T : j <= k
  BY DEF Iec!OnSince
<1>0. Len(log) \in Nat /\ (log # <<>> => Len(log) > 0) /\ \A k \in 1..Len(log) : log[k].in \in BOOLEAN
  BY CallFact
<1>2. CASE T = {}
  <2>1. ASSUME log # <<>>, log[Len(log)].in PROVE FALSE
    <3>1. Len(log) \in T
      BY <1>0, <2>1
    <3> QED BY <1>2, <3>1
  <2> QED BY <1>0, <1>1, <1>2, <2>1
<1>3. CASE T # {}
  <2>1. T \subseteq Nat
    OBVIOUS
  <2>2. \E j \in T : \A k \in T : j <= k
    BY <1>3, <2>1, LeastOfSet
  <2> HIDE DEF T
  <2>3. s = CHOOSE j \in T : \A k \in T : j <= k
    BY <1>1, <1>3
  <2>4. s \in T /\ \A k \in T : s <= k
    BY <2>2, <2>3, Zenon
  <2>5. s \in 1..Len(log) /\ \A k \in s..Len(log) : log[k].in
    BY <2>4 DEF T
  <2>6. ASSUME s > 1, log[s - 1].in PROVE FALSE
    <3>1. s - 1 \in 1..Len(log) /\ \A k \in (s - 1)..Len(log) : k = s - 1 \/ k \in s..Len(log)
      BY <1>0, <2>5, <2>6
    <3>2. s - 1 \in T
      BY <2>5, <2>6, <3>1 DEF T
    <3> QED BY <2>4, <2>5, <3>2
  <2> QED BY <2>5, <2>6 DEF OnFrom
<1> QED BY <1>2, <1>3

LEMMA OnUnique ==
  ASSUME NEW log \in Seq(Calls), NEW s, NEW t, OnFrom(log, s), OnFrom(log, t)
  PROVE  s = t
<1>1. ASSUME NEW p, NEW q, OnFrom(log, p), OnFrom(log, q), p < q PROVE FALSE
  <2>1. q > 1 /\ q - 1 \in p..Len(log)
    BY <1>1 DEF OnFrom
  <2> QED BY <1>1, <2>1 DEF OnFrom
<1>2. s \in Int /\ t \in Int
  BY DEF OnFrom
<1>3. ~(s < t)
  BY <1>1
<1>4. ~(t < s)
  BY <1>1
<1> QED BY <1>2, <1>3, <1>4

LEMMA OnStep ==
  ASSUME NEW log \in Seq(Calls), NEW c \in Calls
  PROVE  Iec!OnSince(Append(log, c)) =
           IF ~c.in THEN 0 ELSE IF Iec!OnSince(log) # 0 THEN Iec!OnSince(log) ELSE Len(log) + 1
<1> DEFINE L == Append(log, c)
           s == Iec!OnSince(log)
           t == Iec!OnSince(L)
<1>1. /\ L \in Seq(Calls) /\ L # <<>> /\ Len(log) \in Nat /\ Len(L) = Len(log) + 1
      /\ \A k \in 1..Len(log) : L[k] = log[k]
      /\ L[Len(log) + 1] = c
  BY OneMore
<1>2. (s = 0 /\ (log # <<>> => ~log[Len(log)].in)) \/ OnFrom(log, s)
  BY OnFacts
<1> HIDE DEF L
<1>3. (t = 0 /\ ~L[Len(L)].in) \/ OnFrom(L, t)
  BY <1>1, OnFacts
<1> HIDE DEF s, t
<1>4. L[Len(L)] = c
  BY <1>1
<1>5. CASE ~c.in
  <2>1. ~OnFrom(L, t)
    BY <1>1, <1>4, <1>5 DEF OnFrom
  <2> QED BY <1>3, <1>5, <2>1 DEF L, t
<1>6. CASE c.in /\ OnFrom(log, s)
  <2>1. /\ s \in 1..Len(L) /\ (s > 1 => s - 1 \in 1..Len(log))
        /\ \A k \in s..Len(L) : k \in s..Len(log) \/ k = Len(log) + 1
    BY <1>1, <1>6 DEF OnFrom
  <2>2. OnFrom(L, s)
    BY <1>1, <1>6, <2>1 DEF OnFrom
  <2>3. OnFrom(L, t)
    BY <1>3, <1>4, <1>6
  <2>4. t = s /\ s # 0
    BY <1>1, <2>1, <2>2, <2>3, OnUnique
  <2> QED BY <1>6, <2>4 DEF L, s, t
<1>7. CASE c.in /\ s = 0 /\ (log # <<>> => ~log[Len(log)].in)
  <2>1. /\ /\ Len(log) + 1 \in 1..Len(L)
        /\ (Len(log) + 1 > 1 => log # <<>> /\ L[Len(log)] = log[Len(log)])
        /\ \A k \in (Len(log) + 1)..Len(L) : k = Len(log) + 1
    BY <1>1
  <2>2. OnFrom(L, Len(log) + 1)
    BY <1>1, <1>7, <2>1 DEF OnFrom
  <2>3. OnFrom(L, t)
    BY <1>3, <1>4, <1>7
  <2>4. t = Len(log) + 1
    BY <1>1, <2>2, <2>3, OnUnique
  <2> QED BY <1>7, <2>4 DEF L, s, t
<1> QED BY <1>2, <1>5, <1>6, <1>7

LEMMA OffFacts ==
  ASSUME NEW log \in Seq(Calls), NEW s, s = Iec!OffSince(log)
  PROVE  \/ s = 0 /\ \A t : ~OffFrom(log, t)
         \/ OffFrom(log, s)
<1> DEFINE T == {j \in 2..Len(log) : log[j - 1].in /\ \A k \in j..Len(log) : ~log[k].in}
<1>1. s = IF T = {} THEN 0 ELSE CHOOSE j \in T : TRUE
  BY DEF Iec!OffSince
<1>2. \A t : t \in T <=> OffFrom(log, t)
  BY DEF OffFrom
<1> HIDE DEF T
<1>3. T # {} => (CHOOSE j \in T : TRUE) \in T
  BY Zenon
<1> QED BY <1>1, <1>2, <1>3

LEMMA OffUnique ==
  ASSUME NEW log \in Seq(Calls), NEW s, NEW t, OffFrom(log, s), OffFrom(log, t)
  PROVE  s = t
<1>1. ASSUME NEW p, NEW q, OffFrom(log, p), OffFrom(log, q), p < q PROVE FALSE
  <2>1. q - 1 \in p..Len(log)
    BY <1>1 DEF OffFrom
  <2> QED BY <1>1, <2>1 DEF OffFrom
<1>2. s \in Int /\ t \in Int
  BY DEF OffFrom
<1>3. ~(s < t)
  BY <1>1
<1>4. ~(t < s)
  BY <1>1
<1> QED BY <1>2, <1>3, <1>4

LEMMA OffStep ==
  ASSUME NEW log \in Seq(Calls), NEW c \in Calls
  PROVE  Iec!OffSince(Append(log, c)) =
           IF c.in THEN 0
           ELSE IF log # <<>> /\ log[Len(log)].in THEN Len(log) + 1
           ELSE Iec!OffSince(log)
<1> DEFINE L == Append(log, c)
           s == Iec!OffSince(log)
           t == Iec!OffSince(L)
<1>1. /\ L \in Seq(Calls) /\ L # <<>> /\ Len(log) \in Nat /\ Len(L) = Len(log) + 1
      /\ \A k \in 1..Len(log) : L[k] = log[k]
      /\ L[Len(log) + 1] = c
  BY OneMore
<1>2. (s = 0 /\ \A i : ~OffFrom(log, i)) \/ OffFrom(log, s)
  BY OffFacts
<1> HIDE DEF L
<1>3. (t = 0 /\ \A i : ~OffFrom(L, i)) \/ OffFrom(L, t)
  BY <1>1, OffFacts
<1> HIDE DEF s, t
<1>4. L[Len(L)] = c
  BY <1>1
<1>5. CASE c.in
  <2>1. ~OffFrom(L, t)
    BY <1>1, <1>4, <1>5 DEF OffFrom
  <2> QED BY <1>3, <1>5, <2>1 DEF L, t
<1>6. CASE ~c.in /\ log # <<>> /\ log[Len(log)].in
  <2>1. /\ /\ Len(log) + 1 \in 2..Len(L) /\ (Len(log) + 1) - 1 = Len(log)
        /\ L[Len(log)] = log[Len(log)]
        /\ \A k \in (Len(log) + 1)..Len(L) : k = Len(log) + 1
    BY <1>1, <1>6
  <2>2. OffFrom(L, Len(log) + 1)
    BY <1>1, <1>6, <2>1 DEF OffFrom
  <2>3. t = Len(log) + 1
    BY <1>1, <1>3, <2>2, OffUnique
  <2> QED BY <1>6, <2>3 DEF L, t
<1>7. CASE ~c.in /\ ~(log # <<>> /\ log[Len(log)].in)
  <2>1. ASSUME NEW i, OffFrom(log, i) PROVE OffFrom(L, i)
    <3>1. /\ i \in 2..Len(L) /\ i - 1 \in 1..Len(log)
          /\ \A k \in i..Len(L) : k \in i..Len(log) \/ k = Len(log) + 1
      BY <1>1, <2>1 DEF OffFrom
    <3> QED BY <1>1, <1>7, <2>1, <3>1 DEF OffFrom
  <2>2. ASSUME NEW i, OffFrom(L, i) PROVE OffFrom(log, i)
    <3>1. i \in 2..Len(L) /\ L[i - 1].in /\ \A k \in i..Len(L) : ~L[k].in
      BY <2>2 DEF OffFrom
    <3>2. i - 1 \in 1..Len(log) /\ L[i - 1] = log[i - 1]
      BY <1>1, <3>1
    <3>3. i # Len(log) + 1
      BY <1>7, <3>1, <3>2
    <3>4. i \in 2..Len(log) /\ \A k \in i..Len(log) : k \in i..Len(L) /\ L[k] = log[k]
      BY <1>1, <3>1, <3>3
    <3> QED BY <3>1, <3>2, <3>4 DEF OffFrom
  <2>3. t = s
    BY <1>1, <1>2, <1>3, <2>1, <2>2, OffUnique
  <2> QED BY <1>7, <2>3 DEF L, s, t
<1> QED BY <1>5, <1>6, <1>7

\* With which call the pulse begins, call by call.
BeginStep(log, s, n) ==
  IF ~Iec!Freed(log, s, n - 1) THEN s ELSE IF log[n].in THEN n ELSE 0

LEMMA BeginsFacts ==
  ASSUME NEW log \in Seq(Calls)
  PROVE  /\ Iec!Begins(log)[0] = 0
         /\ \A n \in 1..Len(log) : Iec!Begins(log)[n] = BeginStep(log, Iec!Begins(log)[n - 1], n)
<1> DEFINE F == [x \in Nat \X (1..Len(log)) |-> BeginStep(log, x[1], x[2])]
<1>1. Len(log) \in Nat
  OBVIOUS
<1>2. F \in [Nat \X (1..Len(log)) -> Nat]
  BY DEF BeginStep
<1>3. PICK g \in [0..Len(log) -> Nat] : g[0] = 0 /\ \A n \in 1..Len(log) : g[n] = F[<<g[n - 1], n>>]
  <2> HIDE DEF F
  <2>1. \E g : StepByStep(g, Nat, 0, Len(log), F)
    BY <1>1, <1>2, Recursion
  <2> QED BY <2>1 DEF StepByStep
<1>4. ASSUME NEW n \in 1..Len(log) PROVE g[n] = BeginStep(log, g[n - 1], n)
  <2>1. g[n - 1] \in Nat /\ <<g[n - 1], n>> \in Nat \X (1..Len(log))
    BY <1>1, <1>3
  <2>2. F[<<g[n - 1], n>>] = BeginStep(log, g[n - 1], n)
    BY <2>1
  <2> QED BY <1>3, <2>2
<1> HIDE DEF F
<1>5. g = [n \in 0..Len(log) |->
             IF n = 0 THEN 0
             ELSE IF ~Iec!Freed(log, g[n - 1], n - 1) THEN g[n - 1]
             ELSE IF log[n].in THEN n ELSE 0]
  <2>1. ASSUME NEW n \in 0..Len(log)
        PROVE  g[n] = IF n = 0 THEN 0
                      ELSE IF ~Iec!Freed(log, g[n - 1], n - 1) THEN g[n - 1]
                      ELSE IF log[n].in THEN n ELSE 0
    <3>1. n = 0 \/ n \in 1..Len(log)
      BY <1>1
    <3> QED BY <1>3, <1>4, <3>1 DEF BeginStep
  <2> QED BY <1>3, <2>1
<1>6. Iec!Begins(log) = [n \in 0..Len(log) |->
             IF n = 0 THEN 0
             ELSE IF ~Iec!Freed(log, Iec!Begins(log)[n - 1], n - 1) THEN Iec!Begins(log)[n - 1]
             ELSE IF log[n].in THEN n ELSE 0]
  BY <1>5, Zenon DEF Iec!Begins
<1> QED BY <1>1, <1>6 DEF BeginStep

LEMMA BeginsInRange ==
  ASSUME NEW log \in Seq(Calls)
  PROVE  \A n \in 0..Len(log) : Iec!Begins(log)[n] \in 0..n
<1> DEFINE S == {n \in Nat : n <= Len(log) => Iec!Begins(log)[n] \in 0..n}
<1>0. Len(log) \in Nat
  OBVIOUS
<1>1. 0 \in S
  BY BeginsFacts
<1>2. ASSUME NEW n \in Nat, n \in S PROVE n + 1 \in S
  <2>1. SUFFICES ASSUME n + 1 <= Len(log) PROVE Iec!Begins(log)[n + 1] \in 0..(n + 1)
    OBVIOUS
  <2>2. Iec!Begins(log)[n] \in 0..n
    BY <1>0, <1>2, <2>1
  <2>3. Iec!Begins(log)[n + 1] = BeginStep(log, Iec!Begins(log)[n], n + 1)
    BY <1>0, <2>1, BeginsFacts
  <2> QED BY <2>2, <2>3 DEF BeginStep
<1>3. Nat \subseteq S
  <2> HIDE DEF S
  <2> QED BY <1>1, <1>2, SetInduction
<1> QED BY <1>0, <1>3

\* What a call was about does not change with one more call.
LEMMA FreedStays ==
  ASSUME NEW log \in Seq(Calls), NEW c \in Calls, NEW n \in 0..Len(log), NEW s \in 0..n
  PROVE  Iec!Freed(Append(log, c), s, n) <=> Iec!Freed(log, s, n)
<1> DEFINE L == Append(log, c)
           l == SubSeq(log, 1, n)
           o == Iec!Over(l, s)
<1>1. /\ L \in Seq(Calls) /\ Len(log) \in Nat /\ Len(L) = Len(log) + 1
      /\ \A k \in 1..Len(log) : L[k] = log[k]
  BY OneMore
<1>2. SubSeq(L, 1, n) = l
  <2> HIDE DEF L
  <2> QED BY <1>1
<1>3. l \in Seq(Calls) /\ Len(l) = n
  OBVIOUS
<1> HIDE DEF L, l, o
<1>4. s = 0 \/ s \in 1..Len(l)
  BY <1>3
<1>5. s # 0 => o = 0 \/ o \in 1..n
  BY <1>1, <1>3, <1>4, OverFacts DEF o
<1>6. s # 0 /\ o # 0 => \A k \in o..n : L[k] = log[k]
  BY <1>1, <1>5
<1>7. Iec!Freed(log, s, n) <=> s = 0 \/ (o # 0 /\ \E k \in o..n : ~log[k].in)
  BY DEF Iec!Freed, o, l
<1>8. Iec!Freed(L, s, n) <=> s = 0 \/ (o # 0 /\ \E k \in o..n : ~L[k].in)
  BY <1>2 DEF Iec!Freed, o
<1> QED BY <1>6, <1>7, <1>8 DEF L

LEMMA BeginsStay ==
  ASSUME NEW log \in Seq(Calls), NEW c \in Calls
  PROVE  \A n \in 0..Len(log) : Iec!Begins(Append(log, c))[n] = Iec!Begins(log)[n]
<1> DEFINE L == Append(log, c)
           S == {n \in Nat : n <= Len(log) => Iec!Begins(L)[n] = Iec!Begins(log)[n]}
<1>0. /\ L \in Seq(Calls) /\ Len(log) \in Nat /\ Len(L) = Len(log) + 1
      /\ \A k \in 1..Len(log) : L[k] = log[k]
  BY OneMore
<1> HIDE DEF L
<1>1. 0 \in S
  BY <1>0, BeginsFacts
<1>2. ASSUME NEW n \in Nat, n \in S PROVE n + 1 \in S
  <2>1. SUFFICES ASSUME n + 1 <= Len(log) PROVE Iec!Begins(L)[n + 1] = Iec!Begins(log)[n + 1]
    OBVIOUS
  <2>2. n \in 0..Len(log) /\ n + 1 \in 1..Len(log) /\ n + 1 \in 1..Len(L) /\ (n + 1) - 1 = n
    BY <1>0, <2>1
  <2>3. Iec!Begins(L)[n] = Iec!Begins(log)[n]
    BY <1>2, <2>2
  <2>4. Iec!Begins(log)[n] \in 0..n
    BY <2>2, BeginsInRange
  <2>5. Iec!Freed(L, Iec!Begins(log)[n], n) <=> Iec!Freed(log, Iec!Begins(log)[n], n)
    BY <2>2, <2>4, FreedStays DEF L
  <2>6. Iec!Begins(L)[n + 1] = BeginStep(L, Iec!Begins(log)[n], n + 1)
    BY <1>0, <2>2, <2>3, BeginsFacts
  <2>7. Iec!Begins(log)[n + 1] = BeginStep(log, Iec!Begins(log)[n], n + 1)
    BY <2>2, BeginsFacts
  <2>8. BeginStep(L, Iec!Begins(log)[n], n + 1) = BeginStep(log, Iec!Begins(log)[n], n + 1)
    BY <1>0, <2>2, <2>5 DEF BeginStep
  <2> QED BY <2>6, <2>7, <2>8
<1>3. Nat \subseteq S
  <2> HIDE DEF S
  <2> QED BY <1>1, <1>2, SetInduction
<1> QED BY <1>0, <1>3 DEF L

LEMMA PulseFacts ==
  ASSUME NEW log \in Seq(Calls), NEW s, s = Iec!PulseSince(log)
  PROVE  /\ s \in 0..Len(log)
         /\ s = 0 <=> Iec!Freed(log, Iec!Begins(log)[Len(log)], Len(log))
         /\ s # 0 => s = Iec!Begins(log)[Len(log)] /\ ~Iec!Freed(log, s, Len(log))
<1> DEFINE b == Iec!Begins(log)[Len(log)]
<1>1. b \in 0..Len(log)
  BY BeginsInRange
<1>2. s = IF Iec!Freed(log, b, Len(log)) THEN 0 ELSE b
  BY DEF Iec!PulseSince
<1>3. b = 0 => Iec!Freed(log, b, Len(log))
  BY DEF Iec!Freed
<1> HIDE DEF b
<1> QED BY <1>1, <1>2, <1>3 DEF b

\* A pulse ends with the input off, at its end or after it.
LEMMA PulseStep ==
  ASSUME NEW log \in Seq(Calls), NEW c \in Calls, NEW s, s = Iec!PulseSince(log)
  PROVE  Iec!PulseSince(Append(log, c)) =
           IF s = 0 THEN IF c.in THEN Len(log) + 1 ELSE 0
           ELSE IF ~c.in /\ Iec!Over(Append(log, c), s) # 0 THEN 0 ELSE s
<1> DEFINE L == Append(log, c)
           b == Iec!Begins(L)[Len(L)]
           p == IF s # 0 THEN s ELSE IF c.in THEN Len(log) + 1 ELSE 0
           o == Iec!Over(L, p)
<1>1. /\ L \in Seq(Calls) /\ Len(log) \in Nat /\ Len(L) = Len(log) + 1
      /\ \A k \in 1..Len(log) : L[k] = log[k]
      /\ L[Len(log) + 1] = c
  BY OneMore
<1>2. /\ s \in 0..Len(log)
      /\ s = 0 <=> Iec!Freed(log, Iec!Begins(log)[Len(log)], Len(log))
      /\ s # 0 => s = Iec!Begins(log)[Len(log)] /\ ~Iec!Freed(log, s, Len(log))
  BY PulseFacts
<1>3. b = p
  <2>1. Iec!Begins(L)[Len(log)] = Iec!Begins(log)[Len(log)]
    BY <1>1, BeginsStay
  <2> HIDE DEF L
  <2>2. b = BeginStep(L, Iec!Begins(log)[Len(log)], Len(log) + 1)
    BY <1>1, <2>1, BeginsFacts
  <2>3. /\ (Len(log) + 1) - 1 = Len(log) /\ Len(log) \in 0..Len(log)
        /\ Iec!Begins(log)[Len(log)] \in 0..Len(log)
    BY <1>1, BeginsInRange
  <2>4. Iec!Freed(L, Iec!Begins(log)[Len(log)], Len(log)) <=> s = 0
    BY <1>2, <2>3, FreedStays DEF L
  <2> QED BY <1>1, <1>2, <2>2, <2>3, <2>4 DEF BeginStep
<1>4. SubSeq(L, 1, Len(L)) = L
  <2> HIDE DEF L
  <2> QED BY <1>1
<1>5. Iec!Freed(L, p, Len(L)) <=> p = 0 \/ (o # 0 /\ \E k \in o..Len(L) : ~L[k].in)
  BY <1>4 DEF Iec!Freed
<1>6. Iec!PulseSince(L) = IF Iec!Freed(L, p, Len(L)) THEN 0 ELSE p
  BY <1>3 DEF Iec!PulseSince
<1> HIDE DEF L, b, o
<1>7. CASE s = 0 /\ ~c.in
  BY <1>5, <1>6, <1>7 DEF L
<1>8. CASE s = 0 /\ c.in
  <2>1. o = 0 /\ p # 0
    BY <1>1, <1>8, OverNew DEF o, L
  <2> QED BY <1>5, <1>6, <1>8, <2>1 DEF L
<1>9. CASE s # 0
  <2>1. p = s /\ s \in 1..Len(log) /\ s \in 1..Len(L) /\ o = Iec!Over(L, s)
    BY <1>1, <1>2, <1>9 DEF o
  <2> HIDE DEF p
  <2>2. CASE o = 0
    BY <1>5, <1>6, <1>9, <2>1, <2>2 DEF L
  <2>3. CASE o # 0
    <3>1. o \in s..Len(L)
      BY <1>1, <2>1, <2>3, OverFacts
    <3>2. CASE ~c.in
      <4>1. Len(log) + 1 \in o..Len(L)
        BY <1>1, <2>1, <3>1
      <4>2. Iec!Freed(L, p, Len(L))
        BY <1>1, <1>5, <2>3, <3>2, <4>1
      <4> QED BY <1>6, <1>9, <2>1, <2>3, <3>2, <4>2 DEF L
    <3>3. CASE c.in
      <4> DEFINE q == Iec!Over(log, s)
      <4>1. o = IF q # 0 THEN q ELSE IF c.at - log[s].at >= c.pt THEN Len(log) + 1 ELSE 0
        BY <2>1, OverStep DEF L
      <4>2. SubSeq(log, 1, Len(log)) = log
        OBVIOUS
      <4>3. q # 0 => \A k \in q..Len(log) : log[k].in
        BY <1>2, <1>9, <4>2 DEF Iec!Freed
      <4>4. q = 0 \/ q \in 1..Len(log)
        BY <1>1, <2>1, OverFacts
      <4> HIDE DEF q
      <4>5. ASSUME NEW k \in o..Len(L) PROVE L[k].in
        <5>1. CASE q = 0
          BY <1>1, <2>3, <3>3, <4>1, <4>5, <5>1
        <5>2. CASE q # 0
          <6>1. o = q /\ (k = Len(log) + 1 \/ (k \in q..Len(log) /\ k \in 1..Len(log)))
            BY <1>1, <4>1, <4>4, <4>5, <5>2
          <6> QED BY <1>1, <3>3, <4>3, <5>2, <6>1
        <5> QED BY <5>1, <5>2
      <4>6. ~Iec!Freed(L, p, Len(L))
        BY <1>5, <1>9, <2>1, <4>5
      <4> QED BY <1>6, <1>9, <2>1, <2>3, <3>3, <4>6 DEF L
    <3> QED BY <3>2, <3>3
  <2> QED BY <2>2, <2>3
<1> QED BY <1>7, <1>8, <1>9

----------------------------------------------------------------------------
(* The blocks.                                                             *)

Instances ==
  [in : BOOLEAN, PT : Presets \cup {0}, Q : BOOLEAN, ET : 0..(Modulus - 1),
   bits : SUBSET {0, 1}, STIME : 0..(Modulus - 1)]

\* What an instance has of the time that began with call s and was over with
\* call o.
Timed(fb, log, s, o) ==
  /\ fb.ET = IF s = 0 THEN 0 ELSE IF o = 0 THEN log[Len(log)].at - log[s].at ELSE log[o].pt
  /\ s # 0 /\ o = 0 => fb.STIME = log[s].at % Modulus

\* What it has of it in STATE and Q.
ShownByTP(fb, log, s, o) ==
  /\ fb.bits = IF s = 0 THEN {} ELSE IF o = 0 THEN {Running} ELSE {Finished}
  /\ fb.Q = (s # 0 /\ o = 0)

ShownByTON(fb, log, s, o) ==
  /\ fb.bits = IF s = 0 THEN {} ELSE IF o = 0 THEN {Running} ELSE {Finished}
  /\ fb.Q = (s # 0 /\ o # 0)

LastIn(log) == log # <<>> /\ log[Len(log)].in

ShownByTOF(fb, log, s, o) ==
  /\ fb.bits = IF LastIn(log) THEN {PrevIn} ELSE IF s # 0 /\ o = 0 THEN {Delaying} ELSE {}
  /\ fb.Q = (LastIn(log) \/ (s # 0 /\ o = 0))

\* Q, ET and STATE are those of the time that the calls so far have begun.
TimerFits(block, fb, log) ==
  LET s == Iec!Since(block, log)
      o == Iec!Over(log, s)
  IN /\ Timed(fb, log, s, o)
     /\ block = "TP" => ShownByTP(fb, log, s, o)
     /\ block = "TON" => ShownByTON(fb, log, s, o)
     /\ block = "TOF" => ShownByTOF(fb, log, s, o)

\* A call after all others, and not too late for the time of the last one.
InTime(log, c) ==
  /\ \A k \in 1..Len(log) : log[k].at <= c.at
  /\ log # <<>> => (c.at - log[Len(log)].at) + log[Len(log)].pt <= Modulus

\* The time that has elapsed is that of the calls, in a measurement and at its begin.
LEMMA ElapsedFact ==
  ASSUME NEW log \in Seq(Calls), NEW c \in Calls, InTime(log, c), NEW s \in 1..Len(log),
         Iec!Over(log, s) = 0, NEW fb, fb.STIME = log[s].at % Modulus
  PROVE  Elapsed(fb, NowTIME(c.at)) = c.at - log[s].at /\ c.at - log[s].at \in 0..(Modulus - 1)
<1>1. Len(log) \in 1..Len(log) /\ log # <<>> /\ Len(log) \in s..Len(log)
  OBVIOUS
<1>2. ~Ended(log, s, Len(log))
  BY <1>1, OverFacts
<1>3. /\ log[s].at \in Nat /\ log[Len(log)].at \in Nat /\ log[Len(log)].pt \in Nat
      /\ Modulus \in Nat \ {0} /\ c.at \in Nat
  BY <1>1, CallFact, IecTimerAssumption DEF Calls
<1>4. log[s].at <= c.at /\ c.at - log[s].at < Modulus
  BY <1>1, <1>2, <1>3 DEF InTime, Ended
<1>5. ((c.at % Modulus) - (log[s].at % Modulus)) % Modulus = c.at - log[s].at
  BY <1>3, <1>4, DifferenceOfTimes
<1> QED BY <1>3, <1>4, <1>5 DEF Elapsed, NowTIME

LEMMA ElapsedNew ==
  ASSUME NEW c \in Calls, NEW fb, fb.STIME = NowTIME(c.at)
  PROVE  Elapsed(fb, NowTIME(c.at)) = 0 /\ NowTIME(c.at) \in 0..(Modulus - 1)
<1>1. Modulus \in Nat \ {0} /\ c.at \in Nat
  BY IecTimerAssumption DEF Calls
<1>2. ((c.at % Modulus) - (c.at % Modulus)) % Modulus = c.at - c.at
  BY <1>1, DifferenceOfTimes
<1>3. c.at % Modulus \in 0..(Modulus - 1)
  BY <1>1
<1> QED BY <1>1, <1>2, <1>3 DEF Elapsed, NowTIME

\* The fields of an instance.
Made(fb, bits, ET, Q, STIME) ==
  [fb EXCEPT !.bits = bits, !.ET = ET, !.Q = Q, !.STIME = STIME]

TIMEs == 0..(Modulus - 1)
States == SUBSET {0, 1}

Has(r, fb, bits, ET, Q, STIME) ==
  /\ r \in Instances /\ r.in = fb.in /\ r.PT = fb.PT
  /\ r.bits = bits /\ r.ET = ET /\ r.Q = Q /\ r.STIME = STIME

LEMMA MadeFacts ==
  ASSUME NEW fb \in Instances, NEW bits \in States, NEW ET \in TIMEs, NEW Q \in BOOLEAN,
         NEW STIME \in TIMEs
  PROVE  Has(Made(fb, bits, ET, Q, STIME), fb, bits, ET, Q, STIME)
BY DEF Made, Instances, Has, TIMEs, States

LEMMA StatesFact ==
  /\ {} \in States /\ {Running} \in States /\ {Finished} \in States
  /\ {PrevIn} \in States /\ {Delaying} \in States
  /\ 0 \in TIMEs /\ \A fb \in Instances : fb.STIME \in TIMEs /\ fb.bits \in States
BY IecTimerAssumption DEF Running, Finished, PrevIn, Delaying, TIMEs, Instances, States

LEMMA TONFits ==
  ASSUME NEW log \in Seq(Calls), NEW c \in Calls, InTime(log, c),
         NEW fb \in Instances, fb.in = c.in, fb.PT = c.pt, TimerFits("TON", fb, log)
  PROVE  /\ SFB4(fb, NowTIME(c.at)) \in Instances
         /\ TimerFits("TON", SFB4(fb, NowTIME(c.at)), Append(log, c))
<1> SUFFICES ASSUME NEW s, s = Iec!OnSince(log), NEW o, o = Iec!Over(log, s),
                    Timed(fb, log, s, o), ShownByTON(fb, log, s, o),
                    NEW t, t = Iec!OnSince(Append(log, c)), NEW p, p = Iec!Over(Append(log, c), t),
                    NEW r, r = SFB4(fb, NowTIME(c.at))
             PROVE  r \in Instances /\ Timed(r, Append(log, c), t, p) /\ ShownByTON(r, Append(log, c), t, p)
  BY DEF TimerFits, Iec!Since
<1> DEFINE L == Append(log, c)
           T == NowTIME(c.at)
<1>1. /\ L \in Seq(Calls) /\ L # <<>> /\ Len(log) \in Nat /\ Len(L) = Len(log) + 1
      /\ \A k \in 1..Len(log) : L[k] = log[k]
      /\ L[Len(log) + 1] = c
  BY OneMore
<1>2. (s = 0 /\ (log # <<>> => ~log[Len(log)].in)) \/ OnFrom(log, s)
  BY OnFacts
<1>3. t = IF ~c.in THEN 0 ELSE IF s # 0 THEN s ELSE Len(log) + 1
  BY OnStep
<1> HIDE DEF L, T
<1>4. c.at \in Nat /\ c.in \in BOOLEAN /\ c.pt \in Nat /\ c.pt > 0
  <2>1. Len(log) + 1 \in 1..Len(L)
    BY <1>1
  <2>2. /\ L[Len(log) + 1].at \in Nat /\ L[Len(log) + 1].in \in BOOLEAN
        /\ L[Len(log) + 1].pt \in Nat /\ L[Len(log) + 1].pt > 0
    BY <1>1, <2>1, CallFact
  <2> QED BY <1>1, <2>2
<1>5. L[Len(L)] = c
  BY <1>1
<1>0. /\ {} \in States /\ {Running} \in States /\ {Finished} \in States
      /\ 0 \in TIMEs /\ fb.STIME \in TIMEs /\ TRUE \in BOOLEAN /\ FALSE \in BOOLEAN
  BY StatesFact
<1>6. CASE ~c.in
  <2>1. t = 0
    BY <1>3, <1>6
  <2>2. r = Made(fb, {}, 0, FALSE, fb.STIME)
    BY <1>6 DEF SFB4, StartTON, RunTON, Running, Finished, Instances, Made
  <2>3. Has(r, fb, {}, 0, FALSE, fb.STIME)
    BY <1>0, <2>2, MadeFacts
  <2> QED BY <2>1, <2>3 DEF Has, Timed, ShownByTON
<1>7. CASE c.in /\ s = 0
  <2>1. t = Len(log) + 1 /\ t # 0 /\ L[t] = c
    BY <1>1, <1>3, <1>7
  <2>2. p = 0
    BY <2>1, OverNew
  <2>3. fb.bits = {}
    BY <1>7 DEF ShownByTON
  <2> DEFINE b == [fb EXCEPT !.STIME = T, !.bits = {Running}]
  <2>4. StartTON(fb, T) = b
    BY <1>7, <2>3 DEF StartTON, Instances
  <2>5. b.STIME = T /\ b.bits = {Running} /\ b.PT = c.pt
    BY DEF Instances
  <2>6. Elapsed(b, T) = 0 /\ T \in 0..(Modulus - 1)
    BY <2>5, ElapsedNew DEF T
  <2> HIDE DEF b
  <2>7. r = [b EXCEPT !.ET = 0, !.Q = FALSE]
    <3>1. RunTON(b, T) = [b EXCEPT !.ET = 0, !.Q = FALSE]
      BY <1>4, <2>5, <2>6 DEF RunTON
    <3> QED BY <2>4, <3>1 DEF SFB4, T
  <2>8. r = Made(fb, {Running}, 0, FALSE, T)
    BY <2>7 DEF Instances, Made, b
  <2>9. Has(r, fb, {Running}, 0, FALSE, T)
    <3>1. T \in TIMEs
      BY <2>6 DEF TIMEs
    <3> QED BY <1>0, <2>8, <3>1, MadeFacts
  <2>10. T = L[t].at % Modulus /\ L[Len(L)].at - L[t].at = 0
    BY <1>4, <1>5, <2>1 DEF T, NowTIME
  <2> QED BY <2>1, <2>2, <2>9, <2>10 DEF Has, Timed, ShownByTON, L
<1>8. CASE c.in /\ s # 0
  <2>1. t = s /\ s \in 1..Len(log) /\ L[s] = log[s]
    BY <1>1, <1>2, <1>3, <1>8 DEF OnFrom
  <2>2. p = IF o # 0 THEN o ELSE IF c.at - log[s].at >= c.pt THEN Len(log) + 1 ELSE 0
    BY <2>1, OverStep
  <2>3. o = 0 \/ (o \in 1..Len(log) /\ L[o] = log[o])
    BY <1>1, <2>1, OverFacts
  <2>4. CASE o # 0
    <3>1. fb.bits = {Finished} /\ fb.Q /\ fb.ET = log[o].pt
      BY <1>8, <2>4 DEF ShownByTON, Timed
    <3>2. r = fb
      BY <1>8, <3>1 DEF SFB4, StartTON, RunTON, Running, Finished
    <3> QED BY <1>8, <2>1, <2>2, <2>3, <2>4, <3>1, <3>2 DEF Timed, ShownByTON, L
  <2>5. CASE o = 0
    <3>1. fb.bits = {Running} /\ fb.STIME = log[s].at % Modulus
      BY <1>8, <2>5 DEF ShownByTON, Timed
    <3>2. Elapsed(fb, T) = c.at - log[s].at /\ c.at - log[s].at \in 0..(Modulus - 1)
      BY <2>1, <2>5, <3>1, ElapsedFact DEF T
    <3>3. StartTON(fb, T) = fb
      BY <1>8, <3>1 DEF StartTON, Running, Finished
    <3>4. CASE c.at - log[s].at >= c.pt
      <4>1. r = Made(fb, {Finished}, c.pt, TRUE, fb.STIME)
        BY <3>1, <3>2, <3>3, <3>4 DEF SFB4, RunTON, T, Running, Finished, Instances, Made
      <4>2. p = Len(log) + 1 /\ p # 0 /\ L[p] = c /\ c.pt \in 0..(Modulus - 1)
        BY <1>1, <1>4, <2>2, <2>5, <3>2, <3>4, IecTimerAssumption
      <4>3. Has(r, fb, {Finished}, c.pt, TRUE, fb.STIME)
        <5>1. c.pt \in TIMEs
          BY <4>2 DEF TIMEs
        <5> QED BY <1>0, <4>1, <5>1, MadeFacts
      <4> QED BY <1>8, <2>1, <4>2, <4>3 DEF Has, Timed, ShownByTON, L
    <3>5. CASE ~(c.at - log[s].at >= c.pt)
      <4>1. r = Made(fb, {Running}, c.at - log[s].at, FALSE, fb.STIME)
        BY <3>1, <3>2, <3>3, <3>5 DEF SFB4, RunTON, T, Running, Finished, Instances, Made
      <4>2. p = 0
        BY <2>2, <2>5, <3>5
      <4>3. Has(r, fb, {Running}, c.at - log[s].at, FALSE, fb.STIME)
        <5>1. c.at - log[s].at \in TIMEs
          BY <3>2 DEF TIMEs
        <5> QED BY <1>0, <4>1, <5>1, MadeFacts
      <4> QED BY <1>5, <1>8, <2>1, <3>1, <4>2, <4>3 DEF Has, Timed, ShownByTON, L
    <3> QED BY <3>4, <3>5
  <2> QED BY <2>4, <2>5
<1> QED BY <1>4, <1>6, <1>7, <1>8

LEMMA TPFits ==
  ASSUME NEW log \in Seq(Calls), NEW c \in Calls, InTime(log, c),
         NEW fb \in Instances, fb.in = c.in, fb.PT = c.pt, TimerFits("TP", fb, log)
  PROVE  /\ SFB3(fb, NowTIME(c.at)) \in Instances
         /\ TimerFits("TP", SFB3(fb, NowTIME(c.at)), Append(log, c))
<1> SUFFICES ASSUME NEW s, s = Iec!PulseSince(log), NEW o, o = Iec!Over(log, s),
                    Timed(fb, log, s, o), ShownByTP(fb, log, s, o),
                    NEW t, t = Iec!PulseSince(Append(log, c)), NEW p, p = Iec!Over(Append(log, c), t),
                    NEW r, r = SFB3(fb, NowTIME(c.at))
             PROVE  r \in Instances /\ Timed(r, Append(log, c), t, p) /\ ShownByTP(r, Append(log, c), t, p)
  BY DEF TimerFits, Iec!Since
<1> DEFINE L == Append(log, c)
           T == NowTIME(c.at)
           q == Iec!Over(L, s)
<1>1. /\ L \in Seq(Calls) /\ L # <<>> /\ Len(log) \in Nat /\ Len(L) = Len(log) + 1
      /\ \A k \in 1..Len(log) : L[k] = log[k]
      /\ L[Len(log) + 1] = c
  BY OneMore
<1>2. s = 0 \/ s \in 1..Len(log)
  BY <1>1, PulseFacts
<1>3. t = IF s = 0 THEN IF c.in THEN Len(log) + 1 ELSE 0
          ELSE IF ~c.in /\ q # 0 THEN 0 ELSE s
  BY PulseStep
<1>4. s # 0 => q = IF o # 0 THEN o ELSE IF c.at - log[s].at >= c.pt THEN Len(log) + 1 ELSE 0
  BY <1>2, OverStep
<1> HIDE DEF L, T
<1>5. c.at \in Nat /\ c.in \in BOOLEAN /\ c.pt \in Nat /\ c.pt > 0
  <2>1. Len(log) + 1 \in 1..Len(L)
    BY <1>1
  <2>2. /\ L[Len(log) + 1].at \in Nat /\ L[Len(log) + 1].in \in BOOLEAN
        /\ L[Len(log) + 1].pt \in Nat /\ L[Len(log) + 1].pt > 0
    BY <1>1, <2>1, CallFact
  <2> QED BY <1>1, <2>2
<1>6. L[Len(L)] = c
  BY <1>1
<1>7. /\ {} \in States /\ {Running} \in States /\ {Finished} \in States
      /\ 0 \in TIMEs /\ fb.STIME \in TIMEs /\ TRUE \in BOOLEAN /\ FALSE \in BOOLEAN
  BY StatesFact
<1>8. Running # Finished
  BY DEF Running, Finished
<1>9. CASE s = 0 /\ ~c.in
  <2>1. t = 0 /\ fb.bits = {} /\ fb.ET = 0 /\ fb.Q = FALSE
    BY <1>3, <1>9 DEF Timed, ShownByTP
  <2>2. r = fb
    BY <1>9, <2>1 DEF SFB3, StartTP, RunTP, StopTP
  <2> QED BY <2>1, <2>2 DEF Timed, ShownByTP
<1>10. CASE s = 0 /\ c.in
  <2>1. t = Len(log) + 1 /\ t # 0 /\ L[t] = c
    BY <1>1, <1>3, <1>10
  <2>2. p = 0
    BY <2>1, OverNew
  <2>3. fb.bits = {}
    BY <1>10 DEF ShownByTP
  <2> DEFINE b == [fb EXCEPT !.STIME = T, !.bits = {Running}]
  <2>4. StartTP(fb, T) = b
    BY <1>10, <2>3 DEF StartTP, Instances
  <2>5. b.STIME = T /\ b.bits = {Running} /\ b.PT = c.pt /\ b.in = c.in
    BY DEF Instances
  <2>6. Elapsed(b, T) = 0 /\ T \in 0..(Modulus - 1)
    BY <2>5, ElapsedNew DEF T
  <2>a. b = Made(fb, {Running}, fb.ET, fb.Q, T)
    BY DEF Made, Instances
  <2> HIDE DEF b
  <2>7. RunTP(b, T) = [b EXCEPT !.ET = 0, !.Q = TRUE]
    BY <1>5, <2>5, <2>6 DEF RunTP
  <2>8. RunTP(b, T) = Made(fb, {Running}, 0, TRUE, T)
    BY <2>7 DEF Instances, Made, b
  <2>9. Has(RunTP(b, T), fb, {Running}, 0, TRUE, T)
    <3>1. T \in TIMEs
      BY <2>6 DEF TIMEs
    <3> QED BY <1>7, <2>8, <3>1, MadeFacts
  <2>10. r = RunTP(b, T)
    BY <1>10, <2>4, <2>9 DEF SFB3, StopTP, Has, T
  <2>11. T = L[t].at % Modulus /\ L[Len(L)].at - L[t].at = 0
    BY <1>5, <1>6, <2>1 DEF T, NowTIME
  <2> QED BY <2>1, <2>2, <2>9, <2>10, <2>11 DEF Has, Timed, ShownByTP, L
<1>11. CASE s # 0 /\ o # 0
  <2>1. fb.bits = {Finished} /\ fb.Q = FALSE /\ fb.ET = log[o].pt
    BY <1>11 DEF ShownByTP, Timed
  <2>2. RunTP(StartTP(fb, T), T) = fb
    BY <2>1, <1>8 DEF StartTP, RunTP
  <2>3. q = o /\ o \in 1..Len(log) /\ L[o] = log[o]
    BY <1>1, <1>2, <1>4, <1>11, OverFacts
  <2> HIDE DEF q
  <2>4. CASE c.in
    <3>1. r = fb /\ t = s
      BY <1>3, <1>11, <2>2, <2>4 DEF SFB3, StopTP, T
    <3>2. p = o
      BY <2>3, <3>1 DEF L, q
    <3> QED BY <1>11, <2>1, <2>3, <3>1, <3>2 DEF Timed, ShownByTP, L
  <2>5. CASE ~c.in
    <3>1. t = 0
      BY <1>3, <1>11, <2>3, <2>5
    <3>2. r = Made(fb, {}, 0, FALSE, fb.STIME)
      BY <2>1, <2>2, <2>5 DEF SFB3, StopTP, T, Made, Instances
    <3>3. Has(r, fb, {}, 0, FALSE, fb.STIME)
      BY <1>7, <3>2, MadeFacts
    <3> QED BY <3>1, <3>3 DEF Has, Timed, ShownByTP
  <2> QED BY <2>4, <2>5
<1>12. CASE s # 0 /\ o = 0
  <2>1. fb.bits = {Running} /\ fb.STIME = log[s].at % Modulus
    BY <1>12 DEF ShownByTP, Timed
  <2>2. Elapsed(fb, T) = c.at - log[s].at /\ c.at - log[s].at \in 0..(Modulus - 1) /\ L[s] = log[s]
    BY <1>1, <1>2, <1>12, <2>1, ElapsedFact DEF T
  <2>3. StartTP(fb, T) = fb
    BY <2>1 DEF StartTP
  <2> HIDE DEF q
  <2>4. CASE c.at - log[s].at >= c.pt
    <3> DEFINE e == Made(fb, {Finished}, c.pt, FALSE, fb.STIME)
    <3>1. RunTP(fb, T) = e
      BY <2>1, <2>2, <2>4 DEF RunTP, Running, Finished, Instances, Made
    <3>2. q = Len(log) + 1 /\ q # 0 /\ L[q] = c /\ c.pt \in 0..(Modulus - 1)
      BY <1>1, <1>4, <1>5, <1>12, <2>2, <2>4, IecTimerAssumption
    <3>3. Has(e, fb, {Finished}, c.pt, FALSE, fb.STIME)
      <4>1. c.pt \in TIMEs
        BY <3>2 DEF TIMEs
      <4> QED BY <1>7, <4>1, MadeFacts
    <3> HIDE DEF e
    <3>4. r = StopTP(e)
      BY <2>3, <3>1 DEF SFB3, T
    <3>5. CASE c.in
      <4>1. r = e /\ t = s
        BY <1>3, <1>12, <3>3, <3>4, <3>5 DEF StopTP, Has
      <4>2. p = q
        BY <4>1 DEF q, L
      <4> QED BY <1>12, <2>2, <3>2, <3>3, <4>1, <4>2 DEF Has, Timed, ShownByTP, L
    <3>6. CASE ~c.in
      <4>1. t = 0
        BY <1>3, <1>12, <3>2, <3>6
      <4>2. r = Made(fb, {}, 0, FALSE, fb.STIME)
        <5>1. r = [e EXCEPT !.bits = e.bits \ {Finished}, !.ET = 0]
          BY <3>3, <3>4, <3>6 DEF StopTP, Has
        <5>2. e.bits \ {Finished} = {}
          BY <3>3 DEF Has
        <5> QED BY <5>1, <5>2 DEF e, Made, Instances
      <4>3. Has(r, fb, {}, 0, FALSE, fb.STIME)
        BY <1>7, <4>2, MadeFacts
      <4> QED BY <4>1, <4>3 DEF Has, Timed, ShownByTP
    <3> QED BY <3>5, <3>6, <1>5
  <2>5. CASE ~(c.at - log[s].at >= c.pt)
    <3>1. RunTP(fb, T) = Made(fb, {Running}, c.at - log[s].at, TRUE, fb.STIME)
      BY <2>1, <2>2, <2>5 DEF RunTP, Instances, Made
    <3>2. q = 0 /\ t = s
      BY <1>3, <1>4, <1>12, <2>5
    <3>3. Has(RunTP(fb, T), fb, {Running}, c.at - log[s].at, TRUE, fb.STIME)
      <4>1. c.at - log[s].at \in TIMEs
        BY <2>2 DEF TIMEs
      <4> QED BY <1>7, <3>1, <4>1, MadeFacts
    <3>4. r = RunTP(fb, T)
      BY <1>8, <2>3, <3>3 DEF SFB3, StopTP, T, Has
    <3>5. p = 0
      BY <3>2 DEF q, L
    <3> QED BY <1>6, <1>12, <2>1, <2>2, <3>2, <3>3, <3>4, <3>5 DEF Has, Timed, ShownByTP, L
  <2> QED BY <2>4, <2>5
<1> QED BY <1>5, <1>9, <1>10, <1>11, <1>12

LEMMA TOFFits ==
  ASSUME NEW log \in Seq(Calls), NEW c \in Calls, InTime(log, c),
         NEW fb \in Instances, fb.in = c.in, fb.PT = c.pt, TimerFits("TOF", fb, log)
  PROVE  /\ SFB5(fb, NowTIME(c.at)) \in Instances
         /\ TimerFits("TOF", SFB5(fb, NowTIME(c.at)), Append(log, c))
<1> SUFFICES ASSUME NEW s, s = Iec!OffSince(log), NEW o, o = Iec!Over(log, s),
                    Timed(fb, log, s, o), ShownByTOF(fb, log, s, o),
                    NEW t, t = Iec!OffSince(Append(log, c)), NEW p, p = Iec!Over(Append(log, c), t),
                    NEW r, r = SFB5(fb, NowTIME(c.at))
             PROVE  r \in Instances /\ Timed(r, Append(log, c), t, p) /\ ShownByTOF(r, Append(log, c), t, p)
  BY DEF TimerFits, Iec!Since
<1> DEFINE L == Append(log, c)
           T == NowTIME(c.at)
<1>1. /\ L \in Seq(Calls) /\ L # <<>> /\ Len(log) \in Nat /\ Len(L) = Len(log) + 1
      /\ \A k \in 1..Len(log) : L[k] = log[k]
      /\ L[Len(log) + 1] = c
  BY OneMore
<1>2. s = 0 \/ OffFrom(log, s)
  BY OffFacts
<1>3. t = IF c.in THEN 0 ELSE IF LastIn(log) THEN Len(log) + 1 ELSE s
  BY OffStep DEF LastIn
<1> HIDE DEF L, T
<1>4. c.at \in Nat /\ c.in \in BOOLEAN /\ c.pt \in Nat /\ c.pt > 0
  <2>1. Len(log) + 1 \in 1..Len(L)
    BY <1>1
  <2>2. /\ L[Len(log) + 1].at \in Nat /\ L[Len(log) + 1].in \in BOOLEAN
        /\ L[Len(log) + 1].pt \in Nat /\ L[Len(log) + 1].pt > 0
    BY <1>1, <2>1, CallFact
  <2> QED BY <1>1, <2>2
<1>5. L[Len(L)] = c /\ (LastIn(L) <=> c.in)
  BY <1>1 DEF LastIn
<1>6. /\ {} \in States /\ {PrevIn} \in States /\ {Delaying} \in States
      /\ 0 \in TIMEs /\ fb.STIME \in TIMEs /\ TRUE \in BOOLEAN /\ FALSE \in BOOLEAN
  BY StatesFact
<1>7. PrevIn # Delaying
  BY DEF PrevIn, Delaying
<1>8. CASE c.in
  <2>1. t = 0
    BY <1>3, <1>8
  <2>2. fb.bits \subseteq {PrevIn, Delaying}
    BY DEF Instances, PrevIn, Delaying
  <2>3. (fb.bits \ {Delaying}) \cup {PrevIn} = {PrevIn}
    BY <1>7, <2>2
  <2>4. StartTOF(fb, T) = Made(fb, {PrevIn}, 0, TRUE, fb.STIME)
    BY <1>8, <2>3 DEF StartTOF, Instances, Made
  <2>5. Has(StartTOF(fb, T), fb, {PrevIn}, 0, TRUE, fb.STIME)
    BY <1>6, <2>4, MadeFacts
  <2>6. r = StartTOF(fb, T)
    BY <1>7, <2>5 DEF SFB5, RunTOF, Has, T
  <2> QED BY <1>5, <1>8, <2>1, <2>5, <2>6 DEF Has, Timed, ShownByTOF, L
<1>9. CASE ~c.in /\ LastIn(log)
  <2>1. t = Len(log) + 1 /\ t # 0 /\ L[t] = c
    BY <1>1, <1>3, <1>9
  <2>2. p = 0
    BY <2>1, OverNew
  <2>3. fb.bits = {PrevIn}
    BY <1>9 DEF ShownByTOF
  <2>4. (fb.bits \cup {Delaying}) \ {PrevIn} = {Delaying}
    BY <1>7, <2>3
  <2> DEFINE b == [fb EXCEPT !.STIME = T, !.bits = {Delaying}]
  <2>5. StartTOF(fb, T) = b
    BY <1>9, <2>3, <2>4 DEF StartTOF, Instances
  <2>6. b.STIME = T /\ b.bits = {Delaying} /\ b.PT = c.pt
    BY DEF Instances
  <2>7. Elapsed(b, T) = 0 /\ T \in 0..(Modulus - 1)
    BY <2>6, ElapsedNew DEF T
  <2> HIDE DEF b
  <2>8. RunTOF(b, T) = [b EXCEPT !.ET = 0, !.Q = TRUE]
    BY <1>4, <2>6, <2>7 DEF RunTOF
  <2>9. r = Made(fb, {Delaying}, 0, TRUE, T)
    BY <2>5, <2>8 DEF SFB5, T, Instances, Made, b
  <2>10. Has(r, fb, {Delaying}, 0, TRUE, T)
    <3>1. T \in TIMEs
      BY <2>7 DEF TIMEs
    <3> QED BY <1>6, <2>9, <3>1, MadeFacts
  <2>11. T = L[t].at % Modulus /\ L[Len(L)].at - L[t].at = 0
    BY <1>4, <1>5, <2>1 DEF T, NowTIME
  <2> QED BY <1>5, <1>9, <2>1, <2>2, <2>10, <2>11 DEF Has, Timed, ShownByTOF, L
<1>10. CASE ~c.in /\ ~LastIn(log) /\ s = 0
  <2>1. t = 0 /\ fb.bits = {} /\ fb.ET = 0 /\ fb.Q = FALSE
    BY <1>3, <1>10 DEF Timed, ShownByTOF
  <2>2. r = fb
    BY <1>10, <2>1 DEF SFB5, StartTOF, RunTOF
  <2> QED BY <1>5, <1>10, <2>1, <2>2 DEF Timed, ShownByTOF, L
<1>11. CASE ~c.in /\ ~LastIn(log) /\ s # 0
  <2>1. t = s /\ s \in 1..Len(log) /\ L[s] = log[s]
    BY <1>1, <1>2, <1>3, <1>11 DEF OffFrom
  <2>2. p = IF o # 0 THEN o ELSE IF c.at - log[s].at >= c.pt THEN Len(log) + 1 ELSE 0
    BY <2>1, OverStep
  <2>3. o = 0 \/ (o \in 1..Len(log) /\ L[o] = log[o])
    BY <1>1, <2>1, OverFacts
  <2>4. CASE o # 0
    <3>1. fb.bits = {} /\ fb.Q = FALSE /\ fb.ET = log[o].pt
      BY <1>11, <2>4 DEF ShownByTOF, Timed
    <3>2. r = fb
      BY <1>11, <3>1 DEF SFB5, StartTOF, RunTOF
    <3> QED BY <1>5, <1>11, <2>1, <2>2, <2>3, <2>4, <3>1, <3>2 DEF Timed, ShownByTOF, L
  <2>5. CASE o = 0
    <3>1. fb.bits = {Delaying} /\ fb.STIME = log[s].at % Modulus
      BY <1>11, <2>5 DEF ShownByTOF, Timed
    <3>2. Elapsed(fb, T) = c.at - log[s].at /\ c.at - log[s].at \in 0..(Modulus - 1)
      BY <2>1, <2>5, <3>1, ElapsedFact DEF T
    <3>3. StartTOF(fb, T) = fb
      BY <1>7, <1>11, <3>1 DEF StartTOF
    <3>4. CASE c.at - log[s].at >= c.pt
      <4>1. r = Made(fb, {}, c.pt, FALSE, fb.STIME)
        BY <3>1, <3>2, <3>3, <3>4 DEF SFB5, RunTOF, T, Instances, Made
      <4>2. p = Len(log) + 1 /\ p # 0 /\ L[p] = c /\ c.pt \in 0..(Modulus - 1)
        BY <1>1, <1>4, <2>2, <2>5, <3>2, <3>4, IecTimerAssumption
      <4>3. Has(r, fb, {}, c.pt, FALSE, fb.STIME)
        <5>1. c.pt \in TIMEs
          BY <4>2 DEF TIMEs
        <5> QED BY <1>6, <4>1, <5>1, MadeFacts
      <4> QED BY <1>5, <1>11, <2>1, <4>2, <4>3 DEF Has, Timed, ShownByTOF, L
    <3>5. CASE ~(c.at - log[s].at >= c.pt)
      <4>1. r = Made(fb, {Delaying}, c.at - log[s].at, TRUE, fb.STIME)
        BY <3>1, <3>2, <3>3, <3>5 DEF SFB5, RunTOF, T, Instances, Made
      <4>2. p = 0
        BY <2>2, <2>5, <3>5
      <4>3. Has(r, fb, {Delaying}, c.at - log[s].at, TRUE, fb.STIME)
        <5>1. c.at - log[s].at \in TIMEs
          BY <3>2 DEF TIMEs
        <5> QED BY <1>6, <4>1, <5>1, MadeFacts
      <4> QED BY <1>5, <1>11, <2>1, <3>1, <4>2, <4>3 DEF Has, Timed, ShownByTOF, L
    <3> QED BY <3>4, <3>5
  <2> QED BY <2>4, <2>5
<1> QED BY <1>4, <1>8, <1>9, <1>10, <1>11

----------------------------------------------------------------------------
(* The program that calls one of them.                                     *)

TimerInv ==
  /\ TimerTypeOK
  /\ timerLog \in Seq(Calls)
  /\ \A k \in 1..Len(timerLog) : timerLog[k].at <= ms
  /\ timerLog # <<>> => timerLog[Len(timerLog)].at = ms
  /\ TimerFits(timerKind, inst, timerLog)

LEMMA NoCalls ==
  ASSUME NEW block \in {"TP", "TON", "TOF"}, NEW log, log = <<>>
  PROVE  Iec!Since(block, log) = 0
<1>1. log \in Seq(Calls) /\ Len(log) = 0
  OBVIOUS
<1>2. Iec!OnSince(log) = 0 \/ OnFrom(log, Iec!OnSince(log))
  BY <1>1, OnFacts
<1>3. Iec!OffSince(log) = 0 \/ OffFrom(log, Iec!OffSince(log))
  BY <1>1, OffFacts
<1>4. Iec!PulseSince(log) \in 0..Len(log)
  BY <1>1, PulseFacts
<1>5. Iec!OnSince(log) = 0 /\ Iec!OffSince(log) = 0 /\ Iec!PulseSince(log) = 0
  BY <1>1, <1>2, <1>3, <1>4 DEF OnFrom, OffFrom
<1> QED BY <1>5 DEF Iec!Since

LEMMA NothingSince ==
  ASSUME NEW block \in {"TP", "TON", "TOF"}, NEW fb, fb.bits = {}, fb.ET = 0, fb.Q = FALSE
  PROVE  TimerFits(block, fb, <<>>)
<1>1. Iec!Since(block, <<>>) = 0
  BY NoCalls
<1> QED BY <1>1 DEF TimerFits, Timed, ShownByTP, ShownByTON, ShownByTOF, LastIn

LEMMA BlockFits ==
  ASSUME NEW log \in Seq(Calls), NEW c \in Calls, InTime(log, c),
         timerKind \in {"TP", "TON", "TOF"},
         NEW fb \in Instances, fb.in = c.in, fb.PT = c.pt, TimerFits(timerKind, fb, log)
  PROVE  /\ Block(fb, NowTIME(c.at)) \in Instances
         /\ TimerFits(timerKind, Block(fb, NowTIME(c.at)), Append(log, c))
<1> DEFINE r == Block(fb, NowTIME(c.at))
<1>3. c.pt \in Int /\ c.pt > 0
  <2>1. \A pt \in Delays : pt \in Int /\ pt > 0
    BY IecTimerAssumption DEF Delays
  <2> QED BY <2>1 DEF Calls
<1>4. r = CASE timerKind = "TP" -> SFB3(fb, NowTIME(c.at))
            [] timerKind = "TON" -> SFB4(fb, NowTIME(c.at))
            [] timerKind = "TOF" -> SFB5(fb, NowTIME(c.at))
  BY <1>3 DEF Block
<1> HIDE DEF r
<1>5. r \in Instances /\ TimerFits(timerKind, r, Append(log, c))
  <2>1. CASE timerKind = "TP"
    BY <1>4, <2>1, TPFits
  <2>2. CASE timerKind = "TON"
    BY <1>4, <2>2, TONFits
  <2>3. CASE timerKind = "TOF"
    BY <1>4, <2>3, TOFFits
  <2> QED BY <2>1, <2>2, <2>3
<1> QED BY <1>5 DEF r

LEMMA TimerBegins ==
  ASSUME TimerInit
  PROVE  TimerInv
<1>1. /\ timerKind \in {"TP", "TON", "TOF"} /\ ms \in Nat /\ BIE \in BOOLEAN
      /\ timerLog = <<>> /\ timerLog \in Seq(Calls) /\ Len(timerLog) = 0
      /\ inst = [in |-> FALSE, PT |-> 0, Q |-> FALSE, ET |-> 0, bits |-> {}, STIME |-> 0]
  BY IecTimerAssumption DEF TimerInit, NewTimerBlock
<1>2. 0 \in 0..(Modulus - 1)
  BY IecTimerAssumption
<1>3. TimerTypeOK
  BY <1>1, <1>2 DEF TimerTypeOK
<1>4. TimerFits(timerKind, inst, timerLog)
  BY <1>1, NothingSince
<1> QED BY <1>1, <1>3, <1>4 DEF TimerInv

LEMMA TimerSteps ==
  ASSUME TimerInv, [TimerNext]_timerVars
  PROVE  TimerInv'
<1>1. CASE UNCHANGED timerVars
  BY <1>1 DEF TimerInv, TimerTypeOK, TimerFits, timerVars
<1>2. CASE TimerNext
  <2>1. PICK gap \in Gaps, in \in BOOLEAN \cup {inst.in}, PT \in Presets \cup {inst.PT} :
          LET fb == [inst EXCEPT !.in = in, !.PT = PT]
              t == ms + gap
          IN /\ ms' = t
             /\ inst' = Block(fb, NowTIME(t))
             /\ BIE' = (PT >= 0)
             /\ timerLog' = IF PT <= 0 THEN <<>> ELSE Append(timerLog, [at |-> t, in |-> in, pt |-> PT])
             /\ UNCHANGED timerKind
    BY <1>2 DEF TimerNext, CallTimer
  <2> DEFINE fb == [inst EXCEPT !.in = in, !.PT = PT]
             t == ms + gap
             c == [at |-> t, in |-> in, pt |-> PT]
  <2>2. /\ inst \in Instances /\ ms \in Nat /\ timerKind \in {"TP", "TON", "TOF"}
        /\ TimerFits(timerKind, inst, timerLog) /\ timerLog \in Seq(Calls)
    BY DEF TimerInv, TimerTypeOK, Instances
  <2>3. /\ in \in BOOLEAN /\ PT \in Presets \cup {0} /\ PT \in Int /\ t \in Nat /\ gap \in Nat
    BY <2>2, IecTimerAssumption DEF Instances
  <2>4. fb \in Instances /\ fb.in = in /\ fb.PT = PT
    BY <2>2, <2>3 DEF Instances
  <2>5. /\ ms' = t /\ ms' \in Nat /\ BIE' \in BOOLEAN /\ timerKind' = timerKind
        /\ inst' = Block(fb, NowTIME(t))
    BY <2>1, <2>3
  <2>6. CASE PT <= 0
    <3> HIDE DEF fb
    <3>1. inst' = Invalid(fb) /\ timerLog' = <<>>
      BY <2>1, <2>4, <2>5, <2>6 DEF Block
    <3>2. 0 \in 0..(Modulus - 1)
      BY IecTimerAssumption
    <3>3. inst' \in Instances /\ inst'.bits = {} /\ inst'.ET = 0 /\ inst'.Q = FALSE
      BY <2>4, <3>1, <3>2 DEF Invalid, Instances
    <3>4. TimerFits(timerKind, inst', timerLog')
      BY <2>2, <3>1, <3>3, NothingSince
    <3>5. timerLog' \in Seq(Calls) /\ Len(timerLog') = 0
      BY <3>1
    <3>6. TimerTypeOK'
      BY <2>2, <2>5, <3>3 DEF TimerTypeOK, Instances
    <3>7. TimerFits(timerKind, inst, timerLog)'
      BY <2>5, <3>4 DEF TimerFits
    <3> QED BY <3>1, <3>5, <3>6, <3>7 DEF TimerInv
  <2>7. CASE PT > 0
    <3>1. c \in Calls /\ c.at = t /\ c.in = in /\ c.pt = PT
      <4>1. PT \in Delays
        BY <2>3, <2>7 DEF Delays
      <4> QED BY <2>3, <4>1 DEF Calls
    <3>2. timerLog' = Append(timerLog, c) /\ inst' = Block(fb, NowTIME(c.at))
      BY <2>1, <2>3, <2>7
    <3>3. TimerFits(timerKind, fb, timerLog)
      <4>1. fb.bits = inst.bits /\ fb.ET = inst.ET /\ fb.Q = inst.Q /\ fb.STIME = inst.STIME
        BY <2>2 DEF Instances
      <4> HIDE DEF fb
      <4> QED BY <2>2, <4>1 DEF TimerFits, Timed, ShownByTP, ShownByTON, ShownByTOF
    <3> HIDE DEF fb, c, t
    <3>4. InTime(timerLog, c)
      <4>1. ASSUME NEW k \in 1..Len(timerLog) PROVE timerLog[k].at <= c.at
        <5>1. timerLog[k].at <= ms /\ timerLog[k].at \in Nat
          BY <2>2, CallFact DEF TimerInv
        <5> QED BY <2>2, <2>3, <3>1, <5>1 DEF t
      <4>2. ASSUME timerLog # <<>>
            PROVE  (c.at - timerLog[Len(timerLog)].at) + timerLog[Len(timerLog)].pt <= Modulus
        <5>1. Len(timerLog) \in 1..Len(timerLog) /\ timerLog[Len(timerLog)].at = ms
          BY <2>2, <4>2 DEF TimerInv
        <5>2. timerLog[Len(timerLog)].pt \in Presets /\ timerLog[Len(timerLog)].pt \in Nat
          BY <2>2, <5>1, CallFact
        <5>3. timerLog[Len(timerLog)].pt + gap <= Modulus
          BY <5>2, IecTimerAssumption
        <5>4. Modulus \in Nat
          BY IecTimerAssumption
        <5> QED BY <2>2, <2>3, <3>1, <5>1, <5>2, <5>3, <5>4 DEF t
      <4> QED BY <4>1, <4>2 DEF InTime
    <3>5. inst' \in Instances /\ TimerFits(timerKind, inst', Append(timerLog, c))
      BY <2>2, <2>4, <3>1, <3>2, <3>3, <3>4, BlockFits
    <3>6. /\ timerLog' \in Seq(Calls) /\ Len(timerLog) \in Nat /\ Len(timerLog') = Len(timerLog) + 1
          /\ \A k \in 1..Len(timerLog) : timerLog'[k] = timerLog[k]
          /\ timerLog'[Len(timerLog) + 1] = c
      BY <2>2, <3>1, <3>2, OneMore
    <3>7. timerLog'[Len(timerLog')].at = ms' /\ \A k \in 1..Len(timerLog') : timerLog'[k].at <= ms'
      <4>1. ASSUME NEW k \in 1..Len(timerLog') PROVE timerLog'[k].at <= ms'
        <5>1. CASE k = Len(timerLog) + 1
          BY <2>3, <2>5, <3>1, <3>6, <5>1
        <5>2. CASE k # Len(timerLog) + 1
          <6>1. k \in 1..Len(timerLog)
            BY <3>6, <5>2
          <6>2. timerLog[k].at <= c.at
            BY <3>4, <6>1 DEF InTime
          <6> QED BY <2>5, <3>1, <3>6, <6>1, <6>2
        <5> QED BY <5>1, <5>2
      <4> QED BY <2>5, <3>1, <3>6, <4>1
    <3>8. TimerTypeOK'
      BY <2>2, <2>5, <3>5 DEF TimerTypeOK, Instances
    <3>9. TimerFits(timerKind, inst, timerLog)'
      BY <2>5, <3>2, <3>5 DEF TimerFits
    <3> QED BY <3>6, <3>7, <3>8, <3>9 DEF TimerInv
  <2> QED BY <2>3, <2>6, <2>7
<1> QED BY <1>1, <1>2

LEMMA TimerFitsAre ==
  ASSUME TimerInv
  PROVE  OutputsAreIec
<1> DEFINE s == Iec!Since(timerKind, timerLog)
           o == Iec!Over(timerLog, s)
<1>1. /\ Timed(inst, timerLog, s, o)
      /\ timerKind = "TP" => ShownByTP(inst, timerLog, s, o)
      /\ timerKind = "TON" => ShownByTON(inst, timerLog, s, o)
      /\ timerKind = "TOF" => ShownByTOF(inst, timerLog, s, o)
      /\ timerKind \in {"TP", "TON", "TOF"}
  BY DEF TimerInv, TimerTypeOK, TimerFits
<1>2. Iec!ET(timerKind, timerLog) =
        IF s = 0 THEN 0
        ELSE IF o = 0 THEN timerLog[Len(timerLog)].at - timerLog[s].at ELSE timerLog[o].pt
  BY DEF Iec!ET
<1>3. Iec!Q(timerKind, timerLog) =
        CASE timerKind = "TP" -> s # 0 /\ o = 0
          [] timerKind = "TON" -> s # 0 /\ o # 0
          [] timerKind = "TOF" -> timerLog # <<>> /\ (timerLog[Len(timerLog)].in \/ (s # 0 /\ o = 0))
  BY DEF Iec!Q
<1>4. timerLog = <<>> => s = 0
  BY <1>1, NoCalls
<1> HIDE DEF s, o
<1>5. inst.ET = Iec!ET(timerKind, timerLog)
  BY <1>1, <1>2 DEF Timed
<1>6. inst.Q = Iec!Q(timerKind, timerLog)
  BY <1>1, <1>3, <1>4 DEF ShownByTP, ShownByTON, ShownByTOF, LastIn
<1> QED BY <1>5, <1>6 DEF OutputsAreIec

\* An instance of a timer block has its types at all times: its TIMEs are in
\* range, wherever the time of the CPU wraps around (now_TIME).
THEOREM TimerTypeCorrect == TimerSpec => []TimerTypeOK
<1>1. TimerInv => TimerTypeOK
  BY DEF TimerInv
<1> QED BY <1>1, TimerBegins, TimerSteps, PTL DEF TimerSpec

\* TP, TON and TOF show what the timers of IEC 61131-3 show, after any calls
\* with any inputs, preset times and gaps that end before the TIME comes around
\* again (SFB3.run, SFB4.run, SFB5.run).
THEOREM TimersAreIec == TimerSpec => []OutputsAreIec
BY TimerBegins, TimerSteps, TimerFitsAre, PTL DEF TimerSpec

----------------------------------------------------------------------------
(* Counters Z.                                                             *)

Insns == [op : Ops \cup {"R"}, VKE : BOOLEAN, n : Nat]

LEMMA InsnFact ==
  ASSUME NEW log \in Seq(Insns), NEW k \in 1..Len(log)
  PROVE  log[k].op \in Ops \cup {"R"} /\ log[k].VKE \in BOOLEAN /\ log[k].n \in Nat
<1>1. log[k] \in Insns
  OBVIOUS
<1> QED BY <1>1 DEF Insns

\* A bounded set of numbers has a greatest one.
LEMMA GreatestOfSet ==
  ASSUME NEW n \in Nat, NEW T, T \subseteq 1..n, T # {}
  PROVE  \E x \in T : \A y \in T : y <= x
<1> DEFINE D == {d \in Nat : n - d \in T}
<1>1. PICK e \in T : TRUE
  OBVIOUS
<1>2. n - e \in D
  BY <1>1
<1>3. PICK d \in D : \A f \in D : d <= f
  BY <1>2, LeastOfSet
<1>4. ASSUME NEW y \in T PROVE y <= n - d
  <2>1. n - y \in D
    OBVIOUS
  <2>2. d \in Nat /\ y \in Nat
    OBVIOUS
  <2>3. d <= n - y
    BY <1>3, <2>1
  <2> QED BY <2>2, <2>3
<1>5. n - d \in T
  OBVIOUS
<1> QED BY <1>4, <1>5

\* b is the last of the first k - 1 instructions that is an op.
IsBefore(log, k, op, b) ==
  \/ b = 0 /\ \A j \in 1..(k - 1) : log[j].op # op
  \/ /\ b \in 1..(k - 1) /\ log[b].op = op
     /\ \A j \in (b + 1)..(k - 1) : log[j].op # op

LEMMA BeforeFacts ==
  ASSUME NEW log \in Seq(Insns), NEW k \in 1..Len(log)
  PROVE  IsBefore(log, k, log[k].op, Ref!Before(log, k))
<1> DEFINE T == {j \in 1..(k - 1) : log[j].op = log[k].op}
           b == Ref!Before(log, k)
<1>1. b = IF T = {} THEN 0 ELSE CHOOSE j \in T : \A i \in T : i <= j
  BY DEF Ref!Before
<1> HIDE DEF b
<1>2. CASE T = {}
  BY <1>1, <1>2 DEF IsBefore, b
<1>3. CASE T # {}
  <2>1. \E j \in T : \A i \in T : i <= j
    <3>1. T \subseteq 1..(k - 1) /\ k - 1 \in Nat
      OBVIOUS
    <3> HIDE DEF T
    <3> QED BY <1>3, <3>1, GreatestOfSet
  <2> HIDE DEF T
  <2>2. b = CHOOSE j \in T : \A i \in T : i <= j
    BY <1>1, <1>3
  <2>3. b \in T /\ \A i \in T : i <= b
    BY <2>1, <2>2, Zenon
  <2>4. b \in 1..(k - 1) /\ log[b].op = log[k].op
    BY <2>3 DEF T
  <2>5. ASSUME NEW j \in (b + 1)..(k - 1), log[j].op = log[k].op PROVE FALSE
    <3>1. j \in T
      BY <2>4, <2>5 DEF T
    <3> QED BY <2>3, <2>4, <3>1
  <2> QED BY <2>4, <2>5 DEF IsBefore, b
<1> QED BY <1>2, <1>3

LEMMA BeforeUnique ==
  ASSUME NEW log, NEW k \in Nat, NEW op, NEW a, NEW b, IsBefore(log, k, op, a),
         IsBefore(log, k, op, b)
  PROVE  a = b
<1>1. a \in Nat /\ b \in Nat
  BY DEF IsBefore
<1>2. ~(a < b)
  BY <1>1 DEF IsBefore
<1>3. ~(b < a)
  BY <1>1 DEF IsBefore
<1> QED BY <1>1, <1>2, <1>3

\* What an instruction counts does not change with one more.
LEMMA PulsesStay ==
  ASSUME NEW log \in Seq(Insns), NEW c \in Insns, NEW k \in 1..Len(log)
  PROVE  /\ Ref!Before(Append(log, c), k) = Ref!Before(log, k)
         /\ Ref!Rises(Append(log, c), k) <=> Ref!Rises(log, k)
         /\ Ref!Pulse(Append(log, c), k) <=> Ref!Pulse(log, k)
<1> DEFINE L == Append(log, c)
<1>1. /\ L \in Seq(Insns) /\ Len(log) \in Nat /\ Len(L) = Len(log) + 1
      /\ \A j \in 1..Len(log) : L[j] = log[j]
  BY OneMore
<1> HIDE DEF L
<1>2. ASSUME NEW j \in 1..Len(log)
      PROVE  /\ Ref!Before(L, j) = Ref!Before(log, j)
             /\ Ref!Before(log, j) = 0 \/ Ref!Before(log, j) \in 1..(j - 1)
  <2>1. IsBefore(L, j, L[j].op, Ref!Before(L, j)) /\ IsBefore(log, j, log[j].op, Ref!Before(log, j))
    BY <1>1, BeforeFacts
  <2>2. L[j] = log[j] /\ j \in Nat /\ \A i \in 1..(j - 1) : i \in 1..Len(log) /\ L[i] = log[i]
    BY <1>1
  <2> DEFINE a == Ref!Before(L, j)
             b == Ref!Before(log, j)
  <2> HIDE DEF a, b
  <2>3. IsBefore(L, j, log[j].op, a) /\ IsBefore(log, j, log[j].op, b)
    BY <2>1, <2>2 DEF a, b
  <2>4. IsBefore(log, j, log[j].op, a)
    BY <2>2, <2>3 DEF IsBefore
  <2>5. a = b
    BY <2>2, <2>3, <2>4, BeforeUnique
  <2>6. b = 0 \/ b \in 1..(j - 1)
    BY <2>3 DEF IsBefore
  <2> QED BY <2>5, <2>6 DEF a, b
<1>3. ASSUME NEW j \in 1..Len(log) PROVE Ref!Rises(L, j) <=> Ref!Rises(log, j)
  <2>1. L[j] = log[j] /\ Ref!Before(L, j) = Ref!Before(log, j)
    BY <1>1, <1>2
  <2>2. Ref!Before(log, j) # 0 => L[Ref!Before(log, j)] = log[Ref!Before(log, j)]
    BY <1>1, <1>2
  <2> QED BY <2>1, <2>2 DEF Ref!Rises
<1>4. Ref!Released(L, k) <=> Ref!Released(log, k)
  <2>1. \A j \in (Ref!Before(log, k) + 1)..(k - 1) : j \in 1..Len(log)
    BY <1>1, <1>2
  <2>2. Ref!Before(L, k) = Ref!Before(log, k)
    BY <1>2
  <2>3. \A j \in (Ref!Before(log, k) + 1)..(k - 1) :
          (L[j].op = "FR" /\ Ref!Rises(L, j)) <=> (log[j].op = "FR" /\ Ref!Rises(log, j))
    BY <1>1, <1>3, <2>1
  <2> QED BY <2>2, <2>3 DEF Ref!Released
<1>5. Ref!Pulse(L, k) <=> Ref!Pulse(log, k)
  BY <1>1, <1>3, <1>4 DEF Ref!Pulse
<1> QED BY <1>2, <1>3, <1>5 DEF L

\* An op has seen VKE the last time it was there, and no FR has released it since.
Seals(log, op, b) ==
  /\ b \in 1..Len(log) /\ log[b].op = op /\ log[b].VKE
  /\ \A j \in (b + 1)..Len(log) :
       log[j].op # op /\ (op # "FR" => ~(log[j].op = "FR" /\ Ref!Rises(log, j)))
Held(log, op) == \E b \in 1..Len(log) : Seals(log, op, b)

\* An edge is what the reference calls a pulse.
LEMMA HeldIsNoPulse ==
  ASSUME NEW log \in Seq(Insns), NEW c \in Insns
  PROVE  /\ c.op # "FR" => (Ref!Pulse(Append(log, c), Len(log) + 1) <=> c.VKE /\ ~Held(log, c.op))
         /\ c.op = "FR" => (Ref!Rises(Append(log, c), Len(log) + 1) <=> c.VKE /\ ~Held(log, c.op))
<1> DEFINE L == Append(log, c)
           n == Len(log) + 1
           b == Ref!Before(L, n)
<1>1. /\ L \in Seq(Insns) /\ Len(log) \in Nat /\ Len(L) = n
      /\ \A j \in 1..Len(log) : L[j] = log[j]
      /\ L[n] = c
  BY OneMore
<1>2. \A j \in 1..Len(log) : Ref!Rises(L, j) <=> Ref!Rises(log, j)
  BY PulsesStay
<1> HIDE DEF L
<1>3. n \in 1..Len(L) /\ n - 1 = Len(log)
  BY <1>1
<1>4. IsBefore(L, n, c.op, b)
  BY <1>1, <1>3, BeforeFacts
<1>5. Ref!Rises(L, n) <=> c.VKE /\ (b = 0 \/ ~L[b].VKE)
  BY <1>1 DEF Ref!Rises
<1>6. Ref!Pulse(L, n) <=> Ref!Rises(L, n) \/ (c.VKE /\ Ref!Released(L, n))
  BY <1>1 DEF Ref!Pulse
<1>7. Ref!Released(L, n) <=> \E j \in (b + 1)..(n - 1) : L[j].op = "FR" /\ Ref!Rises(L, j)
  BY DEF Ref!Released
<1> HIDE DEF n, b
<1>8. CASE b = 0
  <2>1. \A j \in 1..Len(log) : log[j].op # c.op
    BY <1>1, <1>3, <1>4, <1>8 DEF IsBefore
  <2>2. ~Held(log, c.op)
    BY <2>1 DEF Held, Seals
  <2> QED BY <1>5, <1>6, <1>8, <2>2 DEF L, n
<1>9. CASE b # 0
  <2>1. /\ b \in 1..Len(log) /\ log[b].op = c.op /\ L[b] = log[b]
        /\ \A j \in (b + 1)..Len(log) : j \in 1..Len(log) /\ log[j].op # c.op
    BY <1>1, <1>3, <1>4, <1>9 DEF IsBefore
  <2>2. Held(log, c.op) <=> Seals(log, c.op, b)
    <3>1. ASSUME NEW a \in 1..Len(log), Seals(log, c.op, a) PROVE a = b
      BY <1>1, <2>1, <3>1 DEF Seals
    <3> QED BY <2>1, <3>1 DEF Held
  <2>3. Ref!Released(L, n) <=> \E j \in (b + 1)..Len(log) : log[j].op = "FR" /\ Ref!Rises(log, j)
    BY <1>1, <1>2, <1>3, <1>7, <2>1
  <2>4. Seals(log, c.op, b) <=> log[b].VKE /\ (c.op # "FR" => ~Ref!Released(L, n))
    BY <2>1, <2>3 DEF Seals
  <2> QED BY <1>5, <1>6, <1>9, <2>1, <2>2, <2>4 DEF L, n
<1> QED BY <1>8, <1>9

\* What is held after one more instruction.
LEMMA HeldStep ==
  ASSUME NEW log \in Seq(Insns), NEW c \in Insns, NEW op
  PROVE  Held(Append(log, c), op) <=>
           IF c.op = op THEN c.VKE
           ELSE Held(log, op) /\ ~(op # "FR" /\ c.op = "FR" /\ c.VKE /\ ~Held(log, "FR"))
<1> DEFINE L == Append(log, c)
           n == Len(log) + 1
<1>1. /\ L \in Seq(Insns) /\ Len(log) \in Nat /\ Len(L) = n
      /\ \A j \in 1..Len(log) : L[j] = log[j]
      /\ L[n] = c
  BY OneMore
<1>2. \A j \in 1..Len(log) : Ref!Rises(L, j) <=> Ref!Rises(log, j)
  BY PulsesStay
<1>3. c.op = "FR" => (Ref!Rises(L, n) <=> c.VKE /\ ~Held(log, "FR"))
  BY HeldIsNoPulse
<1> HIDE DEF L
<1>4. CASE c.op = op
  <2>1. ASSUME NEW b \in 1..Len(L), Seals(L, op, b) PROVE b = n
    <3>1. n \in 1..Len(L)
      BY <1>1
    <3> QED BY <1>1, <1>4, <2>1, <3>1 DEF Seals
  <2>2. Seals(L, op, n) <=> c.VKE
    <3>1. n \in 1..Len(L) /\ ~\E j \in (n + 1)..Len(L) : TRUE
      BY <1>1
    <3> QED BY <1>1, <1>4, <3>1 DEF Seals
  <2>3. n \in 1..Len(L)
    BY <1>1
  <2> QED BY <1>4, <2>1, <2>2, <2>3 DEF Held, L
<1>5. CASE c.op # op
  <2>1. ASSUME NEW b \in 1..Len(log)
        PROVE  Seals(L, op, b) <=>
                 Seals(log, op, b) /\ ~(op # "FR" /\ c.op = "FR" /\ c.VKE /\ ~Held(log, "FR"))
    <3>1. /\ \A j \in (b + 1)..Len(L) : j = n \/ j \in (b + 1)..Len(log)
          /\ n \in (b + 1)..Len(L) /\ b \in 1..Len(L)
          /\ \A j \in (b + 1)..Len(log) : j \in (b + 1)..Len(L) /\ j \in 1..Len(log)
      BY <1>1
    <3>2. L[b] = log[b] /\ \A j \in (b + 1)..Len(log) : L[j] = log[j] /\ (Ref!Rises(L, j) <=> Ref!Rises(log, j))
      BY <1>1, <1>2, <3>1
    <3> QED BY <1>1, <1>3, <1>5, <3>1, <3>2 DEF Seals
  <2>2. ASSUME NEW b \in 1..Len(L), Seals(L, op, b) PROVE b \in 1..Len(log)
    <3>1. b # n
      BY <1>1, <1>5, <2>2 DEF Seals
    <3> QED BY <1>1, <3>1
  <2>3. 1..Len(log) \subseteq 1..Len(L)
    BY <1>1
  <2> QED BY <1>5, <2>1, <2>2, <2>3 DEF Held, L
<1> QED BY <1>4, <1>5

\* What the counter has after the instructions, one by one.
CountStep(log, x, k) ==
  IF log[k].op = "R" /\ log[k].VKE THEN 0
  ELSE IF log[k].op = "S" /\ Ref!Pulse(log, k) THEN log[k].n
  ELSE IF log[k].op = "ZV" /\ Ref!Pulse(log, k) THEN Ref!Within(0, 999, x + 1)
  ELSE IF log[k].op = "ZR" /\ Ref!Pulse(log, k) THEN Ref!Within(0, 999, x - 1)
  ELSE x

LEMMA CountStepIsInt ==
  ASSUME NEW log \in Seq(Insns), NEW x \in Int, NEW k \in 1..Len(log)
  PROVE  CountStep(log, x, k) \in Int
<1>1. log[k].n \in Int
  BY InsnFact
<1> QED BY <1>1 DEF CountStep, Ref!Within

LEMMA CountsFacts ==
  ASSUME NEW log \in Seq(Insns)
  PROVE  /\ Ref!CountsAfter(log)[0] = 0
         /\ \A k \in 1..Len(log) : Ref!CountsAfter(log)[k] = CountStep(log, Ref!CountsAfter(log)[k - 1], k)
<1> DEFINE F == [x \in Int \X (1..Len(log)) |-> CountStep(log, x[1], x[2])]
<1>1. Len(log) \in Nat
  OBVIOUS
<1>2. F \in [Int \X (1..Len(log)) -> Int]
  <2>1. ASSUME NEW x \in Int \X (1..Len(log)) PROVE CountStep(log, x[1], x[2]) \in Int
    <3>1. x[1] \in Int /\ x[2] \in 1..Len(log)
      OBVIOUS
    <3> QED BY <3>1, CountStepIsInt
  <2>2. \A x \in Int \X (1..Len(log)) : F[x] = CountStep(log, x[1], x[2])
    OBVIOUS
  <2>3. \A x \in Int \X (1..Len(log)) : F[x] \in Int
    BY <2>1, <2>2
  <2>4. F = [x \in Int \X (1..Len(log)) |-> F[x]]
    OBVIOUS
  <2> HIDE DEF F
  <2> QED BY <2>3, <2>4
<1>3. PICK g \in [0..Len(log) -> Int] : g[0] = 0 /\ \A k \in 1..Len(log) : g[k] = F[<<g[k - 1], k>>]
  <2> HIDE DEF F
  <2>0. 0 \in Int
    OBVIOUS
  <2>1. \E g : StepByStep(g, Int, 0, Len(log), F)
    BY <1>1, <1>2, <2>0, Recursion, Zenon
  <2> QED BY <2>1 DEF StepByStep
<1>4. ASSUME NEW k \in 1..Len(log) PROVE g[k] = CountStep(log, g[k - 1], k)
  <2>1. g[k - 1] \in Int /\ <<g[k - 1], k>> \in Int \X (1..Len(log))
    BY <1>1, <1>3
  <2>2. F[<<g[k - 1], k>>] = CountStep(log, g[k - 1], k)
    BY <2>1
  <2> QED BY <1>3, <2>2
<1> HIDE DEF F
<1>5. g = [k \in 0..Len(log) |->
             CASE k = 0 -> 0
               [] k > 0 /\ log[k].op = "R" /\ log[k].VKE -> 0
               [] k > 0 /\ log[k].op = "S" /\ Ref!Pulse(log, k) -> log[k].n
               [] k > 0 /\ log[k].op = "ZV" /\ Ref!Pulse(log, k) -> Ref!Within(0, 999, g[k - 1] + 1)
               [] k > 0 /\ log[k].op = "ZR" /\ Ref!Pulse(log, k) -> Ref!Within(0, 999, g[k - 1] - 1)
               [] OTHER -> g[k - 1]]
  <2>1. ASSUME NEW k \in 0..Len(log)
        PROVE  g[k] = CASE k = 0 -> 0
               [] k > 0 /\ log[k].op = "R" /\ log[k].VKE -> 0
               [] k > 0 /\ log[k].op = "S" /\ Ref!Pulse(log, k) -> log[k].n
               [] k > 0 /\ log[k].op = "ZV" /\ Ref!Pulse(log, k) -> Ref!Within(0, 999, g[k - 1] + 1)
               [] k > 0 /\ log[k].op = "ZR" /\ Ref!Pulse(log, k) -> Ref!Within(0, 999, g[k - 1] - 1)
               [] OTHER -> g[k - 1]
    <3>1. CASE k = 0
      BY <1>3, <3>1
    <3>2. CASE k # 0
      <4>1. k \in 1..Len(log) /\ k > 0
        BY <1>1, <3>2
      <4>2. g[k] = CountStep(log, g[k - 1], k)
        BY <1>4, <4>1
      <4> QED BY <3>2, <4>1, <4>2 DEF CountStep
    <3> QED BY <3>1, <3>2
  <2> QED BY <1>3, <2>1
<1>6. Ref!CountsAfter(log) = [k \in 0..Len(log) |->
             CASE k = 0 -> 0
               [] k > 0 /\ log[k].op = "R" /\ log[k].VKE -> 0
               [] k > 0 /\ log[k].op = "S" /\ Ref!Pulse(log, k) -> log[k].n
               [] k > 0 /\ log[k].op = "ZV" /\ Ref!Pulse(log, k) -> Ref!Within(0, 999, Ref!CountsAfter(log)[k - 1] + 1)
               [] k > 0 /\ log[k].op = "ZR" /\ Ref!Pulse(log, k) -> Ref!Within(0, 999, Ref!CountsAfter(log)[k - 1] - 1)
               [] OTHER -> Ref!CountsAfter(log)[k - 1]]
  BY <1>5, Zenon DEF Ref!CountsAfter
<1> DEFINE h == Ref!CountsAfter(log)
<1> HIDE DEF h
<1>7. h = [k \in 0..Len(log) |->
             CASE k = 0 -> 0
               [] k > 0 /\ log[k].op = "R" /\ log[k].VKE -> 0
               [] k > 0 /\ log[k].op = "S" /\ Ref!Pulse(log, k) -> log[k].n
               [] k > 0 /\ log[k].op = "ZV" /\ Ref!Pulse(log, k) -> Ref!Within(0, 999, h[k - 1] + 1)
               [] k > 0 /\ log[k].op = "ZR" /\ Ref!Pulse(log, k) -> Ref!Within(0, 999, h[k - 1] - 1)
               [] OTHER -> h[k - 1]]
  BY <1>6, Zenon DEF h
<1>8. h[0] = 0
  BY <1>1, <1>7
<1>9. ASSUME NEW k \in 1..Len(log) PROVE h[k] = CountStep(log, h[k - 1], k)
  <2>1. k \in 0..Len(log) /\ k # 0 /\ k > 0
    BY <1>1
  <2>2. h[k] =
             CASE k = 0 -> 0
               [] k > 0 /\ log[k].op = "R" /\ log[k].VKE -> 0
               [] k > 0 /\ log[k].op = "S" /\ Ref!Pulse(log, k) -> log[k].n
               [] k > 0 /\ log[k].op = "ZV" /\ Ref!Pulse(log, k) -> Ref!Within(0, 999, h[k - 1] + 1)
               [] k > 0 /\ log[k].op = "ZR" /\ Ref!Pulse(log, k) -> Ref!Within(0, 999, h[k - 1] - 1)
               [] OTHER -> h[k - 1]
    BY <1>7, <2>1
  <2> QED BY <2>1, <2>2 DEF CountStep
<1> QED BY <1>8, <1>9 DEF h

LEMMA CountsStay ==
  ASSUME NEW log \in Seq(Insns), NEW c \in Insns
  PROVE  \A k \in 0..Len(log) : Ref!CountsAfter(Append(log, c))[k] = Ref!CountsAfter(log)[k]
<1> DEFINE L == Append(log, c)
           S == {k \in Nat : k <= Len(log) => Ref!CountsAfter(L)[k] = Ref!CountsAfter(log)[k]}
<1>0. /\ L \in Seq(Insns) /\ Len(log) \in Nat /\ Len(L) = Len(log) + 1
      /\ \A k \in 1..Len(log) : L[k] = log[k]
  BY OneMore
<1>p. \A k \in 1..Len(log) : Ref!Pulse(L, k) <=> Ref!Pulse(log, k)
  BY PulsesStay
<1> HIDE DEF L
<1>1. 0 \in S
  BY <1>0, CountsFacts
<1>2. ASSUME NEW k \in Nat, k \in S PROVE k + 1 \in S
  <2>1. SUFFICES ASSUME k + 1 <= Len(log) PROVE Ref!CountsAfter(L)[k + 1] = Ref!CountsAfter(log)[k + 1]
    OBVIOUS
  <2>2. k \in 0..Len(log) /\ k + 1 \in 1..Len(log) /\ k + 1 \in 1..Len(L) /\ (k + 1) - 1 = k
    BY <1>0, <2>1
  <2>3. Ref!CountsAfter(L)[k] = Ref!CountsAfter(log)[k]
    BY <1>2, <2>2
  <2>6. Ref!CountsAfter(L)[k + 1] = CountStep(L, Ref!CountsAfter(log)[k], k + 1)
    BY <1>0, <2>2, <2>3, CountsFacts
  <2>7. Ref!CountsAfter(log)[k + 1] = CountStep(log, Ref!CountsAfter(log)[k], k + 1)
    BY <2>2, CountsFacts
  <2>8. CountStep(L, Ref!CountsAfter(log)[k], k + 1) = CountStep(log, Ref!CountsAfter(log)[k], k + 1)
    BY <1>0, <1>p, <2>2 DEF CountStep
  <2> QED BY <2>6, <2>7, <2>8
<1>3. Nat \subseteq S
  <2> HIDE DEF S
  <2> QED BY <1>1, <1>2, SetInduction
<1> QED BY <1>0, <1>3 DEF L

\* The count after one more instruction, an edge of which is a pulse.
Counted(log, c, x) ==
  LET edge == c.VKE /\ ~Held(log, c.op)
  IN CASE c.op = "R" -> IF c.VKE THEN 0 ELSE x
       [] c.op = "S" -> IF edge THEN c.n ELSE x
       [] c.op = "ZV" -> IF edge THEN Ref!Within(0, 999, x + 1) ELSE x
       [] c.op = "ZR" -> IF edge THEN Ref!Within(0, 999, x - 1) ELSE x
       [] c.op = "FR" -> x

LEMMA CountNew ==
  ASSUME NEW log \in Seq(Insns), NEW c \in Insns
  PROVE  Ref!Count(Append(log, c)) = Counted(log, c, Ref!Count(log))
<1> DEFINE L == Append(log, c)
           n == Len(log) + 1
<1>1. /\ L \in Seq(Insns) /\ Len(log) \in Nat /\ Len(L) = n /\ L[n] = c
  BY OneMore
<1>2. c.op \in {"FR", "S", "ZV", "ZR", "R"} /\ c.VKE \in BOOLEAN
  BY DEF Insns, Ops
<1>3. Ref!CountsAfter(L)[Len(log)] = Ref!CountsAfter(log)[Len(log)]
  BY <1>1, CountsStay
<1>4. c.op # "FR" => (Ref!Pulse(L, n) <=> c.VKE /\ ~Held(log, c.op))
  BY HeldIsNoPulse
<1> HIDE DEF L
<1>5. n \in 1..Len(L) /\ n - 1 = Len(log)
  BY <1>1
<1>6. Ref!CountsAfter(L)[n] = CountStep(L, Ref!CountsAfter(L)[n - 1], n)
  BY <1>1, <1>5, CountsFacts
<1>7. Ref!Count(L) = Ref!CountsAfter(L)[n] /\ Ref!Count(log) = Ref!CountsAfter(log)[Len(log)]
  BY <1>1 DEF Ref!Count
<1> HIDE DEF n
<1>8. Ref!Count(L) = CountStep(L, Ref!Count(log), n)
  BY <1>3, <1>5, <1>6, <1>7
<1>9. CountStep(L, Ref!Count(log), n) = Counted(log, c, Ref!Count(log))
  BY <1>1, <1>2, <1>4 DEF CountStep, Counted
<1> QED BY <1>8, <1>9 DEF L

\* The digits of a word.
LEMMA Digits ==
  ASSUME NEW bcd \in Nat
  PROVE  /\ Digit(bcd, 0) = bcd % 16 /\ Digit(bcd, 1) = (bcd \div 16) % 16 /\ Digit(bcd, 2) = (bcd \div 256) % 16
         /\ Digit(bcd, 0) \in 0..15 /\ Digit(bcd, 1) \in 0..15 /\ Digit(bcd, 2) \in 0..15
<1>1. 16^0 = 1 /\ 16^1 = 16 /\ 16^2 = 256
  OBVIOUS
<1>2. bcd \div 1 = bcd
  OBVIOUS
<1>3. /\ Digit(bcd, 0) = bcd % 16 /\ Digit(bcd, 1) = (bcd \div 16) % 16
      /\ Digit(bcd, 2) = (bcd \div 256) % 16
  BY <1>1, <1>2 DEF Digit
<1>4. bcd % 16 \in 0..15 /\ (bcd \div 16) % 16 \in 0..15 /\ (bcd \div 256) % 16 \in 0..15
  OBVIOUS
<1> QED BY <1>3, <1>4

LEMMA FromWord ==
  ASSUME NEW bcd \in Nat
  PROVE  FromBCD(bcd) \in Nat /\ (IsBCD(bcd) => FromBCD(bcd) \in 0..999)
<1>1. FromBCD(bcd) = Digit(bcd, 0) + Digit(bcd, 1) * 10 + Digit(bcd, 2) * 100
  BY DEF FromBCD
<1>2. Digit(bcd, 0) \in 0..15 /\ Digit(bcd, 1) \in 0..15 /\ Digit(bcd, 2) \in 0..15
  BY Digits
<1>3. IsBCD(bcd) => Digit(bcd, 0) <= 9 /\ Digit(bcd, 1) <= 9 /\ Digit(bcd, 2) <= 9
  BY DEF IsBCD
<1> QED BY <1>1, <1>2, <1>3

\* LC gives a word that S takes again.
LEMMA ThereAndBack ==
  ASSUME NEW n \in 0..999
  PROVE  IsBCD(ToBCD(n)) /\ FromBCD(ToBCD(n)) = n
<1> DEFINE b == (n % 10) + ((n \div 10) % 10) * 16 + ((n \div 100) % 10) * 256
<1>1. ToBCD(n) = b
  <2>1. 16^2 = 256
    OBVIOUS
  <2> QED BY <2>1 DEF ToBCD
<1>2. b \in Nat /\ b <= 2457
  OBVIOUS
<1>3. b % 16 <= 9 /\ (b \div 16) % 16 <= 9 /\ (b \div 256) % 16 <= 9
  OBVIOUS
<1>4. (b % 16) + ((b \div 16) % 16) * 10 + ((b \div 256) % 16) * 100 = n
  OBVIOUS
<1> HIDE DEF b
<1>5. Digit(b, 0) = b % 16 /\ Digit(b, 1) = (b \div 16) % 16 /\ Digit(b, 2) = (b \div 256) % 16
  <2>1. b \in Nat
    BY <1>2
  <2> HIDE <1>2
  <2> QED BY <2>1, Digits, ZenonT(30)
<1>6. IsBCD(b)
  <2>1. \A i \in 0..2 : i = 0 \/ i = 1 \/ i = 2
    OBVIOUS
  <2>2. b <= \h999
    BY <1>2
  <2> QED BY <1>3, <1>5, <2>1, <2>2 DEF IsBCD
<1>7. FromBCD(b) = n
  BY <1>4, <1>5 DEF FromBCD
<1> QED BY <1>1, <1>6, <1>7

\* Of a counter Z: its value is the count, and it remembers what is held.
Counters == [counter : 0..999, prevVKE : SUBSET Ops]
CountFits(z, log) ==
  /\ z.counter = Ref!Count(log)
  /\ \A op \in Ops : op \in z.prevVKE <=> Held(log, op)

LEMMA NothingCounted ==
  CountFits(NewCounter, <<>>)
<1>1. <<>> \in Seq(Insns) /\ Len(<<>>) = 0
  OBVIOUS
<1>2. Ref!Count(<<>>) = 0
  BY <1>1, CountsFacts DEF Ref!Count
<1>3. \A op \in Ops : ~Held(<<>>, op)
  BY <1>1 DEF Held
<1> QED BY <1>2, <1>3 DEF CountFits, NewCounter

\* Each of the instructions.
LEMMA CountOn ==
  ASSUME NEW log \in Seq(Insns), NEW c \in Insns, NEW z \in Counters, CountFits(z, log),
         NEW r \in Counters,
         r.counter = Counted(log, c, z.counter),
         \A op \in Ops : op \in r.prevVKE <=>
           IF c.op = op THEN c.VKE
           ELSE op \in z.prevVKE /\ ~(op # "FR" /\ c.op = "FR" /\ c.VKE /\ "FR" \notin z.prevVKE)
  PROVE  CountFits(r, Append(log, c))
<1>1. r.counter = Ref!Count(Append(log, c))
  BY CountNew DEF CountFits
<1>2. "FR" \in z.prevVKE <=> Held(log, "FR")
  BY DEF CountFits, Ops
<1>3. ASSUME NEW op \in Ops PROVE op \in r.prevVKE <=> Held(Append(log, c), op)
  <2>1. op \in z.prevVKE <=> Held(log, op)
    BY DEF CountFits
  <2>2. Held(Append(log, c), op) <=>
           IF c.op = op THEN c.VKE
           ELSE Held(log, op) /\ ~(op # "FR" /\ c.op = "FR" /\ c.VKE /\ ~Held(log, "FR"))
    BY HeldStep
  <2>3. op \in r.prevVKE <=>
           IF c.op = op THEN c.VKE
           ELSE op \in z.prevVKE /\ ~(op # "FR" /\ c.op = "FR" /\ c.VKE /\ "FR" \notin z.prevVKE)
    OBVIOUS
  <2> QED BY <1>2, <2>1, <2>2, <2>3, Zenon
<1> QED BY <1>1, <1>3 DEF CountFits

----------------------------------------------------------------------------
(* Counter blocks.                                                         *)

BlockCalls == [CU : BOOLEAN, CD : BOOLEAN, R : BOOLEAN, LOAD : BOOLEAN, PV : PVs \cup {0}]

LEMMA BlockCallFact ==
  ASSUME NEW log \in Seq(BlockCalls), NEW k \in 1..Len(log)
  PROVE  /\ log[k] \in BlockCalls
         /\ log[k].CU \in BOOLEAN /\ log[k].CD \in BOOLEAN /\ log[k].R \in BOOLEAN
         /\ log[k].LOAD \in BOOLEAN
         /\ log[k].PV \in -Half..(Half - 1)
<1>1. log[k] \in BlockCalls
  OBVIOUS
<1>2. \A pv \in PVs \cup {0} : pv \in -Half..(Half - 1)
  BY CountingAssumption
<1>3. log[k].PV \in PVs \cup {0}
  BY <1>1 DEF BlockCalls
<1> QED BY <1>1, <1>2, <1>3 DEF BlockCalls

\* CV after the calls, one by one.
CVStep(log, x, k) ==
  IF log[k].R THEN 0
  ELSE IF log[k].LOAD THEN log[k].PV
  ELSE Ref!Within(-Half, Half - 1, x + Ref!Up(log, k) - Ref!Down(log, k))

LEMMA CVStepIsInt ==
  ASSUME NEW log \in Seq(BlockCalls), NEW x \in Int, NEW k \in 1..Len(log)
  PROVE  CVStep(log, x, k) \in Int
<1>1. log[k].PV \in Int /\ Half \in Int
  <2>1. log[k].PV \in -Half..(Half - 1)
    BY BlockCallFact
  <2> QED BY <2>1, CountingAssumption
<1>2. Ref!Up(log, k) \in Int /\ Ref!Down(log, k) \in Int
  BY DEF Ref!Up, Ref!Down
<1> QED BY <1>1, <1>2 DEF CVStep, Ref!Within

LEMMA CVsFacts ==
  ASSUME NEW log \in Seq(BlockCalls)
  PROVE  /\ Ref!CVs(log, -Half, Half - 1)[0] = 0
         /\ \A k \in 1..Len(log) :
              Ref!CVs(log, -Half, Half - 1)[k] = CVStep(log, Ref!CVs(log, -Half, Half - 1)[k - 1], k)
<1> DEFINE F == [x \in Int \X (1..Len(log)) |-> CVStep(log, x[1], x[2])]
<1>1. Len(log) \in Nat
  OBVIOUS
<1>2. F \in [Int \X (1..Len(log)) -> Int]
  <2>1. ASSUME NEW x \in Int \X (1..Len(log)) PROVE CVStep(log, x[1], x[2]) \in Int
    <3>1. x[1] \in Int /\ x[2] \in 1..Len(log)
      OBVIOUS
    <3> QED BY <3>1, CVStepIsInt
  <2>2. \A x \in Int \X (1..Len(log)) : F[x] = CVStep(log, x[1], x[2])
    OBVIOUS
  <2>3. \A x \in Int \X (1..Len(log)) : F[x] \in Int
    BY <2>1, <2>2
  <2>4. F = [x \in Int \X (1..Len(log)) |-> F[x]]
    OBVIOUS
  <2> HIDE DEF F
  <2> QED BY <2>3, <2>4
<1>3. PICK g \in [0..Len(log) -> Int] : g[0] = 0 /\ \A k \in 1..Len(log) : g[k] = F[<<g[k - 1], k>>]
  <2> HIDE DEF F
  <2>1. 0 \in Int
    OBVIOUS
  <2>2. \E g : StepByStep(g, Int, 0, Len(log), F)
    BY <1>1, <1>2, <2>1, Recursion, Zenon
  <2> QED BY <2>2 DEF StepByStep
<1>4. ASSUME NEW k \in 1..Len(log) PROVE g[k] = CVStep(log, g[k - 1], k)
  <2>1. g[k - 1] \in Int /\ <<g[k - 1], k>> \in Int \X (1..Len(log))
    BY <1>1, <1>3
  <2>2. F[<<g[k - 1], k>>] = CVStep(log, g[k - 1], k)
    BY <2>1
  <2> QED BY <1>3, <2>2
<1> HIDE DEF F
<1>5. g = [k \in 0..Len(log) |->
             IF k = 0 \/ log[k].R THEN 0
               ELSE IF log[k].LOAD THEN log[k].PV
               ELSE Ref!Within(-Half, Half - 1, g[k - 1] + Ref!Up(log, k) - Ref!Down(log, k))]
  <2>1. ASSUME NEW k \in 0..Len(log)
        PROVE  g[k] =
             IF k = 0 \/ log[k].R THEN 0
               ELSE IF log[k].LOAD THEN log[k].PV
               ELSE Ref!Within(-Half, Half - 1, g[k - 1] + Ref!Up(log, k) - Ref!Down(log, k))
    <3>1. k = 0 \/ (k \in 1..Len(log) /\ k # 0)
      BY <1>1
    <3> QED BY <1>3, <1>4, <3>1 DEF CVStep
  <2> QED BY <1>3, <2>1
<1>6. Ref!CVs(log, -Half, Half - 1) = [k \in 0..Len(log) |->
             IF k = 0 \/ log[k].R THEN 0
               ELSE IF log[k].LOAD THEN log[k].PV
               ELSE Ref!Within(-Half, Half - 1, Ref!CVs(log, -Half, Half - 1)[k - 1] + Ref!Up(log, k) - Ref!Down(log, k))]
  BY <1>5, Zenon DEF Ref!CVs
<1> DEFINE h == Ref!CVs(log, -Half, Half - 1)
<1> HIDE DEF h
<1>7. h = [k \in 0..Len(log) |->
             IF k = 0 \/ log[k].R THEN 0
               ELSE IF log[k].LOAD THEN log[k].PV
               ELSE Ref!Within(-Half, Half - 1, h[k - 1] + Ref!Up(log, k) - Ref!Down(log, k))]
  BY <1>6, Zenon DEF h
<1>8. h[0] = 0
  BY <1>1, <1>7
<1>9. ASSUME NEW k \in 1..Len(log) PROVE h[k] = CVStep(log, h[k - 1], k)
  <2>1. k \in 0..Len(log) /\ k # 0
    BY <1>1
  <2>2. h[k] =
             IF k = 0 \/ log[k].R THEN 0
               ELSE IF log[k].LOAD THEN log[k].PV
               ELSE Ref!Within(-Half, Half - 1, h[k - 1] + Ref!Up(log, k) - Ref!Down(log, k))
    BY <1>7, <2>1
  <2> QED BY <2>1, <2>2 DEF CVStep
<1> QED BY <1>8, <1>9 DEF h

LEMMA CVsStay ==
  ASSUME NEW log \in Seq(BlockCalls), NEW c \in BlockCalls
  PROVE  \A k \in 0..Len(log) :
           Ref!CVs(Append(log, c), -Half, Half - 1)[k] = Ref!CVs(log, -Half, Half - 1)[k]
<1> DEFINE L == Append(log, c)
           S == {k \in Nat : k <= Len(log) =>
                   Ref!CVs(L, -Half, Half - 1)[k] = Ref!CVs(log, -Half, Half - 1)[k]}
<1>0. /\ L \in Seq(BlockCalls) /\ Len(log) \in Nat /\ Len(L) = Len(log) + 1
      /\ \A k \in 1..Len(log) : L[k] = log[k]
  BY OneMore
<1> HIDE DEF L
<1>1. 0 \in S
  BY <1>0, CVsFacts
<1>2. ASSUME NEW k \in Nat, k \in S PROVE k + 1 \in S
  <2>1. SUFFICES ASSUME k + 1 <= Len(log)
        PROVE  Ref!CVs(L, -Half, Half - 1)[k + 1] = Ref!CVs(log, -Half, Half - 1)[k + 1]
    OBVIOUS
  <2>2. k \in 0..Len(log) /\ k + 1 \in 1..Len(log) /\ k + 1 \in 1..Len(L) /\ (k + 1) - 1 = k
    BY <1>0, <2>1
  <2> DEFINE x == Ref!CVs(log, -Half, Half - 1)[k]
  <2>3. Ref!CVs(L, -Half, Half - 1)[k] = x
    BY <1>2, <2>2
  <2>4. Ref!CVs(L, -Half, Half - 1)[k + 1] = CVStep(L, x, k + 1)
    BY <1>0, <2>2, <2>3, CVsFacts
  <2>5. Ref!CVs(log, -Half, Half - 1)[k + 1] = CVStep(log, x, k + 1)
    BY <2>2, CVsFacts
  <2> HIDE DEF x
  <2>6. CVStep(L, x, k + 1) = CVStep(log, x, k + 1)
    <3>1. L[k + 1] = log[k + 1] /\ (k + 1 # 1 => L[(k + 1) - 1] = log[(k + 1) - 1])
      BY <1>0, <2>2
    <3> QED BY <3>1 DEF CVStep, Ref!Up, Ref!Down
  <2> QED BY <2>4, <2>5, <2>6
<1>3. Nat \subseteq S
  <2> HIDE DEF S
  <2> QED BY <1>1, <1>2, SetInduction
<1> QED BY <1>0, <1>3 DEF L

\* An input that is on, and was off at the last call.
Was(log, bit) == log # <<>> /\ (bit = "CU" => log[Len(log)].CU) /\ (bit = "CD" => log[Len(log)].CD)
AsNumber(b) == IF b THEN 1 ELSE 0

LEMMA CVNew ==
  ASSUME NEW log \in Seq(BlockCalls), NEW c \in BlockCalls
  PROVE  Ref!CV(Append(log, c), -Half, Half - 1) =
           IF c.R THEN 0 ELSE IF c.LOAD THEN c.PV
           ELSE Ref!Within(-Half, Half - 1, Ref!CV(log, -Half, Half - 1)
                  + AsNumber(c.CU /\ ~Was(log, "CU")) - AsNumber(c.CD /\ ~Was(log, "CD")))
<1> DEFINE L == Append(log, c)
           n == Len(log) + 1
           x == Ref!CV(log, -Half, Half - 1)
<1>1. /\ L \in Seq(BlockCalls) /\ Len(log) \in Nat /\ Len(L) = n /\ L[n] = c
      /\ \A k \in 1..Len(log) : L[k] = log[k]
  BY OneMore
<1>2. Ref!CVs(L, -Half, Half - 1)[Len(log)] = x
  BY <1>1, CVsStay DEF Ref!CV
<1> HIDE DEF L
<1>3. n \in 1..Len(L) /\ n - 1 = Len(log)
  BY <1>1
<1>4. Ref!CV(L, -Half, Half - 1) = Ref!CVs(L, -Half, Half - 1)[n]
  BY <1>1 DEF Ref!CV
<1>5. Ref!CV(L, -Half, Half - 1) = CVStep(L, x, n)
  BY <1>1, <1>2, <1>3, <1>4, CVsFacts
<1> HIDE DEF x
<1>6. log = <<>> <=> n = 1
  BY <1>1
<1>7. n # 1 => L[n - 1] = log[Len(log)]
  BY <1>1
<1> HIDE DEF n
<1>8. /\ Ref!Up(L, n) = AsNumber(c.CU /\ ~Was(log, "CU"))
      /\ Ref!Down(L, n) = AsNumber(c.CD /\ ~Was(log, "CD"))
  BY <1>1, <1>6, <1>7 DEF Ref!Up, Ref!Down, AsNumber, Was
<1> QED BY <1>1, <1>5, <1>8 DEF CVStep, L, x

\* A call that resets or loads is the first that counts.
LEMMA CVFirst ==
  ASSUME NEW c \in BlockCalls
  PROVE  /\ <<c>> \in Seq(BlockCalls) /\ <<c>> # <<>> /\ Len(<<c>>) = 1 /\ <<c>>[1] = c
         /\ c.R \/ c.LOAD => Ref!CV(<<c>>, -Half, Half - 1) = IF c.R THEN 0 ELSE c.PV
<1>1. <<c>> \in Seq(BlockCalls) /\ <<c>> # <<>> /\ Len(<<c>>) = 1 /\ <<c>>[1] = c
  OBVIOUS
<1> DEFINE L == <<c>>
<1> HIDE DEF L
<1>2. Ref!CV(L, -Half, Half - 1) = CVStep(L, Ref!CVs(L, -Half, Half - 1)[0], 1)
  <2>1. 1 \in 1..Len(L) /\ Len(L) = 1 /\ L \in Seq(BlockCalls) /\ 1 - 1 = 0
    BY <1>1 DEF L
  <2> QED BY <2>1, CVsFacts DEF Ref!CV
<1>3. L[1] = c
  BY <1>1 DEF L
<1> QED BY <1>1, <1>2, <1>3 DEF CVStep, L

\* An INT and its word.
LEMMA SignedWord ==
  ASSUME NEW n \in -Half..(Half - 1)
  PROVE  Word(n) \in 0..(2 * Half - 1) /\ Signed(Word(n)) = n
<1> DEFINE M == 2 * Half
<1>1. Half \in Nat \ {0} /\ M \in Nat \ {0} /\ n \in Int
  BY CountingAssumption
<1>2. n >= 0 => n \in 0..(M - 1) /\ n < Half
  BY <1>1
<1>3. n < 0 => M + n \in 0..(M - 1) /\ M + n >= Half
  BY <1>1
<1>4. Word(n) = n % M
  BY DEF Word
<1>5. \A w \in Int : Signed(w) = IF w >= Half THEN w - M ELSE w
  BY DEF Signed
<1> HIDE DEF M
<1>6. \A r \in 0..(M - 1) : (M * 0 + r) % M = r /\ (M * (-1) + r) % M = r
  BY <1>1
<1>7. n >= 0 => Word(n) = n
  <2>1. M * 0 + n = n
    BY <1>1
  <2> QED BY <1>2, <1>4, <1>6, <2>1
<1>8. n < 0 => Word(n) = M + n
  <2>1. M * (-1) + (M + n) = n
    BY <1>1
  <2> QED BY <1>3, <1>4, <1>6, <2>1
<1>9. CASE n >= 0
  BY <1>1, <1>2, <1>5, <1>7, <1>9 DEF M
<1>10. CASE n < 0
  BY <1>1, <1>3, <1>5, <1>8, <1>10 DEF M
<1> QED BY <1>1, <1>9, <1>10

LEMMA SignedOfWord ==
  ASSUME NEW w \in 0..(2 * Half - 1)
  PROVE  Signed(w) \in -Half..(Half - 1)
BY CountingAssumption DEF Signed

CounterInstances == [CV : 0..(2 * Half - 1), CUO : BOOLEAN, CDO : BOOLEAN, QU : BOOLEAN, QD : BOOLEAN]

\* What a block keeps of its calls, and shows.
BlockCounts(block, fb, log) ==
  /\ Signed(fb.CV) = Ref!CV(log, -Half, Half - 1)
  /\ block # "CTD" => (fb.CUO <=> Was(log, "CU"))
  /\ block # "CTU" => (fb.CDO <=> Was(log, "CD"))
  /\ log # <<>> /\ block # "CTD" => (fb.QU <=> Signed(fb.CV) >= log[Len(log)].PV)
  /\ log # <<>> /\ block # "CTU" => (fb.QD <=> Signed(fb.CV) <= 0)

LEMMA NoBlockCalls ==
  ASSUME NEW block
  PROVE  BlockCounts(block, NewInstance, <<>>)
<1>1. <<>> \in Seq(BlockCalls) /\ Len(<<>>) = 0
  OBVIOUS
<1>2. Ref!CV(<<>>, -Half, Half - 1) = 0
  BY <1>1, CVsFacts DEF Ref!CV
<1>3. Signed(0) = 0
  BY CountingAssumption DEF Signed
<1> QED BY <1>2, <1>3 DEF BlockCounts, NewInstance, Was

\* CV after a call of a block that is called with c.
CVNext(x, fb, c) ==
  IF c.R THEN 0 ELSE IF c.LOAD THEN c.PV
  ELSE Ref!Within(-Half, Half - 1, x + AsNumber(c.CU /\ ~fb.CUO) - AsNumber(c.CD /\ ~fb.CDO))

LEMMA PVIsInt ==
  ASSUME NEW c \in BlockCalls
  PROVE  c.PV \in Int
<1>1. \A pv \in PVs \cup {0} : pv \in Int
  BY CountingAssumption
<1> QED BY <1>1 DEF BlockCalls

LEMMA CVNextInRange ==
  ASSUME NEW x \in -Half..(Half - 1), NEW fb, NEW c \in BlockCalls
  PROVE  CVNext(x, fb, c) \in -Half..(Half - 1)
<1>1. c.PV \in -Half..(Half - 1)
  <2>1. \A pv \in PVs \cup {0} : pv \in -Half..(Half - 1)
    BY CountingAssumption
  <2> QED BY <2>1 DEF BlockCalls
<1>2. Half \in Nat \ {0}
  BY CountingAssumption
<1>3. AsNumber(c.CU /\ ~fb.CUO) \in 0..1 /\ AsNumber(c.CD /\ ~fb.CDO) \in 0..1
  BY DEF AsNumber
<1> QED BY <1>1, <1>2, <1>3 DEF CVNext, Ref!Within

CallsAfter(log, c) == IF c.R \/ c.LOAD THEN <<c>> ELSE Append(log, c)

LEMMA BlockCountsOn ==
  ASSUME NEW block \in Blocks, NEW fb \in CounterInstances,
         NEW log \in Seq(BlockCalls), BlockCounts(block, fb, log),
         NEW c \in BlockCalls, block = "CTU" => ~c.CD, block = "CTD" => ~c.CU,
         NEW r \in CounterInstances,
         Signed(r.CV) = CVNext(Signed(fb.CV), fb, c),
         block # "CTD" => r.CUO = c.CU /\ (r.QU <=> Signed(r.CV) >= c.PV),
         block # "CTU" => r.CDO = c.CD /\ (r.QD <=> Signed(r.CV) <= 0)
  PROVE  BlockCounts(block, r, CallsAfter(log, c)) /\ CallsAfter(log, c) \in Seq(BlockCalls)
<1> DEFINE after == CallsAfter(log, c)
<1> USE DEF CallsAfter
<1>1. /\ after \in Seq(BlockCalls) /\ after # <<>> /\ after[Len(after)] = c
  <2>1. CASE c.R \/ c.LOAD
    BY <2>1, CVFirst
  <2>2. CASE ~(c.R \/ c.LOAD)
    <3>1. /\ after \in Seq(BlockCalls) /\ after # <<>> /\ Len(after) = Len(log) + 1
          /\ after[Len(log) + 1] = c
      BY <2>2, OneMore
    <3> QED BY <3>1
  <2> QED BY <2>1, <2>2
<1>2. Was(after, "CU") = c.CU /\ Was(after, "CD") = c.CD
  BY <1>1 DEF Was, BlockCalls
<1>3. Signed(r.CV) = Ref!CV(after, -Half, Half - 1)
  <2>1. CASE c.R \/ c.LOAD
    BY <2>1, CVFirst DEF CVNext
  <2>2. CASE ~(c.R \/ c.LOAD)
    <3>1. Ref!CV(after, -Half, Half - 1) =
            Ref!Within(-Half, Half - 1, Ref!CV(log, -Half, Half - 1)
                  + AsNumber(c.CU /\ ~Was(log, "CU")) - AsNumber(c.CD /\ ~Was(log, "CD")))
      BY <2>2, CVNew
    <3>2. AsNumber(c.CU /\ ~Was(log, "CU")) = AsNumber(c.CU /\ ~fb.CUO)
      BY DEF BlockCounts, AsNumber
    <3>3. AsNumber(c.CD /\ ~Was(log, "CD")) = AsNumber(c.CD /\ ~fb.CDO)
      BY DEF BlockCounts, AsNumber
    <3>4. Ref!CV(log, -Half, Half - 1) = Signed(fb.CV)
      BY DEF BlockCounts
    <3> QED BY <2>2, <3>1, <3>2, <3>3, <3>4 DEF CVNext
  <2> QED BY <2>1, <2>2
<1> QED BY <1>1, <1>2, <1>3 DEF BlockCounts

\* Each of the blocks.
LEMMA CTUCounts ==
  ASSUME NEW fb \in CounterInstances, NEW c \in BlockCalls, ~c.CD, ~c.LOAD, NEW r, r = SFB0(fb, c)
  PROVE  /\ r \in CounterInstances /\ Signed(r.CV) = CVNext(Signed(fb.CV), fb, c)
         /\ r.CUO = c.CU /\ (r.QU <=> Signed(r.CV) >= c.PV)
<1> DEFINE old == Signed(fb.CV)
           new == IF c.R THEN 0 ELSE IF c.CU /\ ~fb.CUO /\ old < Half - 1 THEN old + 1 ELSE old
<1>1. old \in -Half..(Half - 1) /\ Half \in Nat \ {0}
  <2>1. fb.CV \in 0..(2 * Half - 1)
    BY DEF CounterInstances
  <2> QED BY <2>1, SignedOfWord, CountingAssumption
<1>2. CVNext(old, fb, c) \in -Half..(Half - 1)
  BY <1>1, CVNextInRange
<1>3. r = [fb EXCEPT !.CUO = c.CU, !.CV = Word(new), !.QU = new >= c.PV]
  BY DEF SFB0
<1> HIDE DEF old
<1>4. new = CVNext(old, fb, c)
  BY <1>1 DEF CVNext, Ref!Within, AsNumber
<1> HIDE DEF new
<1>5. Word(new) \in 0..(2 * Half - 1) /\ Signed(Word(new)) = new
  BY <1>2, <1>4, SignedWord
<1>6. c.CU \in BOOLEAN
  BY DEF BlockCalls
<1>n. new \in Int /\ c.PV \in Int
  BY <1>1, <1>2, <1>4, PVIsInt
<1>7. r \in CounterInstances
  <2> DEFINE w == Word(new)
             q == new >= c.PV
  <2>1. q \in BOOLEAN
    BY <1>n
  <2>2. r = [fb EXCEPT !.CUO = c.CU, !.CV = w, !.QU = q]
    BY <1>3
  <2>3. w \in 0..(2 * Half - 1)
    BY <1>5
  <2> HIDE DEF w, q
  <2> QED BY <1>6, <2>1, <2>2, <2>3 DEF CounterInstances
<1>8. r.CV = Word(new) /\ r.CUO = c.CU /\ (r.QU <=> new >= c.PV)
  BY <1>3, <1>n DEF CounterInstances
<1> QED BY <1>4, <1>5, <1>7, <1>8 DEF old

LEMMA CTDCounts ==
  ASSUME NEW fb \in CounterInstances, NEW c \in BlockCalls, ~c.CU, ~c.R, NEW r, r = SFB1(fb, c)
  PROVE  /\ r \in CounterInstances /\ Signed(r.CV) = CVNext(Signed(fb.CV), fb, c)
         /\ r.CDO = c.CD /\ (r.QD <=> Signed(r.CV) <= 0)
<1> DEFINE old == Signed(fb.CV)
           new == IF c.LOAD THEN c.PV ELSE IF c.CD /\ ~fb.CDO /\ old > -Half THEN old - 1 ELSE old
<1>1. old \in -Half..(Half - 1) /\ Half \in Nat \ {0}
  <2>1. fb.CV \in 0..(2 * Half - 1)
    BY DEF CounterInstances
  <2> QED BY <2>1, SignedOfWord, CountingAssumption
<1>2. CVNext(old, fb, c) \in -Half..(Half - 1)
  BY <1>1, CVNextInRange
<1>3. r = [fb EXCEPT !.CDO = c.CD, !.CV = Word(new), !.QD = new <= 0]
  BY DEF SFB1
<1> HIDE DEF old
<1>4. new = CVNext(old, fb, c)
  BY <1>1 DEF CVNext, Ref!Within, AsNumber
<1> HIDE DEF new
<1>5. Word(new) \in 0..(2 * Half - 1) /\ Signed(Word(new)) = new
  BY <1>2, <1>4, SignedWord
<1>6. c.CD \in BOOLEAN
  BY DEF BlockCalls
<1>n. new \in Int /\ c.PV \in Int
  BY <1>1, <1>2, <1>4, PVIsInt
<1>7. r \in CounterInstances
  <2> DEFINE w == Word(new)
             z == new <= 0
  <2>1. z \in BOOLEAN
    BY <1>n
  <2>2. r = [fb EXCEPT !.CDO = c.CD, !.CV = w, !.QD = z]
    BY <1>3
  <2>3. w \in 0..(2 * Half - 1)
    BY <1>5
  <2> HIDE DEF w, z
  <2> QED BY <1>6, <2>1, <2>2, <2>3 DEF CounterInstances
<1>8. r.CV = Word(new) /\ r.CDO = c.CD /\ (r.QD <=> new <= 0)
  BY <1>3, <1>n DEF CounterInstances
<1> QED BY <1>4, <1>5, <1>7, <1>8 DEF old

LEMMA CTUDCounts ==
  ASSUME NEW fb \in CounterInstances, NEW c \in BlockCalls, NEW r, r = SFB2(fb, c)
  PROVE  /\ r \in CounterInstances /\ Signed(r.CV) = CVNext(Signed(fb.CV), fb, c)
         /\ r.CUO = c.CU /\ (r.QU <=> Signed(r.CV) >= c.PV)
         /\ r.CDO = c.CD /\ (r.QD <=> Signed(r.CV) <= 0)
<1> DEFINE old == Signed(fb.CV)
           up == c.CU /\ ~fb.CUO
           down == c.CD /\ ~fb.CDO
           new == IF c.R THEN 0
                  ELSE IF c.LOAD THEN c.PV
                  ELSE IF down /\ ~up /\ old > -Half THEN old - 1
                  ELSE IF up /\ ~down /\ old < Half - 1 THEN old + 1 ELSE old
<1>1. old \in -Half..(Half - 1) /\ Half \in Nat \ {0}
  <2>1. fb.CV \in 0..(2 * Half - 1)
    BY DEF CounterInstances
  <2> QED BY <2>1, SignedOfWord, CountingAssumption
<1>2. CVNext(old, fb, c) \in -Half..(Half - 1)
  BY <1>1, CVNextInRange
<1>3. r = [fb EXCEPT !.CUO = c.CU, !.CDO = c.CD, !.CV = Word(new), !.QU = new >= c.PV, !.QD = new <= 0]
  BY DEF SFB2
<1> HIDE DEF old
<1>4. new = CVNext(old, fb, c)
  BY <1>1 DEF CVNext, Ref!Within, AsNumber
<1> HIDE DEF new
<1>5. Word(new) \in 0..(2 * Half - 1) /\ Signed(Word(new)) = new
  BY <1>2, <1>4, SignedWord
<1>6. c.CU \in BOOLEAN /\ c.CD \in BOOLEAN
  BY DEF BlockCalls
<1>n. new \in Int /\ c.PV \in Int
  BY <1>1, <1>2, <1>4, PVIsInt
<1>7. r \in CounterInstances
  <2> DEFINE w == Word(new)
             q == new >= c.PV
             z == new <= 0
  <2>1. q \in BOOLEAN /\ z \in BOOLEAN
    BY <1>n
  <2>2. r = [fb EXCEPT !.CUO = c.CU, !.CDO = c.CD, !.CV = w, !.QU = q, !.QD = z]
    BY <1>3
  <2>3. w \in 0..(2 * Half - 1)
    BY <1>5
  <2> HIDE DEF w, q, z
  <2> QED BY <1>6, <2>1, <2>2, <2>3 DEF CounterInstances
<1>8. /\ r.CV = Word(new) /\ r.CUO = c.CU /\ (r.QU <=> new >= c.PV) /\ r.CDO = c.CD
      /\ (r.QD <=> new <= 0)
  BY <1>3, <1>n DEF CounterInstances
<1> QED BY <1>4, <1>5, <1>7, <1>8 DEF old

----------------------------------------------------------------------------
(* The inductive invariant of the counters.                                *)

CounterInv ==
  /\ CounterTypeOK
  /\ counterKind = "Z" => counterLog \in Seq(Insns) /\ CountFits(counter, counterLog)
  /\ counterKind # "Z" => counterLog \in Seq(BlockCalls) /\ BlockCounts(counterKind, counter, counterLog)

LEMMA CounterInvFacts ==
  ASSUME CounterInv
  PROVE  /\ counterKind \in Blocks \cup {"Z"}
         /\ counterKind = "Z" =>
              counter \in Counters /\ counterLog \in Seq(Insns) /\ CountFits(counter, counterLog)
         /\ counterKind # "Z" =>
              /\ counter \in CounterInstances /\ counterLog \in Seq(BlockCalls)
              /\ BlockCounts(counterKind, counter, counterLog)
BY DEF CounterInv, CounterTypeOK, Counters, CounterInstances

LEMMA CounterBegins ==
  ASSUME CounterInit
  PROVE  CounterInv
<1>1. /\ counterKind \in Blocks \cup {"Z"} /\ counterLog = <<>>
      /\ counterKind = "Z" => counter = NewCounter
      /\ counterKind # "Z" => counter = NewInstance
  BY DEF CounterInit
<1>2. 0 \in 0..(2 * Half - 1)
  BY CountingAssumption
<1>3. NewCounter \in Counters /\ NewInstance \in CounterInstances
  BY <1>2 DEF NewCounter, Counters, NewInstance, CounterInstances
<1>4. CounterTypeOK
  <2>1. /\ (counterKind = "Z" => counter \in Counters)
        /\ (counterKind # "Z" => counter \in CounterInstances)
    BY <1>1, <1>3
  <2> QED BY <1>1, <2>1 DEF CounterTypeOK, Counters, CounterInstances
<1>5. counterLog \in Seq(Insns) /\ counterLog \in Seq(BlockCalls)
  BY <1>1
<1>6. counterKind = "Z" => CountFits(counter, counterLog)
  BY <1>1, NothingCounted
<1>7. counterKind # "Z" => BlockCounts(counterKind, counter, counterLog)
  BY <1>1, NoBlockCalls
<1> QED BY <1>4, <1>5, <1>6, <1>7 DEF CounterInv

\* Of a counter Z, all its instructions.
LEMMA InstructionFits ==
  ASSUME CounterInv, counterKind = "Z",
         NEW op \in Ops \cup {"R"}, NEW VKE \in BOOLEAN, NEW n \in Nat, Done(op, VKE, n),
         counter' \in Counters,
         counter'.counter =
           (CASE op = "R" -> IF VKE THEN 0 ELSE counter.counter
              [] op = "S" -> IF Edge(op, VKE) THEN n ELSE counter.counter
              [] op = "ZV" -> IF Edge(op, VKE) THEN Ref!Within(0, 999, counter.counter + 1) ELSE counter.counter
              [] op = "ZR" -> IF Edge(op, VKE) THEN Ref!Within(0, 999, counter.counter - 1) ELSE counter.counter
              [] op = "FR" -> counter.counter),
         \A other \in Ops : other \in counter'.prevVKE <=>
           IF op = other THEN VKE
           ELSE other \in counter.prevVKE /\ ~(other # "FR" /\ op = "FR" /\ VKE /\ "FR" \notin counter.prevVKE)
  PROVE  CounterInv'
<1> DEFINE c == [op |-> op, VKE |-> VKE, n |-> n]
<1>1. c \in Insns /\ c.op = op /\ c.VKE = VKE /\ c.n = n
  BY DEF Insns
<1>2. counterLog' = Append(counterLog, c) /\ counterKind' = "Z"
  BY DEF Done
<1>3. counter \in Counters /\ counterLog \in Seq(Insns) /\ CountFits(counter, counterLog)
  BY CounterInvFacts
<1> HIDE DEF c
<1>4. op \in Ops => (Edge(op, VKE) <=> c.VKE /\ ~Held(counterLog, c.op))
  BY <1>1, <1>3 DEF CountFits, Edge
<1>5. counter'.counter = Counted(counterLog, c, counter.counter)
  BY <1>1, <1>4 DEF Counted, Ops
<1>6. CountFits(counter', Append(counterLog, c))
  BY <1>1, <1>3, <1>5, CountOn
<1>7. counterLog' \in Seq(Insns)
  BY <1>1, <1>2, <1>3, OneMore
<1>8. CountFits(counter, counterLog)'
  BY <1>2, <1>6 DEF CountFits
<1> QED BY <1>2, <1>7, <1>8 DEF CounterInv, CounterTypeOK, Counters

LEMMA EdgeFacts ==
  ASSUME NEW z \in Counters
  PROVE  z.counter \in 0..999 /\ z.prevVKE \subseteq Ops
BY DEF Counters

LEMMA CounterSteps ==
  ASSUME CounterInv, [CounterNext]_counterVars
  PROVE  CounterInv'
<1>1. CASE UNCHANGED counterVars
  BY <1>1 DEF CounterInv, CounterTypeOK, CountFits, BlockCounts, counterVars
<1> USE DEF Ops
<1>0. counterKind = "Z" => counter \in Counters /\ counter.counter \in 0..999 /\ counter.prevVKE \subseteq Ops
  BY CounterInvFacts, EdgeFacts
<1>2. ASSUME NEW VKE \in BOOLEAN, CounterFR(VKE) PROVE CounterInv'
  <2>1. counterKind = "Z" /\ Done("FR", VKE, 0)
        /\ counter' = [counter EXCEPT !.prevVKE = IF Edge("FR", VKE) THEN {"FR"} ELSE Seen("FR", VKE)]
    BY <1>2 DEF CounterFR, Done
  <2>2. counter'.counter = counter.counter
        /\ counter'.prevVKE = (IF Edge("FR", VKE) THEN {"FR"} ELSE Seen("FR", VKE))
    BY <1>0, <2>1 DEF Counters
  <2>3. counter' \in Counters
    BY <1>0, <2>1 DEF Counters, Seen
  <2>4. \A other \in Ops : other \in counter'.prevVKE <=>
           IF "FR" = other THEN VKE
           ELSE other \in counter.prevVKE /\ ~(other # "FR" /\ "FR" = "FR" /\ VKE /\ "FR" \notin counter.prevVKE)
    BY <2>2 DEF Edge, Seen
  <2> QED BY <2>1, <2>2, <2>3, <2>4, InstructionFits
<1>3. ASSUME NEW VKE \in BOOLEAN, ResetCounter(VKE) PROVE CounterInv'
  <2>1. counterKind = "Z" /\ Done("R", VKE, 0)
        /\ counter' = IF VKE THEN [counter EXCEPT !.counter = 0] ELSE counter
    BY <1>3 DEF ResetCounter, Done
  <2>2. /\ counter'.counter = (IF VKE THEN 0 ELSE counter.counter)
        /\ counter'.prevVKE = counter.prevVKE
    BY <1>0, <2>1 DEF Counters
  <2>3. counter' \in Counters
    BY <1>0, <2>1 DEF Counters
  <2> QED BY <2>1, <2>2, <2>3, InstructionFits
<1>4. ASSUME NEW VKE \in BOOLEAN, RunZV(VKE) PROVE CounterInv'
  <2>1. counterKind = "Z" /\ Done("ZV", VKE, 0)
        /\ counter' = [counter |-> IF Edge("ZV", VKE) /\ counter.counter < 999
                             THEN counter.counter + 1 ELSE counter.counter,
                       prevVKE |-> Seen("ZV", VKE)]
    BY <1>4 DEF RunZV, Done
  <2>2. counter'.counter =
           (IF Edge("ZV", VKE) THEN Ref!Within(0, 999, counter.counter + 1) ELSE counter.counter)
    BY <1>0, <2>1, SMTT(30) DEF Ref!Within
  <2>3. counter'.prevVKE = Seen("ZV", VKE)
    BY <2>1
  <2>4. counter' \in Counters
    BY <1>0, <2>1 DEF Counters, Seen
  <2>5. \A other \in Ops : other \in counter'.prevVKE <=>
           IF "ZV" = other THEN VKE ELSE other \in counter.prevVKE
    BY <2>3 DEF Seen
  <2> QED BY <2>1, <2>2, <2>4, <2>5, InstructionFits
<1>5. ASSUME NEW VKE \in BOOLEAN, RunZR(VKE) PROVE CounterInv'
  <2>1. counterKind = "Z" /\ Done("ZR", VKE, 0)
        /\ counter' = [counter |-> IF Edge("ZR", VKE) /\ counter.counter > 0
                             THEN counter.counter - 1 ELSE counter.counter,
                       prevVKE |-> Seen("ZR", VKE)]
    BY <1>5 DEF RunZR, Done
  <2>2. counter'.counter =
           (IF Edge("ZR", VKE) THEN Ref!Within(0, 999, counter.counter - 1) ELSE counter.counter)
    BY <1>0, <2>1, SMTT(30) DEF Ref!Within
  <2>3. counter'.prevVKE = Seen("ZR", VKE)
    BY <2>1
  <2>4. counter' \in Counters
    BY <1>0, <2>1 DEF Counters, Seen
  <2>5. \A other \in Ops : other \in counter'.prevVKE <=>
           IF "ZR" = other THEN VKE ELSE other \in counter.prevVKE
    BY <2>3 DEF Seen
  <2> QED BY <2>1, <2>2, <2>4, <2>5, InstructionFits
<1>6. ASSUME NEW VKE \in BOOLEAN, NEW bcd \in AccuValues, Set(VKE, bcd) PROVE CounterInv'
  <2>1. counterKind = "Z" /\ Done("S", VKE, FromBCD(bcd)) /\ (Edge("S", VKE) => IsBCD(bcd))
        /\ counter' = [counter |-> IF Edge("S", VKE) THEN FromBCD(bcd) ELSE counter.counter,
                       prevVKE |-> Seen("S", VKE)]
    BY <1>6 DEF Set, Done
  <2>2. FromBCD(bcd) \in Nat /\ (IsBCD(bcd) => FromBCD(bcd) \in 0..999)
    BY FromWord, CountingAssumption
  <2>3. counter'.counter = (IF Edge("S", VKE) THEN FromBCD(bcd) ELSE counter.counter)
        /\ counter'.prevVKE = Seen("S", VKE)
    BY <2>1
  <2>4. counter' \in Counters
    BY <1>0, <2>1, <2>2 DEF Counters, Seen
  <2>5. \A other \in Ops : other \in counter'.prevVKE <=>
           IF "S" = other THEN VKE ELSE other \in counter.prevVKE
    BY <2>3 DEF Seen
  <2> QED BY <2>1, <2>2, <2>3, <2>4, <2>5, InstructionFits
<1>7. CASE Reallocate
  <2>1. counterKind' = "Z" /\ counter' = NewCounter /\ counterLog' = <<>>
    BY <1>7 DEF Reallocate
  <2>2. counterLog' \in Seq(Insns) /\ CountFits(counter', counterLog')
    BY <2>1, NothingCounted
  <2>3. CountFits(counter, counterLog)'
    BY <2>2 DEF CountFits
  <2>4. counter' \in Counters
    BY <2>1 DEF NewCounter, Counters
  <2> QED BY <2>1, <2>2, <2>3, <2>4 DEF CounterInv, CounterTypeOK, Counters
<1>8. ASSUME NEW c \in Inputs, CallCounter(c) PROVE CounterInv'
  <2>1. /\ counterKind \in Blocks /\ counterKind # "Z" /\ counterKind' = counterKind
        /\ counterLog' = IF c.R \/ c.LOAD THEN <<c>> ELSE Append(counterLog, c)
        /\ counter' = CASE counterKind = "CTU" -> SFB0(counter, c)
                        [] counterKind = "CTD" -> SFB1(counter, c)
                        [] counterKind = "CTUD" -> SFB2(counter, c)
    BY <1>8 DEF CallCounter, Blocks
  <2>2. /\ counter \in CounterInstances /\ counterLog \in Seq(BlockCalls)
        /\ BlockCounts(counterKind, counter, counterLog)
    BY <2>1, CounterInvFacts
  <2>3. /\ c \in BlockCalls
        /\ counterKind = "CTU" => ~c.CD /\ ~c.LOAD
        /\ counterKind = "CTD" => ~c.CU /\ ~c.R
    BY DEF Inputs, BlockCalls
  <2>4. /\ counter' \in CounterInstances
        /\ Signed(counter'.CV) = CVNext(Signed(counter.CV), counter, c)
        /\ counterKind # "CTD" => counter'.CUO = c.CU /\ (counter'.QU <=> Signed(counter'.CV) >= c.PV)
        /\ counterKind # "CTU" => counter'.CDO = c.CD /\ (counter'.QD <=> Signed(counter'.CV) <= 0)
    <3>1. CASE counterKind = "CTU"
      BY <2>1, <2>2, <2>3, <3>1, CTUCounts
    <3>2. CASE counterKind = "CTD"
      BY <2>1, <2>2, <2>3, <3>2, CTDCounts
    <3>3. CASE counterKind = "CTUD"
      BY <2>1, <2>2, <2>3, <3>3, CTUDCounts
    <3> QED BY <2>1, <3>1, <3>2, <3>3 DEF Blocks
  <2>5. BlockCounts(counterKind, counter', counterLog') /\ counterLog' \in Seq(BlockCalls)
    <3>1. counterLog' = CallsAfter(counterLog, c)
      BY <2>1 DEF CallsAfter
    <3>2. (counterKind = "CTU" => ~c.CD) /\ (counterKind = "CTD" => ~c.CU) /\ counterKind \in Blocks
      BY <2>1, <2>3
    <3>3. /\ BlockCounts(counterKind, counter', CallsAfter(counterLog, c))
          /\ CallsAfter(counterLog, c) \in Seq(BlockCalls)
      BY <2>2, <2>3, <2>4, <3>2, BlockCountsOn
    <3> QED BY <3>1, <3>3
  <2>6. BlockCounts(counterKind, counter, counterLog)'
    BY <2>1, <2>5 DEF BlockCounts
  <2> QED BY <2>1, <2>4, <2>5, <2>6, ZenonT(30) DEF CounterInv, CounterTypeOK, CounterInstances
<1> QED BY <1>1, <1>2, <1>3, <1>4, <1>5, <1>6, <1>7, <1>8 DEF CounterNext

LEMMA CounterCounts ==
  ASSUME CounterInv
  PROVE  CountsPulses
<1>1. CASE counterKind = "Z"
  <2>1. counter.counter = Ref!Count(counterLog) /\ counter.counter \in 0..999
    BY <1>1, CounterInvFacts, EdgeFacts DEF CountFits
  <2>2. /\ IsBCD(ToBCD(counter.counter))
        /\ FromBCD(ToBCD(counter.counter)) = counter.counter
    BY <2>1, ThereAndBack, ZenonT(30)
  <2> QED BY <1>1, <2>1, <2>2 DEF CountsPulses
<1>2. CASE counterKind # "Z"
  <2>1. BlockCounts(counterKind, counter, counterLog) /\ counter \in CounterInstances
    BY <1>2, CounterInvFacts
  <2>2. counter.QU \in BOOLEAN /\ counter.QD \in BOOLEAN
    BY <2>1 DEF CounterInstances
  <2> DEFINE CV == Ref!CV(counterLog, -Half, Half - 1)
             above == CV >= counterLog[Len(counterLog)].PV
             below == CV <= 0
  <2>3. Signed(counter.CV) = CV
    BY <2>1 DEF BlockCounts
  <2>4. counterLog # <<>> => (counterKind # "CTD" => (counter.QU <=> above)) /\ (counterKind # "CTU" => (counter.QD <=> below))
    BY <2>1, <2>3 DEF BlockCounts
  <2>5. ASSUME counterLog # <<>> PROVE above \in BOOLEAN /\ below \in BOOLEAN
    <3>1. CV \in Int
      <4>1. Signed(counter.CV) \in -Half..(Half - 1)
        BY <2>1, SignedOfWord DEF CounterInstances
      <4> QED BY <2>3, <4>1, CountingAssumption
    <3>2. counterLog[Len(counterLog)].PV \in Int
      <4>1. counterLog \in Seq(BlockCalls)
        BY <1>2, CounterInvFacts
      <4>2. Len(counterLog) \in 1..Len(counterLog)
        BY <2>5, <4>1
      <4> QED BY <4>1, <4>2, BlockCallFact, PVIsInt
    <3> QED BY <3>1, <3>2
  <2> HIDE DEF above, below
  <2>6. counterLog # <<>> => (counterKind # "CTD" => (counter.QU = above)) /\ (counterKind # "CTU" => (counter.QD = below))
    <3>1. counterLog # <<>> /\ counterKind # "CTD" => (counter.QU = above)
      BY <2>2, <2>4, <2>5
    <3>2. counterLog # <<>> /\ counterKind # "CTU" => (counter.QD = below)
      BY <2>2, <2>4, <2>5
    <3> QED BY <3>1, <3>2
  <2> QED BY <1>2, <2>3, <2>6 DEF CountsPulses, above, below
<1> QED BY <1>1, <1>2

\* A counter Z stays from 0 to 999, and CV of a block a word, at all times
\* (Counter.run_ZV, run_ZR and set; run of SFB 0, 1 and 2).
THEOREM CounterTypeCorrect == CounterSpec => []CounterTypeOK
<1>1. CounterInv => CounterTypeOK
  BY DEF CounterInv
<1> QED BY <1>1, CounterBegins, CounterSteps, PTL DEF CounterSpec

\* A counter Z has counted each pulse once, and a counter block shows what that
\* of IEC 61131-3 shows, after any number of instructions and calls, for every
\* range of an INT (Counter.set, run_FR, run_ZV and run_ZR; SFB0.run, SFB1.run,
\* SFB2.run).
THEOREM CountersCountPulses == CounterSpec => []CountsPulses
BY CounterBegins, CounterSteps, CounterCounts, PTL DEF CounterSpec

----------------------------------------------------------------------------
(* The words and double words of the accumulators.                         *)

\* Powers of two: computing 2^k step by step is possible for every k.
PowersTo(n, g) == g \in [0..n -> Nat] /\ g[0] = 1 /\ \A k \in 1..n : g[k] = 2 * g[k - 1]

LEMMA PowersExist ==
  ASSUME NEW n \in Nat
  PROVE  \E g : PowersTo(n, g)
<1> DEFINE S == {m \in Nat : \E g : PowersTo(m, g)}
<1>1. 0 \in S
  <2>1. PowersTo(0, [k \in 0..0 |-> 1])
    BY DEF PowersTo
  <2> QED BY <2>1
<1>2. ASSUME NEW m \in Nat, m \in S PROVE m + 1 \in S
  <2>1. PICK g : PowersTo(m, g)
    BY <1>2
  <2> DEFINE h == [k \in 0..(m + 1) |-> IF k <= m THEN g[k] ELSE 2 * g[m]]
  <2>2. h \in [0..(m + 1) -> Nat] /\ h[0] = 1
    BY <2>1 DEF PowersTo
  <2>3. ASSUME NEW k \in 1..(m + 1) PROVE h[k] = 2 * h[k - 1]
    BY <2>1 DEF PowersTo
  <2>4. PowersTo(m + 1, h)
    BY <2>2, <2>3 DEF PowersTo
  <2> QED BY <2>4
<1> HIDE DEF S
<1>3. n \in S
  BY <1>1, <1>2, SetInduction
<1> QED BY <1>3 DEF S

LEMMA PowersAgree ==
  ASSUME NEW m \in Nat, NEW n \in Nat, NEW g, NEW h, PowersTo(m, g), PowersTo(n, h),
         NEW k \in Nat, k <= m, k <= n
  PROVE  g[k] = h[k]
<1> DEFINE S == {j \in Nat : j <= m /\ j <= n => g[j] = h[j]}
<1>1. 0 \in S
  BY DEF PowersTo
<1>2. ASSUME NEW j \in Nat, j \in S PROVE j + 1 \in S
  <2> SUFFICES ASSUME j + 1 <= m, j + 1 <= n PROVE g[j + 1] = h[j + 1]
    OBVIOUS
  <2>1. g[j] = h[j] /\ j + 1 \in 1..m /\ j + 1 \in 1..n /\ (j + 1) - 1 = j
    BY <1>2
  <2> QED BY <2>1 DEF PowersTo
<1> HIDE DEF S
<1>3. k \in S
  BY <1>1, <1>2, SetInduction
<1> QED BY <1>3 DEF S

LEMMA Powers ==
  /\ Pow2[0] = 1
  /\ \A n \in Nat : Pow2[n] \in Nat \ {0} /\ Pow2[n + 1] = 2 * Pow2[n]
<1> DEFINE G(n) == CHOOSE g : PowersTo(n, g)
           f == [n \in Nat |-> G(n)[n]]
<1>1. ASSUME NEW n \in Nat PROVE PowersTo(n, G(n))
  BY PowersExist, Zenon
<1> HIDE DEF G
<1>2. ASSUME NEW n \in Nat PROVE f[n] = IF n = 0 THEN 1 ELSE 2 * f[n - 1]
  <2>1. CASE n = 0
    BY <1>1, <2>1 DEF PowersTo
  <2>2. CASE n # 0
    <3>1. n - 1 \in Nat /\ n \in 1..n
      BY <2>2
    <3>2. G(n)[n] = 2 * G(n)[n - 1]
      BY <1>1, <3>1 DEF PowersTo
    <3>3. G(n)[n - 1] = G(n - 1)[n - 1]
      BY <1>1, <3>1, PowersAgree
    <3> QED BY <2>2, <3>1, <3>2, <3>3
  <2> QED BY <2>1, <2>2
<1>3. f = [n \in Nat |-> IF n = 0 THEN 1 ELSE 2 * f[n - 1]]
  BY <1>2
<1> HIDE DEF f
<1>4. Pow2 = CHOOSE F : F = [n \in Nat |-> IF n = 0 THEN 1 ELSE 2 * F[n - 1]]
  BY Zenon DEF Pow2
<1>5. Pow2 = [n \in Nat |-> IF n = 0 THEN 1 ELSE 2 * Pow2[n - 1]]
  BY <1>3, <1>4, Zenon
<1>6. Pow2[0] = 1 /\ \A n \in Nat : Pow2[n + 1] = 2 * Pow2[n]
  <2>1. PICK g : g = Pow2
    OBVIOUS
  <2>2. g = [n \in Nat |-> IF n = 0 THEN 1 ELSE 2 * g[n - 1]]
    BY <1>5, <2>1, Zenon
  <2>3. g[0] = 1 /\ \A n \in Nat : g[n + 1] = 2 * g[n]
    BY <2>2
  <2> QED BY <2>1, <2>3
<1> DEFINE S == {n \in Nat : Pow2[n] \in Nat \ {0}}
<1>7. 0 \in S /\ \A n \in Nat : n \in S => n + 1 \in S
  BY <1>6
<1> HIDE DEF S
<1>8. Nat \subseteq S
  BY <1>7, SetInduction
<1> QED BY <1>6, <1>8 DEF S

LEMMA PowerOfSum ==
  ASSUME NEW a \in Nat, NEW b \in Nat
  PROVE  Pow2[a + b] = Pow2[a] * Pow2[b]
<1> DEFINE S == {n \in Nat : Pow2[a + n] = Pow2[a] * Pow2[n]}
<1>1. 0 \in S
  BY Powers
<1>2. ASSUME NEW n \in Nat, n \in S PROVE n + 1 \in S
  <2>1. Pow2[a + n] = Pow2[a] * Pow2[n] /\ a + n \in Nat /\ a + (n + 1) = (a + n) + 1
    BY <1>2
  <2>2. Pow2[a + (n + 1)] = 2 * Pow2[a + n] /\ Pow2[n + 1] = 2 * Pow2[n]
    BY <2>1, Powers
  <2>3. Pow2[a] \in Nat /\ Pow2[n] \in Nat
    BY Powers
  <2> HIDE DEF S
  <2>4. Pow2[a + (n + 1)] = Pow2[a] * Pow2[n + 1]
    BY <2>1, <2>2, <2>3
  <2> QED BY <2>4 DEF S
<1> HIDE DEF S
<1>3. b \in S
  BY <1>1, <1>2, SetInduction
<1> QED BY <1>3 DEF S

HalfWidth(t) == Pow2[BitsOf(t) - 1]

LEMMA Widths ==
  ASSUME NEW t \in Types
  PROVE  /\ BitsOf(t) \in Nat \ {0}
         /\ HalfWidth(t) \in Nat \ {0} /\ Width(t) \in Nat \ {0} /\ Width(t) = 2 * HalfWidth(t)
<1>1. BitsOf(t) \in Nat \ {0}
  BY AccumulatorsAssumption DEF BitsOf, Types
<1>2. BitsOf(t) - 1 \in Nat /\ (BitsOf(t) - 1) + 1 = BitsOf(t)
  BY <1>1
<1>3. Pow2[(BitsOf(t) - 1) + 1] = 2 * Pow2[BitsOf(t) - 1]
  BY <1>2, Powers
<1>4. HalfWidth(t) \in Nat \ {0} /\ Width(t) = 2 * HalfWidth(t)
  BY <1>2, <1>3, Powers DEF HalfWidth, Width
<1> QED BY <1>1, <1>4

\* A double word is two words.
LEMMA DoubleWord ==
  "I" \in Types /\ "D" \in Types /\ Width("D") = Width("I") * Width("I")
<1>1. WordBits \in Nat /\ BitsOf("D") = WordBits + WordBits /\ BitsOf("I") = WordBits
  BY AccumulatorsAssumption DEF BitsOf
<1>2. Pow2[WordBits + WordBits] = Pow2[WordBits] * Pow2[WordBits]
  BY <1>1, PowerOfSum
<1> QED BY <1>1, <1>2 DEF Width, Types

\* Two numbers that leave the same word of type t.
Same(t, a, b) == \E k \in Int : a = b + Width(t) * k

LEMMA SameFacts ==
  ASSUME NEW t \in Types, NEW a \in Int, NEW b \in Int, NEW c \in Int
  PROVE  /\ Same(t, a, a)
         /\ Same(t, a, b) => Same(t, b, a)
         /\ Same(t, a, b) /\ Same(t, b, c) => Same(t, a, c)
<1> DEFINE W == Width(t)
<1>0. W \in Nat
  BY Widths
<1> HIDE DEF W
<1>1. a = a + W * 0 /\ 0 \in Int
  BY <1>0
<1>2. ASSUME NEW k \in Int, a = b + W * k PROVE b = a + W * (-k) /\ -k \in Int
  BY <1>0, <1>2
<1>3. ASSUME NEW k \in Int, NEW j \in Int, a = b + W * k, b = c + W * j
      PROVE  a = c + W * (k + j) /\ k + j \in Int
  BY <1>0, <1>3
<1> QED BY <1>1, <1>2, <1>3 DEF Same, W

LEMMA SignedFacts ==
  ASSUME NEW t \in Types, NEW a \in Int
  PROVE  SignedOf(t, a) \in Int /\ Fits(t, SignedOf(t, a)) /\ Same(t, a, SignedOf(t, a))
<1> DEFINE W == Width(t)
           H == HalfWidth(t)
           low == a % W
           q == a \div W
<1>1. W \in Nat \ {0} /\ H \in Nat \ {0} /\ W = 2 * H
  BY Widths
<1>2. SignedOf(t, a) = IF low >= H THEN low - W ELSE low
  BY DEF SignedOf, HalfWidth
<1>3. low \in 0..(W - 1) /\ q \in Int /\ a = W * q + low
  BY <1>1, Divided
<1> HIDE DEF W, H, low, q
<1>4. CASE low >= H
  <2>1. SignedOf(t, a) = low - W
    BY <1>2, <1>4
  <2>2. a = (low - W) + W * (q + 1) /\ q + 1 \in Int
    BY <1>1, <1>3
  <2>3. Same(t, a, low - W)
    BY <2>2 DEF Same, W
  <2>4. low - W \in Int /\ -H <= low - W /\ low - W < H
    BY <1>1, <1>3, <1>4
  <2>5. Fits(t, low - W)
    BY <2>4 DEF Fits, H, HalfWidth
  <2> QED BY <2>1, <2>3, <2>4, <2>5
<1>5. CASE ~(low >= H)
  <2>1. SignedOf(t, a) = low
    BY <1>2, <1>5
  <2>2. a = low + W * q /\ q \in Int
    BY <1>1, <1>3
  <2>3. Same(t, a, low)
    BY <2>2 DEF Same, W
  <2>4. low \in Int /\ -H <= low /\ low < H
    BY <1>1, <1>3, <1>5
  <2>5. Fits(t, low)
    BY <2>4 DEF Fits, H, HalfWidth
  <2> QED BY <2>1, <2>3, <2>4, <2>5
<1> QED BY <1>4, <1>5

\* The value of a word is the only number of its range that leaves the word.
LEMMA SignedIs ==
  ASSUME NEW t \in Types, NEW a \in Int, NEW s \in Int, Fits(t, s), Same(t, a, s)
  PROVE  SignedOf(t, a) = s
<1> DEFINE W == Width(t)
           H == HalfWidth(t)
           x == SignedOf(t, a)
<1>1. W \in Nat \ {0} /\ H \in Nat \ {0} /\ W = 2 * H
  BY Widths
<1>2. x \in Int /\ Fits(t, x) /\ Same(t, a, x)
  BY SignedFacts
<1> HIDE DEF W, H, x
<1>3. -H <= x /\ x < H /\ -H <= s /\ s < H
  BY <1>2 DEF Fits, H, HalfWidth
<1>4. PICK k \in Int : a = s + W * k
  BY DEF Same, W
<1>5. PICK j \in Int : a = x + W * j
  BY <1>2 DEF Same, W
<1>6. W * k + (s + H) = W * j + (x + H)
  BY <1>1, <1>2, <1>4, <1>5
<1>7. s + H \in 0..(W - 1) /\ x + H \in 0..(W - 1)
  BY <1>1, <1>2, <1>3
<1>8. s + H = x + H
  <2> DEFINE u == s + H
             v == x + H
  <2>1. W * k + u = W * j + v /\ u \in 0..(W - 1) /\ v \in 0..(W - 1)
    BY <1>6, <1>7
  <2> HIDE DEF u, v
  <2>2. u = v
    BY <1>1, <2>1, UniquePair
  <2> QED BY <2>2 DEF u, v
<1>9. x = s
  BY <1>1, <1>2, <1>8
<1> QED BY <1>9 DEF x

LEMMA SignedSame ==
  ASSUME NEW t \in Types, NEW a \in Int, NEW b \in Int, Same(t, a, b)
  PROVE  SignedOf(t, a) = SignedOf(t, b)
<1>1. SignedOf(t, b) \in Int /\ Fits(t, SignedOf(t, b)) /\ Same(t, b, SignedOf(t, b))
  BY SignedFacts
<1>2. Same(t, a, SignedOf(t, b))
  BY <1>1, SameFacts
<1> QED BY <1>1, <1>2, SignedIs

\* A value that fits stays itself.
LEMMA SignedSelf ==
  ASSUME NEW t \in Types, NEW s \in Int, Fits(t, s)
  PROVE  SignedOf(t, s) = s
BY SameFacts, SignedIs

Words == 0..(Width("D") - 1)

LEMMA RestIsSame ==
  ASSUME NEW t \in Types, NEW v \in Int
  PROVE  v % Width(t) \in 0..(Width(t) - 1) /\ Same(t, v % Width(t), v)
<1> DEFINE W == Width(t)
           low == v % W
           q == v \div W
<1>1. W \in Nat \ {0}
  BY Widths
<1>2. low \in 0..(W - 1) /\ q \in Int /\ v = W * q + low
  BY <1>1, Divided
<1> HIDE DEF W, low, q
<1>3. low = v + W * (-q) /\ -q \in Int
  BY <1>1, <1>2
<1> QED BY <1>2, <1>3 DEF Same, W, low

\* A double word that leaves a number leaves the same word.
LEMMA WordOfDouble ==
  ASSUME NEW t \in Types, NEW a \in Int, NEW b \in Int, Same("D", a, b)
  PROVE  Same(t, a, b)
<1>1. CASE t = "D"
  BY <1>1
<1>2. CASE t = "I"
  <2>1. PICK k \in Int : a = b + Width("D") * k
    BY DEF Same
  <2>2. Width("I") \in Nat
    BY Widths, DoubleWord
  <2>3. Width("D") * k = Width("I") * (Width("I") * k)
    <3> DEFINE N == Width("I")
    <3>1. Width("D") = N * N /\ N \in Nat
      BY <2>2, DoubleWord
    <3> HIDE DEF N
    <3>2. (N * N) * k = N * (N * k)
      BY <3>1
    <3> QED BY <3>1, <3>2 DEF N
  <2>4. Width("I") * k \in Int
    BY <2>2
  <2> QED BY <1>2, <2>1, <2>3, <2>4 DEF Same
<1> QED BY <1>1, <1>2 DEF Types

\* What is written is read again.
LEMMA PutFact ==
  ASSUME NEW t \in Types, NEW a \in Words, NEW v \in Int
  PROVE  Put(t, a, v) \in Words /\ SignedOf(t, Put(t, a, v)) = SignedOf(t, v)
<1> DEFINE N == Width("I")
           w == v % N
           q == a \div N
<1>1. N \in Nat \ {0} /\ Width("D") = N * N
  BY Widths, DoubleWord
<1>2. CASE t = "D"
  <2>1. Put(t, a, v) = v % Width("D")
    BY <1>2 DEF Put
  <2>2. v % Width("D") \in Words /\ Same("D", v % Width("D"), v)
    BY DoubleWord, RestIsSame DEF Words
  <2>3. v % Width("D") \in Int
    BY <1>1, <2>2 DEF Words
  <2> QED BY <1>2, <2>1, <2>2, <2>3, SignedSame
<1>3. CASE t = "I"
  <2>1. Put(t, a, v) = q * N + w
    BY <1>3 DEF Put
  <2>2. a \in Int /\ a >= 0 /\ a < N * N
    BY <1>1 DEF Words
  <2>3. q \in Int /\ a % N \in 0..(N - 1) /\ a = N * q + (a % N)
    BY <1>1, <2>2, Divided
  <2>4. w \in 0..(N - 1) /\ Same("I", w, v)
    BY DoubleWord, RestIsSame
  <2> DEFINE r == a % N
  <2> HIDE DEF N, q, w, r
  <2>5. q >= 0 /\ q <= N - 1
    <3>1. r \in 0..(N - 1) /\ a = N * q + r
      BY <2>3 DEF r
    <3>2. q <= -1 => N * q <= -N
      BY <1>1, <2>3
    <3>3. q >= N => N * q >= N * N
      BY <1>1, <2>3
    <3>4. N * q \in Int /\ N * N \in Int
      BY <1>1, <2>3
    <3> QED BY <1>1, <2>2, <2>3, <3>1, <3>2, <3>3, <3>4
  <2>6. q * N >= 0 /\ q * N <= N * N - N
    BY <1>1, <2>3, <2>5
  <2>7. q * N + w \in Words
    BY <1>1, <2>3, <2>4, <2>6 DEF Words
  <2>8. Same("I", q * N + w, w)
    <3>1. q * N + w = w + N * q
      BY <1>1, <2>3, <2>4
    <3> QED BY <2>3, <3>1 DEF Same, N
  <2>9. SignedOf("I", q * N + w) = SignedOf("I", v)
    <3>1. q * N + w \in Int /\ w \in Int
      BY <1>1, <2>3, <2>4
    <3> QED BY <2>4, <2>8, <3>1, DoubleWord, SignedSame
  <2> QED BY <1>3, <2>1, <2>7, <2>9
<1> QED BY <1>2, <1>3 DEF Types

IsQuotient(x, y, q) ==
  /\ q \in -Magnitude(x)..Magnitude(x)
  /\ Magnitude(x - q * y) < Magnitude(y)
  /\ x - q * y = 0 \/ Sign(x - q * y) = Sign(x)

LEMMA Signs ==
  ASSUME NEW x \in Int
  PROVE  /\ Magnitude(x) \in Nat /\ (x >= 0 => Magnitude(x) = x) /\ (x < 0 => Magnitude(x) = -x)
         /\ (x < 0 <=> Sign(x) = "minus") /\ (x > 0 <=> Sign(x) = "plus") /\ (x = 0 <=> Sign(x) = "zero")
BY DEF Magnitude, Sign

LEMMA QuotientUnique ==
  ASSUME NEW x \in Int, NEW y \in Int, y # 0, NEW p \in Int, NEW q \in Int,
         IsQuotient(x, y, p), IsQuotient(x, y, q)
  PROVE  p = q
<1> DEFINE r == x - p * y
           s == x - q * y
           n == Magnitude(y)
<1>1. n \in Nat \ {0} /\ r \in Int /\ s \in Int /\ p * y \in Int /\ q * y \in Int
  BY Signs
<1>2. -n < r /\ r < n /\ -n < s /\ s < n
  <2>1. Magnitude(r) < n /\ Magnitude(s) < n
    BY DEF IsQuotient
  <2> HIDE DEF r, s, n
  <2> QED BY <1>1, <2>1, Signs
<1>3. (r >= 0 /\ s >= 0) \/ (r <= 0 /\ s <= 0)
  <2>1. (r = 0 \/ Sign(r) = Sign(x)) /\ (s = 0 \/ Sign(s) = Sign(x))
    BY DEF IsQuotient
  <2> HIDE DEF r, s, n
  <2> QED BY <1>1, <2>1, Signs
<1>4. y * p + r = y * q + s
  BY <1>1
<1> HIDE DEF r, s
<1>5. -n < r - s /\ r - s < n
  BY <1>1, <1>2, <1>3
<1>6. y = n \/ y = -n
  BY <1>1, Signs
<1> HIDE DEF n
<1>7. n * p + r = n * q + s \/ n * q + r = n * p + s
  BY <1>1, <1>4, <1>6
<1>8. \A e, f \in Int : n * e + r = n * f + s => e = f
  BY <1>1, <1>5
<1> QED BY <1>7, <1>8

\* The code divides absolute values and gets the quotient.
LEMMA QuotientFacts ==
  ASSUME NEW x \in Int, NEW y \in Int, y # 0
  PROVE  /\ QuoOf(x, y) \in Int /\ ModOf(x, y) \in Int
         /\ x - QuoOf(x, y) * y = ModOf(x, y)
         /\ Magnitude(QuoOf(x, y)) <= Magnitude(x) /\ Magnitude(ModOf(x, y)) < Magnitude(y)
         /\ Quotient(x, y) = QuoOf(x, y)
<1> DEFINE m == Magnitude(x)
           n == Magnitude(y)
           q == m \div n
           r == m % n
           quo == QuoOf(x, y)
           rest == ModOf(x, y)
<1>1. m \in Nat /\ n \in Nat \ {0} /\ (x = m \/ x = -m) /\ (y = n \/ y = -n)
  BY Signs
<1>2. q \in Int /\ r \in 0..(n - 1) /\ m = n * q + r
  <2> HIDE DEF m, n
  <2> QED BY <1>1, Divided
<1>3. quo = IF (x < 0) # (y < 0) THEN -q ELSE q
  BY DEF QuoOf
<1>4. rest = IF x < 0 THEN -r ELSE r
  BY DEF ModOf
<1>5. (x < 0 => x = -m) /\ (x >= 0 => x = m) /\ (y < 0 => y = -n) /\ (y >= 0 => y = n)
  BY Signs
<1> HIDE DEF m, n, q, r, quo, rest
<1>6. q >= 0
  <2>1. q <= -1 => n * q <= -n
    BY <1>1, <1>2
  <2>2. n * q \in Int
    BY <1>1, <1>2
  <2> QED BY <1>1, <1>2, <2>1, <2>2
<1>7. q <= m /\ r <= m
  <2>1. n * q >= q
    BY <1>1, <1>2, <1>6
  <2>2. n * q \in Int
    BY <1>1, <1>2
  <2> QED BY <1>1, <1>2, <1>6, <2>1, <2>2
<1>8. quo \in Int /\ rest \in Int /\ -m <= quo /\ quo <= m /\ -m <= rest /\ rest <= m
  BY <1>1, <1>2, <1>3, <1>4, <1>6, <1>7
<1>9. x - quo * y = rest
  <2>1. /\ n * q = q * n /\ (-q) * n = -(n * q) /\ (-q) * (-n) = n * q
        /\ q * (-n) = -(n * q) /\ n * q \in Int
    BY <1>1, <1>2
  <2>2. CASE x < 0 /\ y < 0
    BY <1>1, <1>2, <1>3, <1>4, <1>5, <2>1, <2>2
  <2>3. CASE x < 0 /\ y >= 0
    BY <1>1, <1>2, <1>3, <1>4, <1>5, <2>1, <2>3
  <2>4. CASE x >= 0 /\ y < 0
    BY <1>1, <1>2, <1>3, <1>4, <1>5, <2>1, <2>4
  <2>5. CASE x >= 0 /\ y >= 0
    BY <1>1, <1>2, <1>3, <1>4, <1>5, <2>1, <2>5
  <2> QED BY <2>2, <2>3, <2>4, <2>5
<1>10. Magnitude(quo) <= m /\ Magnitude(rest) <= m /\ Magnitude(rest) < n
  <2>1. -n < rest /\ rest < n
    BY <1>1, <1>2, <1>4
  <2> QED BY <1>1, <1>8, <2>1, Signs
<1>11. IsQuotient(x, y, quo)
  <2>1. quo \in -m..m
    BY <1>1, <1>8
  <2>2. rest = 0 \/ Sign(rest) = Sign(x)
    <3>1. CASE x < 0
      <4>1. rest <= 0
        BY <1>1, <1>2, <1>4, <3>1
      <4> QED BY <1>8, <3>1, <4>1, Signs
    <3>2. CASE x >= 0
      <4>1. rest >= 0 /\ rest <= x
        BY <1>1, <1>2, <1>4, <1>5, <1>7, <3>2
      <4> QED BY <1>8, <3>2, <4>1, Signs
    <3> QED BY <3>1, <3>2
  <2> QED BY <1>9, <1>10, <2>1, <2>2 DEF IsQuotient, m, n
<1>12. Quotient(x, y) = quo
  <2>1. Quotient(x, y) = CHOOSE p \in -m..m : IsQuotient(x, y, p)
    BY Zenon DEF Quotient, IsQuotient, m
  <2>2. quo \in -m..m
    BY <1>1, <1>8
  <2> DEFINE c == CHOOSE p \in -m..m : IsQuotient(x, y, p)
  <2>3. c \in -m..m /\ IsQuotient(x, y, c)
    BY <1>11, <2>2, Zenon
  <2> HIDE DEF c
  <2>4. c \in Int
    BY <1>1, <2>3
  <2>5. c = quo
    BY <1>8, <1>11, <2>3, <2>4, QuotientUnique
  <2> QED BY <2>1, <2>5 DEF c
<1> QED BY <1>8, <1>9, <1>10, <1>12 DEF m, n, quo, rest

----------------------------------------------------------------------------
(* What a calculation leaves, and what the jumps make of it.               *)

Status == [A1 : BOOLEAN, A0 : BOOLEAN, OV : BOOLEAN, OS : BOOLEAN, VKE : BOOLEAN]
Jumps == {"SPZ", "SPN", "SPP", "SPM", "SPPZ", "SPMZ", "SPU"}

\* Which of the conditional jumps a set has.
Jumping(J, z, n, p, m, pz, mz, u) ==
  /\ J \subseteq Jumps
  /\ "SPZ" \in J <=> z
  /\ "SPN" \in J <=> n
  /\ "SPP" \in J <=> p
  /\ "SPM" \in J <=> m
  /\ "SPPZ" \in J <=> pz
  /\ "SPMZ" \in J <=> mz
  /\ "SPU" \in J <=> u

LEMMA FollowFact ==
  /\ Jumping(Follow("zero"), TRUE, FALSE, FALSE, FALSE, TRUE, TRUE, FALSE)
  /\ Jumping(Follow("plus"), FALSE, TRUE, TRUE, FALSE, TRUE, FALSE, FALSE)
  /\ Jumping(Follow("minus"), FALSE, TRUE, FALSE, TRUE, FALSE, TRUE, FALSE)
  /\ Jumping(Follow("undefined"), FALSE, FALSE, FALSE, FALSE, FALSE, FALSE, TRUE)
BY DEF Follow, Jumping, Jumps

LEMMA TakenFact ==
  Jumping(Taken, SPZ, SPN, SPP, SPM, SPPZ, SPMZ, SPU)
<1> DEFINE taken == [SPZ |-> SPZ, SPN |-> SPN, SPP |-> SPP, SPM |-> SPM,
                     SPPZ |-> SPPZ, SPMZ |-> SPMZ, SPU |-> SPU]
<1>1. DOMAIN taken = Jumps
  BY DEF Jumps
<1>2. /\ taken["SPZ"] = SPZ /\ taken["SPN"] = SPN /\ taken["SPP"] = SPP /\ taken["SPM"] = SPM
      /\ taken["SPPZ"] = SPPZ /\ taken["SPMZ"] = SPMZ /\ taken["SPU"] = SPU
  OBVIOUS
<1>3. Taken = {jump \in DOMAIN taken : taken[jump]}
  BY DEF Taken
<1> HIDE DEF taken
<1>4. \A jump : jump \in Taken <=> jump \in Jumps /\ taken[jump]
  BY <1>1, <1>3
<1>5. /\ "SPZ" \in Jumps /\ "SPN" \in Jumps /\ "SPP" \in Jumps /\ "SPM" \in Jumps
      /\ "SPPZ" \in Jumps /\ "SPMZ" \in Jumps /\ "SPU" \in Jumps
  BY DEF Jumps
<1> QED BY <1>2, <1>4, <1>5, Zenon DEF Jumping

LEMMA SameJumps ==
  ASSUME NEW J, NEW K, NEW z, NEW n, NEW p, NEW m, NEW pz, NEW mz, NEW u,
         Jumping(J, z, n, p, m, pz, mz, u), Jumping(K, z, n, p, m, pz, mz, u)
  PROVE  J = K
<1>1. \A jump \in Jumps : jump \in J <=> jump \in K
  BY Zenon DEF Jumping, Jumps
<1> QED BY <1>1 DEF Jumping

\* What the conditional jumps find in A1 and A0.
Decisions ==
  stw \in Status =>
    /\ ~stw.A1 /\ ~stw.A0 => Taken = Follow("zero")
    /\ stw.A1 /\ ~stw.A0 => Taken = Follow("plus")
    /\ ~stw.A1 /\ stw.A0 => Taken = Follow("minus")
    /\ stw.A1 /\ stw.A0 => Taken = Follow("undefined")

LEMMA DecisionsFact == Decisions
<1> SUFFICES ASSUME stw \in Status
    PROVE  /\ ~stw.A1 /\ ~stw.A0 => Taken = Follow("zero")
           /\ stw.A1 /\ ~stw.A0 => Taken = Follow("plus")
           /\ ~stw.A1 /\ stw.A0 => Taken = Follow("minus")
           /\ stw.A1 /\ stw.A0 => Taken = Follow("undefined")
  BY Zenon DEF Decisions
<1>1. stw.A1 \in BOOLEAN /\ stw.A0 \in BOOLEAN
  BY DEF Status
<1>2. CASE ~stw.A1 /\ ~stw.A0
  <2>1. Jumping(Taken, TRUE, FALSE, FALSE, FALSE, TRUE, TRUE, FALSE)
    BY <1>1, <1>2, TakenFact, Zenon DEF Jumping, SPZ, SPN, SPP, SPM, SPPZ, SPMZ, SPU
  <2> QED BY <1>2, <2>1, FollowFact, SameJumps
<1>3. CASE stw.A1 /\ ~stw.A0
  <2>1. Jumping(Taken, FALSE, TRUE, TRUE, FALSE, TRUE, FALSE, FALSE)
    BY <1>1, <1>3, TakenFact, Zenon DEF Jumping, SPZ, SPN, SPP, SPM, SPPZ, SPMZ, SPU
  <2> QED BY <1>3, <2>1, FollowFact, SameJumps
<1>4. CASE ~stw.A1 /\ stw.A0
  <2>1. Jumping(Taken, FALSE, TRUE, FALSE, TRUE, FALSE, TRUE, FALSE)
    BY <1>1, <1>4, TakenFact, Zenon DEF Jumping, SPZ, SPN, SPP, SPM, SPPZ, SPMZ, SPU
  <2> QED BY <1>4, <2>1, FollowFact, SameJumps
<1>5. CASE stw.A1 /\ stw.A0
  <2>1. Jumping(Taken, FALSE, FALSE, FALSE, FALSE, FALSE, FALSE, TRUE)
    BY <1>1, <1>5, TakenFact, Zenon DEF Jumping, SPZ, SPN, SPP, SPM, SPPZ, SPMZ, SPU
  <2> QED BY <1>5, <2>1, FollowFact, SameJumps
<1> QED BY <1>1, <1>2, <1>3, <1>4, <1>5, Zenon

Items == {it \in [t : Types, v : Int] : Fits(it.t, it.v)}
Verdicts == [sign : {"minus", "zero", "plus", "undefined", "any"}, over : BOOLEAN, holds : BOOLEAN]

\* The values of the expression are in their accumulators.
Kept ==
  /\ is4accu \in BOOLEAN /\ accu \in [1..4 -> Words] /\ items \in Seq(Items)
  /\ Len(items) <= IF is4accu THEN 4 ELSE 2
  /\ entered \in BOOLEAN /\ (entered => is4accu /\ Len(items) \in 2..3 /\ accu[2] = accu[3])
  /\ ResultsAreExact

\* The status word has the verdict and the overflows.
Told ==
  /\ stw \in Status /\ verdict \in Verdicts /\ lost \in BOOLEAN
  /\ OverflowIsRemembered /\ JumpsDecide

AccuInv == Kept /\ Told

\* Instructions that write one result with its conditions.
LEMMA ConditionsTell ==
  ASSUME Told, NEW v \in Int, NEW over \in BOOLEAN, NEW sign, sign = Sign(v) \/ sign = "any",
         stw' = Conditions(v, over), verdict' = [verdict EXCEPT !.sign = sign, !.over = over],
         lost' = (lost \/ over)
  PROVE  Told'
<1> DEFINE s == stw'
           a1 == v > 0
           a0 == v < 0
           os == stw.OS \/ over
<1>1. a1 \in BOOLEAN /\ a0 \in BOOLEAN /\ os \in BOOLEAN
  OBVIOUS
<1>2. s = [stw EXCEPT !.A1 = a1, !.A0 = a0, !.OV = over, !.OS = os]
  BY DEF Conditions
<1>3. stw \in Status /\ verdict \in Verdicts /\ lost \in BOOLEAN
  BY DEF Told
<1>4. stw.OS = lost /\ stw.VKE = verdict.holds
  BY DEF Told, OverflowIsRemembered, JumpsDecide
<1>5. sign \in {"minus", "zero", "plus", "undefined", "any"}
  BY DEF Sign
<1>6. /\ verdict' \in Verdicts /\ verdict'.sign = sign /\ verdict'.over = over
      /\ verdict'.holds = verdict.holds
  BY <1>3, <1>5 DEF Verdicts
<1>7. sign # "any" => (sign = "plus" <=> a1) /\ (sign = "minus" <=> a0) /\ (sign = "zero" <=> ~a1 /\ ~a0)
  BY DEF Sign
<1>8. sign # "any" => sign = "plus" \/ sign = "minus" \/ sign = "zero"
  BY DEF Sign
<1>9. ~(a1 /\ a0)
  OBVIOUS
<1> HIDE DEF a1, a0, os
<1>10. s \in Status /\ s.A1 = a1 /\ s.A0 = a0 /\ s.OV = over /\ s.OS = os /\ s.VKE = stw.VKE
  BY <1>1, <1>2, <1>3 DEF Status
<1>11. s.OS = lost'
  BY <1>4, <1>10, Zenon DEF os
<1>12. Decisions'
  BY DecisionsFact, PTL
<1>13. sign # "any" => Taken' = Follow(sign)
  BY <1>7, <1>8, <1>9, <1>10, <1>12, Zenon DEF Decisions
<1>14. lost' \in BOOLEAN
  OBVIOUS
<1> QED BY <1>4, <1>6, <1>10, <1>11, <1>13, <1>14, Zenon DEF Told, OverflowIsRemembered, JumpsDecide

\* Kept, with everything opened that concerns an instruction that ENT does
\* not precede.
LEMMA KeptFacts ==
  ASSUME Kept, ~entered
  PROVE  /\ Len(items) \in Nat /\ DOMAIN items = 1..Len(items) /\ items \in Seq(Items)
         /\ Len(items) <= 4 /\ (~is4accu => Len(items) <= 2)
         /\ \A i \in 1..Len(items) :
              /\ items[i].t \in Types /\ items[i].v \in Int /\ Fits(items[i].t, items[i].v)
              /\ items[i] \in Items /\ i \in 1..4
              /\ accu[i] \in Words /\ SignedOf(items[i].t, accu[i]) = items[i].v
<1>1. /\ Len(items) \in Nat /\ DOMAIN items = 1..Len(items) /\ items \in Seq(Items)
      /\ Len(items) <= 4 /\ (~is4accu => Len(items) <= 2)
  BY DEF Kept
<1>2. ASSUME NEW i \in 1..Len(items)
      PROVE  /\ items[i].t \in Types /\ items[i].v \in Int /\ Fits(items[i].t, items[i].v)
             /\ items[i] \in Items /\ i \in 1..4
             /\ accu[i] \in Words /\ SignedOf(items[i].t, accu[i]) = items[i].v
  <2>1. items[i] \in Items
    BY <1>1
  <2>2. i \in 1..4
    BY <1>1
  <2>3. accu[i] \in Words
    BY <2>2 DEF Kept
  <2>4. Place(i) = i /\ i \in DOMAIN items
    BY <1>1 DEF Place
  <2>5. SignedOf(items[i].t, accu[i]) = items[i].v
    BY <2>4 DEF Kept, ResultsAreExact
  <2> QED BY <2>1, <2>2, <2>3, <2>5 DEF Items
<1> QED BY <1>1, <1>2

\* What makes Kept hold after an instruction that is not ENT.
LEMMA KeptAfter ==
  ASSUME is4accu' \in BOOLEAN, entered' = FALSE, NEW a \in [1..4 -> Words], NEW e \in Seq(Items),
         accu' = a, items' = e, Len(e) <= IF is4accu' THEN 4 ELSE 2,
         \A i \in 1..Len(e) : SignedOf(e[i].t, a[i]) = e[i].v
  PROVE  Kept'
<1>1. DOMAIN items' = 1..Len(e)
  OBVIOUS
<1>2. ASSUME NEW i \in 1..Len(e)
      PROVE  SignedOf(items'[i].t, accu'[IF entered' /\ i > 2 THEN i + 1 ELSE i]) = items'[i].v
  OBVIOUS
<1>3. ResultsAreExact'
  BY <1>1, <1>2 DEF ResultsAreExact, Place
<1> QED BY <1>3 DEF Kept

LEMMA WordsAreNumbers ==
  Words \subseteq Int
BY Widths, DoubleWord DEF Words

LEMMA LenInDomain ==
  ASSUME NEW S, NEW n \in Nat, NEW f \in Seq(S), DOMAIN f = 1..n
  PROVE  Len(f) = n
<1>1. Len(f) \in Nat /\ DOMAIN f = 1..Len(f)
  OBVIOUS
<1> QED BY <1>1

LEMMA InFront ==
  ASSUME NEW S, NEW w \in S, NEW f \in Seq(S)
  PROVE  /\ <<w>> \o f \in Seq(S) /\ Len(<<w>> \o f) = Len(f) + 1 /\ (<<w>> \o f)[1] = w
         /\ \A i \in 2..(Len(f) + 1) : (<<w>> \o f)[i] = f[i - 1]
<1>1. <<w>> \in Seq(S) /\ Len(<<w>>) = 1 /\ <<w>>[1] = w /\ Len(f) \in Nat
  OBVIOUS
<1> DEFINE h == <<w>>
           g == h \o f
<1> HIDE DEF h
<1>2. /\ g \in Seq(S) /\ Len(g) = 1 + Len(f)
      /\ \A i \in 1..(1 + Len(f)) : g[i] = IF i <= 1 THEN h[i] ELSE f[i - 1]
  BY <1>1, ConcatProperties DEF h
<1> HIDE DEF g
<1> QED BY <1>1, <1>2 DEF g, h

LEMMA FromThird ==
  ASSUME NEW S, NEW f \in Seq(S), Len(f) >= 2
  PROVE  /\ SubSeq(f, 3, Len(f)) \in Seq(S) /\ Len(SubSeq(f, 3, Len(f))) = Len(f) - 2
         /\ \A i \in 1..(Len(f) - 2) : SubSeq(f, 3, Len(f))[i] = f[i + 2]
<1>1. Len(f) \in Nat /\ \A i \in 3..Len(f) : f[i] \in S
  OBVIOUS
<1> DEFINE n == Len(f)
           g == SubSeq(f, 3, n)
<1> HIDE DEF n
<1>2. /\ g \in Seq(S) /\ Len(g) = IF 3 <= n THEN n - 3 + 1 ELSE 0
      /\ \A i \in 1..(n - 3 + 1) : g[i] = f[3 + i - 1]
  BY <1>1, SubSeqProperties DEF n
<1> HIDE DEF g
<1>3. n \in Nat /\ n >= 2
  BY <1>1 DEF n
<1>4. Len(g) = n - 2 /\ \A i \in 1..(n - 2) : g[i] = f[i + 2]
  BY <1>2, <1>3
<1> QED BY <1>2, <1>4 DEF g, n

LEMMA BehindFact ==
  ASSUME Kept, NEW w \in Words
  PROVE  /\ <<w>> \o Behind \in [1..4 -> Words]
         /\ (<<w>> \o Behind)[1] = w
         /\ is4accu => (<<w>> \o Behind)[2] = accu[3] /\ (<<w>> \o Behind)[3] = accu[4]
<1>1. /\ accu[1] \in Words /\ accu[2] \in Words /\ accu[3] \in Words /\ accu[4] \in Words
      /\ is4accu \in BOOLEAN
  BY DEF Kept
<1>2. /\ Behind \in Seq(Words) /\ Len(Behind) = 3
      /\ (is4accu => Behind[1] = accu[3] /\ Behind[2] = accu[4])
  <2>1. CASE is4accu
    <3>1. <<accu[3], accu[4], accu[4]>> \in Seq(Words) /\ Len(<<accu[3], accu[4], accu[4]>>) = 3
      BY <1>1
    <3> QED BY <2>1, <3>1 DEF Behind
  <2>2. CASE ~is4accu
    <3>1. accu \in Seq(Words) /\ Len(accu) = 4 /\ accu # <<>>
      <4>1. accu \in [1..4 -> Words] /\ 4 \in Nat
        BY DEF Kept
      <4>2. accu \in Seq(Words)
        BY <4>1, SeqDef
      <4>3. DOMAIN accu = 1..4
        BY <4>1
      <4>4. Len(accu) = 4
        BY <4>2, <4>3, LenInDomain
      <4> QED BY <4>2, <4>4
    <3>2. Tail(accu) \in Seq(Words) /\ Len(Tail(accu)) = 3
      BY <3>1, HeadTailProperties
    <3> QED BY <2>2, <3>2 DEF Behind
  <2> QED BY <1>1, <2>1, <2>2
<1> DEFINE f == Behind
           g == <<w>> \o f
<1> HIDE DEF f
<1>3. g \in Seq(Words) /\ Len(g) = 4 /\ g[1] = w /\ \A i \in 2..4 : g[i] = f[i - 1]
  <2>1. f \in Seq(Words)
    BY <1>2 DEF f
  <2>3. Len(f) = 3 /\ 3 + 1 = 4
    BY <1>2 DEF f
  <2>2. /\ <<w>> \o f \in Seq(Words) /\ Len(<<w>> \o f) = Len(f) + 1 /\ (<<w>> \o f)[1] = w
        /\ \A i \in 2..(Len(f) + 1) : (<<w>> \o f)[i] = f[i - 1]
    BY <2>1, InFront
  <2> QED BY <2>2, <2>3
<1> HIDE DEF g
<1>4. g \in [1..4 -> Words]
  BY <1>3
<1>5. g[2] = f[1] /\ g[3] = f[2]
  BY <1>3
<1> QED BY <1>2, <1>3, <1>4, <1>5 DEF f, g

\* An operation on two values.
LEMMA TwoKept ==
  ASSUME Kept, ~entered, UNCHANGED <<is4accu, entered>>, Len(items) >= 2,
         NEW w \in Words, NEW r \in Items, SignedOf(r.t, w) = r.v,
         accu' = <<w>> \o Behind, items' = <<r>> \o SubSeq(items, 3, Len(items))
  PROVE  Kept'
<1> DEFINE n == Len(items)
           a == <<w>> \o Behind
           e == <<r>> \o SubSeq(items, 3, n)
<1>1. /\ n \in Nat /\ items \in Seq(Items) /\ n <= 4 /\ (~is4accu => n <= 2) /\ n >= 2
      /\ is4accu \in BOOLEAN
  BY KeptFacts DEF Kept
<1>2. /\ a \in [1..4 -> Words] /\ a[1] = w
      /\ is4accu => a[2] = accu[3] /\ a[3] = accu[4]
  BY BehindFact
<1>3. e \in Seq(Items) /\ Len(e) = n - 1 /\ e[1] = r /\ \A i \in 2..(n - 1) : e[i] = items[i + 1]
  <2> DEFINE f == SubSeq(items, 3, n)
  <2>1. f \in Seq(Items) /\ Len(f) = n - 2 /\ \A i \in 1..(n - 2) : f[i] = items[i + 2]
    BY <1>1, FromThird
  <2> HIDE DEF f
  <2>2. /\ <<r>> \o f \in Seq(Items) /\ Len(<<r>> \o f) = n - 1 /\ (<<r>> \o f)[1] = r
        /\ \A i \in 2..(n - 1) : (<<r>> \o f)[i] = f[i - 1]
    BY <1>1, <2>1, InFront
  <2>3. ASSUME NEW i \in 2..(n - 1) PROVE (<<r>> \o f)[i] = items[i + 1]
    <3>1. i - 1 \in 1..(n - 2) /\ (i - 1) + 2 = i + 1
      BY <1>1
    <3> QED BY <2>1, <2>2, <3>1
  <2> QED BY <2>2, <2>3 DEF f
<1>4. ASSUME NEW i \in 1..(n - 1) PROVE SignedOf(e[i].t, a[i]) = e[i].v
  <2>1. CASE i = 1
    BY <1>2, <1>3, <2>1
  <2>2. CASE i # 1
    <3>1. i \in {2, 3} /\ is4accu /\ i \in 2..(n - 1) /\ i + 1 \in 1..n
      BY <1>1, <2>2
    <3>2. a[i] = accu[i + 1]
      BY <1>2, <3>1
    <3>3. SignedOf(items[i + 1].t, accu[i + 1]) = items[i + 1].v
      BY <3>1, KeptFacts
    <3> QED BY <1>3, <3>1, <3>2, <3>3
  <2> QED BY <2>1, <2>2
<1>5. Len(e) <= IF is4accu' THEN 4 ELSE 2
  BY <1>1, <1>3
<1>6. accu' = a /\ items' = e /\ is4accu' \in BOOLEAN /\ entered' = FALSE
  BY <1>1 DEF Kept
<1> HIDE DEF a, e
<1> QED BY <1>2, <1>3, <1>4, <1>5, <1>6, KeptAfter

\* An operation on the last value.
LEMMA OneKept ==
  ASSUME Kept, ~entered, UNCHANGED <<is4accu, entered>>, Len(items) >= 1,
         NEW w \in Words, NEW r \in Items, SignedOf(r.t, w) = r.v,
         accu' = [accu EXCEPT ![1] = w], items' = [items EXCEPT ![1] = r]
  PROVE  Kept'
<1> DEFINE n == Len(items)
           a == [accu EXCEPT ![1] = w]
           e == [items EXCEPT ![1] = r]
<1>1. /\ n \in Nat /\ items \in Seq(Items) /\ n <= 4 /\ (~is4accu => n <= 2) /\ n >= 1
      /\ is4accu \in BOOLEAN
  BY KeptFacts DEF Kept
<1>2. a \in [1..4 -> Words] /\ a[1] = w /\ \A i \in 2..4 : a[i] = accu[i]
  BY DEF Kept
<1>3. e \in Seq(Items) /\ Len(e) = n /\ e[1] = r /\ \A i \in 2..n : e[i] = items[i]
  BY <1>1
<1>4. ASSUME NEW i \in 1..n PROVE SignedOf(e[i].t, a[i]) = e[i].v
  <2>1. CASE i = 1
    BY <1>2, <1>3, <2>1
  <2>2. CASE i # 1
    <3>1. i \in 2..n /\ i \in 2..4
      BY <1>1, <2>2
    <3>2. SignedOf(items[i].t, accu[i]) = items[i].v
      BY KeptFacts
    <3> QED BY <1>2, <1>3, <3>1, <3>2
  <2> QED BY <2>1, <2>2
<1>5. Len(e) <= IF is4accu' THEN 4 ELSE 2
  BY <1>1, <1>3
<1>6. accu' = a /\ items' = e /\ is4accu' \in BOOLEAN /\ entered' = FALSE
  BY <1>1 DEF Kept
<1> HIDE DEF a, e
<1> QED BY <1>2, <1>3, <1>4, <1>5, <1>6, KeptAfter

LEMMA FindTwo ==
  ASSUME Kept, NEW t \in Types, Find(2, t)
  PROVE  /\ ~entered /\ UNCHANGED <<is4accu, entered>> /\ Len(items) >= 2
         /\ items[1].t = t /\ items[1].v \in Int /\ Fits(t, items[1].v)
         /\ items[2].t = t /\ items[2].v \in Int /\ Fits(t, items[2].v)
         /\ accu[1] \in Words /\ SignedOf(t, accu[1]) = items[1].v
         /\ accu[2] \in Words /\ SignedOf(t, accu[2]) = items[2].v
<1>1. ~entered /\ UNCHANGED <<is4accu, entered>> /\ Len(items) >= 2 /\ \A i \in 1..2 : items[i].t = t
  BY DEF Find, OneInstruction
<1>2. Len(items) \in Nat
  BY DEF Kept
<1>3. 1 \in 1..Len(items) /\ 2 \in 1..Len(items) /\ 1 \in 1..2 /\ 2 \in 1..2
  BY <1>1, <1>2
<1>4. items[1].t = t /\ items[2].t = t
  BY <1>1, <1>3
<1>5. /\ items[1].v \in Int /\ Fits(items[1].t, items[1].v)
      /\ accu[1] \in Words /\ SignedOf(items[1].t, accu[1]) = items[1].v
  BY <1>1, <1>3, KeptFacts
<1>6. /\ items[2].v \in Int /\ Fits(items[2].t, items[2].v)
      /\ accu[2] \in Words /\ SignedOf(items[2].t, accu[2]) = items[2].v
  BY <1>1, <1>3, KeptFacts
<1> QED BY <1>1, <1>4, <1>5, <1>6

LEMMA FindOne ==
  ASSUME Kept, NEW t \in Types, Find(1, t)
  PROVE  /\ ~entered /\ UNCHANGED <<is4accu, entered>> /\ Len(items) >= 1
         /\ items[1].t = t /\ items[1].v \in Int /\ Fits(t, items[1].v)
         /\ accu[1] \in Words /\ SignedOf(t, accu[1]) = items[1].v
<1>1. ~entered /\ UNCHANGED <<is4accu, entered>> /\ Len(items) >= 1 /\ \A i \in 1..1 : items[i].t = t
  BY DEF Find, OneInstruction
<1>2. Len(items) \in Nat
  BY DEF Kept
<1>3. 1 \in 1..Len(items) /\ 1 \in 1..1
  BY <1>1, <1>2
<1>4. items[1].t = t
  BY <1>1, <1>3
<1>5. /\ items[1].v \in Int /\ Fits(items[1].t, items[1].v)
      /\ accu[1] \in Words /\ SignedOf(items[1].t, accu[1]) = items[1].v
  BY <1>1, <1>3, KeptFacts
<1> QED BY <1>1, <1>4, <1>5

\* What an expression goes on with.
LEMMA ResultIsItem ==
  ASSUME NEW t \in Types, NEW x \in Int, NEW w \in Words, Fits(t, x) => SignedOf(t, w) = x
  PROVE  /\ [t |-> t, v |-> IF Fits(t, x) THEN x ELSE SignedOf(t, w)] \in Items
         /\ SignedOf(t, w) = IF Fits(t, x) THEN x ELSE SignedOf(t, w)
<1> DEFINE y == IF Fits(t, x) THEN x ELSE SignedOf(t, w)
<1>1. w \in Int
  BY DoubleWord, Widths DEF Words
<1>2. SignedOf(t, w) \in Int /\ Fits(t, SignedOf(t, w))
  BY <1>1, SignedFacts
<1>3. y \in Int /\ Fits(t, y) /\ SignedOf(t, w) = y
  BY <1>2
<1> HIDE DEF y
<1>4. [t |-> t, v |-> y] \in Items
  BY <1>3 DEF Items
<1> QED BY <1>3, <1>4 DEF y

LEMMA YieldsTwo ==
  ASSUME Kept, ~entered, UNCHANGED <<is4accu, entered>>, Len(items) >= 2,
         NEW t \in Types, NEW x \in Int, NEW sign, NEW w \in Words,
         Fits(t, x) => SignedOf(t, w) = x,
         accu' = <<w>> \o Behind, Yields(2, t, x, sign)
  PROVE  Kept'
<1> DEFINE r == [t |-> t, v |-> IF Fits(t, x) THEN x ELSE SignedOf(t, w)]
<1>1. accu'[1] = w
  BY BehindFact
<1>2. items' = <<r>> \o SubSeq(items, 3, Len(items))
  <2>1. 2 + 1 = 3
    OBVIOUS
  <2> QED BY <1>1, <2>1 DEF Yields
<1>3. r \in Items /\ SignedOf(t, w) = r.v /\ r.t = t
  BY ResultIsItem
<1> HIDE DEF r
<1> QED BY <1>2, <1>3, TwoKept

LEMMA YieldsOne ==
  ASSUME Kept, ~entered, UNCHANGED <<is4accu, entered>>, Len(items) >= 1,
         NEW t \in Types, NEW x \in Int, NEW sign, NEW w \in Words,
         Fits(t, x) => SignedOf(t, w) = x,
         accu' = [accu EXCEPT ![1] = w], Yields(1, t, x, sign)
  PROVE  Kept'
<1> DEFINE r == [t |-> t, v |-> IF Fits(t, x) THEN x ELSE SignedOf(t, w)]
           n == Len(items)
<1>1. accu'[1] = w
  BY DEF Kept
<1>2. items' = <<r>> \o SubSeq(items, 2, n)
  <2>1. 1 + 1 = 2
    OBVIOUS
  <2> QED BY <1>1, <2>1 DEF Yields
<1>3. r \in Items /\ SignedOf(t, w) = r.v /\ r.t = t
  BY ResultIsItem
<1> HIDE DEF r
<1>4. items \in Seq(Items) /\ items # <<>>
  BY DEF Kept
<1>5. items' = [items EXCEPT ![1] = r]
  <2> DEFINE f == SubSeq(items, 2, n)
             e == [items EXCEPT ![1] = r]
  <2>1. f = Tail(items)
    BY <1>4, TailIsSubSeq
  <2>2. f \in Seq(Items) /\ Len(f) = n - 1 /\ \A i \in 1..Len(f) : f[i] = items[i + 1]
    BY <1>4, <2>1, HeadTailProperties
  <2>3. n \in Nat /\ n >= 1
    BY <1>4
  <2>4. e \in Seq(Items) /\ Len(e) = n /\ e[1] = r /\ \A i \in 2..n : e[i] = items[i]
    BY <1>3, <1>4
  <2> HIDE DEF f, e
  <2> DEFINE g == <<r>> \o f
  <2>5. g \in Seq(Items) /\ Len(g) = Len(f) + 1 /\ g[1] = r /\ \A i \in 2..(Len(f) + 1) : g[i] = f[i - 1]
    BY <1>3, <2>2, InFront
  <2> HIDE DEF g, n
  <2>6. Len(g) = n /\ \A i \in 2..n : g[i] = items[i]
    BY <2>2, <2>3, <2>5
  <2>7. \A i \in 1..n : g[i] = e[i]
    BY <2>3, <2>4, <2>5, <2>6
  <2>8. g = e
    BY <2>4, <2>5, <2>6, <2>7, SeqEqual
  <2> QED BY <1>2, <2>8 DEF g, e, f
<1> QED BY <1>3, <1>5, OneKept

\* A sum that is left, and the exact one.
LEMMA SumTold ==
  ASSUME Told, NEW t \in Types, NEW x \in Int, NEW n,
         stw' = Conditions(SignedOf(t, x), ~Fits(t, x)), Yields(n, t, x, SumSign(t, x))
  PROVE  Told'
<1> DEFINE v == SignedOf(t, x)
           over == ~Fits(t, x)
           sign == SumSign(t, x)
<1>1. v \in Int /\ over \in BOOLEAN
  BY SignedFacts
<1>2. sign = Sign(v) \/ sign = "any"
  BY SignedSelf DEF SumSign
<1>3. /\ verdict' = [verdict EXCEPT !.sign = sign, !.over = over] /\ lost' = (lost \/ over)
      /\ stw' = Conditions(v, over)
  BY Zenon DEF Yields
<1> HIDE DEF v, over, sign
<1> QED BY <1>1, <1>2, <1>3, ConditionsTell

LEMMA SumKept ==
  ASSUME AccuInv, NEW t \in Types, Find(2, t), NEW x \in Int,
         LeavesSum(t, x), Yields(2, t, x, SumSign(t, x))
  PROVE  AccuInv'
<1> DEFINE w == Put(t, accu[1], x)
<1>1. Kept /\ Told
  BY DEF AccuInv
<1>2. w \in Words /\ SignedOf(t, w) = SignedOf(t, x)
  BY <1>1, FindTwo, PutFact
<1>3. accu' = <<w>> \o Behind
  BY DEF LeavesSum
<1>4. Fits(t, x) => SignedOf(t, w) = x
  BY <1>2, SignedSelf
<1> HIDE DEF w
<1>5. ~entered /\ UNCHANGED <<is4accu, entered>> /\ Len(items) >= 2
  BY <1>1, FindTwo
<1>6. Kept'
  BY <1>1, <1>2, <1>3, <1>4, <1>5, YieldsTwo
<1>7. Told'
  BY <1>1, SumTold DEF LeavesSum
<1> QED BY <1>6, <1>7 DEF AccuInv

LEMMA AddKept ==
  ASSUME AccuInv, NEW t \in Types, Add(t)
  PROVE  AccuInv'
<1> DEFINE x == items[2].v + items[1].v
<1>1. Find(2, t) /\ Kept
  BY DEF Add, AccuInv
<1>2. x \in Int /\ SignedOf(t, accu[1]) + SignedOf(t, accu[2]) = x
  BY <1>1, FindTwo
<1>3. Exact("PL", items[2].v, items[1].v) = x
  BY DEF Exact
<1>4. LeavesSum(t, x) /\ Yields(2, t, x, SumSign(t, x))
  BY <1>2, <1>3 DEF Add
<1> QED BY <1>1, <1>2, <1>4, SumKept

LEMMA SubtractKept ==
  ASSUME AccuInv, NEW t \in Types, Subtract(t)
  PROVE  AccuInv'
<1> DEFINE x == items[2].v - items[1].v
<1>1. Find(2, t) /\ Kept
  BY DEF Subtract, AccuInv
<1>2. x \in Int /\ SignedOf(t, accu[2]) - SignedOf(t, accu[1]) = x
  BY <1>1, FindTwo
<1>3. Exact("MI", items[2].v, items[1].v) = x
  BY DEF Exact
<1>4. LeavesSum(t, x) /\ Yields(2, t, x, SumSign(t, x))
  BY <1>2, <1>3 DEF Subtract
<1> QED BY <1>1, <1>2, <1>4, SumKept

\* A product and a quotient have their own sign where they do not fit as well.
LEMMA ExactTold ==
  ASSUME Told, NEW t \in Types, NEW x \in Int, NEW n, NEW over, over = ~Fits(t, x),
         stw' = Conditions(x, over), Yields(n, t, x, Sign(x))
  PROVE  Told'
<1> DEFINE sign == Sign(x)
<1>1. verdict' = [verdict EXCEPT !.sign = sign, !.over = over] /\ lost' = (lost \/ over)
  BY Zenon DEF Yields
<1>2. over \in BOOLEAN
  OBVIOUS
<1> HIDE DEF sign
<1>3. sign = Sign(x)
  BY DEF sign
<1> QED BY <1>1, <1>2, <1>3, ConditionsTell

\* Any word that leaves x leaves it exactly if it fits.
LEMMA ExactKept ==
  ASSUME AccuInv, NEW t \in Types, Find(2, t), NEW x \in Int, NEW w \in Words,
         SignedOf(t, w) = SignedOf(t, x),
         accu' = <<w>> \o Behind, NEW over, over = ~Fits(t, x),
         stw' = Conditions(x, over), Yields(2, t, x, Sign(x))
  PROVE  AccuInv'
<1>1. Kept /\ Told
  BY DEF AccuInv
<1>2. Fits(t, x) => SignedOf(t, w) = x
  BY SignedSelf
<1>3. ~entered /\ UNCHANGED <<is4accu, entered>> /\ Len(items) >= 2
  BY <1>1, FindTwo
<1>4. Kept'
  BY <1>1, <1>2, <1>3, YieldsTwo
<1>5. Told'
  BY <1>1, ExactTold
<1> QED BY <1>4, <1>5 DEF AccuInv

LEMMA MultiplyKept ==
  ASSUME AccuInv, NEW t \in Types, Multiply(t)
  PROVE  AccuInv'
<1> DEFINE x == items[2].v * items[1].v
           w == x % Width("D")
           over == ~Fits(t, x)
<1>1. Find(2, t) /\ Kept
  BY DEF Multiply, AccuInv
<1>2. x \in Int /\ SignedOf(t, accu[2]) * SignedOf(t, accu[1]) = x
  BY <1>1, FindTwo
<1>3. Exact("MU", items[2].v, items[1].v) = x
  BY DEF Exact
<1>4. accu' = <<w>> \o Behind /\ stw' = Conditions(x, over) /\ Yields(2, t, x, Sign(x))
  BY <1>2, <1>3, Zenon DEF Multiply
<1> HIDE DEF x
<1>5. w \in Words /\ w \in Int /\ SignedOf(t, w) = SignedOf(t, x)
  <2>1. w \in 0..(Width("D") - 1) /\ Same("D", w, x)
    BY <1>2, DoubleWord, RestIsSame
  <2>2. w \in Int
    BY <2>1, DoubleWord, Widths
  <2> HIDE DEF w
  <2>3. Same(t, w, x)
    BY <1>2, <2>1, <2>2, WordOfDouble
  <2> QED BY <1>2, <2>1, <2>2, <2>3, SignedSame DEF Words
<1>6. over = ~Fits(t, x)
  OBVIOUS
<1> HIDE DEF w, over
<1> QED BY <1>1, <1>2, <1>4, <1>5, <1>6, ExactKept

LEMMA DivideKept ==
  ASSUME AccuInv, NEW t \in Types, Divide(t)
  PROVE  AccuInv'
<1> DEFINE x == items[2].v
           y == items[1].v
           q == QuoOf(x, y)
           r == ModOf(x, y)
           N == Width("I")
           m == r % N
           w == IF t = "I" THEN m * N + (q % N) ELSE q % Width("D")
           over == q >= Pow2[BitsOf(t) - 1]
<1>1. Find(2, t) /\ Kept /\ SignedOf(t, accu[1]) # 0
  BY DEF Divide, AccuInv
<1>2. x \in Int /\ y \in Int /\ Fits(t, x) /\ SignedOf(t, accu[2]) = x /\ SignedOf(t, accu[1]) = y
  BY <1>1, FindTwo
<1>3. y # 0
  BY <1>1, <1>2
<1>4. accu' = <<w>> \o Behind /\ stw' = Conditions(q, over)
  BY <1>2, Zenon DEF Divide
<1>5. Yields(2, t, Exact("DI", x, y), Sign(Exact("DI", x, y)))
  BY Zenon DEF Divide
<1> HIDE DEF x, y
<1>6. Exact("DI", x, y) = Quotient(x, y)
  BY DEF Exact
<1>7. q \in Int /\ r \in Int /\ Magnitude(q) <= Magnitude(x) /\ Quotient(x, y) = q
  BY <1>2, <1>3, QuotientFacts
<1> HIDE DEF q, r
<1>8. Yields(2, t, q, Sign(q))
  BY <1>5, <1>6, <1>7
<1>9. over = ~Fits(t, q)
  <2> DEFINE H == HalfWidth(t)
  <2>1. H \in Nat \ {0}
    BY Widths
  <2>2. -H <= x /\ x < H
    BY <1>2 DEF Fits, HalfWidth
  <2>3. Fits(t, q) <=> -H <= q /\ q < H
    BY DEF Fits, HalfWidth
  <2>4. over <=> q >= H
    BY DEF HalfWidth
  <2> HIDE DEF H, over
  <2>5. -H <= q
    BY <1>2, <1>7, <2>1, <2>2, Signs
  <2>6. over <=> ~Fits(t, q)
    BY <1>7, <2>1, <2>3, <2>4, <2>5
  <2>7. over \in BOOLEAN
    BY DEF over
  <2> QED BY <2>6, <2>7
<1>10. w \in Words /\ SignedOf(t, w) = SignedOf(t, q)
  <2>1. CASE t = "I"
    <3> DEFINE a == N * m + 0
    <3>1. N \in Nat \ {0} /\ Width("D") = N * N
      BY Widths, DoubleWord
    <3>2. m \in 0..(N - 1)
      BY <1>7, DoubleWord, RestIsSame
    <3> HIDE DEF N, m
    <3>3. N * m <= N * N - N /\ N * m >= 0 /\ N * m \in Int
      BY <3>1, <3>2
    <3>4. a \in Words
      BY <3>1, <3>3 DEF Words
    <3>5. a \div N = m
      BY <3>1, <3>2, Quotients
    <3>6. Put("I", a, q) = m * N + (q % N)
      BY <3>5 DEF Put, N
    <3>7. w = Put("I", a, q)
      BY <2>1, <3>6
    <3> HIDE DEF w, a
    <3> QED BY <1>7, <2>1, <3>4, <3>7, PutFact
  <2>2. CASE t = "D"
    <3>1. Put("D", 0, q) = q % Width("D")
      BY DEF Put
    <3>2. 0 \in Words
      BY Widths, DoubleWord DEF Words
    <3>3. w = Put("D", 0, q)
      BY <2>2, <3>1
    <3> HIDE DEF w
    <3> QED BY <1>7, <2>2, <3>2, <3>3, PutFact
  <2> HIDE DEF w
  <2> QED BY <2>1, <2>2 DEF Types
<1> HIDE DEF over, w
<1> QED BY <1>1, <1>4, <1>7, <1>8, <1>9, <1>10, ExactKept

LEMMA ModuloKept ==
  ASSUME AccuInv, Modulo
  PROVE  AccuInv'
<1> DEFINE x == items[2].v
           y == items[1].v
           r == ModOf(x, y)
           w == r % Width("D")
           t == "D"
<1>1. Find(2, t) /\ Kept /\ SignedOf(t, accu[1]) # 0 /\ t \in Types
  BY DoubleWord DEF Modulo, AccuInv
<1>2. /\ x \in Int /\ y \in Int /\ Fits(t, x) /\ Fits(t, y)
      /\ SignedOf(t, accu[2]) = x /\ SignedOf(t, accu[1]) = y
  BY <1>1, FindTwo
<1>3. y # 0
  BY <1>1, <1>2
<1>4. accu' = <<w>> \o Behind /\ stw' = Conditions(r, FALSE)
  BY <1>2, Zenon DEF Modulo
<1>5. Yields(2, t, Exact("MOD", x, y), Sign(Exact("MOD", x, y)))
  BY Zenon DEF Modulo
<1> HIDE DEF x, y
<1>6. Exact("MOD", x, y) = x - Quotient(x, y) * y
  BY DEF Exact
<1>7. /\ r \in Int /\ Magnitude(r) < Magnitude(y) /\ Quotient(x, y) = QuoOf(x, y)
      /\ x - QuoOf(x, y) * y = r
  BY <1>2, <1>3, QuotientFacts
<1> HIDE DEF r
<1>8. Yields(2, t, r, Sign(r))
  BY <1>5, <1>6, <1>7
<1>9. Fits(t, r)
  <2> DEFINE H == HalfWidth(t)
  <2>1. H \in Nat \ {0}
    BY <1>1, Widths
  <2>2. -H <= y /\ y < H
    BY <1>2 DEF Fits, HalfWidth
  <2>3. Fits(t, r) <=> -H <= r /\ r < H
    BY DEF Fits, HalfWidth
  <2> HIDE DEF H
  <2> QED BY <1>2, <1>7, <2>1, <2>2, <2>3, Signs
<1>10. w \in Words /\ SignedOf(t, w) = SignedOf(t, r)
  <2>1. Put(t, 0, r) = w
    BY DEF Put
  <2>2. 0 \in Words
    BY Widths, DoubleWord DEF Words
  <2> HIDE DEF w
  <2> QED BY <1>1, <1>7, <2>1, <2>2, PutFact
<1>11. FALSE = ~Fits(t, r)
  BY <1>9
<1> HIDE DEF w, t
<1> QED BY <1>1, <1>4, <1>7, <1>8, <1>10, <1>11, ExactKept

LEMMA DivideByZeroKept ==
  ASSUME AccuInv, NEW t \in Types, DivideByZero(t)
  PROVE  AccuInv'
<1> DEFINE r == [t |-> t, v |-> 0]
           w == accu[1]
<1>1. Kept /\ Told /\ Find(2, t) /\ SignedOf(t, w) = 0
  BY DEF AccuInv, DivideByZero
<1>2. ~entered /\ UNCHANGED <<is4accu, entered>> /\ Len(items) >= 2 /\ w \in Words
  BY <1>1, FindTwo
<1>3. r \in Items
  <2>1. Fits(t, 0)
    BY Widths DEF Fits, HalfWidth
  <2> QED BY <2>1 DEF Items
<1>4. accu' = <<w>> \o Behind /\ items' = <<r>> \o SubSeq(items, 3, Len(items))
  BY DEF DivideByZero
<1>5. r.t = t /\ r.v = 0
  OBVIOUS
<1> HIDE DEF w, r
<1>6. Kept'
  BY <1>1, <1>2, <1>3, <1>4, <1>5, TwoKept
<1>7. Told'
  <2>1. stw \in Status /\ verdict \in Verdicts /\ stw.VKE = verdict.holds
    BY <1>1 DEF Told, JumpsDecide
  <2>2. stw' = [stw EXCEPT !.A1 = TRUE, !.A0 = TRUE, !.OV = TRUE, !.OS = TRUE]
    BY DEF DivideByZero
  <2>3. verdict' = [verdict EXCEPT !.sign = "undefined", !.over = TRUE] /\ lost' = TRUE
    BY DEF DivideByZero
  <2>4. /\ stw' \in Status /\ stw'.A1 = TRUE /\ stw'.A0 = TRUE /\ stw'.OV = TRUE
        /\ stw'.OS = TRUE /\ stw'.VKE = stw.VKE
    BY <2>1, <2>2 DEF Status
  <2>5. /\ verdict' \in Verdicts /\ verdict'.sign = "undefined" /\ verdict'.over = TRUE
        /\ verdict'.holds = verdict.holds
    BY <2>1, <2>3 DEF Verdicts
  <2>6. Decisions'
    BY DecisionsFact, PTL
  <2>7. Taken' = Follow(verdict'.sign)
    BY <2>4, <2>5, <2>6, Zenon DEF Decisions
  <2> QED BY <2>1, <2>3, <2>4, <2>5, <2>7, Zenon DEF Told, OverflowIsRemembered, JumpsDecide
<1> QED BY <1>6, <1>7 DEF AccuInv

LEMMA NegateKept ==
  ASSUME AccuInv, NEW t \in Types, Negate(t)
  PROVE  AccuInv'
<1> DEFINE x == -items[1].v
           w == Put(t, accu[1], x)
<1>1. Find(1, t) /\ Kept /\ Told
  BY DEF Negate, AccuInv
<1>2. x \in Int /\ -SignedOf(t, accu[1]) = x /\ accu[1] \in Words
  BY <1>1, FindOne
<1>3. /\ accu' = [accu EXCEPT ![1] = w] /\ stw' = Conditions(SignedOf(t, x), ~Fits(t, x))
      /\ Yields(1, t, x, SumSign(t, x))
  BY <1>2, Zenon DEF Negate
<1> HIDE DEF x
<1>4. w \in Words /\ SignedOf(t, w) = SignedOf(t, x)
  BY <1>2, PutFact
<1>5. Fits(t, x) => SignedOf(t, w) = x
  BY <1>2, <1>4, SignedSelf
<1> HIDE DEF w
<1>6. ~entered /\ UNCHANGED <<is4accu, entered>> /\ Len(items) >= 1
  BY <1>1, FindOne
<1>7. Kept'
  BY <1>1, <1>2, <1>3, <1>4, <1>5, <1>6, YieldsOne
<1>8. Told'
  BY <1>1, <1>2, <1>3, SumTold
<1> QED BY <1>7, <1>8 DEF AccuInv

LEMMA ToldStays ==
  ASSUME Told, UNCHANGED <<stw, verdict, lost>>
  PROVE  Told'
<1>1. Taken' = Taken
  BY DEF Taken, SPZ, SPN, SPP, SPM, SPPZ, SPMZ, SPU
<1> QED BY <1>1 DEF Told, OverflowIsRemembered, JumpsDecide

\* An instruction that replaces the last value by r and writes no flags.
LEMMA ReplacesFirst ==
  ASSUME AccuInv, ~entered, UNCHANGED <<is4accu, entered, stw, verdict, lost>>, Len(items) >= 1,
         NEW w \in Words, NEW r \in Items, SignedOf(r.t, w) = r.v,
         accu' = [accu EXCEPT ![1] = w], items' = [items EXCEPT ![1] = r]
  PROVE  AccuInv'
<1>1. Kept /\ Told
  BY DEF AccuInv
<1>2. Kept'
  BY <1>1, OneKept
<1>3. Told'
  BY <1>1, ToldStays
<1> QED BY <1>2, <1>3 DEF AccuInv

\* The item that only another value is entered in.
LEMMA NewValue ==
  ASSUME Kept, Len(items) >= 1, NEW t \in Types, items[1].t = t, NEW x \in Int, Fits(t, x)
  PROVE  /\ [t |-> t, v |-> x] \in Items
         /\ [items EXCEPT ![1].v = x] = [items EXCEPT ![1] = [t |-> t, v |-> x]]
<1>1. items \in Seq(Items) /\ 1 \in 1..Len(items)
  BY DEF Kept
<1>2. items[1] \in Items
  BY <1>1
<1>3. [items[1] EXCEPT !.v = x] = [t |-> t, v |-> x]
  BY <1>2 DEF Items
<1>4. [items EXCEPT ![1].v = x] = [items EXCEPT ![1] = [items[1] EXCEPT !.v = x]]
  OBVIOUS
<1>5. [t |-> t, v |-> x] \in Items
  BY DEF Items
<1> QED BY <1>3, <1>4, <1>5

LEMMA FitsDouble ==
  ASSUME NEW x \in Int, Fits("I", x)
  PROVE  Fits("D", x)
<1> DEFINE H == HalfWidth("I")
           G == HalfWidth("D")
           N == Width("I")
<1>1. H \in Nat \ {0} /\ G \in Nat \ {0} /\ N = 2 * H /\ N * N = 2 * G
  BY Widths, DoubleWord
<1>2. -H <= x /\ x < H
  BY DEF Fits, HalfWidth
<1> HIDE DEF H, G, N
<1>3. H <= G
  BY <1>1
<1>4. -G <= x /\ x < G
  BY <1>1, <1>2, <1>3
<1> QED BY <1>4 DEF Fits, G, HalfWidth

LEMMA ValueFits ==
  ASSUME NEW c \in Values, NEW t \in Types
  PROVE  c \in Int /\ Fits(t, c)
<1>1. WordBits - 1 \in Nat /\ Values \subseteq (-Pow2[WordBits - 1])..(Pow2[WordBits - 1] - 1)
  BY AccumulatorsAssumption
<1>2. Pow2[WordBits - 1] \in Nat
  BY <1>1, Powers
<1>3. c \in Int /\ Fits("I", c)
  BY <1>1, <1>2 DEF Fits, BitsOf
<1> QED BY <1>3, FitsDouble DEF Types

LEMMA AddConstantKept ==
  ASSUME AccuInv, NEW t \in Types, NEW c \in Values, AddConstant(t, c)
  PROVE  AccuInv'
<1> DEFINE x == items[1].v + c
           w == Put(t, accu[1], x)
           r == [t |-> t, v |-> x]
<1>1. Find(1, t) /\ Kept /\ Fits(t, x)
  BY DEF AddConstant, AccuInv
<1>2. c \in Int
  BY ValueFits
<1>3. /\ /\ x \in Int /\ SignedOf(t, accu[1]) + c = x /\ accu[1] \in Words /\ ~entered
      /\ Len(items) >= 1
      /\ UNCHANGED <<is4accu, entered>> /\ items[1].t = t
  BY <1>1, <1>2, FindOne
<1>4. /\ accu' = [accu EXCEPT ![1] = w] /\ UNCHANGED <<stw, verdict, lost>>
      /\ items' = [items EXCEPT ![1].v = x]
  BY <1>3 DEF AddConstant
<1> HIDE DEF x
<1>5. w \in Words /\ SignedOf(t, w) = x
  BY <1>1, <1>3, PutFact, SignedSelf
<1>6. items' = [items EXCEPT ![1] = r] /\ r \in Items
  BY <1>1, <1>3, <1>4, NewValue
<1>7. r.t = t /\ r.v = x
  OBVIOUS
<1> HIDE DEF w, r
<1> QED BY <1>3, <1>4, <1>5, <1>6, <1>7, ReplacesFirst

LEMMA InvertKept ==
  ASSUME AccuInv, NEW t \in Types, Invert(t)
  PROVE  AccuInv'
<1> DEFINE v == items[1].v
           a == accu[1]
           x == -1 - v
           w == Put(t, a, -1 - a)
           r == [t |-> t, v |-> x]
<1>1. Find(1, t) /\ Kept
  BY DEF Invert, AccuInv
<1>2. /\ v \in Int /\ SignedOf(t, a) = v /\ a \in Words /\ ~entered /\ Len(items) >= 1
      /\ UNCHANGED <<is4accu, entered>> /\ items[1].t = t /\ Fits(t, v)
  BY <1>1, FindOne
<1>3. a \in Int
  BY <1>2, WordsAreNumbers
<1>4. /\ accu' = [accu EXCEPT ![1] = w] /\ UNCHANGED <<stw, verdict, lost>>
      /\ items' = [items EXCEPT ![1].v = x]
  BY <1>2 DEF Invert
<1> HIDE DEF v, a
<1>5. x \in Int /\ Fits(t, x)
  <2> DEFINE H == HalfWidth(t)
  <2>1. H \in Nat \ {0} /\ -H <= v /\ v < H
    BY <1>2, Widths DEF Fits, HalfWidth
  <2> HIDE DEF H
  <2>2. -H <= x /\ x < H /\ x \in Int
    BY <1>2, <2>1
  <2> QED BY <2>2 DEF Fits, H, HalfWidth
<1>6. SignedOf(t, -1 - a) = x
  <2>1. Same(t, a, v)
    BY <1>2, <1>3, SignedFacts
  <2>2. PICK k \in Int : a = v + Width(t) * k
    BY <2>1 DEF Same
  <2>3. -1 - a = x + Width(t) * (-k) /\ -k \in Int
    <3> DEFINE W == Width(t)
    <3>1. W \in Nat
      BY Widths
    <3> HIDE DEF W
    <3>2. a = v + W * k
      BY <2>2 DEF W
    <3>3. -1 - a = x + W * (-k)
      BY <1>2, <1>3, <3>1, <3>2
    <3> QED BY <3>3 DEF W
  <2>4. Same(t, -1 - a, x) /\ -1 - a \in Int
    BY <1>3, <2>3 DEF Same
  <2> HIDE DEF x
  <2> QED BY <1>5, <2>4, SignedIs
<1> HIDE DEF x
<1>7. w \in Words /\ SignedOf(t, w) = x
  <2>1. -1 - a \in Int
    BY <1>3
  <2> QED BY <1>2, <1>6, <2>1, PutFact
<1>8. items' = [items EXCEPT ![1] = r] /\ r \in Items
  BY <1>1, <1>2, <1>4, <1>5, NewValue
<1>9. r.t = t /\ r.v = x
  OBVIOUS
<1> HIDE DEF w, r
<1> QED BY <1>2, <1>4, <1>7, <1>8, <1>9, ReplacesFirst DEF a

LEMMA IntToDoubleKept ==
  ASSUME AccuInv, IntToDouble
  PROVE  AccuInv'
<1> DEFINE x == items[1].v
           w == x % Width("D")
           r == [t |-> "D", v |-> x]
<1>1. Find(1, "I") /\ Kept
  BY DEF IntToDouble, AccuInv
<1>2. /\ x \in Int /\ SignedOf("I", accu[1]) = x /\ ~entered /\ Len(items) >= 1
      /\ UNCHANGED <<is4accu, entered>> /\ items[1].t = "I" /\ Fits("I", x)
  BY <1>1, DoubleWord, FindOne
<1>3. /\ accu' = [accu EXCEPT ![1] = w] /\ UNCHANGED <<stw, verdict, lost>>
      /\ items' = [items EXCEPT ![1].t = "D"]
  BY <1>2 DEF IntToDouble
<1>4. items' = [items EXCEPT ![1] = r]
  <2>1. items \in Seq(Items) /\ 1 \in 1..Len(items)
    BY <1>1, <1>2 DEF Kept
  <2>2. items[1] \in Items
    BY <2>1
  <2>3. [items[1] EXCEPT !.t = "D"] = r
    BY <2>2 DEF Items
  <2> QED BY <1>3, <2>3
<1> HIDE DEF x
<1>5. Fits("D", x)
  BY <1>2, FitsDouble
<1>6. w \in Words /\ SignedOf("D", w) = x
  <2>1. Put("D", 0, x) = w
    BY DEF Put
  <2>2. 0 \in Words
    BY Widths, DoubleWord DEF Words
  <2> HIDE DEF w
  <2> QED BY <1>2, <1>5, <2>1, <2>2, DoubleWord, PutFact, SignedSelf
<1>7. r \in Items /\ r.t = "D" /\ r.v = x
  BY <1>2, <1>5, DoubleWord DEF Items
<1> HIDE DEF w, r
<1> QED BY <1>2, <1>3, <1>4, <1>6, <1>7, ReplacesFirst

\* A comparison by the greater of two values.
Greater(x, y) == IF x = y THEN "same" ELSE IF x > y THEN "first" ELSE "second"

LEMMA GreaterFact ==
  ASSUME NEW x \in Int, NEW y \in Int
  PROVE  /\ Greater(x, y) = "same" <=> Sign(y - x) = "zero"
         /\ Greater(x, y) = "first" <=> Sign(y - x) = "minus"
         /\ Greater(x, y) = "second" <=> Sign(y - x) = "plus"
         /\ Sign(y - x) \in {"minus", "zero", "plus"}
         /\ \A relation \in DOMAIN Relations :
              /\ Greater(x, y) \in Relations[relation] <=> Holds(relation, y, x)
              /\ Holds(relation, y, x) \in BOOLEAN
<1>1. /\ Greater(x, y) = "same" <=> x = y
      /\ Greater(x, y) = "first" <=> x > y
      /\ Greater(x, y) = "second" <=> x < y
  BY DEF Greater
<1>2. /\ Sign(y - x) = "zero" <=> x = y
      /\ Sign(y - x) = "minus" <=> x > y
      /\ Sign(y - x) = "plus" <=> x < y
      /\ Sign(y - x) \in {"minus", "zero", "plus"}
  <2>1. y - x \in Int /\ (y - x = 0 <=> x = y) /\ (y - x < 0 <=> x > y) /\ (y - x > 0 <=> x < y)
    OBVIOUS
  <2> QED BY <2>1 DEF Sign
<1>3. DOMAIN Relations = {"EQ", "NE", "GT", "LT", "GE", "LE"}
  BY DEF Relations
<1>4. ASSUME NEW relation \in DOMAIN Relations
      PROVE  /\ Greater(x, y) \in Relations[relation] <=> Holds(relation, y, x)
             /\ Holds(relation, y, x) \in BOOLEAN
  <2>1. /\ Relations["EQ"] = {"same"} /\ Relations["NE"] = {"first", "second"}
        /\ Relations["GT"] = {"second"}
    BY DEF Relations
  <2>2. /\ Relations["LT"] = {"first"} /\ Relations["GE"] = {"same", "second"}
        /\ Relations["LE"] = {"same", "first"}
    BY DEF Relations
  <2>3. CASE relation = "EQ" BY <1>1, <2>1, <2>3 DEF Holds
  <2>4. CASE relation = "NE" BY <1>1, <2>1, <2>4 DEF Holds
  <2>5. CASE relation = "GT" BY <1>1, <2>1, <2>5 DEF Holds
  <2>6. CASE relation = "LT" BY <1>1, <2>2, <2>6 DEF Holds
  <2>7. CASE relation = "GE" BY <1>1, <2>2, <2>7 DEF Holds
  <2>8. CASE relation = "LE" BY <1>1, <2>2, <2>8 DEF Holds
  <2> QED BY <1>3, <2>3, <2>4, <2>5, <2>6, <2>7, <2>8
<1> QED BY <1>1, <1>2, <1>4

LEMMA CompareKept ==
  ASSUME AccuInv, NEW t \in Types, NEW relation \in DOMAIN Relations, CompareAccus(relation, t)
  PROVE  AccuInv'
<1> DEFINE x == items[1].v
           y == items[2].v
           g == Greater(x, y)
           first == g = "first"
           second == g = "second"
           holds == g \in Relations[relation]
<1>1. Find(2, t) /\ Kept /\ Told
  BY DEF CompareAccus, AccuInv
<1>2. /\ x \in Int /\ y \in Int /\ SignedOf(t, accu[1]) = x /\ SignedOf(t, accu[2]) = y
      /\ ~entered /\ UNCHANGED <<is4accu, entered>>
  BY <1>1, FindTwo
<1>3. stw' = [stw EXCEPT !.A1 = second, !.A0 = first, !.OV = FALSE, !.VKE = holds]
  BY <1>2 DEF CompareAccus, Greater
<1>4. /\ verdict' = [sign |-> Sign(y - x), over |-> FALSE, holds |-> Holds(relation, y, x)]
      /\ UNCHANGED <<accu, items, lost>>
  BY DEF CompareAccus
<1> HIDE DEF x, y
<1>5. /\ first <=> Sign(y - x) = "minus"
      /\ second <=> Sign(y - x) = "plus"
      /\ Sign(y - x) \in {"minus", "zero", "plus"}
      /\ holds <=> Holds(relation, y, x)
      /\ Holds(relation, y, x) \in BOOLEAN
  BY <1>2, GreaterFact
<1>6. first \in BOOLEAN /\ second \in BOOLEAN /\ holds \in BOOLEAN
  OBVIOUS
<1> DEFINE s == Sign(y - x)
           h == Holds(relation, y, x)
<1>7. h \in BOOLEAN
  BY <1>5
<1> HIDE DEF g, first, second, holds, s, h
<1>8. stw \in Status /\ stw.OS = lost /\ lost \in BOOLEAN
  BY <1>1 DEF Told, OverflowIsRemembered
<1>9. /\ stw' \in Status /\ stw'.A1 = second /\ stw'.A0 = first /\ stw'.OV = FALSE
      /\ stw'.OS = stw.OS /\ stw'.VKE = holds
  BY <1>3, <1>6, <1>8 DEF Status
<1>10. verdict' = [sign |-> s, over |-> FALSE, holds |-> h]
  BY <1>4 DEF s, h
<1>11. /\ s \in {"minus", "zero", "plus"} /\ (first <=> s = "minus")
       /\ (second <=> s = "plus") /\ (holds <=> h)
  BY <1>5 DEF s, h
<1>12. verdict' \in Verdicts /\ verdict'.sign = s /\ verdict'.over = FALSE /\ verdict'.holds = h
  <2>1. s \in {"minus", "zero", "plus", "undefined", "any"}
    BY <1>11
  <2> QED BY <1>7, <1>10, <2>1 DEF Verdicts
<1>13. Decisions'
  BY DecisionsFact, PTL
<1>14. holds = h
  <2>1. holds <=> h
    BY <1>11
  <2>2. CASE h = TRUE
    BY <1>6, <2>1, <2>2
  <2>3. CASE h = FALSE
    BY <1>6, <2>1, <2>3
  <2> QED BY <1>7, <2>2, <2>3
<1>15. Taken' = Follow(s)
  <2>1. s = "minus" \/ s = "zero" \/ s = "plus"
    BY <1>11
  <2>2. CASE s = "minus"
    <3>1. first /\ ~second
      BY <1>11, <2>2
    <3> QED BY <1>6, <1>9, <1>13, <2>2, <3>1, Zenon DEF Decisions
  <2>3. CASE s = "zero"
    <3>1. ~first /\ ~second
      BY <1>11, <2>3
    <3> QED BY <1>6, <1>9, <1>13, <2>3, <3>1, Zenon DEF Decisions
  <2>4. CASE s = "plus"
    <3>1. ~first /\ second
      BY <1>11, <2>4
    <3> QED BY <1>6, <1>9, <1>13, <2>4, <3>1, Zenon DEF Decisions
  <2> QED BY <2>1, <2>2, <2>3, <2>4
<1>16. Told'
  BY <1>4, <1>8, <1>9, <1>12, <1>14, <1>15, Zenon DEF Told, OverflowIsRemembered, JumpsDecide
<1>17. Kept'
  BY <1>1, <1>2, <1>4 DEF Kept, ResultsAreExact, Place
<1> QED BY <1>16, <1>17 DEF AccuInv

\* The end of a cycle, and the beginning.
LEMMA CycleBegins ==
  ASSUME is4accu' \in BOOLEAN, accu' = [i \in 1..4 |-> 0], stw' = NoBits, items' = <<>>,
         entered' = FALSE, verdict' = NoVerdict, lost' = FALSE
  PROVE  AccuInv'
<1>1. Kept'
  <2>1. 0 \in Words
    BY Widths, DoubleWord DEF Words
  <2>2. [i \in 1..4 |-> 0] \in [1..4 -> Words] /\ <<>> \in Seq(Items) /\ Len(<<>>) = 0
    BY <2>1
  <2>3. DOMAIN items' = {}
    OBVIOUS
  <2>4. ResultsAreExact'
    BY <2>3 DEF ResultsAreExact
  <2>5. items' \in Seq(Items) /\ Len(items') <= IF is4accu' THEN 4 ELSE 2
    <3>1. Len(<<>>) = 0
      OBVIOUS
    <3>2. items' = <<>> /\ items' \in Seq(Items)
      BY <2>2
    <3>3. Len(items') = 0
      BY <3>1, <3>2
    <3> QED BY <3>2, <3>3
  <2> QED BY <2>2, <2>4, <2>5 DEF Kept
<1>2. Told'
  <2>1. /\ stw' \in Status /\ stw'.A1 = FALSE /\ stw'.A0 = FALSE /\ stw'.OV = FALSE
        /\ stw'.OS = FALSE /\ stw'.VKE = FALSE
    BY DEF NoBits, Status
  <2>2. /\ verdict' \in Verdicts /\ verdict'.sign = "zero" /\ verdict'.over = FALSE
        /\ verdict'.holds = FALSE
    BY DEF NoVerdict, Verdicts
  <2>3. Decisions'
    BY DecisionsFact, PTL
  <2>4. Taken' = Follow("zero")
    BY <2>1, <2>3, Zenon DEF Decisions
  <2> QED BY <2>1, <2>2, <2>4, Zenon DEF Told, OverflowIsRemembered, JumpsDecide
<1> QED BY <1>1, <1>2 DEF AccuInv

LEMMA AccuBegins == AccuInit => AccuInv
<1> SUFFICES ASSUME AccuInit PROVE AccuInv
  OBVIOUS
<1>1. Kept
  <2>1. 0 \in Words
    BY Widths, DoubleWord DEF Words
  <2>2. [i \in 1..4 |-> 0] \in [1..4 -> Words] /\ <<>> \in Seq(Items) /\ Len(<<>>) = 0
    BY <2>1
  <2>3. DOMAIN items = {}
    BY DEF AccuInit
  <2>4. ResultsAreExact
    BY <2>3 DEF ResultsAreExact
  <2>5. items = <<>> /\ items \in Seq(Items)
    BY <2>2 DEF AccuInit
  <2>6. Len(items) = 0
    <3>1. Len(<<>>) = 0
      OBVIOUS
    <3> QED BY <2>5, <3>1
  <2>7. is4accu \in BOOLEAN /\ entered = FALSE /\ accu \in [1..4 -> Words]
    BY <2>2 DEF AccuInit
  <2>8. Len(items) <= IF is4accu THEN 4 ELSE 2
    BY <2>6
  <2> QED BY <2>4, <2>5, <2>7, <2>8, Zenon DEF Kept
<1>2. Told
  <2>1. /\ stw \in Status /\ stw.A1 = FALSE /\ stw.A0 = FALSE /\ stw.OV = FALSE
        /\ stw.OS = FALSE /\ stw.VKE = FALSE
    BY DEF NoBits, Status, AccuInit
  <2>2. /\ verdict \in Verdicts /\ verdict.sign = "zero" /\ verdict.over = FALSE
        /\ verdict.holds = FALSE /\ lost = FALSE
    BY DEF NoVerdict, Verdicts, AccuInit
  <2>3. Taken = Follow("zero")
    BY <2>1, DecisionsFact, Zenon DEF Decisions
  <2> QED BY <2>1, <2>2, <2>3, Zenon DEF Told, OverflowIsRemembered, JumpsDecide
<1> QED BY <1>1, <1>2 DEF AccuInv

LEMMA LoadKept ==
  ASSUME AccuInv, NEW t \in Types, NEW c \in Values, Load(t, c)
  PROVE  AccuInv'
<1> DEFINE n == Len(items)
           w == c % Width(t)
           r == [t |-> t, v |-> c]
           a == [accu EXCEPT ![2] = accu[1], ![1] = w]
           e == <<r>> \o items
<1>1. Kept /\ Told /\ entered' = FALSE /\ (n < 2 \/ entered) /\ is4accu' = is4accu
  BY DEF AccuInv, Load, OneInstruction
<1>2. accu' = a /\ items' = e /\ UNCHANGED <<stw, verdict, lost>>
  BY DEF Load
<1>3. c \in Int /\ Fits(t, c)
  BY ValueFits
<1>4. w \in Words /\ SignedOf(t, w) = c
  <2>1. 0 \in Words /\ Width("I") \in Nat \ {0}
    BY Widths, DoubleWord DEF Words
  <2>2. Put(t, 0, c) = w
    <3> DEFINE N == Width("I")
               low == c % N
    <3>1. low \in 0..(N - 1) /\ N \in Nat \ {0}
      BY <1>3, <2>1, DoubleWord, RestIsSame
    <3>2. 0 \div N = 0
      BY <3>1
    <3> HIDE DEF N, low
    <3>3. 0 * N + low = low
      BY <3>1
    <3> QED BY <3>2, <3>3 DEF Put, Types, low, N
  <2> HIDE DEF w
  <2> QED BY <1>3, <2>1, <2>2, PutFact, SignedSelf
<1>5. r \in Items /\ r.t = t /\ r.v = c
  BY <1>3 DEF Items
<1> HIDE DEF w, r
<1>6. n \in Nat /\ items \in Seq(Items) /\ is4accu \in BOOLEAN
  BY <1>1 DEF Kept
<1>7. e \in Seq(Items) /\ Len(e) = n + 1 /\ e[1] = r /\ \A i \in 2..(n + 1) : e[i] = items[i - 1]
  BY <1>5, <1>6, InFront
<1>8. a \in [1..4 -> Words] /\ a[1] = w /\ a[2] = accu[1] /\ a[3] = accu[3] /\ a[4] = accu[4]
  BY <1>1, <1>4 DEF Kept
<1>9. entered => is4accu /\ n \in 2..3 /\ accu[2] = accu[3]
  BY <1>1 DEF Kept
<1>0. n + 1 <= IF is4accu THEN 4 ELSE 2
  <2> HIDE DEF n
  <2>1. CASE n < 2
    BY <1>6, <2>1
  <2>2. CASE entered
    BY <1>6, <1>9, <2>2
  <2> QED BY <1>1, <2>1, <2>2
<1>10. ASSUME NEW i \in 2..(n + 1) PROVE SignedOf(items[i - 1].t, a[i]) = items[i - 1].v
  <2>1. i - 1 \in DOMAIN items /\ i - 1 \in Int
    BY <1>6
  <2>2. SignedOf(items[i - 1].t, accu[Place(i - 1)]) = items[i - 1].v
    BY <1>1, <2>1 DEF Kept, ResultsAreExact
  <2>3. i = 2 \/ (entered /\ (i = 3 \/ i = 4) /\ accu[2] = accu[3])
    <3> HIDE DEF n
    <3>1. CASE n < 2
      BY <1>6, <3>1
    <3>2. CASE entered
      BY <1>6, <1>9, <3>2
    <3> QED BY <1>1, <3>1, <3>2
  <2>4. accu[Place(i - 1)] = a[i]
    BY <1>8, <2>3 DEF Place
  <2> QED BY <2>2, <2>4
<1> HIDE DEF a, e
<1>11. ASSUME NEW i \in 1..(n + 1) PROVE SignedOf(e[i].t, a[i]) = e[i].v
  <2>1. CASE i = 1
    BY <1>4, <1>5, <1>7, <1>8, <2>1
  <2>2. CASE i # 1
    <3>1. i \in 2..(n + 1)
      BY <1>6, <2>2
    <3> QED BY <1>7, <1>10, <3>1
  <2> QED BY <2>1, <2>2
<1>12. Len(e) <= IF is4accu' THEN 4 ELSE 2
  BY <1>0, <1>1, <1>7
<1>13. \A i \in 1..Len(e) : SignedOf(e[i].t, a[i]) = e[i].v
  BY <1>7, <1>11
<1>14. Kept'
  BY <1>1, <1>2, <1>6, <1>7, <1>8, <1>12, <1>13, KeptAfter
<1>15. Told'
  BY <1>1, <1>2, ToldStays
<1> QED BY <1>14, <1>15 DEF AccuInv

LEMMA FourWords ==
  ASSUME NEW a \in Words, NEW b \in Words, NEW c \in Words, NEW d \in Words
  PROVE  /\ <<a, b, c, d>> \in [1..4 -> Words] /\ <<a, b, c, d>>[1] = a /\ <<a, b, c, d>>[2] = b
         /\ <<a, b, c, d>>[3] = c /\ <<a, b, c, d>>[4] = d
<1> DEFINE s == <<a, b, c, d>>
<1>1. s \in Seq(Words)
  OBVIOUS
<1>2. Len(s) = 4 /\ s[1] = a /\ s[2] = b /\ s[3] = c /\ s[4] = d
  OBVIOUS
<1> HIDE DEF s
<1>3. s \in [1..4 -> Words]
  BY <1>1, <1>2
<1> QED BY <1>2, <1>3 DEF s

LEMMA EnterKept ==
  ASSUME AccuInv, Enter
  PROVE  AccuInv'
<1>1. /\ Kept /\ Told /\ is4accu' = is4accu /\ is4accu /\ ~entered /\ entered' = TRUE
      /\ Len(items) \in 2..3 /\ UNCHANGED <<stw, items, verdict, lost>>
  BY DEF AccuInv, Enter, OneInstruction
<1>2. accu' = <<accu[1], accu[2], accu[2], accu[3]>>
  BY DEF Enter
<1>3. accu[1] \in Words /\ accu[2] \in Words /\ accu[3] \in Words /\ is4accu \in BOOLEAN
  BY <1>1 DEF Kept
<1>4. /\ accu' \in [1..4 -> Words] /\ accu'[1] = accu[1] /\ accu'[2] = accu[2]
      /\ accu'[3] = accu[2] /\ accu'[4] = accu[3]
  BY <1>2, <1>3, FourWords
<1>5. ASSUME NEW i \in DOMAIN items PROVE SignedOf(items[i].t, accu'[IF i > 2 THEN i + 1 ELSE i]) = items[i].v
  <2>1. i \in 1..Len(items) /\ (i = 1 \/ i = 2 \/ i = 3)
    BY <1>1 DEF Kept
  <2>2. SignedOf(items[i].t, accu[i]) = items[i].v
    BY <1>1, <2>1, KeptFacts
  <2>3. accu'[IF i > 2 THEN i + 1 ELSE i] = accu[i]
    BY <1>4, <2>1
  <2> QED BY <2>2, <2>3
<1>6. ResultsAreExact'
  BY <1>1, <1>5 DEF ResultsAreExact, Place
<1>7. Kept'
  BY <1>1, <1>3, <1>4, <1>6 DEF Kept
<1>8. Told'
  BY <1>1, ToldStays
<1> QED BY <1>7, <1>8 DEF AccuInv

LEMMA LeaveKept ==
  ASSUME AccuInv, LeaveAccu
  PROVE  AccuInv'
<1> DEFINE w == accu[1]
           r == items[1]
<1>1. /\ Kept /\ Told /\ is4accu /\ ~entered /\ UNCHANGED <<is4accu, entered>>
      /\ Len(items) >= 2 /\ UNCHANGED <<stw, verdict, lost>>
  BY DEF AccuInv, LeaveAccu, OneInstruction
<1>2. accu' = <<w, accu[3], accu[4], accu[4]>> /\ items' = <<r>> \o SubSeq(items, 3, Len(items))
  BY DEF LeaveAccu
<1>3. w \in Words /\ accu[3] \in Words /\ accu[4] \in Words
  BY <1>1 DEF Kept
<1>4. 1 \in 1..Len(items)
  BY <1>1 DEF Kept
<1>5. r \in Items /\ SignedOf(r.t, w) = r.v
  BY <1>1, <1>4, KeptFacts
<1>6. accu' = <<w>> \o Behind
  <2> DEFINE f == <<accu[3], accu[4], accu[4]>>
             g == <<w>> \o f
             h == <<w, accu[3], accu[4], accu[4]>>
  <2>1. Behind = f
    BY <1>1 DEF Behind
  <2>2. f \in Seq(Words) /\ h \in Seq(Words)
    BY <1>3
  <2>3. Len(f) = 3 /\ f[1] = accu[3] /\ f[2] = accu[4] /\ f[3] = accu[4]
    OBVIOUS
  <2>4. Len(h) = 4 /\ h[1] = w /\ h[2] = accu[3] /\ h[3] = accu[4] /\ h[4] = accu[4]
    OBVIOUS
  <2> HIDE DEF f, h, w
  <2>5. g \in Seq(Words) /\ Len(g) = Len(f) + 1 /\ g[1] = w /\ \A i \in 2..(Len(f) + 1) : g[i] = f[i - 1]
    BY <1>3, <2>2, InFront
  <2> HIDE DEF g
  <2>6. Len(g) = 4 /\ g[2] = f[1] /\ g[3] = f[2] /\ g[4] = f[3]
    BY <2>3, <2>5
  <2>7. \A i \in 1..4 : g[i] = h[i]
    BY <2>3, <2>4, <2>5, <2>6
  <2>8. g = h
    BY <2>2, <2>4, <2>5, <2>6, <2>7, SeqEqual
  <2> QED BY <1>2, <2>1, <2>8 DEF g, h
<1> HIDE DEF w, r
<1>7. Kept'
  BY <1>1, <1>2, <1>3, <1>5, <1>6, TwoKept
<1>8. Told'
  BY <1>1, ToldStays
<1> QED BY <1>7, <1>8 DEF AccuInv

LEMMA SwapKept ==
  ASSUME AccuInv, Swap
  PROVE  AccuInv'
<1> DEFINE n == Len(items)
           a == [accu EXCEPT ![1] = accu[2], ![2] = accu[1]]
           e == [items EXCEPT ![1] = items[2], ![2] = items[1]]
<1>1. /\ Kept /\ Told /\ ~entered /\ entered' = FALSE /\ is4accu' = is4accu
      /\ n >= 2 /\ UNCHANGED <<stw, verdict, lost>> /\ accu' = a /\ items' = e
  BY DEF AccuInv, Swap, OneInstruction, Kept
<1>2. n \in Nat /\ items \in Seq(Items) /\ is4accu \in BOOLEAN /\ n <= IF is4accu THEN 4 ELSE 2
  BY <1>1 DEF Kept
<1>3. a \in [1..4 -> Words] /\ a[1] = accu[2] /\ a[2] = accu[1] /\ a[3] = accu[3] /\ a[4] = accu[4]
  BY <1>1 DEF Kept
<1>4. /\ e \in Seq(Items) /\ Len(e) = n /\ e[1] = items[2] /\ e[2] = items[1]
      /\ \A i \in 3..n : e[i] = items[i]
  BY <1>1, <1>2
<1>5. ASSUME NEW i \in 1..n PROVE SignedOf(e[i].t, a[i]) = e[i].v
  <2>1. 1 \in 1..n /\ 2 \in 1..n /\ (i = 1 \/ i = 2 \/ (i \in 3..n /\ (i = 3 \/ i = 4)))
    BY <1>1, <1>2
  <2>2. \A j \in 1..n : SignedOf(items[j].t, accu[j]) = items[j].v
    BY <1>1, KeptFacts
  <2> HIDE DEF a, e
  <2> QED BY <1>3, <1>4, <2>1, <2>2
<1> HIDE DEF a, e
<1>6. Kept'
  BY <1>1, <1>2, <1>3, <1>4, <1>5, KeptAfter
<1>7. Told'
  BY <1>1, ToldStays
<1> QED BY <1>6, <1>7 DEF AccuInv

LEMMA PushKept ==
  ASSUME AccuInv, Push
  PROVE  AccuInv'
<1> DEFINE n == Len(items)
           r == items[1]
           a == [accu EXCEPT ![2] = accu[1]]
           e == <<r, r>> \o SubSeq(items, 3, n)
<1>1. /\ Kept /\ Told /\ ~entered /\ entered' = FALSE /\ is4accu' = is4accu
      /\ items # <<>> /\ UNCHANGED <<stw, verdict, lost>> /\ accu' = a /\ items' = e
  BY DEF AccuInv, Push, OneInstruction, Kept
<1>2. n \in Nat /\ items \in Seq(Items) /\ is4accu \in BOOLEAN /\ n <= IF is4accu THEN 4 ELSE 2
  BY <1>1 DEF Kept
<1>3. n >= 1
  BY <1>1, <1>2, EmptySeq
<1>4. a \in [1..4 -> Words] /\ a[1] = accu[1] /\ a[2] = accu[1] /\ a[3] = accu[3] /\ a[4] = accu[4]
  BY <1>1 DEF Kept
<1> DEFINE m == IF n >= 2 THEN n ELSE 2
<1>5. r \in Items /\ SignedOf(r.t, accu[1]) = r.v
  <2>1. 1 \in 1..n
    BY <1>2, <1>3
  <2> QED BY <1>1, <2>1, KeptFacts
<1>6. /\ e \in Seq(Items) /\ Len(e) = m /\ e[1] = r /\ e[2] = r
      /\ \A i \in 3..n : e[i] = items[i]
  <2> DEFINE f == SubSeq(items, 3, n)
             h == <<r, r>>
             k == Len(f)
  <2>1. f \in Seq(Items) /\ k = (IF 3 <= n THEN n - 3 + 1 ELSE 0) /\ \A i \in 1..(n - 3 + 1) : f[i] = items[3 + i - 1]
    <3>1. \A i \in 3..n : items[i] \in Items
      BY <1>2
    <3> QED BY <1>2, <3>1, SubSeqProperties
  <2>2. h \in Seq(Items) /\ Len(h) = 2 /\ h[1] = r /\ h[2] = r
    BY <1>5
  <2> HIDE DEF f, h, r
  <2> DEFINE g == h \o f
  <2>3. /\ g \in Seq(Items) /\ Len(g) = Len(h) + Len(f)
        /\ \A i \in 1..(Len(h) + Len(f)) : g[i] = IF i <= Len(h) THEN h[i] ELSE f[i - Len(h)]
    BY <2>1, <2>2, ConcatProperties
  <2> HIDE DEF g
  <2>4. Len(g) = 2 + k /\ \A i \in 1..(2 + k) : g[i] = IF i <= 2 THEN h[i] ELSE f[i - 2]
    BY <2>2, <2>3
  <2> HIDE DEF k
  <2>5. k \in Nat /\ 2 + k = m
    BY <1>2, <1>3, <2>1
  <2>6. g[1] = r /\ g[2] = r
    BY <2>2, <2>4, <2>5
  <2>7. \A i \in 3..n : g[i] = items[i]
    <3> SUFFICES ASSUME NEW i \in 3..n PROVE g[i] = items[i]
      OBVIOUS
    <3>1. i \in 1..(2 + k) /\ i - 2 \in 1..(n - 3 + 1) /\ 3 + (i - 2) - 1 = i /\ ~(i <= 2)
      BY <1>2, <2>1
    <3> QED BY <2>1, <2>4, <3>1
  <2> QED BY <2>3, <2>4, <2>5, <2>6, <2>7 DEF g, h, f
<1>7. m <= IF is4accu' THEN 4 ELSE 2
  BY <1>1, <1>2
<1> HIDE DEF a, e
<1>8. ASSUME NEW i \in 1..m PROVE SignedOf(e[i].t, a[i]) = e[i].v
  <2>1. i = 1 \/ i = 2 \/ (i \in 3..n /\ (i = 3 \/ i = 4))
    BY <1>2, <1>3
  <2>2. \A j \in 1..n : SignedOf(items[j].t, accu[j]) = items[j].v
    BY <1>1, KeptFacts
  <2>3. CASE i = 1 \/ i = 2
    BY <1>4, <1>5, <1>6, <2>3
  <2>4. CASE i \in 3..n /\ (i = 3 \/ i = 4)
    <3>1. i \in 1..n /\ e[i] = items[i] /\ a[i] = accu[i]
      BY <1>4, <1>6, <2>4
    <3> QED BY <2>2, <3>1
  <2> QED BY <2>1, <2>3, <2>4
<1> HIDE DEF m
<1>9. Kept'
  BY <1>1, <1>2, <1>4, <1>6, <1>7, <1>8, KeptAfter
<1>10. Told'
  BY <1>1, ToldStays
<1> QED BY <1>9, <1>10 DEF AccuInv

LEMMA PopKept ==
  ASSUME AccuInv, PopAccu
  PROVE  AccuInv'
<1> DEFINE w == accu[2]
           r == items[2]
<1>1. /\ Kept /\ Told /\ ~entered /\ UNCHANGED <<is4accu, entered>>
      /\ Len(items) >= 2 /\ UNCHANGED <<stw, verdict, lost>>
      /\ accu' = [accu EXCEPT ![1] = w] /\ items' = [items EXCEPT ![1] = r]
  BY DEF AccuInv, PopAccu, OneInstruction
<1>2. 2 \in 1..Len(items)
  BY <1>1 DEF Kept
<1>3. r \in Items /\ w \in Words /\ SignedOf(r.t, w) = r.v
  BY <1>1, <1>2, KeptFacts
<1>4. Len(items) >= 1
  BY <1>1 DEF Kept
<1> HIDE DEF w, r
<1>5. Kept'
  BY <1>1, <1>3, <1>4, OneKept
<1>6. Told'
  BY <1>1, ToldStays
<1> QED BY <1>5, <1>6 DEF AccuInv

LEMMA ClearKept ==
  ASSUME AccuInv, ClearOS
  PROVE  AccuInv'
<1>1. /\ Kept /\ Told /\ UNCHANGED <<is4accu, entered, accu, items, verdict>>
      /\ stw' = [stw EXCEPT !.OS = FALSE] /\ lost' = FALSE
  BY DEF AccuInv, ClearOS, OneInstruction
<1>2. Kept'
  BY <1>1 DEF Kept, ResultsAreExact, Place
<1>3. stw \in Status
  BY <1>1 DEF Told
<1>4. /\ stw' \in Status /\ stw'.A1 = stw.A1 /\ stw'.A0 = stw.A0 /\ stw'.OV = stw.OV
      /\ stw'.VKE = stw.VKE /\ stw'.OS = FALSE
  BY <1>1, <1>3 DEF Status
<1>5. Taken' = Taken
  BY <1>4 DEF Taken, SPZ, SPN, SPP, SPM, SPPZ, SPMZ, SPU
<1>6. Told'
  BY <1>1, <1>4, <1>5 DEF Told, OverflowIsRemembered, JumpsDecide
<1> QED BY <1>2, <1>6 DEF AccuInv

LEMMA CycleKept ==
  ASSUME AccuInv, NextCycle
  PROVE  AccuInv'
<1>1. is4accu' \in BOOLEAN
  BY DEF AccuInv, Kept, NextCycle
<1> QED BY <1>1, CycleBegins DEF NextCycle

----------------------------------------------------------------------------
(* One move of a word, and many.                                           *)

LEMMA Halved ==
  ASSUME NEW x \in Int, NEW a \in Nat \ {0}
  PROVE  /\ x \div (2 * a) = (x \div a) \div 2
         /\ x % (2 * a) = a * ((x \div a) % 2) + (x % a)
         /\ (x \div a) % 2 \in {0, 1} /\ (x \div a) \div 2 \in Int
         /\ x \div a = 2 * ((x \div a) \div 2) + ((x \div a) % 2)
<1> DEFINE q == x \div a
           r == x % a
           p == q \div 2
           s == q % 2
<1>1. q \in Int /\ r \in 0..(a - 1) /\ x = a * q + r
  BY Divided
<1> HIDE DEF q, r
<1>2. p \in Int /\ s \in 0..(2 - 1) /\ q = 2 * p + s
  BY <1>1, Divided
<1> HIDE DEF p, s
<1>3. s = 0 \/ s = 1
  BY <1>2
<1>4. a * s \in Int /\ a * s + r \in 0..(2 * a - 1)
  BY <1>1, <1>3
<1>5. x = (2 * a) * p + (a * s + r)
  <2>1. a * (2 * p + s) = (2 * a) * p + a * s
    BY <1>2, <1>3
  <2> QED BY <1>1, <1>2, <1>4, <2>1
<1> DEFINE m == a * s + r
           n == 2 * a
<1>6. n \in Nat \ {0} /\ m \in 0..(n - 1) /\ x = n * p + m
  BY <1>4, <1>5
<1>7. m = a * s + r /\ n = 2 * a
  OBVIOUS
<1> HIDE DEF m, n
<1>8. x \div n = p /\ x % n = m
  BY <1>2, <1>6, Quotients
<1> QED BY <1>2, <1>3, <1>7, <1>8 DEF q, r, p, s

\* The top bit of a word and the bits below.
LEMMA TopBit ==
  ASSUME NEW H \in Nat \ {0}, NEW v \in Int, NEW q \in Int, NEW r \in 0..(H - 1),
         v = H * q + r, v \in 0..(2 * H - 1)
  PROVE  v \div H = q /\ q \in {0, 1} /\ v - (v \div H) * H = r
<1>1. v \div H = q
  BY Quotients
<1>2. q \in {0, 1}
  <2>1. q <= -1 => H * q <= -H
    OBVIOUS
  <2>2. q >= 2 => H * q >= 2 * H
    OBVIOUS
  <2>3. H * q \in Int
    OBVIOUS
  <2> QED BY <2>1, <2>2, <2>3
<1> QED BY <1>1, <1>2

\* One move to the left.
LEMMA LeftStep ==
  ASSUME NEW H \in Nat \ {0}, NEW v \in 0..(2 * H - 1)
  PROVE  /\ v \div H \in {0, 1} /\ (v - (v \div H) * H) * 2 \in 0..(2 * H - 1)
         /\ (v - (v \div H) * H) * 2 = 2 * v - (2 * H) * (v \div H)
<1> DEFINE q == v \div H
           r == v % H
<1>1. q \in Int /\ r \in 0..(H - 1) /\ v = H * q + r
  BY Divided
<1> HIDE DEF q, r
<1>2. v \div H = q /\ q \in {0, 1} /\ v - (v \div H) * H = r
  BY <1>1, TopBit
<1>3. r * 2 \in 0..(2 * H - 1) /\ r * 2 = 2 * v - (2 * H) * q
  BY <1>1, <1>2
<1> QED BY <1>2, <1>3

\* The bit that leaves on the left, of a word that has moved by some bits.
LEMMA LeftOut ==
  ASSUME NEW a \in Nat \ {0}, NEW c \in Nat \ {0}, NEW w \in Int, NEW j \in Int,
         w * a + (2 * (c * a)) * j \in 0..(2 * (c * a) - 1)
  PROVE  (w * a + (2 * (c * a)) * j) \div (c * a) = (w \div c) % 2
<1> DEFINE H == c * a
           q == w \div c
           r == w % c
           v == w * a + (2 * H) * j
           k == q + 2 * j
<1>1. q \in Int /\ r \in 0..(c - 1) /\ w = c * q + r
  BY Divided
<1> HIDE DEF q, r
<1>2. H \in Nat \ {0}
  OBVIOUS
<1>3. r * a \in 0..(H - 1)
  <2>1. r * a <= (c - 1) * a /\ r * a >= 0 /\ r * a \in Int
    BY <1>1
  <2>2. (c - 1) * a = H - a
    OBVIOUS
  <2> HIDE DEF H
  <2> QED BY <1>2, <2>1, <2>2
<1>4. w * a = H * q + r * a
  BY <1>1
<1> DEFINE m == r * a
           u == w * a
<1>5. m \in 0..(H - 1) /\ u = H * q + m /\ u \in Int
  BY <1>3, <1>4
<1>6. v = u + (2 * H) * j /\ v \in 0..(2 * H - 1)
  OBVIOUS
<1> HIDE DEF H, m, u, v
<1>7. H * k = H * q + (2 * H) * j /\ k \in Int
  BY <1>1, <1>2
<1> HIDE DEF k
<1>8. v = H * k + m /\ v \in Int
  <2>1. H * q \in Int /\ (2 * H) * j \in Int /\ H * k \in Int
    BY <1>1, <1>2, <1>7
  <2> QED BY <1>2, <1>5, <1>6, <1>7, <2>1
<1>9. v \div H = k /\ k \in {0, 1}
  <2>1. v = H * k + m /\ v \in Int /\ k \in Int /\ m \in 0..(H - 1) /\ v \in 0..(2 * H - 1)
    BY <1>5, <1>6, <1>7, <1>8
  <2> QED BY <1>2, <2>1, TopBit, Zenon
<1>10. q = 2 * (-j) + k /\ -j \in Int
  BY <1>1 DEF k
<1>11. q % 2 = k
  <2>1. k \in 0..(2 - 1)
    BY <1>9
  <2> QED BY <1>10, <2>1, Quotients
<1> QED BY <1>9, <1>11 DEF v, H, q

\* A word that moves by some bits keeps some of them.
LEMMA Bounds ==
  ASSUME NEW a \in Nat \ {0}, NEW c \in Nat \ {0}, NEW r \in 0..(c - 1), NEW p \in 0..(a - 1)
  PROVE  r * a + p \in 0..(c * a - 1)
<1>1. r * a >= 0 /\ r * a <= (c - 1) * a /\ r * a \in Int
  OBVIOUS
<1>2. (c - 1) * a = c * a - a /\ c * a \in Int
  OBVIOUS
<1> QED BY <1>1, <1>2

\* The part of a word above some of its bits.
LEMMA UpperPart ==
  ASSUME NEW a \in Nat \ {0}, NEW c \in Nat \ {0}, NEW w \in 0..(2 * (c * a) - 1)
  PROVE  w \div c \in Int /\ (w \div c) \div 2 \in 0..(a - 1)
<1> DEFINE q == w \div c
           r == w % c
           p == q \div 2
           s == q % 2
<1>1. q \in Int /\ r \in 0..(c - 1) /\ w = c * q + r
  BY Divided
<1> HIDE DEF q, r
<1>2. p \in Int /\ s \in 0..(2 - 1) /\ q = 2 * p + s
  BY <1>1, Divided
<1> HIDE DEF p, s
<1>3. p >= 0
  <2>1. p <= -1 => c * q <= -c
    BY <1>1, <1>2
  <2>2. c * q \in Int
    BY <1>1
  <2> QED BY <1>1, <1>2, <2>1, <2>2
<1>4. p <= a - 1
  <2>1. p >= a => q >= 2 * a
    BY <1>1, <1>2
  <2>2. q >= 2 * a => c * q >= c * (2 * a)
    BY <1>1
  <2>3. c * (2 * a) = 2 * (c * a) /\ c * q \in Int /\ c * a \in Int
    BY <1>1
  <2> QED BY <1>1, <1>2, <2>1, <2>2, <2>3
<1> QED BY <1>1, <1>2, <1>3, <1>4 DEF q, p

LEMMA RotateLeftStep ==
  ASSUME NEW a \in Nat \ {0}, NEW c \in Nat \ {0}, NEW w \in 0..(2 * (c * a) - 1), NEW v,
         v = (w % (2 * c)) * a + (w \div (2 * c))
  PROVE  /\ v \div (c * a) = (w \div c) % 2
         /\ (v - (v \div (c * a)) * (c * a)) * 2 + (v \div (c * a)) = (w % c) * (2 * a) + (w \div c)
<1> DEFINE H == c * a
           q == w \div c
           r == w % c
           p == q \div 2
           s == q % 2
           m == r * a + p
<1>0. w \in Int
  <2>1. c * a \in Int
    OBVIOUS
  <2> QED BY <2>1
<1>1. r \in 0..(c - 1) /\ q \in Int
  BY <1>0, Divided
<1>2. /\ w \div (2 * c) = p /\ w % (2 * c) = c * s + r /\ s \in {0, 1} /\ p \in Int /\ q = 2 * p + s
  BY <1>0, Halved
<1>3. p \in 0..(a - 1)
  BY UpperPart
<1> HIDE DEF q, r, p, s
<1>4. m \in 0..(c * a - 1)
  BY <1>1, <1>3, Bounds
<1>5. v = (c * a) * s + m
  <2>1. v = (c * s + r) * a + p
    BY <1>2
  <2>2. (c * s + r) * a = (c * a) * s + r * a
    BY <1>1, <1>2
  <2>3. (c * a) * s \in Int /\ r * a \in Int
    BY <1>1, <1>2
  <2> QED BY <1>2, <2>1, <2>2, <2>3
<1>6. m = r * a + p
  OBVIOUS
<1>7. H \in Nat \ {0} /\ H = c * a
  OBVIOUS
<1>8. r * (2 * a) = 2 * (r * a) /\ r * a \in Int
  BY <1>1
<1> HIDE DEF H, m
<1>9. m \in 0..(H - 1) /\ v = H * s + m
  BY <1>4, <1>5, <1>7
<1>10. v \div H = s
  <2>1. s \in Int
    BY <1>2
  <2>2. (H * s + m) \div H = s
    BY <1>7, <1>9, <2>1, Quotients, Zenon
  <2> QED BY <1>9, <2>2
<1>11. (v - s * H) * 2 + s = 2 * m + s
  BY <1>2, <1>7, <1>9
<1>12. 2 * m + s = r * (2 * a) + q
  BY <1>2, <1>6, <1>8
<1> QED BY <1>7, <1>10, <1>11, <1>12 DEF q, r, s

LEMMA RotateRightStep ==
  ASSUME NEW a \in Nat \ {0}, NEW c \in Nat \ {0}, NEW w \in 0..(2 * (a * c) - 1), NEW v,
         v = (w % a) * (2 * c) + (w \div a)
  PROVE  /\ v % 2 = (w \div a) % 2
         /\ (v \div 2) + (v % 2) * (a * c) = (w % (2 * a)) * c + (w \div (2 * a))
<1> DEFINE H == a * c
           q == w \div a
           r == w % a
           p == q \div 2
           s == q % 2
           m == r * c + p
<1>0. w \in Int
  <2>1. a * c \in Int
    OBVIOUS
  <2> QED BY <2>1
<1>1. r \in 0..(a - 1) /\ q \in Int /\ w = a * q + r
  BY <1>0, Divided
<1>2. /\ w \div (2 * a) = p /\ w % (2 * a) = a * s + r /\ s \in {0, 1} /\ p \in Int /\ q = 2 * p + s
  BY <1>0, Halved
<1>3. p \in 0..(c - 1)
  BY UpperPart
<1> HIDE DEF q, r, p, s
<1>4. m \in 0..(a * c - 1)
  BY <1>1, <1>3, Bounds
<1>5. m = r * c + p /\ H \in Nat \ {0} /\ H = a * c
  OBVIOUS
<1>6. r * (2 * c) = 2 * (r * c) /\ r * c \in Int
  BY <1>1
<1>7. (a * s + r) * c = (a * c) * s + r * c
  BY <1>1, <1>2
<1>8. w * c = (a * c) * q + r * c
  BY <1>1
<1> HIDE DEF H, m
<1>9. v = 2 * m + s
  <2>1. v = r * (2 * c) + q
    BY DEF q, r
  <2> QED BY <1>2, <1>5, <1>6, <2>1
<1>10. v \div 2 = m /\ v % 2 = s
  <2>1. s \in 0..(2 - 1) /\ m \in Int
    BY <1>2, <1>4, <1>5
  <2>2. (2 * m + s) \div 2 = m /\ (2 * m + s) % 2 = s
    BY <2>1, Quotients
  <2> QED BY <1>9, <2>2
<1>11. m + s * H = (a * s + r) * c + p
  <2>1. H * s = s * H /\ H * s \in Int
    BY <1>2, <1>5
  <2> QED BY <1>2, <1>5, <1>6, <1>7, <2>1
<1> QED BY <1>2, <1>5, <1>10, <1>11 DEF q, r, s

LEMMA RotateRightOut ==
  ASSUME NEW a \in Nat \ {0}, NEW c \in Nat \ {0}, NEW w \in 0..(2 * (a * c) - 1)
  PROVE  ((w \div (2 * a)) + w * c) \div (a * c) = w \div a
<1> DEFINE H == a * c
           q == w \div a
           r == w % a
           p == q \div 2
           s == q % 2
           m == r * c + p
<1>0. w \in Int
  <2>1. a * c \in Int
    OBVIOUS
  <2> QED BY <2>1
<1>1. r \in 0..(a - 1) /\ q \in Int /\ w = a * q + r
  BY <1>0, Divided
<1>2. /\ w \div (2 * a) = p /\ w % (2 * a) = a * s + r /\ s \in {0, 1} /\ p \in Int /\ q = 2 * p + s
  BY <1>0, Halved
<1>3. p \in 0..(c - 1)
  BY UpperPart
<1> HIDE DEF q, r, p, s
<1>4. m \in 0..(a * c - 1)
  BY <1>1, <1>3, Bounds
<1>5. m = r * c + p /\ H \in Nat \ {0} /\ H = a * c
  OBVIOUS
<1>6. r * c \in Int
  BY <1>1
<1>7. w * c = (a * c) * q + r * c
  BY <1>1
<1> HIDE DEF H, m
<1>8. (p + w * c) \div H = q
  <2>1. m \in 0..(H - 1)
    BY <1>4, <1>5
  <2>2. H * q \in Int
    BY <1>1, <1>5
  <2>3. p + w * c = H * q + m
    <3> DEFINE x == H * q
               y == r * c
               z == w * c
    <3>1. z = x + y /\ m = y + p /\ x \in Int /\ y \in Int /\ p \in Int
      BY <1>2, <1>5, <1>6, <1>7, <2>2
    <3> HIDE DEF x, y, z
    <3>2. p + z = x + m
      BY <3>1
    <3> QED BY <3>2 DEF x, z
  <2>4. (H * q + m) \div H = q
    BY <1>1, <1>5, <2>1, Quotients, Zenon
  <2> QED BY <2>3, <2>4
<1> QED BY <1>2, <1>5, <1>8 DEF q

\* One move of a signed word to the right.
LEMMA SignedStep ==
  ASSUME NEW t \in Types, NEW v \in 0..(Width(t) - 1)
  PROVE  /\ (v \div 2) + (v \div HalfWidth(t)) * HalfWidth(t) \in 0..(Width(t) - 1)
         /\ SignedOf(t, (v \div 2) + (v \div HalfWidth(t)) * HalfWidth(t)) = SignedOf(t, v) \div 2
         /\ v % 2 = SignedOf(t, v) % 2
<1> DEFINE H == HalfWidth(t)
           y == SignedOf(t, v)
           p == y \div 2
           s == y % 2
           top == v \div H
           new == (v \div 2) + top * H
<1>1. H \in Nat \ {0} /\ Width(t) = 2 * H
  BY Widths
<1>2. v \in 0..(2 * H - 1)
  BY <1>1
<1>3. y \in Int /\ -H <= y /\ y < H
  <2>1. v \in Int
    BY <1>1
  <2> QED BY <2>1, SignedFacts DEF Fits, HalfWidth
<1>4. y = IF v >= H THEN v - 2 * H ELSE v
  <2>1. v % Width(t) = v
    <3> DEFINE W == Width(t)
    <3>1. W \in Nat \ {0} /\ v \in 0..(W - 1) /\ v = W * 0 + v
      BY <1>1
    <3> HIDE DEF W
    <3>2. (W * 0 + v) % W = v
      BY <3>1, Quotients
    <3> QED BY <3>1, <3>2 DEF W
  <2> QED BY <1>1, <2>1 DEF SignedOf, HalfWidth
<1> HIDE DEF y
<1>5. p \in Int /\ s \in 0..(2 - 1) /\ y = 2 * p + s
  BY <1>3, Divided
<1> HIDE DEF p, s, H
<1>6. -H <= p /\ p < H /\ (y < 0 => p < 0) /\ (y >= 0 => p >= 0)
  BY <1>1, <1>3, <1>5
<1>7. Fits(t, p)
  BY <1>6 DEF Fits, H, HalfWidth
<1>8. CASE v >= H
  <2>1. y = v - 2 * H /\ y < 0
    BY <1>1, <1>2, <1>4, <1>8
  <2>2. v = H * 1 + (v - H) /\ v - H \in 0..(H - 1)
    BY <1>1, <1>2, <1>8
  <2>3. top = 1
    <3> DEFINE d == v - H
    <3>1. v = H * 1 + d /\ d \in 0..(H - 1)
      BY <2>2
    <3> HIDE DEF d
    <3> QED BY <1>1, <3>1, Quotients
  <2>4. v = 2 * (p + H) + s /\ p + H \in Int
    BY <1>1, <1>5, <2>1
  <2>5. v \div 2 = p + H /\ v % 2 = s
    BY <1>5, <2>4, Quotients
  <2> HIDE DEF top
  <2>6. new = p + 2 * H
    BY <1>1, <1>5, <2>3, <2>5
  <2>7. new \in 0..(Width(t) - 1) /\ new \in Int
    BY <1>1, <1>5, <1>6, <2>1, <2>6
  <2>8. Same(t, new, p)
    <3>1. new = p + Width(t) * 1
      BY <1>1, <1>5, <2>6
    <3> QED BY <3>1 DEF Same
  <2> HIDE DEF new
  <2>9. SignedOf(t, new) = p
    BY <1>5, <1>7, <2>7, <2>8, SignedIs
  <2> QED BY <2>5, <2>7, <2>9 DEF new, top, p, s, H, y
<1>9. CASE v < H
  <2>1. y = v
    BY <1>1, <1>2, <1>4, <1>9
  <2>2. v = H * 0 + v /\ v \in 0..(H - 1)
    BY <1>1, <1>2, <1>9
  <2>3. top = 0
    BY <1>1, <2>2, Quotients
  <2>4. v \div 2 = p /\ v % 2 = s
    BY <1>5, <2>1, Quotients
  <2> HIDE DEF top
  <2>5. new = p
    BY <1>1, <1>5, <2>3, <2>4
  <2>6. new \in 0..(Width(t) - 1)
    BY <1>1, <1>2, <1>5, <1>6, <2>1, <2>5
  <2>7. SignedOf(t, p) = p
    BY <1>5, <1>7, SignedSelf
  <2> HIDE DEF new
  <2> QED BY <2>4, <2>5, <2>6, <2>7 DEF new, top, p, s, H, y
<1> QED BY <1>1, <1>2, <1>8, <1>9

Shifts == {"SL", "SR", "SS", "RL", "RR"}

\* What k moves make of the word w of type t.
MovedTo(op, t, w, k, v) ==
  CASE op = "SL" -> v \in 0..(Width(t) - 1) /\ Same(t, v, w * Pow2[k])
    [] op = "SR" -> v = w \div Pow2[k]
    [] op = "SS" -> v \in 0..(Width(t) - 1) /\ SignedOf(t, v) = SignedOf(t, w) \div Pow2[k]
    [] op = "RL" -> v = (w % Pow2[BitsOf(t) - k]) * Pow2[k] + (w \div Pow2[BitsOf(t) - k])
    [] op = "RR" -> v = (w % Pow2[k]) * Pow2[BitsOf(t) - k] + (w \div Pow2[k])

\* The bit that leaves it with move k.
LeavesWith(op, t, w, k) ==
  CASE op \in {"SL", "RL"} -> (w \div Pow2[BitsOf(t) - k]) % 2
    [] op \in {"SR", "RR"} -> (w \div Pow2[k - 1]) % 2
    [] op = "SS" -> (SignedOf(t, w) \div Pow2[k - 1]) % 2

\* The powers that matter in move k.
LEMMA PowersOfMove ==
  ASSUME NEW t \in Types, NEW k \in Nat \ {0}
  PROVE  /\ Pow2[k - 1] \in Nat \ {0} /\ Pow2[k] = 2 * Pow2[k - 1]
         /\ k <= BitsOf(t) =>
              /\ Pow2[BitsOf(t) - k] \in Nat \ {0}
              /\ Pow2[BitsOf(t) - (k - 1)] = 2 * Pow2[BitsOf(t) - k]
              /\ HalfWidth(t) = Pow2[BitsOf(t) - k] * Pow2[k - 1]
              /\ HalfWidth(t) = Pow2[k - 1] * Pow2[BitsOf(t) - k]
<1> DEFINE b == BitsOf(t)
<1>1. b \in Nat \ {0}
  BY Widths
<1>2. k - 1 \in Nat /\ (k - 1) + 1 = k
  OBVIOUS
<1>3. Pow2[k - 1] \in Nat \ {0} /\ Pow2[(k - 1) + 1] = 2 * Pow2[k - 1]
  BY <1>2, Powers
<1>4. ASSUME k <= b
      PROVE  /\ Pow2[b - k] \in Nat \ {0} /\ Pow2[b - (k - 1)] = 2 * Pow2[b - k]
             /\ Pow2[b - 1] = Pow2[b - k] * Pow2[k - 1] /\ Pow2[b - 1] = Pow2[k - 1] * Pow2[b - k]
  <2> HIDE DEF b
  <2>1. /\ b - k \in Nat /\ (b - k) + 1 = b - (k - 1) /\ (b - k) + (k - 1) = b - 1
        /\ (k - 1) + (b - k) = b - 1
    BY <1>1, <1>4
  <2>2. Pow2[b - k] \in Nat \ {0} /\ Pow2[(b - k) + 1] = 2 * Pow2[b - k]
    BY <2>1, Powers
  <2>3. Pow2[(b - k) + (k - 1)] = Pow2[b - k] * Pow2[k - 1]
    BY <1>2, <2>1, PowerOfSum
  <2>4. Pow2[(k - 1) + (b - k)] = Pow2[k - 1] * Pow2[b - k]
    BY <1>2, <2>1, PowerOfSum
  <2> QED BY <2>1, <2>2, <2>3, <2>4
<1> QED BY <1>2, <1>3, <1>4 DEF HalfWidth

LEMMA MoveLeft ==
  ASSUME NEW t \in Types, NEW w \in 0..(Width(t) - 1), NEW k \in Nat \ {0}, NEW v,
         MovedTo("SL", t, w, k - 1, v)
  PROVE  /\ MovedTo("SL", t, w, k, Move("SL", BitsOf(t), v).word)
         /\ k <= BitsOf(t) => Move("SL", BitsOf(t), v).out = LeavesWith("SL", t, w, k)
<1> DEFINE H == HalfWidth(t)
           W == Width(t)
           a == Pow2[k - 1]
           top == v \div H
           new == (v - top * H) * 2
<1>1. H \in Nat \ {0} /\ W = 2 * H /\ a \in Nat \ {0} /\ Pow2[k] = 2 * a /\ w \in Int
  BY Widths, PowersOfMove
<1>2. v \in 0..(W - 1) /\ Same(t, v, w * a)
  BY DEF MovedTo
<1>3. PICK j \in Int : v = w * a + W * j
  BY <1>2 DEF Same
<1>4. Move("SL", BitsOf(t), v).word = new /\ Move("SL", BitsOf(t), v).out = top
  BY DEF Move, HalfWidth
<1> HIDE DEF H, W, a
<1>5. top \in {0, 1} /\ new \in 0..(2 * H - 1) /\ new = 2 * v - (2 * H) * top
  BY <1>1, <1>2, LeftStep
<1>6. Same(t, new, w * Pow2[k])
  <2> HIDE DEF new, top
  <2>1. new = w * (2 * a) + W * (2 * j - top) /\ 2 * j - top \in Int
    BY <1>1, <1>3, <1>5
  <2> QED BY <1>1, <2>1 DEF Same, W
<1>7. ASSUME k <= BitsOf(t) PROVE top = LeavesWith("SL", t, w, k)
  <2> DEFINE c == Pow2[BitsOf(t) - k]
  <2>1. c \in Nat \ {0} /\ H = c * a
    BY <1>7, PowersOfMove DEF H, a
  <2>2. LeavesWith("SL", t, w, k) = (w \div c) % 2
    BY DEF LeavesWith
  <2> HIDE DEF c
  <2>3. W = 2 * (c * a)
    BY <1>1, <2>1
  <2>4. w * a + (2 * (c * a)) * j \in 0..(2 * (c * a) - 1)
    BY <1>2, <1>3, <2>3
  <2>5. (w * a + (2 * (c * a)) * j) \div (c * a) = (w \div c) % 2
    <3>1. /\ a \in Nat \ {0} /\ c \in Nat \ {0} /\ w \in Int /\ j \in Int
          /\ w * a + (2 * (c * a)) * j \in 0..(2 * (c * a) - 1)
      BY <1>1, <1>3, <2>1, <2>4, Zenon
    <3> QED BY <3>1, LeftOut, Zenon
  <2> QED BY <1>3, <2>1, <2>2, <2>3, <2>5
<1> HIDE DEF new, top
<1> QED BY <1>1, <1>4, <1>5, <1>6, <1>7 DEF MovedTo, W

LEMMA MoveRight ==
  ASSUME NEW t \in Types, NEW w \in 0..(Width(t) - 1), NEW k \in Nat \ {0}, NEW v,
         MovedTo("SR", t, w, k - 1, v)
  PROVE  /\ MovedTo("SR", t, w, k, Move("SR", BitsOf(t), v).word)
         /\ Move("SR", BitsOf(t), v).out = LeavesWith("SR", t, w, k)
<1> DEFINE a == Pow2[k - 1]
<1>1. a \in Nat \ {0} /\ Pow2[k] = 2 * a /\ w \in Int
  BY Widths, PowersOfMove
<1>2. v = w \div a
  BY DEF MovedTo
<1>3. Move("SR", BitsOf(t), v).word = v \div 2 /\ Move("SR", BitsOf(t), v).out = v % 2
  BY DEF Move
<1>4. LeavesWith("SR", t, w, k) = (w \div a) % 2
  BY DEF LeavesWith
<1> HIDE DEF a
<1>5. w \div (2 * a) = v \div 2
  BY <1>1, <1>2, Halved
<1> QED BY <1>1, <1>2, <1>3, <1>4, <1>5 DEF MovedTo

LEMMA MoveSigned ==
  ASSUME NEW t \in Types, NEW w \in 0..(Width(t) - 1), NEW k \in Nat \ {0}, NEW v,
         MovedTo("SS", t, w, k - 1, v)
  PROVE  /\ MovedTo("SS", t, w, k, Move("SS", BitsOf(t), v).word)
         /\ Move("SS", BitsOf(t), v).out = LeavesWith("SS", t, w, k)
<1> DEFINE a == Pow2[k - 1]
           x == SignedOf(t, w)
           new == (v \div 2) + (v \div HalfWidth(t)) * HalfWidth(t)
<1>1. a \in Nat \ {0} /\ Pow2[k] = 2 * a /\ w \in Int
  BY Widths, PowersOfMove
<1>2. v \in 0..(Width(t) - 1) /\ SignedOf(t, v) = x \div a /\ x \in Int
  BY <1>1, SignedFacts DEF MovedTo
<1>3. Move("SS", BitsOf(t), v).word = new /\ Move("SS", BitsOf(t), v).out = v % 2
  BY DEF Move, HalfWidth
<1>4. LeavesWith("SS", t, w, k) = (x \div a) % 2
  BY DEF LeavesWith
<1> HIDE DEF a
<1>5. /\ new \in 0..(Width(t) - 1) /\ SignedOf(t, new) = SignedOf(t, v) \div 2
      /\ v % 2 = SignedOf(t, v) % 2
  BY <1>2, SignedStep
<1> HIDE DEF new, x
<1>6. x \div (2 * a) = (x \div a) \div 2
  BY <1>1, <1>2, Halved
<1> QED BY <1>1, <1>2, <1>3, <1>4, <1>5, <1>6 DEF MovedTo, x

LEMMA MoveAroundLeft ==
  ASSUME NEW t \in Types, NEW w \in 0..(Width(t) - 1), NEW k \in 1..BitsOf(t), NEW v,
         MovedTo("RL", t, w, k - 1, v)
  PROVE  /\ MovedTo("RL", t, w, k, Move("RL", BitsOf(t), v).word)
         /\ Move("RL", BitsOf(t), v).out = LeavesWith("RL", t, w, k)
<1> DEFINE H == HalfWidth(t)
           a == Pow2[k - 1]
           c == Pow2[BitsOf(t) - k]
<1>1. k \in Nat \ {0} /\ k <= BitsOf(t)
  BY Widths
<1>2. /\ Width(t) = 2 * H /\ a \in Nat \ {0} /\ Pow2[k] = 2 * a
      /\ c \in Nat \ {0} /\ Pow2[BitsOf(t) - (k - 1)] = 2 * c /\ H = c * a
  BY <1>1, Widths, PowersOfMove
<1>3. v = (w % (2 * c)) * a + (w \div (2 * c))
  BY <1>2 DEF MovedTo
<1>4. /\ Move("RL", BitsOf(t), v).word = (v - (v \div H) * H) * 2 + (v \div H)
      /\ Move("RL", BitsOf(t), v).out = v \div H
  BY DEF Move, HalfWidth
<1>5. LeavesWith("RL", t, w, k) = (w \div c) % 2
  BY DEF LeavesWith
<1>6. MovedTo("RL", t, w, k, (w % c) * (2 * a) + (w \div c))
  BY <1>2 DEF MovedTo
<1> HIDE DEF H, a, c
<1>7. w \in 0..(2 * (c * a) - 1)
  BY <1>2
<1>8. /\ v \div (c * a) = (w \div c) % 2
      /\ (v - (v \div (c * a)) * (c * a)) * 2 + (v \div (c * a)) = (w % c) * (2 * a) + (w \div c)
  <2>1. /\ a \in Nat \ {0} /\ c \in Nat \ {0} /\ w \in 0..(2 * (c * a) - 1)
        /\ v = (w % (2 * c)) * a + (w \div (2 * c))
    BY <1>2, <1>3, <1>7, Zenon
  <2> QED BY <2>1, RotateLeftStep, ZenonT(60)
<1> QED BY <1>2, <1>4, <1>5, <1>6, <1>8

LEMMA MoveAroundRight ==
  ASSUME NEW t \in Types, NEW w \in 0..(Width(t) - 1), NEW k \in 1..BitsOf(t), NEW v,
         MovedTo("RR", t, w, k - 1, v)
  PROVE  /\ MovedTo("RR", t, w, k, Move("RR", BitsOf(t), v).word)
         /\ Move("RR", BitsOf(t), v).out = LeavesWith("RR", t, w, k)
<1> DEFINE H == HalfWidth(t)
           a == Pow2[k - 1]
           c == Pow2[BitsOf(t) - k]
<1>1. k \in Nat \ {0} /\ k <= BitsOf(t)
  BY Widths
<1>2. /\ Width(t) = 2 * H /\ a \in Nat \ {0} /\ Pow2[k] = 2 * a
      /\ c \in Nat \ {0} /\ Pow2[BitsOf(t) - (k - 1)] = 2 * c /\ H = a * c
  BY <1>1, Widths, PowersOfMove
<1>3. v = (w % a) * (2 * c) + (w \div a)
  BY <1>2 DEF MovedTo
<1>4. /\ Move("RR", BitsOf(t), v).word = (v \div 2) + (v % 2) * H
      /\ Move("RR", BitsOf(t), v).out = v % 2
  BY DEF Move, HalfWidth
<1>5. LeavesWith("RR", t, w, k) = (w \div a) % 2
  BY DEF LeavesWith
<1>6. MovedTo("RR", t, w, k, (w % (2 * a)) * c + (w \div (2 * a)))
  BY <1>2 DEF MovedTo
<1> HIDE DEF H, a, c
<1>7. w \in 0..(2 * (a * c) - 1)
  BY <1>2
<1>8. /\ v % 2 = (w \div a) % 2
      /\ (v \div 2) + (v % 2) * (a * c) = (w % (2 * a)) * c + (w \div (2 * a))
  <2>1. /\ a \in Nat \ {0} /\ c \in Nat \ {0} /\ w \in 0..(2 * (a * c) - 1)
        /\ v = (w % a) * (2 * c) + (w \div a)
    BY <1>2, <1>3, <1>7, Zenon
  <2> QED BY <2>1, RotateRightStep, ZenonT(60)
<1> QED BY <1>2, <1>4, <1>5, <1>6, <1>8

Moves == [word : Int, out : Int]

\* A word that moves n times.
MovesOf(op, bits, word, n, g) ==
  /\ g \in [0..n -> Moves] /\ g[0] = [word |-> word, out |-> 0]
  /\ \A k \in 1..n : g[k] = Move(op, bits, g[k - 1].word)

LEMMA MoveTyped ==
  ASSUME NEW op \in Shifts, NEW bits \in Nat \ {0}, NEW word \in Int
  PROVE  Move(op, bits, word) \in Moves
<1> DEFINE half == Pow2[bits - 1]
           top == word \div half
           low == word % 2
           rest == word \div 2
<1>1. half \in Nat \ {0}
  <2>1. bits - 1 \in Nat
    OBVIOUS
  <2> QED BY <2>1, Powers
<1> HIDE DEF half
<1>2. top \in Int /\ low \in Int /\ rest \in Int
  <2>1. top \in Int
    BY <1>1, Divided
  <2>2. low \in 0..(2 - 1) /\ rest \in Int
    BY Divided
  <2> QED BY <2>1, <2>2
<1> HIDE DEF top, low, rest
<1>3. (word - top * half) * 2 \in Int /\ (word - top * half) * 2 + top \in Int
  BY <1>1, <1>2
<1>4. rest + top * half \in Int /\ rest + low * half \in Int
  BY <1>1, <1>2
<1> DEFINE a == (word - top * half) * 2
           b == (word - top * half) * 2 + top
           c == rest + top * half
           d == rest + low * half
<1>5. /\ op = "SL" => Move(op, bits, word) = [word |-> a, out |-> top]
      /\ op = "SR" => Move(op, bits, word) = [word |-> rest, out |-> low]
      /\ op = "SS" => Move(op, bits, word) = [word |-> c, out |-> low]
      /\ op = "RL" => Move(op, bits, word) = [word |-> b, out |-> top]
      /\ op = "RR" => Move(op, bits, word) = [word |-> d, out |-> low]
  BY Zenon DEF Move, half, top, low, rest
<1>6. a \in Int /\ b \in Int /\ c \in Int /\ d \in Int
  BY <1>3, <1>4
<1> HIDE DEF a, b, c, d
<1> QED BY <1>2, <1>5, <1>6 DEF Shifts, Moves

LEMMA MovedFacts ==
  ASSUME NEW op \in Shifts, NEW bits \in Nat \ {0}, NEW word \in Int, NEW n \in Nat
  PROVE  \E g : MovesOf(op, bits, word, n, g) /\ Moved(op, bits, word, n) = g[n]
<1> DEFINE c == [word |-> word, out |-> 0]
           F == [x \in Moves \X (1..n) |-> Move(op, bits, x[1].word)]
<1>1. c \in Moves
  BY DEF Moves
<1>2. F \in [Moves \X (1..n) -> Moves]
  <2>1. ASSUME NEW x \in Moves \X (1..n) PROVE Move(op, bits, x[1].word) \in Moves
    <3>1. x[1].word \in Int
      BY DEF Moves
    <3> QED BY <3>1, MoveTyped
  <2> QED BY <2>1
<1>3. PICK g : StepByStep(g, Moves, c, n, F)
  <2> HIDE DEF c, F
  <2>1. \E g : StepByStep(g, Moves, c, n, F)
    BY <1>1, <1>2, Recursion, Zenon
  <2> QED BY <2>1
<1>4. ASSUME NEW k \in 1..n PROVE g[k] = Move(op, bits, g[k - 1].word)
  <2>1. g[k - 1] \in Moves /\ <<g[k - 1], k>> \in Moves \X (1..n)
    BY <1>3 DEF StepByStep
  <2>2. F[<<g[k - 1], k>>] = Move(op, bits, g[k - 1].word)
    BY <2>1
  <2> QED BY <1>3, <2>2 DEF StepByStep
<1>5. g \in [0..n -> Moves] /\ g[0] = c
  BY <1>3 DEF StepByStep
<1> HIDE DEF F
<1>6. g = [k \in 0..n |-> IF k = 0 THEN [word |-> word, out |-> 0] ELSE Move(op, bits, g[k - 1].word)]
  <2>1. ASSUME NEW k \in 0..n
        PROVE  g[k] = IF k = 0 THEN [word |-> word, out |-> 0] ELSE Move(op, bits, g[k - 1].word)
    <3>1. k = 0 \/ k \in 1..n
      OBVIOUS
    <3> QED BY <1>4, <1>5, <3>1
  <2> QED BY <1>5, <2>1
<1>7. MovesOf(op, bits, word, n, g)
  BY <1>4, <1>5 DEF MovesOf
<1> DEFINE m == CHOOSE h : h = [k \in 0..n |-> IF k = 0 THEN [word |-> word, out |-> 0]
                                                ELSE Move(op, bits, h[k - 1].word)]
<1>8. m = [k \in 0..n |-> IF k = 0 THEN [word |-> word, out |-> 0] ELSE Move(op, bits, m[k - 1].word)]
  BY <1>6, Zenon
<1>9. Moved(op, bits, word, n) = m[n]
  BY Zenon DEF Moved
<1>10. MovesOf(op, bits, word, n, m)
  <2> HIDE DEF m
  <2>1. PICK h : h = m
    OBVIOUS
  <2>2. h = [k \in 0..n |-> IF k = 0 THEN [word |-> word, out |-> 0] ELSE Move(op, bits, h[k - 1].word)]
    BY <1>8, <2>1, Zenon
  <2>3. h[0] = [word |-> word, out |-> 0] /\ \A k \in 1..n : h[k] = Move(op, bits, h[k - 1].word)
    BY <2>2
  <2>4. \A k \in 0..n : h[k] = g[k]
    <3> DEFINE S == {k \in Nat : k <= n => h[k] = g[k]}
    <3>1. 0 \in S
      BY <1>5, <2>3
    <3>2. ASSUME NEW k \in Nat, k \in S PROVE k + 1 \in S
      <4> SUFFICES ASSUME k + 1 <= n PROVE h[k + 1] = g[k + 1]
        OBVIOUS
      <4>1. k + 1 \in 1..n /\ (k + 1) - 1 = k /\ h[k] = g[k]
        BY <3>2
      <4>2. h[k + 1] = Move(op, bits, h[k].word) /\ g[k + 1] = Move(op, bits, g[k].word)
        BY <1>4, <2>3, <4>1
      <4> QED BY <4>1, <4>2
    <3> HIDE DEF S
    <3>3. Nat \subseteq S
      BY <3>1, <3>2, SetInduction
    <3> QED BY <3>3 DEF S
  <2>5. DOMAIN h = 0..n
    BY <2>2
  <2>6. h = [k \in 0..n |-> h[k]] /\ g = [k \in 0..n |-> g[k]]
    BY <1>5, <2>2
  <2>7. h = g
    BY <2>4, <2>6
  <2> QED BY <1>7, <2>1, <2>7
<1> QED BY <1>9, <1>10, Zenon

LEMMA ByOne ==
  ASSUME NEW x \in Int
  PROVE  x \div 1 = x /\ x % 1 = 0
<1> DEFINE r == 0
<1>1. r \in 0..(1 - 1) /\ x = 1 * x + r /\ r = 0
  OBVIOUS
<1> HIDE DEF r
<1>2. (1 * x + r) \div 1 = x /\ (1 * x + r) % 1 = r
  BY <1>1, Quotients
<1> QED BY <1>1, <1>2

LEMMA Below ==
  ASSUME NEW M \in Nat \ {0}, NEW w \in 0..(M - 1)
  PROVE  w \div M = 0 /\ w % M = w /\ w \in Nat
<1>1. w = M * 0 + w /\ w \in Nat
  OBVIOUS
<1>2. (M * 0 + w) \div M = 0 /\ (M * 0 + w) % M = w
  BY Quotients
<1> QED BY <1>1, <1>2

LEMMA NotMoved ==
  ASSUME NEW op \in Shifts, NEW t \in Types, NEW w \in 0..(Width(t) - 1)
  PROVE  MovedTo(op, t, w, 0, w)
<1> DEFINE W == Width(t)
           b == BitsOf(t)
           x == SignedOf(t, w)
<1>1. W \in Nat \ {0} /\ b \in Nat /\ Pow2[0] = 1 /\ Pow2[b - 0] = W
  <2>1. b \in Nat /\ Pow2[b] = W
    BY Widths DEF Width
  <2>2. b - 0 = b
    BY <2>1
  <2> QED BY <2>1, <2>2, Widths, Powers
<1>2. w \div W = 0 /\ w % W = w /\ w \in Nat
  BY <1>1, Below
<1>3. w \div 1 = w /\ w % 1 = 0
  BY <1>2, ByOne
<1>4. x \in Int /\ x \div 1 = x
  BY <1>2, SignedFacts, ByOne
<1>5. Same(t, w, w * 1)
  <2>1. w * 1 = w
    BY <1>2
  <2> QED BY <1>2, <2>1, SameFacts
<1>6. w = w * 1 + 0 /\ w = 0 * W + w
  BY <1>1, <1>2
<1> HIDE DEF W, b, x
<1>7. CASE op = "SL"
  BY <1>1, <1>5, <1>7 DEF MovedTo
<1>8. CASE op = "SR"
  BY <1>1, <1>3, <1>8 DEF MovedTo
<1>9. CASE op = "SS"
  BY <1>1, <1>4, <1>9 DEF MovedTo, x
<1>10. CASE op = "RL"
  <2>1. w = (w % Pow2[b - 0]) * Pow2[0] + (w \div Pow2[b - 0])
    BY <1>1, <1>2, <1>6
  <2> QED BY <1>10, <2>1 DEF MovedTo, b
<1>11. CASE op = "RR"
  <2>1. w = (w % Pow2[0]) * Pow2[b - 0] + (w \div Pow2[0])
    BY <1>1, <1>3, <1>6
  <2> QED BY <1>11, <2>1 DEF MovedTo, b
<1> QED BY <1>7, <1>8, <1>9, <1>10, <1>11 DEF Shifts

\* One more move.
LEMMA MoveOnce ==
  ASSUME NEW op \in Shifts, NEW t \in Types, NEW w \in 0..(Width(t) - 1), NEW k \in Nat \ {0},
         op \in {"RL", "RR"} => k <= BitsOf(t), NEW v, MovedTo(op, t, w, k - 1, v)
  PROVE  /\ MovedTo(op, t, w, k, Move(op, BitsOf(t), v).word)
         /\ k <= BitsOf(t) => Move(op, BitsOf(t), v).out = LeavesWith(op, t, w, k)
<1>1. CASE op = "SL"
  BY <1>1, MoveLeft
<1>2. CASE op = "SR"
  BY <1>2, MoveRight
<1>3. CASE op = "SS"
  BY <1>3, MoveSigned
<1>4. CASE op = "RL"
  <2>1. k \in 1..BitsOf(t)
    BY <1>4, Widths
  <2> QED BY <1>4, <2>1, MoveAroundLeft
<1>5. CASE op = "RR"
  <2>1. k \in 1..BitsOf(t)
    BY <1>5, Widths
  <2> QED BY <1>5, <2>1, MoveAroundRight
<1> QED BY <1>1, <1>2, <1>3, <1>4, <1>5 DEF Shifts

LEMMA ManyMoves ==
  ASSUME NEW op \in Shifts, NEW t \in Types, NEW w \in 0..(Width(t) - 1), NEW n \in Nat,
         op \in {"RL", "RR"} => n <= BitsOf(t), NEW g, MovesOf(op, BitsOf(t), w, n, g)
  PROVE  /\ MovedTo(op, t, w, n, g[n].word)
         /\ n >= 1 /\ n <= BitsOf(t) => g[n].out = LeavesWith(op, t, w, n)
<1> DEFINE b == BitsOf(t)
           Ok(k) == /\ MovedTo(op, t, w, k, g[k].word)
                    /\ k >= 1 /\ k <= b => g[k].out = LeavesWith(op, t, w, k)
           S == {k \in Nat : k <= n => Ok(k)}
<1>1. b \in Nat
  BY Widths
<1>2. Ok(0)
  <2>1. g[0].word = w
    BY DEF MovesOf
  <2>2. MovedTo(op, t, w, 0, g[0].word)
    BY <2>1, NotMoved
  <2> QED BY <2>2
<1>3. ASSUME NEW k \in Nat, k + 1 <= n, Ok(k) PROVE Ok(k + 1)
  <2>1. k + 1 \in Nat \ {0} /\ (k + 1) - 1 = k /\ k + 1 \in 1..n
    BY <1>3
  <2>2. g[k + 1] = Move(op, b, g[k].word)
    BY <2>1 DEF MovesOf
  <2>3. MovedTo(op, t, w, (k + 1) - 1, g[k].word)
    BY <1>3, <2>1
  <2>4. op \in {"RL", "RR"} => k + 1 <= b
    BY <1>1, <1>3
  <2>5. /\ MovedTo(op, t, w, k + 1, Move(op, b, g[k].word).word)
        /\ k + 1 <= b => Move(op, b, g[k].word).out = LeavesWith(op, t, w, k + 1)
    BY <2>1, <2>3, <2>4, MoveOnce
  <2> QED BY <2>2, <2>5
<1> HIDE DEF Ok
<1>4. 0 \in S
  BY <1>2
<1>5. ASSUME NEW k \in Nat, k \in S PROVE k + 1 \in S
  BY <1>3, <1>5
<1> HIDE DEF S
<1>6. n \in S
  BY <1>4, <1>5, SetInduction
<1> QED BY <1>6 DEF S, Ok

LEMMA LeavesBit ==
  ASSUME NEW op \in Shifts, NEW t \in Types, NEW w \in Int, NEW k \in Nat \ {0}, k <= BitsOf(t)
  PROVE  LeavesWith(op, t, w, k) \in {0, 1}
<1> DEFINE a == Pow2[k - 1]
           c == Pow2[BitsOf(t) - k]
           x == SignedOf(t, w)
           i == w \div a
           j == w \div c
           l == x \div a
<1>1. a \in Nat \ {0} /\ c \in Nat \ {0}
  BY PowersOfMove
<1>2. x \in Int
  BY SignedFacts
<1> HIDE DEF a, c, x
<1>3. i \in Int /\ j \in Int /\ l \in Int
  BY <1>1, <1>2, Divided
<1> HIDE DEF i, j, l
<1>4. i % 2 \in {0, 1} /\ j % 2 \in {0, 1} /\ l % 2 \in {0, 1}
  BY <1>3
<1>5. LeavesWith(op, t, w, k) \in {i % 2, j % 2, l % 2}
  BY Zenon DEF LeavesWith, Shifts, i, j, l, a, c, x
<1> QED BY <1>4, <1>5

\* More moves than a word has bits.
LEMMA MovedOut ==
  ASSUME NEW t \in Types, NEW n \in Nat, n > BitsOf(t)
  PROVE  /\ Pow2[n - BitsOf(t)] \in Nat \ {0} /\ Pow2[n] = Width(t) * Pow2[n - BitsOf(t)]
         /\ Pow2[n] \in Nat \ {0} /\ Width(t) <= Pow2[n]
<1> DEFINE b == BitsOf(t)
           d == n - b
<1>1. b \in Nat /\ Pow2[b] = Width(t) /\ Width(t) \in Nat \ {0}
  BY Widths DEF Width
<1> HIDE DEF b
<1>2. d \in Nat /\ b + d = n
  BY <1>1 DEF b
<1> HIDE DEF d
<1>3. Pow2[d] \in Nat \ {0} /\ Pow2[b + d] = Pow2[b] * Pow2[d]
  BY <1>1, <1>2, Powers, PowerOfSum
<1> DEFINE p == Pow2[d]
           W == Width(t)
<1>4. p \in Nat \ {0} /\ W \in Nat \ {0} /\ Pow2[n] = W * p
  BY <1>1, <1>2, <1>3
<1> HIDE DEF p, W
<1>5. W * p \in Nat \ {0} /\ W <= W * p
  BY <1>4
<1> QED BY <1>4, <1>5 DEF p, W, d, b

\* A quotient by more than the bits of a signed word.
LEMMA SignLeft ==
  ASSUME NEW x \in Int, NEW H \in Nat \ {0}, -H <= x, x < H, NEW M \in Nat \ {0}, H <= M
  PROVE  x \div M = IF x < 0 THEN -1 ELSE 0
<1>1. CASE x >= 0
  <2>1. x \in 0..(M - 1)
    BY <1>1
  <2> QED BY <1>1, <2>1, Below
<1>2. CASE x < 0
  <2> DEFINE q == -1
             r == M + x
  <2>1. q \in Int /\ r \in 0..(M - 1) /\ x = M * q + r
    BY <1>2
  <2>2. q = -1
    OBVIOUS
  <2> HIDE DEF q, r
  <2>3. (M * q + r) \div M = q
    BY <2>1, Quotients
  <2> QED BY <1>2, <2>1, <2>2, <2>3
<1> QED BY <1>1, <1>2

LEMMA LeftIsMoved ==
  ASSUME NEW t \in Types, NEW w \in 0..(Width(t) - 1), NEW n \in Nat \ {0}, NEW v,
         MovedTo("SL", t, w, n, v)
  PROVE  v \in Int /\ Same(t, w * Pow2[IF n > BitsOf(t) THEN BitsOf(t) ELSE n], v)
<1> DEFINE W == Width(t)
           p == Pow2[n]
<1>1. W \in Nat \ {0} /\ w \in Int /\ p \in Nat \ {0} /\ BitsOf(t) \in Nat
  BY Widths, Powers
<1>2. v \in Int /\ Same(t, v, w * p)
  <2>1. v \in 0..(W - 1)
    BY DEF MovedTo
  <2> QED BY <1>1, <2>1 DEF MovedTo
<1>3. w * p \in Int
  <2> HIDE DEF p
  <2> QED BY <1>1
<1>4. Same(t, w * p, v)
  BY <1>2, <1>3, SameFacts
<1>5. CASE n > BitsOf(t)
  <2> DEFINE d == Pow2[n - BitsOf(t)]
  <2>1. d \in Nat \ {0} /\ p = W * d /\ Pow2[BitsOf(t)] = W
    BY <1>5, MovedOut DEF Width
  <2> HIDE DEF d
  <2>2. Same(t, w * W, w * p)
    <3>0. Width(t) = W
      OBVIOUS
    <3> HIDE DEF W, p
    <3>1. w * (W * d) = W * (w * d) /\ W * w = w * W /\ w * d \in Int
      BY <1>1, <2>1
    <3>2. W * (w - w * d) = W * w - W * (w * d)
      BY <1>1, <3>1
    <3>3. W * w \in Int /\ W * (w * d) \in Int
      BY <1>1, <3>1
    <3>4. w * W = w * p + W * (w - w * d) /\ w - w * d \in Int
      BY <2>1, <3>1, <3>2, <3>3
    <3> QED BY <3>0, <3>4 DEF Same
  <2>3. w * W \in Int
    BY <1>1
  <2>4. Same(t, w * W, v)
    BY <1>2, <1>3, <1>4, <2>2, <2>3, SameFacts
  <2> QED BY <1>2, <1>5, <2>1, <2>4
<1>6. CASE ~(n > BitsOf(t))
  BY <1>2, <1>4, <1>6
<1> QED BY <1>5, <1>6

LEMMA RightIsMoved ==
  ASSUME NEW t \in Types, NEW w \in 0..(Width(t) - 1), NEW n \in Nat \ {0}, NEW v,
         MovedTo("SR", t, w, n, v)
  PROVE  v \in Int /\ Same(t, w \div Pow2[IF n > BitsOf(t) THEN BitsOf(t) ELSE n], v)
<1>1. Width(t) \in Nat \ {0} /\ w \in Int /\ Pow2[n] \in Nat \ {0} /\ BitsOf(t) \in Nat
  BY Widths, Powers
<1>2. v = w \div Pow2[n] /\ v \in Int
  <2>1. v = w \div Pow2[n]
    BY DEF MovedTo
  <2> QED BY <1>1, <2>1, Divided
<1>3. w \div Pow2[IF n > BitsOf(t) THEN BitsOf(t) ELSE n] = v
  <2>1. CASE n > BitsOf(t)
    <3> DEFINE W == Width(t)
               p == Pow2[n]
    <3>1. W \in Nat \ {0} /\ W <= p /\ p \in Nat \ {0} /\ Pow2[BitsOf(t)] = W /\ w \in 0..(W - 1)
      BY <1>1, <2>1, MovedOut DEF Width
    <3>2. v = w \div p
      BY <1>2
    <3> HIDE DEF W, p
    <3>3. w \in 0..(p - 1)
      BY <3>1
    <3>4. w \div W = 0 /\ w \div p = 0
      BY <3>1, <3>3, Below
    <3> QED BY <2>1, <3>1, <3>2, <3>4
  <2>2. CASE ~(n > BitsOf(t))
    BY <1>2, <2>2
  <2> QED BY <2>1, <2>2
<1> QED BY <1>2, <1>3, SameFacts

LEMMA SignedIsMoved ==
  ASSUME NEW t \in Types, NEW w \in 0..(Width(t) - 1), NEW n \in Nat \ {0}, NEW v,
         MovedTo("SS", t, w, n, v)
  PROVE  v \in Int /\ Same(t, SignedOf(t, w) \div Pow2[IF n > BitsOf(t) THEN BitsOf(t) ELSE n], v)
<1> DEFINE x == SignedOf(t, w)
           H == HalfWidth(t)
<1>1. /\ Width(t) \in Nat \ {0} /\ w \in Int /\ Pow2[n] \in Nat \ {0} /\ BitsOf(t) \in Nat
      /\ H \in Nat \ {0} /\ Width(t) = 2 * H
  BY Widths, Powers
<1>2. x \in Int /\ -H <= x /\ x < H
  BY <1>1, SignedFacts DEF Fits, HalfWidth
<1>3. v \in Int /\ SignedOf(t, v) = x \div Pow2[n]
  <2>1. v \in 0..(Width(t) - 1)
    BY DEF MovedTo
  <2> QED BY <1>1, <2>1 DEF MovedTo
<1>4. x \div Pow2[IF n > BitsOf(t) THEN BitsOf(t) ELSE n] = SignedOf(t, v)
  <2>1. CASE n > BitsOf(t)
    <3> DEFINE W == Width(t)
               p == Pow2[n]
    <3>1. W \in Nat \ {0} /\ W <= p /\ p \in Nat \ {0} /\ Pow2[BitsOf(t)] = W /\ W = 2 * H
      BY <1>1, <2>1, MovedOut DEF Width
    <3>2. SignedOf(t, v) = x \div p
      BY <1>3
    <3> HIDE DEF W, p, H, x
    <3>3. H <= W /\ H <= p
      BY <1>1, <3>1
    <3>4. x \div W = x \div p
      BY <1>1, <1>2, <3>1, <3>3, SignLeft
    <3> QED BY <2>1, <3>1, <3>2, <3>4
  <2>2. CASE ~(n > BitsOf(t))
    BY <1>3, <2>2
  <2> QED BY <2>1, <2>2
<1>5. Same(t, SignedOf(t, v), v)
  BY <1>3, SignedFacts, SameFacts
<1> QED BY <1>3, <1>4, <1>5

\* What a rotation computes without a mask.
LEMMA TurnedLeft ==
  ASSUME NEW c \in Nat \ {0}, NEW e \in Nat \ {0}, NEW w \in Int
  PROVE  /\ w * (2 * e) + (w \div c) = ((w % c) * (2 * e) + (w \div c)) + (c * (2 * e)) * (w \div c)
         /\ (w * (2 * e) + (w \div c)) % 2 = (w \div c) % 2
         /\ w * (2 * e) + (w \div c) \in Int /\ (w % c) * (2 * e) + (w \div c) \in Int
         /\ w \div c \in Int
<1> DEFINE q == w \div c
           r == w % c
           s == q % 2
           p == q \div 2
           z == w * e
           rotated == w * (2 * e) + q
<1>1. q \in Int /\ r \in 0..(c - 1) /\ w = c * q + r
  BY Divided
<1> HIDE DEF q, r
<1>2. p \in Int /\ s \in 0..(2 - 1) /\ q = 2 * p + s
  BY <1>1, Divided
<1> HIDE DEF p, s
<1>3. w * (2 * e) = 2 * z /\ z \in Int
  OBVIOUS
<1>4. /\ w * (2 * e) = (c * (2 * e)) * q + r * (2 * e) /\ r * (2 * e) \in Int
      /\ (c * (2 * e)) * q \in Int
  BY <1>1
<1> HIDE DEF z
<1>5. rotated = 2 * (z + p) + s /\ z + p \in Int
  BY <1>2, <1>3
<1>6. rotated % 2 = s
  <2> DEFINE y == z + p
  <2>1. rotated = 2 * y + s /\ y \in Int
    BY <1>5
  <2> HIDE DEF rotated, y
  <2> QED BY <1>2, <2>1, Quotients
<1>7. rotated = (r * (2 * e) + q) + (c * (2 * e)) * q
  <2> DEFINE y == w * (2 * e)
             u == r * (2 * e)
             i == (c * (2 * e)) * q
  <2>1. y = i + u /\ u \in Int /\ i \in Int /\ q \in Int
    BY <1>1, <1>4
  <2> HIDE DEF y, u, i
  <2>2. y + q = (u + q) + i
    BY <2>1
  <2> QED BY <2>2 DEF y, u, i
<1>8. rotated \in Int /\ r * (2 * e) + q \in Int
  BY <1>1, <1>2, <1>4, <1>5
<1> QED BY <1>1, <1>6, <1>7, <1>8 DEF q, r, s

LEMMA TurnedRight ==
  ASSUME NEW c \in Nat \ {0}, NEW e \in Nat \ {0}, NEW w \in Int
  PROVE  /\ (w \div e) + w * c = ((w % e) * c + (w \div e)) + (e * c) * (w \div e)
         /\ (w \div e) + w * c \in Int /\ (w % e) * c + (w \div e) \in Int /\ w \div e \in Int
<1> DEFINE q == w \div e
           r == w % e
<1>1. q \in Int /\ r \in 0..(e - 1) /\ w = e * q + r
  BY Divided
<1> HIDE DEF q, r
<1>2. w * c = (e * c) * q + r * c /\ r * c \in Int /\ (e * c) * q \in Int
  BY <1>1
<1>3. q + w * c = (r * c + q) + (e * c) * q
  <2> DEFINE y == w * c
             u == r * c
             i == (e * c) * q
  <2>1. y = i + u /\ u \in Int /\ i \in Int /\ q \in Int
    BY <1>1, <1>2
  <2> HIDE DEF y, u, i
  <2>2. q + y = (u + q) + i
    BY <2>1
  <2> QED BY <2>2 DEF y, u, i
<1>4. q + w * c \in Int /\ r * c + q \in Int
  <2> DEFINE y == w * c
             u == r * c
  <2>1. y \in Int /\ u \in Int /\ q \in Int
    BY <1>1, <1>2
  <2> HIDE DEF y, u
  <2>2. q + y \in Int /\ u + q \in Int
    BY <2>1
  <2> QED BY <2>2 DEF y, u
<1> QED BY <1>1, <1>3, <1>4 DEF q, r

\* The powers of a whole rotation.
LEMMA PowersAround ==
  ASSUME NEW t \in Types, NEW n \in Nat \ {0}, n <= BitsOf(t)
  PROVE  /\ Pow2[n - 1] \in Nat \ {0} /\ Pow2[n] = 2 * Pow2[n - 1] /\ Pow2[n] \in Nat \ {0}
         /\ Pow2[BitsOf(t) - n] \in Nat \ {0}
         /\ Width(t) = Pow2[BitsOf(t) - n] * Pow2[n] /\ Width(t) = Pow2[n] * Pow2[BitsOf(t) - n]
         /\ Width(t) = 2 * (Pow2[n - 1] * Pow2[BitsOf(t) - n])
<1> DEFINE e == Pow2[n - 1]
           c == Pow2[BitsOf(t) - n]
<1>1. /\ e \in Nat \ {0} /\ Pow2[n] = 2 * e /\ c \in Nat \ {0} /\ Width(t) = 2 * HalfWidth(t)
      /\ HalfWidth(t) = c * e /\ HalfWidth(t) = e * c
  BY Widths, PowersOfMove
<1> HIDE DEF e, c
<1>2. c * (2 * e) = 2 * (c * e) /\ (2 * e) * c = 2 * (e * c) /\ 2 * e \in Nat \ {0}
  BY <1>1
<1> QED BY <1>1, <1>2 DEF e, c

LEMMA AroundLeftIsMoved ==
  ASSUME NEW t \in Types, NEW w \in 0..(Width(t) - 1), NEW n \in Nat \ {0}, n <= BitsOf(t),
         NEW v, MovedTo("RL", t, w, n, v),
         NEW rotated, rotated = w * Pow2[n] + (w \div Pow2[BitsOf(t) - n])
  PROVE  /\ v \in Int /\ rotated \in Int /\ Same(t, rotated, v)
         /\ rotated % 2 = LeavesWith("RL", t, w, n)
<1> DEFINE e == Pow2[n - 1]
           c == Pow2[BitsOf(t) - n]
<1>1. e \in Nat \ {0} /\ Pow2[n] = 2 * e /\ c \in Nat \ {0} /\ Width(t) = c * (2 * e)
  BY PowersAround
<1>2. w \in Int
  BY Widths
<1>3. v = (w % c) * (2 * e) + (w \div c) /\ rotated = w * (2 * e) + (w \div c)
  BY <1>1 DEF MovedTo
<1>4. LeavesWith("RL", t, w, n) = (w \div c) % 2
  BY DEF LeavesWith
<1> HIDE DEF c, e
<1>5. /\ w * (2 * e) + (w \div c) = ((w % c) * (2 * e) + (w \div c)) + (c * (2 * e)) * (w \div c)
      /\ (w * (2 * e) + (w \div c)) % 2 = (w \div c) % 2
      /\ w * (2 * e) + (w \div c) \in Int /\ (w % c) * (2 * e) + (w \div c) \in Int
      /\ w \div c \in Int
  BY <1>1, <1>2, TurnedLeft, Zenon
<1>6. rotated = v + Width(t) * (w \div c)
  BY <1>1, <1>3, <1>5, Zenon
<1>7. v \in Int /\ rotated \in Int /\ w \div c \in Int
  BY <1>3, <1>5, Zenon
<1>8. Same(t, rotated, v)
  BY <1>6, <1>7, Zenon DEF Same
<1>9. rotated % 2 = LeavesWith("RL", t, w, n)
  BY <1>3, <1>4, <1>5, Zenon
<1> QED BY <1>7, <1>8, <1>9

LEMMA AroundRightIsMoved ==
  ASSUME NEW t \in Types, NEW w \in 0..(Width(t) - 1), NEW n \in Nat \ {0}, n <= BitsOf(t),
         NEW v, MovedTo("RR", t, w, n, v),
         NEW rotated, rotated = (w \div Pow2[n]) + w * Pow2[BitsOf(t) - n]
  PROVE  /\ v \in Int /\ rotated \in Int /\ Same(t, rotated, v)
         /\ rotated \div HalfWidth(t) \in Int
         /\ (rotated \div HalfWidth(t)) % 2 = LeavesWith("RR", t, w, n)
<1> DEFINE e == Pow2[n]
           a == Pow2[n - 1]
           c == Pow2[BitsOf(t) - n]
           H == HalfWidth(t)
<1>1. /\ e \in Nat \ {0} /\ c \in Nat \ {0} /\ Width(t) = e * c
      /\ a \in Nat \ {0} /\ e = 2 * a /\ Width(t) = 2 * (a * c)
  BY PowersAround
<1>2. w \in Int /\ H \in Nat \ {0} /\ H = a * c
  BY Widths, PowersOfMove
<1>3. v = (w % e) * c + (w \div e) /\ rotated = (w \div e) + w * c
  BY <1>1 DEF MovedTo
<1>4. LeavesWith("RR", t, w, n) = (w \div a) % 2
  BY DEF LeavesWith
<1> HIDE DEF c, e, a, H
<1>5. /\ (w \div e) + w * c = ((w % e) * c + (w \div e)) + (e * c) * (w \div e)
      /\ (w \div e) + w * c \in Int /\ (w % e) * c + (w \div e) \in Int /\ w \div e \in Int
  BY <1>1, <1>2, TurnedRight, Zenon
<1>6. rotated = v + Width(t) * (w \div e)
  BY <1>1, <1>3, <1>5, Zenon
<1>7. v \in Int /\ rotated \in Int /\ w \div e \in Int
  BY <1>3, <1>5, Zenon
<1>8. Same(t, rotated, v)
  BY <1>6, <1>7, Zenon DEF Same
<1>9. ((w \div (2 * a)) + w * c) \div (a * c) = w \div a
  <2>1. w \in 0..(2 * (a * c) - 1)
    BY <1>1
  <2> QED BY <1>1, <2>1, RotateRightOut, Zenon
<1>10. rotated \div H = w \div a
  BY <1>1, <1>2, <1>3, <1>9, Zenon
<1>11. rotated \div H \in Int
  BY <1>2, <1>7, Divided, Zenon
<1> QED BY <1>4, <1>7, <1>8, <1>10, <1>11, Zenon DEF H

LEMMA MovesCounted ==
  ASSUME NEW t \in Types, NEW n \in Nat \ {0}, NEW count,
         count = IF n > BitsOf(t) THEN BitsOf(t) ELSE n
  PROVE  /\ count \in Nat \ {0} /\ count <= BitsOf(t)
         /\ Pow2[count] \in Nat \ {0} /\ Pow2[count - 1] \in Nat \ {0}
         /\ Pow2[BitsOf(t) - count] \in Nat \ {0}
<1>1. BitsOf(t) \in Nat \ {0}
  BY Widths
<1>2. count \in Nat \ {0} /\ count <= BitsOf(t)
  BY <1>1
<1> QED BY <1>2, PowersAround

\* What the code computes for a shift, seen in a word, is so many moves.
Agrees(op, t, n, s, m) ==
  /\ s.word \in Int /\ s.out \in Int /\ m.word \in Int /\ Same(t, s.word, m.word)
  /\ n <= BitsOf(t) => m.out \in {0, 1} /\ s.out % 2 = m.out

LEMMA ShiftIsMoved ==
  ASSUME NEW op \in Shifts, NEW t \in Types, NEW n \in Nat \ {0}, accu[1] \in Words,
         op \in {"RL", "RR"} => t = "D" /\ n <= BitsOf(t)
  PROVE  Agrees(op, t, n, Shifted(op, t, IF n > BitsOf(t) THEN BitsOf(t) ELSE n),
                Moved(op, BitsOf(t), accu[1] % Width(t), n))
<1> DEFINE b == BitsOf(t)
           count == IF n > b THEN b ELSE n
           w == accu[1] % Width(t)
           m == Moved(op, b, w, n)
           v == m.word
           s == Shifted(op, t, count)
<1>1. b \in Nat \ {0} /\ Width(t) \in Nat \ {0} /\ accu[1] \in Int
  BY Widths, WordsAreNumbers
<1>2. w \in 0..(Width(t) - 1) /\ w \in Int /\ Same(t, w, accu[1])
  <2>1. w \in 0..(Width(t) - 1) /\ Same(t, w, accu[1])
    BY <1>1, RestIsSame
  <2> QED BY <1>1, <2>1
<1>3. /\ count \in Nat \ {0} /\ count <= b
      /\ Pow2[count] \in Nat \ {0} /\ Pow2[count - 1] \in Nat \ {0} /\ Pow2[b - count] \in Nat \ {0}
  BY MovesCounted
<1>4. n <= b => count = n
  BY <1>1
<1> HIDE DEF w
<1>5. MovedTo(op, t, w, n, v) /\ (n <= b => m.out = LeavesWith(op, t, w, n))
  <2>1. PICK g : MovesOf(op, b, w, n, g) /\ m = g[n]
    <3>1. n \in Nat
      OBVIOUS
    <3> QED BY <1>1, <1>2, <3>1, MovedFacts, Zenon
  <2> QED BY <1>2, <2>1, ManyMoves
<1> HIDE DEF m, v, count
<1>6. n <= b => m.out \in {0, 1}
  BY <1>2, <1>5, LeavesBit
<1>7. CASE op = "SL"
  <2> DEFINE p == Pow2[count]
             q == w \div Pow2[b - count]
  <2>1. s.word = w * p /\ s.out = q
    BY <1>7 DEF Shifted, ShiftLeft, w
  <2>2. v \in Int /\ Same(t, w * p, v)
    BY <1>2, <1>5, <1>7, LeftIsMoved DEF count
  <2>3. q \in Int
    BY <1>2, <1>3, Divided
  <2>4. n <= b => q % 2 = LeavesWith(op, t, w, n)
    BY <1>4, <1>7 DEF LeavesWith
  <2>5. w * p \in Int
    <3>1. p \in Nat
      BY <1>3
    <3> HIDE DEF p
    <3> QED BY <1>2, <3>1
  <2> HIDE DEF s, p, q
  <2> QED BY <1>5, <1>6, <2>1, <2>2, <2>3, <2>4, <2>5 DEF Agrees, s, v, m, w, count
<1>8. CASE op = "SR"
  <2> DEFINE p == w \div Pow2[count]
             q == w \div Pow2[count - 1]
  <2>1. s.word = p /\ s.out = q
    BY <1>8 DEF Shifted, ShiftRight, w
  <2>2. v \in Int /\ Same(t, p, v)
    BY <1>2, <1>5, <1>8, RightIsMoved DEF count
  <2>3. q \in Int /\ p \in Int
    BY <1>2, <1>3, Divided
  <2>4. n <= b => q % 2 = LeavesWith(op, t, w, n)
    BY <1>4, <1>8 DEF LeavesWith
  <2> HIDE DEF s, p, q
  <2> QED BY <1>5, <1>6, <2>1, <2>2, <2>3, <2>4 DEF Agrees, s, v, m, w, count
<1>9. CASE op = "SS"
  <2> DEFINE x == SignedOf(t, w)
             p == x \div Pow2[count]
             q == x \div Pow2[count - 1]
  <2>0. x = SignedOf(t, accu[1]) /\ x \in Int
    BY <1>1, <1>2, SignedFacts, SignedSame
  <2>1. s.word = p /\ s.out = q
    BY <1>9, <2>0 DEF Shifted, ShiftSigned
  <2>2. v \in Int /\ Same(t, p, v)
    BY <1>2, <1>5, <1>9, SignedIsMoved DEF count
  <2> HIDE DEF x
  <2>3. q \in Int /\ p \in Int
    BY <1>3, <2>0, Divided
  <2>4. n <= b => q % 2 = LeavesWith(op, t, w, n)
    BY <1>4, <1>9 DEF LeavesWith, x
  <2> HIDE DEF s, p, q
  <2> QED BY <1>5, <1>6, <2>1, <2>2, <2>3, <2>4 DEF Agrees, s, v, m, w, count
<1>10. CASE op \in {"RL", "RR"}
  <2>1. n <= b /\ count = n /\ accu[1] = w
    <3>1. Width("D") \in Nat \ {0} /\ accu[1] \in 0..(Width("D") - 1)
      BY DoubleWord, Widths DEF Words
    <3>2. accu[1] % Width("D") = accu[1]
      BY <3>1, Below
    <3> QED BY <1>4, <1>10, <3>2 DEF w
  <2>2. CASE op = "RL"
    <3> DEFINE x == w * Pow2[n] + (w \div Pow2[b - n])
    <3>1. s.word = x /\ s.out = x
      BY <2>1, <2>2 DEF Shifted, RotateLeft
    <3>2. v \in Int /\ x \in Int /\ Same(t, x, v) /\ x % 2 = LeavesWith("RL", t, w, n)
      BY <1>2, <1>5, <2>1, <2>2, AroundLeftIsMoved
    <3> HIDE DEF s, x
    <3> QED BY <1>5, <1>6, <2>1, <2>2, <3>1, <3>2 DEF Agrees, s, v, m, w, count
  <2>3. CASE op = "RR"
    <3> DEFINE x == (w \div Pow2[n]) + w * Pow2[b - n]
               q == x \div HalfWidth(t)
    <3>1. s.word = x /\ s.out = q
      BY <2>1, <2>3 DEF Shifted, RotateRight, HalfWidth
    <3>2. v \in Int /\ x \in Int /\ Same(t, x, v) /\ q \in Int /\ q % 2 = LeavesWith("RR", t, w, n)
      BY <1>2, <1>5, <2>1, <2>3, AroundRightIsMoved
    <3> HIDE DEF s, x, q
    <3> QED BY <1>5, <1>6, <2>1, <2>3, <3>1, <3>2 DEF Agrees, s, v, m, w, count
  <2> QED BY <1>10, <2>2, <2>3
<1> QED BY <1>7, <1>8, <1>9, <1>10 DEF Shifts

LEMMA SameRest ==
  ASSUME NEW t \in Types, NEW a \in Int, NEW b \in Int, Same(t, a, b)
  PROVE  a % Width(t) = b % Width(t)
<1> DEFINE W == Width(t)
           p == a \div W
           q == b \div W
           r == a % W
           s == b % W
<1>1. W \in Nat \ {0}
  BY Widths
<1>2. PICK k \in Int : a = b + W * k
  BY DEF Same
<1> HIDE DEF W
<1>3. /\ p \in Int /\ r \in 0..(W - 1) /\ a = W * p + r
      /\ q \in Int /\ s \in 0..(W - 1) /\ b = W * q + s
  BY <1>1, Divided
<1> HIDE DEF p, q, r, s
<1>4. W * p + r = W * (q + k) + s /\ q + k \in Int
  <2>1. W * (q + k) = W * q + W * k /\ W * q \in Int /\ W * k \in Int /\ W * p \in Int
    BY <1>1, <1>3
  <2> DEFINE u == W * p
             x == W * q
             z == W * k
             y == W * (q + k)
  <2>2. /\ a = b + z /\ a = u + r /\ b = x + s /\ y = x + z /\ u \in Int /\ x \in Int
        /\ z \in Int /\ r \in Int /\ s \in Int
    BY <1>2, <1>3, <2>1
  <2> HIDE DEF u, x, z, y
  <2>3. u + r = y + s
    BY <2>2
  <2>4. q + k \in Int
    BY <1>3
  <2> QED BY <2>3, <2>4, Zenon DEF u, y
<1> DEFINE x == q + k
<1>5. W * p + r = W * x + s /\ x \in Int
  BY <1>4
<1> HIDE DEF x
<1>6. r = s
  <2>1. /\ W \in Nat \ {0} /\ p \in Int /\ x \in Int /\ r \in 0..(W - 1) /\ s \in 0..(W - 1)
        /\ W * p + r = W * x + s
    BY <1>1, <1>3, <1>5
  <2> QED BY <2>1, UniquePair
<1> QED BY <1>6 DEF r, s, W

LEMMA ShiftTold ==
  ASSUME Told, NEW s \in Int, NEW over \in BOOLEAN, NEW o, ~over => o \in {0, 1} /\ s % 2 = o,
         stw' = [stw EXCEPT !.A1 = (s % 2 = 1), !.A0 = FALSE, !.OV = FALSE],
         verdict' = [verdict EXCEPT !.over = FALSE,
                       !.sign = IF over THEN "any" ELSE IF o = 1 THEN "plus" ELSE "zero"],
         lost' = lost
  PROVE  Told'
<1> DEFINE A1 == s % 2 = 1
           sign == IF over THEN "any" ELSE IF o = 1 THEN "plus" ELSE "zero"
<1>1. A1 \in BOOLEAN /\ sign \in {"minus", "zero", "plus", "undefined", "any"}
  OBVIOUS
<1>2. /\ sign # "any" => sign = "plus" \/ sign = "zero"
      /\ sign = "plus" => A1
      /\ sign = "zero" => ~A1
  OBVIOUS
<1>3. /\ stw' = [stw EXCEPT !.A1 = A1, !.A0 = FALSE, !.OV = FALSE]
      /\ verdict' = [verdict EXCEPT !.over = FALSE, !.sign = sign]
  OBVIOUS
<1> HIDE DEF A1, sign
<1>4. /\ stw \in Status /\ stw.OS = lost /\ lost \in BOOLEAN
      /\ verdict \in Verdicts /\ stw.VKE = verdict.holds
  BY DEF Told, OverflowIsRemembered, JumpsDecide
<1>5. /\ stw' \in Status /\ stw'.A1 = A1 /\ stw'.A0 = FALSE /\ stw'.OV = FALSE
      /\ stw'.OS = stw.OS /\ stw'.VKE = stw.VKE
  BY <1>1, <1>3, <1>4 DEF Status
<1>6. /\ verdict' \in Verdicts /\ verdict'.sign = sign /\ verdict'.over = FALSE
      /\ verdict'.holds = verdict.holds
  BY <1>1, <1>3, <1>4 DEF Verdicts
<1>7. Decisions'
  BY DecisionsFact, PTL
<1>8. sign # "any" => Taken' = Follow(sign)
  <2>1. CASE sign = "plus"
    <3>1. A1
      BY <1>2, <2>1
    <3> QED BY <1>5, <1>7, <2>1, <3>1, Zenon DEF Decisions
  <2>2. CASE sign = "zero"
    <3>1. ~A1
      BY <1>2, <2>2
    <3> QED BY <1>5, <1>7, <2>2, <3>1, Zenon DEF Decisions
  <2> QED BY <1>2, <2>1, <2>2
<1>9. stw'.OS = lost' /\ stw'.OV = verdict'.over /\ stw'.VKE = verdict'.holds
  BY <1>4, <1>5, <1>6, Zenon
<1>10. lost' \in BOOLEAN
  BY <1>4
<1> QED BY <1>5, <1>6, <1>8, <1>9, <1>10, Zenon DEF Told, OverflowIsRemembered, JumpsDecide

LEMMA ShiftKept ==
  ASSUME AccuInv, NEW t \in Types, NEW op \in Shifts, NEW n \in Counts, Shift(op, t, n)
  PROVE  AccuInv'
<1> DEFINE b == BitsOf(t)
           count == IF n > b THEN b ELSE n
           s == Shifted(op, t, count)
           y == items[1].v
           m == Moved(op, b, y % Width(t), n)
           x == SignedOf(t, m.word)
           w == Put(t, accu[1], s.word)
           r == [t |-> t, v |-> x]
           over == n > b
<1>0. n \in Nat \ {0}
  BY AccumulatorsAssumption
<1>1. Find(1, t) /\ Kept /\ Told /\ (op \in {"RL", "RR"} => t = "D" /\ n <= b)
  BY DEF Shift, AccuInv
<1>2. /\ y \in Int /\ SignedOf(t, accu[1]) = y /\ accu[1] \in Words /\ ~entered /\ Len(items) >= 1
      /\ UNCHANGED <<is4accu, entered>> /\ items[1].t = t
  BY <1>1, FindOne
<1>3. /\ accu' = [accu EXCEPT ![1] = w] /\ items' = [items EXCEPT ![1].v = x]
      /\ stw' = [stw EXCEPT !.A1 = (s.out % 2 = 1), !.A0 = FALSE, !.OV = FALSE]
      /\ verdict' = [verdict EXCEPT !.over = FALSE,
                       !.sign = IF over THEN "any" ELSE IF m.out = 1 THEN "plus" ELSE "zero"]
      /\ lost' = lost
  BY <1>2 DEF Shift
<1>4. accu[1] % Width(t) = y % Width(t)
  <2>1. accu[1] \in Int
    BY <1>2, WordsAreNumbers
  <2>2. Same(t, accu[1], y)
    BY <1>2, <2>1, SignedFacts
  <2> QED BY <1>2, <2>1, <2>2, SameRest
<1>5. Agrees(op, t, n, s, m)
  <2>1. Agrees(op, t, n, s, Moved(op, b, accu[1] % Width(t), n))
    BY <1>0, <1>1, <1>2, ShiftIsMoved
  <2> QED BY <1>4, <2>1
<1>6. b \in Nat
  BY Widths
<1> HIDE DEF s, m
<1>7. s.word \in Int /\ s.out \in Int /\ m.word \in Int /\ Same(t, s.word, m.word)
  BY <1>5 DEF Agrees
<1>8. ~over => m.out \in {0, 1} /\ s.out % 2 = m.out
  BY <1>0, <1>5, <1>6 DEF Agrees
<1>9. over \in BOOLEAN
  OBVIOUS
<1> HIDE DEF over
<1>10. Told'
  <2> DEFINE o == m.out
             u == s.out
  <2>1. /\ u \in Int /\ (~over => o \in {0, 1} /\ u % 2 = o)
        /\ stw' = [stw EXCEPT !.A1 = (u % 2 = 1), !.A0 = FALSE, !.OV = FALSE]
        /\ verdict' = [verdict EXCEPT !.over = FALSE,
                         !.sign = IF over THEN "any" ELSE IF o = 1 THEN "plus" ELSE "zero"]
    BY <1>3, <1>7, <1>8
  <2> HIDE DEF o, u
  <2> QED BY <1>1, <1>3, <1>9, <2>1, ShiftTold
<1>11. x \in Int /\ Fits(t, x) /\ SignedOf(t, s.word) = x
  BY <1>7, SignedFacts, SignedSame
<1> HIDE DEF x
<1>12. w \in Words /\ SignedOf(t, w) = x
  BY <1>2, <1>7, <1>11, PutFact
<1>13. items' = [items EXCEPT ![1] = r] /\ r \in Items
  BY <1>1, <1>2, <1>3, <1>11, NewValue
<1>14. r.t = t /\ r.v = x
  OBVIOUS
<1> HIDE DEF w, r
<1>15. Kept'
  BY <1>1, <1>2, <1>3, <1>12, <1>13, <1>14, OneKept
<1> QED BY <1>10, <1>15 DEF AccuInv

LEMMA CalculateKept ==
  ASSUME AccuInv, Calculate
  PROVE  AccuInv'
<1>1. PICK t \in Types :
        \/ Add(t) \/ Subtract(t) \/ Multiply(t) \/ Divide(t) \/ DivideByZero(t)
        \/ Negate(t) \/ Invert(t)
        \/ \E c \in Values : AddConstant(t, c)
        \/ \E relation \in DOMAIN Relations : CompareAccus(relation, t)
        \/ \E op \in {"SL", "SR", "SS", "RL", "RR"}, n \in Counts : Shift(op, t, n)
  BY DEF Calculate
<1>2. CASE Add(t)
  BY <1>2, AddKept
<1>3. CASE Subtract(t)
  BY <1>3, SubtractKept
<1>4. CASE Multiply(t)
  BY <1>4, MultiplyKept
<1>5. CASE Divide(t)
  BY <1>5, DivideKept
<1>6. CASE DivideByZero(t)
  BY <1>6, DivideByZeroKept
<1>7. CASE Negate(t)
  BY <1>7, NegateKept
<1>8. CASE Invert(t)
  BY <1>8, InvertKept
<1>9. CASE \E c \in Values : AddConstant(t, c)
  BY <1>9, AddConstantKept
<1>10. CASE \E relation \in DOMAIN Relations : CompareAccus(relation, t)
  BY <1>10, CompareKept
<1>11. CASE \E op \in {"SL", "SR", "SS", "RL", "RR"}, n \in Counts : Shift(op, t, n)
  BY <1>11, ShiftKept DEF Shifts
<1> QED BY <1>1, <1>2, <1>3, <1>4, <1>5, <1>6, <1>7, <1>8, <1>9, <1>10, <1>11

LEMMA AccuKept ==
  ASSUME AccuInv, [AccuNext]_accuVars
  PROVE  AccuInv'
<1>1. CASE Calculate
  BY <1>1, CalculateKept
<1>2. CASE Modulo
  BY <1>2, ModuloKept
<1>3. CASE IntToDouble
  BY <1>3, IntToDoubleKept
<1>4. CASE \E t \in Types, c \in Values : Load(t, c)
  BY <1>4, LoadKept
<1>5. CASE NextCycle
  BY <1>5, CycleKept
<1>6. CASE Enter
  BY <1>6, EnterKept
<1>7. CASE LeaveAccu
  BY <1>7, LeaveKept
<1>8. CASE Swap
  BY <1>8, SwapKept
<1>9. CASE Push
  BY <1>9, PushKept
<1>10. CASE PopAccu
  BY <1>10, PopKept
<1>11. CASE ClearOS
  BY <1>11, ClearKept
<1>12. CASE UNCHANGED accuVars
  BY <1>12 DEF accuVars, AccuInv, Kept, Told, ResultsAreExact, Place, OverflowIsRemembered, JumpsDecide,
               Taken, SPZ, SPN, SPP, SPM, SPPZ, SPMZ, SPU
<1> QED BY <1>1, <1>2, <1>3, <1>4, <1>5, <1>6, <1>7, <1>8, <1>9, <1>10, <1>11, <1>12 DEF AccuNext

LEMMA AccuTyped ==
  ASSUME AccuInv
  PROVE  AccuTypeOK
<1>1. /\ is4accu \in BOOLEAN /\ accu \in [1..4 -> Words] /\ items \in Seq(Items)
      /\ Len(items) <= 4 /\ entered \in BOOLEAN /\ lost \in BOOLEAN /\ stw \in Status
  BY DEF AccuInv, Kept, Told
<1>2. \A i \in DOMAIN items : Fits(items[i].t, items[i].v)
  BY <1>1 DEF Items
<1> QED BY <1>1, <1>2 DEF AccuTypeOK, Words, Status

\* The accumulators hold double words without sign at all times, and every
\* value of the expression fits its type (setWord, setDWord and the run() of
\* the instructions).
THEOREM AccuTypeCorrect == AccuSpec => []AccuTypeOK
BY AccuBegins, AccuKept, AccuTyped, PTL DEF AccuSpec

\* Every value of an expression is in its accumulator exactly, for every width
\* of a word and every number of instructions: sums, products, quotients and
\* remainders with their signs, shifts and rotations by any count, and what
\* ENT, LEAVE, TAK, PUSH and POP move.
THEOREM CalculationsAreExact == AccuSpec => []ResultsAreExact
<1>1. AccuInv => ResultsAreExact
  BY DEF AccuInv, Kept
<1> QED BY <1>1, AccuBegins, AccuKept, PTL DEF AccuSpec

\* OS is set exactly when a result that did not fit, or a division by zero, has
\* come since it was cleared.
THEOREM OverflowStays == AccuSpec => []OverflowIsRemembered
<1>1. AccuInv => OverflowIsRemembered
  BY DEF AccuInv, Told
<1> QED BY <1>1, AccuBegins, AccuKept, PTL DEF AccuSpec

\* The conditional jumps decide as the exact result has it (the properties A1
\* and A0 of the status word, and run() of SPZ, SPN, SPP, SPM, SPPZ, SPMZ, SPU).
THEOREM JumpsAreRight == AccuSpec => []JumpsDecide
<1>1. AccuInv => JumpsDecide
  BY DEF AccuInv, Told
<1> QED BY <1>1, AccuBegins, AccuKept, PTL DEF AccuSpec

----------------------------------------------------------------------------
(* The programs together: what one of them uses, the others leave alone.   *)

ProgramInv == TimerInv /\ CounterInv /\ AccuInv /\ IInv

LEMMA ProgramBegins ==
  ASSUME ProgramInit
  PROVE  ProgramInv
BY TimerBegins, CounterBegins, AccuBegins, InitInv DEF ProgramInit, ProgramInv

LEMMA ProgramSteps ==
  ASSUME ProgramInv, [ProgramNext]_programVars
  PROVE  ProgramInv'
<1>1. /\ [TimerNext]_timerVars
      /\ [CounterNext]_counterVars
      /\ [AccuNext]_accuVars
      /\ [Next]_vars
  BY DEF ProgramNext, programVars
<1>2. IInv'
  BY <1>1, StepInv DEF ProgramInv
<1> QED BY <1>1, <1>2, TimerSteps, CounterSteps, AccuKept DEF ProgramInv

Uses == uses \in {"timer", "counter", "accus", "time"}

LEMMA UsesStay == ASSUME Uses, [ProgramNext]_programVars PROVE Uses'
BY DEF ProgramNext, programVars, Uses

\* Whatever a program has used, all its data have their types.
THEOREM ProgramTypeCorrect == ProgramSpec => []TypesOK
<1>1. ProgramInit => Uses
  BY DEF ProgramInit, Uses
<1>2. Uses /\ [ProgramNext]_programVars => Uses'
  BY UsesStay
<1>3. ProgramInv /\ Uses => TypesOK
  BY AccuTyped DEF ProgramInv, TimerInv, CounterInv, IInv, TypesOK, Uses
<1> QED BY <1>1, <1>2, <1>3, ProgramBegins, ProgramSteps, PTL DEF ProgramSpec

\* A program of any of the four kinds computes what it should: its timers and
\* counters show what those of IEC 61131-3 show, its calculations are exact, OS
\* remembers, the jumps decide, and the clock memory keeps its phases.
THEOREM ProgramCorrect ==
  ProgramSpec => [](/\ OutputsAreIec /\ CountsPulses
                    /\ ResultsAreExact /\ OverflowIsRemembered /\ JumpsDecide
                    /\ ClockPhases)
<1>1. ProgramInv => OutputsAreIec /\ CountsPulses
  BY TimerFitsAre, CounterCounts DEF ProgramInv
<1>2. ProgramInv => ResultsAreExact /\ OverflowIsRemembered /\ JumpsDecide
  BY DEF ProgramInv, AccuInv, Kept, Told
<1>3. ProgramInv => ClockPhases
  BY DEF ProgramInv, IInv
<1> QED BY <1>1, <1>2, <1>3, ProgramBegins, ProgramSteps, PTL DEF ProgramSpec

\* The S7 timer of such a program is the ideal timer, too.
THEOREM ProgramTimerIsIdeal == ProgramSpec => TimerIsIdeal
<1>1. ProgramInit => Ideal!Init
  BY IdealInit DEF ProgramInit
<1>2. ProgramInv /\ [ProgramNext]_programVars => [Ideal!Next]_Ideal!vars
  <2> SUFFICES ASSUME ProgramInv, [ProgramNext]_programVars
               PROVE  [Ideal!Next]_Ideal!vars
    OBVIOUS
  <2>1. [Next]_vars
    BY DEF ProgramNext, programVars
  <2>2. QED
    BY <2>1, IdealStep DEF ProgramInv
<1> QED
  BY <1>1, <1>2, ProgramBegins, ProgramSteps, PTL
     DEF ProgramSpec, TimerIsIdeal, Ideal!Spec
=============================================================================
