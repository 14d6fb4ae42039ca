------------------------------ MODULE CpuTime ------------------------------
(***************************************************************************)
(* What the CPU does with the time (awlsim/core/cpu.py): the timestamp     *)
(* that instructions see and that is updated between them now and then,    *)
(* the clock memory byte that an update toggles, and a timer that a        *)
(* program drives with one kind of start instruction.                      *)
(* A unit of time is the 50 ms of the clock memory.                        *)
(***************************************************************************)
EXTENDS TimerOps

CONSTANTS Durations,   \* the S5T values the program uses
          TimeSteps,   \* how far an update can move the timestamp
          MaxTime,     \* bound on the timestamp
          MaxLate,     \* bound on how late the clock memory can get
          MaxProgram   \* bound on the timestamp of the program's instructions

ASSUME CpuTimeAssumption ==
  /\ Durations \subseteq Nat /\ TimeSteps \subseteq Nat
  /\ MaxTime \in Nat /\ MaxLate \in Nat /\ MaxProgram \in Nat

VARIABLES kind,        \* the start instruction the program uses
          timer,
          now,         \* self.now
          clock,       \* the clock memory byte, its count and its next time
          origin       \* history: when the clock memory was initialised

vars == <<kind, timer, now, clock, origin>>

----------------------------------------------------------------------------
(* The clock memory byte: the set of its bits that are on.                  *)

Bits == 0 .. 7
\* Bit b is toggled when the count is a multiple of this.
Divider == [b \in Bits |-> <<1, 2, 4, 5, 8, 10, 16, 20>>[b + 1]]

\* The least common multiple of the dividers.
CountLCM == 80

NewClock(t) == [byte |-> {}, count |-> 0, next |-> t + 1]

Xor(S, T) == (S \ T) \cup (T \ S)

\* Mutant: the wrap-around forgets the bit of 1.6 s.
ToggleWrapsAt40(c) ==
  LET count == c.count + 1
      toggled == {b \in Bits : count % Divider[b] = 0}
  IN [byte |-> Xor(c.byte, toggled),
      count |-> IF count >= 40 THEN 0 ELSE count,
      next |-> c.next + 1]

Toggle(c) ==
  LET count == c.count + 1
      toggled == {b \in Bits : count % Divider[b] = 0}
  IN [byte |-> Xor(c.byte, toggled),
      count |-> IF count >= CountLCM THEN 0 ELSE count,
      next |-> c.next + 1]

----------------------------------------------------------------------------
(* The state machine.                                                      *)

TypeOK ==
  /\ kind \in Kinds
  /\ timer \in [prevVKE_S : BOOLEAN, prevVKE_FR : BOOLEAN,
                deadlineActionSetStatus : BOOLEAN, deadline : Nat, remaining : Nat,
                status : BOOLEAN, running : BOOLEAN]
  /\ now \in 0 .. MaxTime /\ origin \in 0 .. now
  /\ clock.byte \subseteq Bits
  /\ clock.count \in 0 .. CountLCM - 1 /\ clock.next \in Nat

Init ==
  /\ kind \in Kinds
  /\ timer = NewTimer
  /\ now = 0 /\ clock = NewClock(0) /\ origin = 0

\* updateTimestamp: at most one step of the clock memory, however late it is.
UpdateTimestamp ==
  \E d \in TimeSteps :
    /\ now + d <= MaxTime /\ now + d <= clock.next + MaxLate
    /\ now' = now + d
    /\ clock' = IF now + d >= clock.next THEN Toggle(clock) ELSE clock
    /\ UNCHANGED <<kind, timer, origin>>

\* startup() initialises the clock memory and leaves the timers alone.
Restart ==
  /\ now <= MaxProgram
  /\ clock' = NewClock(now)
  /\ origin' = now
  /\ UNCHANGED <<kind, timer, now>>

Drive ==
  \E vke \in BOOLEAN, s5t \in Durations :
    /\ now <= MaxProgram
    /\ timer' = Run(kind, timer, vke, now, s5t)
    /\ UNCHANGED <<kind, now, clock, origin>>

Enable ==
  \E vke \in BOOLEAN :
    /\ now <= MaxProgram
    /\ timer' = RunFR(timer, vke)
    /\ UNCHANGED <<kind, now, clock, origin>>

\* R T with VKE = 1.
ResetTimer ==
  /\ now <= MaxProgram
  /\ timer' = Reset(timer)
  /\ UNCHANGED <<kind, now, clock, origin>>

\* U T, L T, LC T: the status or the time left is read.
Read ==
  /\ timer' = CheckDeadline(timer, now)
  /\ UNCHANGED <<kind, now, clock, origin>>

Next == UpdateTimestamp \/ Restart \/ Drive \/ Enable \/ ResetTimer \/ Read

Spec == Init /\ [][Next]_vars

----------------------------------------------------------------------------
(* Properties.                                                             *)

\* The timer is one that acts at its deadline: what a read returns does not
\* depend on which reads were made before it, with one exception.  An SE or SS
\* that is started again begins with Q as it was looked at the last time, so
\* that the end of a time that no instruction looked at is lost.
Ideal == INSTANCE IdealTimer
  WITH Steps <- TimeSteps,
       input <- timer.prevVKE_S,
       enable <- timer.prevVKE_FR,
       shown <- timer.status,
       q <- CheckDeadline(timer, now).status,
       timing <- CheckDeadline(timer, now).running,
       left <- CheckDeadline(timer, now).remaining
TimerIsIdeal == Ideal!Spec

\* Every bit of the clock memory keeps its period and the bits keep their
\* phases, across the wrap-around of the count and through late updates: bit b
\* is on in every second run of Divider[b] steps.
ClockPhases ==
  LET done == clock.next - origin - 1
  IN \A b \in Bits : b \in clock.byte <=> (done \div Divider[b]) % 2 = 1
=============================================================================
