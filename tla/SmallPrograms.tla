--------------------------- MODULE SmallPrograms ----------------------------
(***************************************************************************)
(* A program with one timer block of IecTimer, or one counter of Counting, *)
(* or one calculation of Accumulators, or one S7 timer and the clock       *)
(* memory of CpuTime.  The four share nothing but the CPU they run on, so  *)
(* that what a program with all of them sees of one is what it sees of it  *)
(* alone.                                                                  *)
(***************************************************************************)
EXTENDS IecTimer, Counting, Accumulators, CpuTime

VARIABLE uses           \* "timer", "counter", "accus" or "time"

TypesOK ==
  CASE uses = "timer" -> TimerTypeOK
    [] uses = "counter" -> CounterTypeOK
    [] uses = "accus" -> AccuTypeOK
    [] uses = "time" -> TypeOK

\* What is not used stays as it is in one of its initial states.
ProgramInit ==
  /\ TimerInit /\ CounterInit /\ AccuInit /\ Init
  /\ uses \in {"timer", "counter", "accus", "time"}
  /\ uses # "timer" => timerKind = "TON"
  /\ uses # "counter" => counterKind = "Z"
  /\ uses # "accus" => is4accu
  /\ uses # "time" => kind = "SI"

ProgramNext ==
  \/ uses = "timer" /\ TimerNext /\ UNCHANGED <<uses, counterVars, accuVars, vars>>
  \/ uses = "counter" /\ CounterNext /\ UNCHANGED <<uses, timerVars, accuVars, vars>>
  \/ uses = "accus" /\ AccuNext /\ UNCHANGED <<uses, timerVars, counterVars, vars>>
  \/ uses = "time" /\ Next /\ UNCHANGED <<uses, timerVars, counterVars, accuVars>>

programVars == <<uses, timerVars, counterVars, accuVars, vars>>

ProgramSpec == ProgramInit /\ [][ProgramNext]_programVars
=============================================================================
