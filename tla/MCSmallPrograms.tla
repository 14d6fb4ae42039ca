-------------------------- MODULE MCSmallPrograms ---------------------------
(* A TIME wraps around soon after the reset, as initializeTimestamp()        *)
(* arranges it, and again and again.  States that differ by periods of the   *)
(* TIME are told apart by the ages of the calls only, so that the time needs *)
(* no bound.  An INT goes from -2 to 1, and a counter Z is set to 1, to 998, *)
(* and to words that are no BCD numbers (16#00A, 16#1001).  A word of an     *)
(* accumulator goes from -2 to 1, a double word from -8 to 7.  The clock     *)
(* memory wraps around at 80 steps, and a program drives the S7 timer in the *)
(* first six of them.                                                        *)
EXTENDS SmallPrograms

MCPresets == {-1, 2, 3}
MCPVs == {-1, 0}
MCValues == {-2, -1, 1}
MCTimeSteps == {1, 3}
MCDurations == {0, 2}

TimerView == <<timerKind, ms % Modulus, inst, BIE,
               [k \in DOMAIN timerLog |-> [timerLog[k] EXCEPT !.at = ms - @]]>>
View == <<uses, CASE uses = "timer" -> TimerView
                  [] uses = "counter" -> counterVars
                  [] uses = "accus" -> accuVars
                  [] uses = "time" -> vars>>
=============================================================================
