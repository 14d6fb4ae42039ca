----------------------------- MODULE IdealTimer -----------------------------
(***************************************************************************)
(* What an S7 timer promises to the program that drives it: an output Q    *)
(* and a remaining time that change at the moment the time is over,        *)
(* whether somebody looks or not.  Looking has an effect in one case only: *)
(* an on-delay timer (SE, SS) that is started again begins with the output *)
(* somebody saw last, not with the one it had.                             *)
(***************************************************************************)
EXTENDS Naturals

CONSTANTS Durations, Steps

VARIABLES kind,      \* which instruction drives the timer
          input,     \* VKE of that instruction, the last time
          enable,    \* VKE of FR, the last time
          q,         \* the output
          shown,     \* the output as an instruction found or set it last
          timing,    \* the time is running
          left       \* the time left

vars == <<kind, input, enable, q, shown, timing, left>>

\* Q when the time is over.
Final == kind \in {"SE", "SS"}

Init ==
  /\ kind \in {"SI", "SV", "SE", "SS", "SA"}
  /\ input = FALSE /\ enable = FALSE
  /\ q = FALSE /\ shown = FALSE /\ timing = FALSE /\ left = 0

Launch(d, level) ==
  /\ left' = d
  /\ timing' = (d > 0)
  /\ q' = IF d > 0 THEN level ELSE Final
  /\ shown' = level

Stop(level) == timing' = FALSE /\ q' = level /\ shown' = level /\ UNCHANGED left

Rising(v) == v /\ ~input
Falling(v) == ~v /\ input

\* The output follows the kind of the timer: on for the time and as long as
\* the input is on (SI), on for the time (SV), on after the time while the
\* input is on (SE), on after the time (SS), on until the time after the
\* input has gone off (SA).
Respond(v, d) ==
  \/ kind = "SI" /\ Rising(v) /\ Launch(d, TRUE)
  \/ kind = "SI" /\ ~v /\ Stop(FALSE)
  \/ kind = "SV" /\ Rising(v) /\ Launch(d, TRUE)
  \/ kind = "SE" /\ Rising(v) /\ Launch(d, shown)
  \/ kind = "SE" /\ ~v /\ Stop(FALSE)
  \/ kind = "SS" /\ Rising(v) /\ Launch(d, shown)
  \/ kind = "SA" /\ Rising(v) /\ Stop(TRUE)
  \/ kind = "SA" /\ Falling(v) /\ Launch(d, TRUE)

Idle(v) ==
  /\ ~Rising(v)
  /\ kind \in {"SI", "SE"} => v
  /\ kind = "SA" => ~Falling(v)

Drive ==
  /\ \E v \in BOOLEAN, d \in Durations :
       /\ input' = v
       /\ Respond(v, d) \/ (Idle(v) /\ UNCHANGED <<q, shown, timing, left>>)
  /\ UNCHANGED <<kind, enable>>

Enable ==
  /\ \E v \in BOOLEAN :
       /\ enable' = v
       /\ input' = (input /\ ~(v /\ ~enable))
  /\ UNCHANGED <<kind, q, shown, timing, left>>

Reset ==
  /\ q' = FALSE /\ shown' = FALSE /\ timing' = FALSE /\ left' = 0
  /\ UNCHANGED <<kind, input, enable>>

Elapse ==
  /\ timing
  /\ \E d \in Steps :
       /\ left' = IF left > d THEN left - d ELSE 0
       /\ timing' = (left > d)
       /\ q' = IF left > d THEN q ELSE Final
  /\ UNCHANGED <<kind, input, enable, shown>>

Look == shown' = q /\ UNCHANGED <<kind, input, enable, q, timing, left>>

Next == Look \/ Drive \/ Enable \/ Reset \/ Elapse

Spec == Init /\ [][Next]_vars
=============================================================================
