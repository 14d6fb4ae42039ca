--------------------------- MODULE CountReference ---------------------------
(***************************************************************************)
(* What counters show, as a function of all that was done with them: of    *)
(* the instructions of a program with a counter Z (records with op, VKE    *)
(* and, of S, the number n), and of the calls of a counter block of IEC    *)
(* 61131-3 (records with the inputs).  Both count pulses: an input that is *)
(* on, and was not on the last time it was looked at.                      *)
(***************************************************************************)
EXTENDS Integers, Sequences

Within(low, high, n) == IF n < low THEN low ELSE IF n > high THEN high ELSE n

(***************************************************************************)
(* Counters Z: FR makes the others count a pulse that they have counted    *)
(***************************************************************************)

\* The last instruction in front of the k-th that is the same, 0: none.
Before(log, k) ==
  LET same == {j \in 1..(k - 1) : log[j].op = log[k].op}
  IN IF same = {} THEN 0 ELSE CHOOSE j \in same : \A i \in same : i <= j

Rises(log, k) ==
  log[k].VKE /\ (Before(log, k) = 0 \/ ~log[Before(log, k)].VKE)

Released(log, k) ==
  \E j \in (Before(log, k) + 1)..(k - 1) : log[j].op = "FR" /\ Rises(log, j)

Pulse(log, k) == Rises(log, k) \/ (log[k].VKE /\ Released(log, k))

\* The counts after each of the instructions: from 0 to 999, where it stops.
CountsAfter(log) ==
  LET count[k \in 0..Len(log)] ==
        CASE k = 0 -> 0
          [] k > 0 /\ log[k].op = "R" /\ log[k].VKE -> 0
          [] k > 0 /\ log[k].op = "S" /\ Pulse(log, k) -> log[k].n
          [] k > 0 /\ log[k].op = "ZV" /\ Pulse(log, k) -> Within(0, 999, count[k - 1] + 1)
          [] k > 0 /\ log[k].op = "ZR" /\ Pulse(log, k) -> Within(0, 999, count[k - 1] - 1)
          [] OTHER -> count[k - 1]
  IN count

Count(log) == CountsAfter(log)[Len(log)]

(***************************************************************************)
(* Counter blocks: pulses up and down in one call make no difference, and  *)
(* a call that resets or loads counts none                                 *)
(***************************************************************************)

Up(log, k) == IF log[k].CU /\ (k = 1 \/ ~log[k - 1].CU) THEN 1 ELSE 0
Down(log, k) == IF log[k].CD /\ (k = 1 \/ ~log[k - 1].CD) THEN 1 ELSE 0

\* CV after each of the calls, in the range of an INT, where it stops.
CVs(log, low, high) ==
  LET cv[k \in 0..Len(log)] ==
        IF k = 0 \/ log[k].R THEN 0
        ELSE IF log[k].LOAD THEN log[k].PV
        ELSE Within(low, high, cv[k - 1] + Up(log, k) - Down(log, k))
  IN cv

CV(log, low, high) == CVs(log, low, high)[Len(log)]
=============================================================================
