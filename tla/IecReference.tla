---------------------------- MODULE IecReference ----------------------------
(***************************************************************************)
(* What the timer function blocks of IEC 61131-3 show, as a function of    *)
(* all their calls since they were last reset: log[k] is the k-th of them, *)
(* with its time at (which never wraps around), its input in and its       *)
(* preset time pt.  A block looks at its inputs when it is called only.    *)
(*                                                                         *)
(* Each of the three measures a time that begins with some call.  It is    *)
(* over with the first call that finds the preset time of that call        *)
(* elapsed.                                                                *)
(***************************************************************************)
EXTENDS Integers, Sequences

\* The call with which the time that begins with call s is over, 0: not yet.
Over(log, s) ==
  LET ended == {k \in s..Len(log) : log[k].at - log[s].at >= log[k].pt}
  IN IF s = 0 \/ ended = {} THEN 0 ELSE CHOOSE k \in ended : \A l \in ended : k <= l

\* TON measures while the input stays on.
OnSince(log) ==
  LET on == {j \in 1..Len(log) : \A k \in j..Len(log) : log[k].in}
  IN IF on = {} THEN 0 ELSE CHOOSE j \in on : \A k \in on : j <= k

\* TOF measures from the call that finds the input off again.
OffSince(log) ==
  LET off == {j \in 2..Len(log) : log[j - 1].in /\ \A k \in j..Len(log) : ~log[k].in}
  IN IF off = {} THEN 0 ELSE CHOOSE j \in off : TRUE

\* The pulse of TP begins with an input that is on, is not disturbed by the
\* input, and makes room for the next one when the input is off at its end or
\* after it.
Freed(log, s, n) ==
  LET o == Over(SubSeq(log, 1, n), s) IN s = 0 \/ (o # 0 /\ \E k \in o..n : ~log[k].in)

\* The call with which the pulse begins that the n-th call is about, 0: none.
Begins(log) ==
  LET begin[n \in 0..Len(log)] ==
        IF n = 0 THEN 0
        ELSE IF ~Freed(log, begin[n - 1], n - 1) THEN begin[n - 1]
        ELSE IF log[n].in THEN n ELSE 0
  IN begin

PulseSince(log) ==
  LET last == Begins(log)[Len(log)] IN IF Freed(log, last, Len(log)) THEN 0 ELSE last

Since(kind, log) ==
  CASE kind = "TP" -> PulseSince(log)
    [] kind = "TON" -> OnSince(log)
    [] kind = "TOF" -> OffSince(log)

\* The output Q after the last of the calls.
Q(kind, log) ==
  LET s == Since(kind, log)
  IN CASE kind = "TP" -> s # 0 /\ Over(log, s) = 0
       [] kind = "TON" -> s # 0 /\ Over(log, s) # 0
       [] kind = "TOF" -> log # <<>> /\ (log[Len(log)].in \/ (s # 0 /\ Over(log, s) = 0))

\* The elapsed time ET.
ET(kind, log) ==
  LET s == Since(kind, log)
      o == Over(log, s)
  IN IF s = 0 THEN 0
     ELSE IF o = 0 THEN log[Len(log)].at - log[s].at
     ELSE log[o].pt
=============================================================================
