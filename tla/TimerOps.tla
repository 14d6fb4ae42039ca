------------------------------ MODULE TimerOps ------------------------------
(***************************************************************************)
(* The S7 timer (awlsim/core/timers.py) as operators on its record.  The   *)
(* time is that of the CPU's timestamp, S5T values are the number of time  *)
(* units they stand for.  A timer does not see its deadline pass: it finds *)
(* out when an instruction reads or drives it the next time.               *)
(***************************************************************************)
EXTENDS Naturals

Kinds == {"SI", "SV", "SE", "SS", "SA"}

NewTimer ==
  [prevVKE_S |-> FALSE, prevVKE_FR |-> FALSE, deadlineActionSetStatus |-> FALSE,
   deadline |-> 0, remaining |-> 0, status |-> FALSE, running |-> FALSE]

UpdateRemaining(t, now) ==
  [t EXCEPT !.remaining = IF t.deadline > now THEN t.deadline - now ELSE 0]

CheckDeadline(t, now) ==
  LET u == UpdateRemaining(t, now)
  IN IF ~t.running THEN t
     ELSE IF u.remaining > 0 THEN u
     ELSE [u EXCEPT !.running = FALSE, !.status = t.deadlineActionSetStatus]

Start(t, now, s5t) ==
  [UpdateRemaining([t EXCEPT !.deadline = now + s5t], now) EXCEPT !.running = TRUE]

\* Mutant: switching off takes the remaining time of the last read.
OffUnread(t, now) == [t EXCEPT !.running = FALSE, !.status = FALSE]

\* The timer is switched off, as the pulse and the on-delay timer are by VKE = 0.
Off(t, now) ==
  [CheckDeadline(t, now) EXCEPT !.running = FALSE, !.status = FALSE]

\* run_SI, run_SV, run_SE, run_SS: pulse, extended pulse, on-delay and
\* retentive on-delay.
RunOnEdge(kind, t, vke, now, s5t) ==
  LET u == [t EXCEPT !.deadlineActionSetStatus = kind \in {"SE", "SS"}]
      pulse == [u EXCEPT !.status = @ \/ kind \in {"SI", "SV"}]
  IN IF vke /\ ~t.prevVKE_S THEN Start(pulse, now, s5t)
     ELSE IF ~vke /\ kind \in {"SI", "SE"} THEN Off(u, now)
     ELSE u

\* run_SA: off-delay.  The time starts with the falling edge.
RunSA(t, vke, now, s5t) ==
  LET u == [t EXCEPT !.deadlineActionSetStatus = FALSE]
  IN IF vke /\ ~t.prevVKE_S
     THEN [CheckDeadline(u, now) EXCEPT !.status = TRUE, !.running = FALSE]
     ELSE IF ~vke /\ t.prevVKE_S THEN Start([u EXCEPT !.status = TRUE], now, s5t)
     ELSE u

Run(kind, t, vke, now, s5t) ==
  LET u == IF kind = "SA" THEN RunSA(t, vke, now, s5t)
           ELSE RunOnEdge(kind, t, vke, now, s5t)
  IN [u EXCEPT !.prevVKE_S = vke]

\* run_FR: a rising edge makes the next VKE = 1 a rising edge once more.
RunFR(t, vke) ==
  [t EXCEPT !.prevVKE_S = @ /\ ~(vke /\ ~t.prevVKE_FR), !.prevVKE_FR = vke]

Reset(t) == [t EXCEPT !.running = FALSE, !.status = FALSE, !.remaining = 0]
=============================================================================
