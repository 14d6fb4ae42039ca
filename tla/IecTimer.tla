------------------------------ MODULE IecTimer ------------------------------
(***************************************************************************)
(* The timer function blocks TP, TON and TOF (SFB 3, 4 and 5 in            *)
(* awlsim/core/systemblocks/), one of which a program calls with one       *)
(* instance.  They know the time as a TIME of the CPU, which wraps around  *)
(* after 2^31 ms, and keep all else in the instance.  The instance's ATIME *)
(* is written and never read, and is left out.                             *)
(***************************************************************************)
EXTENDS Integers, Sequences

CONSTANTS Modulus,      \* 2^31: the milliseconds after which a TIME wraps around
          Presets,      \* the values of PT
          Gaps,         \* how much time can pass between two calls
          Begin,        \* the time of the CPU when it is reset
          MaxCalls      \* bound: the calls between two resets of the block

\* A preset time is over before the TIME comes around to its start, though the
\* next call be late: 2^31 - 1 ms, the greatest PT, is over for 1 ms only.
ASSUME IecTimerAssumption ==
  /\ Modulus \in Nat \ {0} /\ Presets \subseteq Int /\ Gaps \subseteq Nat
  /\ \A pt \in Presets, gap \in Gaps : pt + gap <= Modulus
  /\ Begin \in Nat /\ MaxCalls \in Nat

VARIABLES timerKind,    \* the block
          ms,           \* self.now in milliseconds
          inst,         \* the instance data block
          BIE,
          timerLog      \* history: the calls since the block was reset

timerVars == <<timerKind, ms, inst, BIE, timerLog>>

\* The bits of STATE (here: bits): RUNNING and FINISHED; PREV_IN and DELAYING in a TOF.
Running == 0
Finished == 1
PrevIn == 0
Delaying == 1

NewTimerBlock(pt) == [in |-> FALSE, PT |-> pt, Q |-> FALSE, ET |-> 0, bits |-> {}, STIME |-> 0]

TimerTypeOK ==
  /\ timerKind \in {"TP", "TON", "TOF"}
  /\ ms \in Nat /\ BIE \in BOOLEAN
  /\ inst \in [in : BOOLEAN, PT : Presets \cup {0}, Q : BOOLEAN, ET : 0..(Modulus - 1),
               bits : SUBSET {0, 1}, STIME : 0..(Modulus - 1)]

TimerInit ==
  /\ timerKind \in {"TP", "TON", "TOF"}
  /\ ms = Begin
  /\ inst = NewTimerBlock(0) /\ BIE = TRUE
  /\ timerLog = <<>>

(***************************************************************************)
(* run() of the three blocks, with the parameters in the instance already  *)
(***************************************************************************)

\* Mutant: the milliseconds are not masked.
NowUnmasked(t) == t

NowTIME(t) == t % Modulus

Elapsed(fb, ATIME) == (ATIME - fb.STIME) % Modulus

\* Nothing is timed with a PT that is not positive.  Zero resets IN, too.
Invalid(fb) == [fb EXCEPT !.in = @ /\ fb.PT # 0, !.Q = FALSE, !.ET = 0, !.bits = {}]

StartTP(fb, ATIME) ==
  IF fb.in /\ fb.bits \cap {Running, Finished} = {}
  THEN [fb EXCEPT !.STIME = ATIME, !.bits = @ \cup {Running}] ELSE fb

RunTP(fb, ATIME) ==
  IF Running \notin fb.bits THEN fb
  ELSE LET ET == Elapsed(fb, ATIME)
       IN IF ET >= fb.PT
          THEN [fb EXCEPT !.ET = fb.PT, !.Q = FALSE, !.bits = (@ \ {Running}) \cup {Finished}]
          ELSE [fb EXCEPT !.ET = ET, !.Q = TRUE]

StopTP(fb) ==
  IF ~fb.in /\ Finished \in fb.bits
  THEN [fb EXCEPT !.bits = @ \ {Finished}, !.ET = 0] ELSE fb

SFB3(fb, ATIME) == StopTP(RunTP(StartTP(fb, ATIME), ATIME))

StartTON(fb, ATIME) ==
  IF ~fb.in THEN [fb EXCEPT !.bits = @ \ {Finished, Running}, !.ET = 0, !.Q = FALSE]
  ELSE IF fb.bits \cap {Running, Finished} = {}
  THEN [fb EXCEPT !.STIME = ATIME, !.bits = @ \cup {Running}] ELSE fb

RunTON(fb, ATIME) ==
  IF Running \notin fb.bits THEN fb
  ELSE LET ET == Elapsed(fb, ATIME)
       IN IF ET >= fb.PT
          THEN [fb EXCEPT !.ET = fb.PT, !.Q = TRUE, !.bits = (@ \ {Running}) \cup {Finished}]
          ELSE [fb EXCEPT !.ET = ET, !.Q = FALSE]

SFB4(fb, ATIME) == RunTON(StartTON(fb, ATIME), ATIME)

\* Mutant: the delay begins again while it runs.
StartTOFAgain(fb, ATIME) ==
  IF fb.in THEN [fb EXCEPT !.bits = (@ \ {Delaying}) \cup {PrevIn}, !.ET = 0, !.Q = TRUE]
  ELSE IF fb.bits \cap {PrevIn, Delaying} # {}
  THEN [fb EXCEPT !.STIME = ATIME, !.bits = (@ \cup {Delaying}) \ {PrevIn}]
  ELSE fb

StartTOF(fb, ATIME) ==
  IF fb.in THEN [fb EXCEPT !.bits = (@ \ {Delaying}) \cup {PrevIn}, !.ET = 0, !.Q = TRUE]
  ELSE IF PrevIn \in fb.bits
  THEN [fb EXCEPT !.STIME = ATIME, !.bits = (@ \cup {Delaying}) \ {PrevIn}]
  ELSE fb

RunTOF(fb, ATIME) ==
  IF Delaying \notin fb.bits THEN fb
  ELSE LET ET == Elapsed(fb, ATIME)
       IN IF ET >= fb.PT
          THEN [fb EXCEPT !.ET = fb.PT, !.Q = FALSE, !.bits = @ \ {Delaying}]
          ELSE [fb EXCEPT !.ET = ET, !.Q = TRUE]

SFB5(fb, ATIME) == RunTOF(StartTOF(fb, ATIME), ATIME)

Block(fb, ATIME) ==
  IF fb.PT <= 0 THEN Invalid(fb)
  ELSE CASE timerKind = "TP" -> SFB3(fb, ATIME)
         [] timerKind = "TON" -> SFB4(fb, ATIME)
         [] timerKind = "TOF" -> SFB5(fb, ATIME)

(***************************************************************************)
(* The program                                                             *)
(***************************************************************************)

\* The block is called some time after it was called before.  What a call
\* does not pass is what the instance has.
CallTimer ==
  \E gap \in Gaps, in \in BOOLEAN \cup {inst.in}, PT \in Presets \cup {inst.PT} :
    LET fb == [inst EXCEPT !.in = in, !.PT = PT]
        t == ms + gap
    IN /\ PT > 0 => Len(timerLog) < MaxCalls
       /\ ms' = t
       /\ inst' = Block(fb, NowTIME(t))
       /\ BIE' = (PT >= 0)
       /\ timerLog' = IF PT <= 0 THEN <<>> ELSE Append(timerLog, [at |-> t, in |-> in, pt |-> PT])
       /\ UNCHANGED timerKind

TimerNext == CallTimer

TimerSpec == TimerInit /\ [][TimerNext]_timerVars

(***************************************************************************)
(* Properties                                                              *)
(***************************************************************************)

Iec == INSTANCE IecReference

\* Q and ET are those of the timers of the standard, in a time that does not
\* wrap around, whatever the order in which the input and the preset time
\* change and however late the calls come.
OutputsAreIec == inst.Q = Iec!Q(timerKind, timerLog) /\ inst.ET = Iec!ET(timerKind, timerLog)
=============================================================================
