------------------------------ MODULE Counting ------------------------------
(***************************************************************************)
(* A counter that a program uses: a counter Z of the CPU                   *)
(* (awlsim/core/counters.py), or an instance of one of the counter blocks  *)
(* CTU, CTD and CTUD (SFB 0, 1 and 2 in awlsim/core/systemblocks/).  What  *)
(* the instructions and calls do to the status word is left out: counter   *)
(* instructions end a network, as in BitLogic, and the blocks set BIE.     *)
(***************************************************************************)
EXTENDS Integers, Sequences

CONSTANTS Half,         \* 2^15: an INT is from -Half to Half - 1
          PVs,          \* the values of PV
          AccuValues,   \* the values in accumulator 1
          MaxOps        \* bound: instructions, or calls since CV was given a value

ASSUME CountingAssumption ==
  /\ Half \in Nat \ {0} /\ PVs \subseteq -Half..(Half - 1)
  /\ AccuValues \subseteq Nat /\ MaxOps \in Nat

VARIABLES counterKind,
          counter,      \* the object of the CPU, or the instance data block
          counterLog    \* history: what has been done with it

counterVars == <<counterKind, counter, counterLog>>

Ops == {"FR", "S", "ZV", "ZR"}      \* the instructions that look for edges
Blocks == {"CTU", "CTD", "CTUD"}

NewCounter == [counter |-> 0, prevVKE |-> {}]
NewInstance == [CV |-> 0, CUO |-> FALSE, CDO |-> FALSE, QU |-> FALSE, QD |-> FALSE]

CounterInit ==
  /\ counterKind \in Blocks \cup {"Z"}
  /\ counter = IF counterKind = "Z" THEN NewCounter ELSE NewInstance
  /\ counterLog = <<>>

CounterTypeOK ==
  /\ counterKind \in Blocks \cup {"Z"}
  /\ counter \in IF counterKind = "Z" THEN [counter : 0..999, prevVKE : SUBSET Ops]
                 ELSE [CV : 0..(2 * Half - 1), CUO : BOOLEAN, CDO : BOOLEAN,
                       QU : BOOLEAN, QD : BOOLEAN]

(***************************************************************************)
(* A counter Z: prevVKE has the instructions that have last seen a VKE     *)
(***************************************************************************)

Digit(bcd, i) == (bcd \div 16^i) % 16
IsBCD(bcd) == bcd <= \h999 /\ \A i \in 0..2 : Digit(bcd, i) <= 9
FromBCD(bcd) == Digit(bcd, 0) + Digit(bcd, 1) * 10 + Digit(bcd, 2) * 100

\* getValueBCD.
ToBCD(n) == (n % 10) + ((n \div 10) % 10) * 16 + ((n \div 100) % 10) * 16^2

Edge(op, VKE) == VKE /\ op \notin counter.prevVKE
Seen(op, VKE) == IF VKE THEN counter.prevVKE \cup {op} ELSE counter.prevVKE \ {op}

Done(op, VKE, n) ==
  /\ counterKind = "Z" /\ Len(counterLog) < MaxOps
  /\ counterLog' = Append(counterLog, [op |-> op, VKE |-> VKE, n |-> n])
  /\ UNCHANGED counterKind

CounterFR(VKE) ==
  /\ Done("FR", VKE, 0)
  /\ counter' = [counter EXCEPT !.prevVKE = IF Edge("FR", VKE) THEN {"FR"} ELSE Seen("FR", VKE)]

\* Mutant: VKE is remembered in front of the conversion.
SetRemembers(VKE, bcd) ==
  IF counterKind = "Z" /\ Edge("S", VKE) /\ ~IsBCD(bcd)
  THEN counter' = [counter EXCEPT !.prevVKE = Seen("S", VKE)] /\ UNCHANGED <<counterKind, counterLog>>
  ELSE /\ Done("S", VKE, FromBCD(bcd))
       /\ counter' = [counter |-> IF Edge("S", VKE) THEN FromBCD(bcd) ELSE counter.counter,
                      prevVKE |-> Seen("S", VKE)]

\* A value that is no BCD number raises: the CPU stops, and when it is started
\* again the counter has its value and still waits for the edge.
Set(VKE, bcd) ==
  /\ Done("S", VKE, FromBCD(bcd))
  /\ Edge("S", VKE) => IsBCD(bcd)
  /\ counter' = [counter |-> IF Edge("S", VKE) THEN FromBCD(bcd) ELSE counter.counter,
                 prevVKE |-> Seen("S", VKE)]

ResetCounter(VKE) ==
  /\ Done("R", VKE, 0)
  /\ counter' = IF VKE THEN [counter EXCEPT !.counter = 0] ELSE counter

RunZV(VKE) ==
  /\ Done("ZV", VKE, 0)
  /\ counter' = [counter |-> IF Edge("ZV", VKE) /\ counter.counter < 999
                             THEN counter.counter + 1 ELSE counter.counter,
                 prevVKE |-> Seen("ZV", VKE)]

RunZR(VKE) ==
  /\ Done("ZR", VKE, 0)
  /\ counter' = [counter |-> IF Edge("ZR", VKE) /\ counter.counter > 0
                             THEN counter.counter - 1 ELSE counter.counter,
                 prevVKE |-> Seen("ZR", VKE)]

\* The CPU is reset and makes its counters anew.
Reallocate ==
  /\ counterKind = "Z"
  /\ counter' = NewCounter
  /\ counterLog' = <<>>
  /\ UNCHANGED counterKind

(***************************************************************************)
(* run() of the three blocks, with the inputs c; CV is a word of the       *)
(* instance, Q of CTU is here QU, and that of CTD is QD                    *)
(***************************************************************************)

Word(n) == n % (2 * Half)
Signed(w) == IF w >= Half THEN w - 2 * Half ELSE w

SFB0(fb, c) ==
  LET old == Signed(fb.CV)
      new == IF c.R THEN 0
             ELSE IF c.CU /\ ~fb.CUO /\ old < Half - 1 THEN old + 1 ELSE old
  IN [fb EXCEPT !.CUO = c.CU, !.CV = Word(new), !.QU = new >= c.PV]

SFB1(fb, c) ==
  LET old == Signed(fb.CV)
      new == IF c.LOAD THEN c.PV
             ELSE IF c.CD /\ ~fb.CDO /\ old > -Half THEN old - 1 ELSE old
  IN [fb EXCEPT !.CDO = c.CD, !.CV = Word(new), !.QD = new <= 0]

SFB2(fb, c) ==
  LET up == c.CU /\ ~fb.CUO
      down == c.CD /\ ~fb.CDO
      old == Signed(fb.CV)
      new == IF c.R THEN 0
             ELSE IF c.LOAD THEN c.PV
             ELSE IF down /\ ~up /\ old > -Half THEN old - 1
             ELSE IF up /\ ~down /\ old < Half - 1 THEN old + 1 ELSE old
  IN [fb EXCEPT !.CUO = c.CU, !.CDO = c.CD, !.CV = Word(new), !.QU = new >= c.PV, !.QD = new <= 0]

\* The inputs a block has; the others are off here.  An input that a call does
\* not pass is what the instance has, and that was passed or is zero.
Inputs ==
  {c \in [CU : BOOLEAN, CD : BOOLEAN, R : BOOLEAN, LOAD : BOOLEAN, PV : PVs \cup {0}] :
     /\ counterKind = "CTU" => ~c.CD /\ ~c.LOAD
     /\ counterKind = "CTD" => ~c.CU /\ ~c.R}

CallCounter(c) ==
  /\ counterKind \in Blocks
  /\ counter' = CASE counterKind = "CTU" -> SFB0(counter, c)
                  [] counterKind = "CTD" -> SFB1(counter, c)
                  [] counterKind = "CTUD" -> SFB2(counter, c)
  /\ IF c.R \/ c.LOAD THEN counterLog' = <<c>>
     ELSE Len(counterLog) < MaxOps /\ counterLog' = Append(counterLog, c)
  /\ UNCHANGED counterKind

CounterNext ==
  \/ \E VKE \in BOOLEAN :
       CounterFR(VKE) \/ ResetCounter(VKE) \/ RunZV(VKE) \/ RunZR(VKE)
  \/ \E VKE \in BOOLEAN, bcd \in AccuValues : Set(VKE, bcd)
  \/ Reallocate
  \/ \E c \in Inputs : CallCounter(c)

CounterSpec == CounterInit /\ [][CounterNext]_counterVars

(***************************************************************************)
(* Properties                                                              *)
(***************************************************************************)

Ref == INSTANCE CountReference

\* A counter Z has counted each pulse of VKE once, and once more after FR, up
\* to its limits; an S that has stopped the CPU has cost no pulse, and LC gives
\* what S takes.  CV and Q of a block are those of the standard, also when edges
\* come together, at the ends of an INT, and while it is reset or loaded.
CountsPulses ==
  IF counterKind = "Z"
  THEN /\ counter.counter = Ref!Count(counterLog)
       /\ IsBCD(ToBCD(counter.counter)) /\ FromBCD(ToBCD(counter.counter)) = counter.counter
  ELSE counterLog # <<>> =>
         LET CV == Ref!CV(counterLog, -Half, Half - 1)
         IN /\ Signed(counter.CV) = CV
            /\ counterKind # "CTD" => (counter.QU = (CV >= counterLog[Len(counterLog)].PV))
            /\ counterKind # "CTU" => (counter.QD = (CV <= 0))
=============================================================================
