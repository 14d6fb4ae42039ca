---------------------------- MODULE Accumulators ----------------------------
(***************************************************************************)
(* Calculations with the accumulators of the CPU                           *)
(* (awlsim/core/instructions/): integer arithmetic, comparisons, shifts    *)
(* and rotations, the instructions that move accumulators, and the bits    *)
(* A1, A0, OV and OS of the status word, on which the conditional jumps    *)
(* decide.  A word has WordBits bits instead of 16.                        *)
(*                                                                         *)
(* The program is one that keeps the values of an expression in the        *)
(* accumulators, the last one in accumulator 1, and knows what it has      *)
(* there: an INT in the low word, or a DINT.                               *)
(***************************************************************************)
EXTENDS Calculation

CONSTANTS WordBits,
          Values,       \* what is loaded, or added as a constant
          Counts,       \* by how many bits is shifted
          MaxSteps      \* bound: instructions of a cycle

ASSUME AccumulatorsAssumption ==
  /\ WordBits \in Nat \ {0} /\ Values \subseteq -Pow2[WordBits - 1]..(Pow2[WordBits - 1] - 1)
  /\ Counts \subseteq Nat \ {0} /\ MaxSteps \in Nat

VARIABLES is4accu,      \* the CPU has four accumulators
          accu,         \* their contents, without sign
          stw,          \* the status word
          items,        \* history: the values of the expression, the last one first
          entered,      \* ENT has made room for the next L
          verdict,      \* history: what the conditional jumps are to tell
          lost,         \* history: a value did not fit since OS was cleared
          steps

accuVars == <<is4accu, accu, stw, items, entered, verdict, lost, steps>>

Types == {"I", "D"}
BitsOf(t) == IF t = "I" THEN WordBits ELSE 2 * WordBits
Width(t) == Pow2[BitsOf(t)]

\* getSignedWord and getSignedDWord.
SignedOf(t, a) ==
  LET low == a % Width(t) IN IF low >= Pow2[BitsOf(t) - 1] THEN low - Width(t) ELSE low

\* setWord and setDWord.
Put(t, a, v) == IF t = "I" THEN (a \div Width("I")) * Width("I") + (v % Width("I"))
                ELSE v % Width("D")

Fits(t, v) == -Pow2[BitsOf(t) - 1] <= v /\ v < Pow2[BitsOf(t) - 1]

AccuTypeOK ==
  /\ is4accu \in BOOLEAN /\ accu \in [1..4 -> 0..(Width("D") - 1)]
  /\ stw \in [A1 : BOOLEAN, A0 : BOOLEAN, OV : BOOLEAN, OS : BOOLEAN, VKE : BOOLEAN]
  /\ Len(items) <= 4 /\ \A i \in DOMAIN items : Fits(items[i].t, items[i].v)
  /\ entered \in BOOLEAN /\ lost \in BOOLEAN

NoBits == [A1 |-> FALSE, A0 |-> FALSE, OV |-> FALSE, OS |-> FALSE, VKE |-> FALSE]
NoVerdict == [sign |-> "zero", over |-> FALSE, holds |-> FALSE]

\* __runOB has reset the accumulators and the status word.
AccuInit ==
  /\ is4accu \in BOOLEAN
  /\ accu = [i \in 1..4 |-> 0] /\ stw = NoBits
  /\ items = <<>> /\ entered = FALSE /\ verdict = NoVerdict /\ lost = FALSE /\ steps = 0

\* The next cycle.
NextCycle ==
  /\ accu' = [i \in 1..4 |-> 0] /\ stw' = NoBits
  /\ items' = <<>> /\ entered' = FALSE /\ verdict' = NoVerdict
  /\ lost' = FALSE /\ steps' = 0
  /\ UNCHANGED is4accu

(***************************************************************************)
(* Results                                                                 *)
(***************************************************************************)

OneInstruction == steps < MaxSteps /\ steps' = steps + 1 /\ UNCHANGED is4accu

\* The instruction finds n values, the first of them of type t.
Find(n, t) ==
  /\ OneInstruction /\ ~entered /\ UNCHANGED entered
  /\ Len(items) >= n /\ \A i \in 1..n : items[i].t = t

\* Mutant: OS is written by every result.
ConditionsOfLast(v, OV) ==
  [stw EXCEPT !.A1 = (v > 0), !.A0 = (v < 0), !.OV = OV, !.OS = OV]

\* A1 and A0 tell the sign of v.
Conditions(v, OV) ==
  [stw EXCEPT !.A1 = (v > 0), !.A0 = (v < 0), !.OV = OV, !.OS = @ \/ OV]

\* The accumulators behind the two of an operation move up.
Behind == IF is4accu THEN <<accu[3], accu[4], accu[4]>> ELSE Tail(accu)

\* The exact result x replaces n values of type t; if it does not fit, the
\* expression goes on with what accumulator 1 has.
Yields(n, t, x, sign) ==
  /\ items' = <<[t |-> t, v |-> IF Fits(t, x) THEN x ELSE SignedOf(t, accu'[1])]>>
                \o SubSeq(items, n + 1, Len(items))
  /\ verdict' = [verdict EXCEPT !.sign = sign, !.over = ~Fits(t, x)]
  /\ lost' = (lost \/ ~Fits(t, x))

(***************************************************************************)
(* Arithmetic                                                              *)
(***************************************************************************)

\* What is left of v after +I, -I, +D or -D, which has the conditions.
LeavesSum(t, v) ==
  /\ accu' = <<Put(t, accu[1], v)>> \o Behind
  /\ stw' = Conditions(SignedOf(t, v), ~Fits(t, v))

\* A sum that does not fit has another sign than what is left of it.
SumSign(t, x) == IF Fits(t, x) THEN Sign(x) ELSE "any"

Add(t) ==
  /\ Find(2, t)
  /\ LeavesSum(t, SignedOf(t, accu[1]) + SignedOf(t, accu[2]))
  /\ LET exact == Exact("PL", items[2].v, items[1].v)
     IN Yields(2, t, exact, SumSign(t, exact))

Subtract(t) ==
  /\ Find(2, t)
  /\ LeavesSum(t, SignedOf(t, accu[2]) - SignedOf(t, accu[1]))
  /\ LET exact == Exact("MI", items[2].v, items[1].v)
     IN Yields(2, t, exact, SumSign(t, exact))

\* *I leaves a double word.
Multiply(t) ==
  /\ Find(2, t)
  /\ LET v == SignedOf(t, accu[2]) * SignedOf(t, accu[1])
     IN accu' = <<v % Width("D")>> \o Behind /\ stw' = Conditions(v, ~Fits(t, v))
  /\ LET exact == Exact("MU", items[2].v, items[1].v) IN Yields(2, t, exact, Sign(exact))

ModOf(x, y) == IF x < 0 THEN -(Magnitude(x) % Magnitude(y)) ELSE Magnitude(x) % Magnitude(y)

\* Mutant: the sign of the divisor is forgotten.
QuoOfMagnitude(x, y) == IF x < 0 THEN -(Magnitude(x) \div Magnitude(y))
                        ELSE Magnitude(x) \div Magnitude(y)

\* The code divides absolute values.
QuoOf(x, y) == IF (x < 0) # (y < 0) THEN -(Magnitude(x) \div Magnitude(y))
               ELSE Magnitude(x) \div Magnitude(y)

\* /I has the remainder in the high word.
Divide(t) ==
  /\ Find(2, t) /\ SignedOf(t, accu[1]) # 0
  /\ LET x == SignedOf(t, accu[2])
         y == SignedOf(t, accu[1])
         quo == QuoOf(x, y)
     IN /\ accu' = <<IF t = "I"
                     THEN (ModOf(x, y) % Width("I")) * Width("I") + (quo % Width("I"))
                     ELSE quo % Width("D")>> \o Behind
        /\ stw' = Conditions(quo, quo >= Pow2[BitsOf(t) - 1])
  /\ LET exact == Exact("DI", items[2].v, items[1].v) IN Yields(2, t, exact, Sign(exact))

Modulo ==
  /\ Find(2, "D") /\ SignedOf("D", accu[1]) # 0
  /\ LET rem == ModOf(SignedOf("D", accu[2]), SignedOf("D", accu[1]))
     IN accu' = <<rem % Width("D")>> \o Behind /\ stw' = Conditions(rem, FALSE)
  /\ LET exact == Exact("MOD", items[2].v, items[1].v) IN Yields(2, "D", exact, Sign(exact))

\* /I, /D and MOD: accumulator 1 stays, the others have moved by then.
DivideByZero(t) ==
  /\ Find(2, t) /\ SignedOf(t, accu[1]) = 0
  /\ accu' = <<accu[1]>> \o Behind
  /\ stw' = [stw EXCEPT !.A1 = TRUE, !.A0 = TRUE, !.OV = TRUE, !.OS = TRUE]
  /\ items' = <<[t |-> t, v |-> 0]>> \o SubSeq(items, 3, Len(items))
  /\ verdict' = [verdict EXCEPT !.sign = "undefined", !.over = TRUE]
  /\ lost' = TRUE

\* NEGI and NEGD.
Negate(t) ==
  /\ Find(1, t)
  /\ LET v == -SignedOf(t, accu[1])
     IN /\ accu' = [accu EXCEPT ![1] = Put(t, @, v)]
        /\ stw' = Conditions(SignedOf(t, v), ~Fits(t, v))
  /\ LET exact == -items[1].v IN Yields(1, t, exact, SumSign(t, exact))

\* +: a constant is added without a trace in the status word, and a program
\* that adds one knows that the sum fits.
AddConstant(t, c) ==
  /\ Find(1, t) /\ Fits(t, items[1].v + c)
  /\ accu' = [accu EXCEPT ![1] = Put(t, @, SignedOf(t, @) + c)]
  /\ items' = [items EXCEPT ![1].v = @ + c]
  /\ UNCHANGED <<stw, verdict, lost>>

\* INVI and INVD.
Invert(t) ==
  /\ Find(1, t)
  /\ accu' = [accu EXCEPT ![1] = Put(t, @, -1 - @)]
  /\ items' = [items EXCEPT ![1].v = -1 - @]
  /\ UNCHANGED <<stw, verdict, lost>>

\* ITD.
IntToDouble ==
  /\ Find(1, "I")
  /\ accu' = [accu EXCEPT ![1] = SignedOf("I", @) % Width("D")]
  /\ items' = [items EXCEPT ![1].t = "D"]
  /\ UNCHANGED <<stw, verdict, lost>>

(***************************************************************************)
(* Comparisons                                                             *)
(***************************************************************************)

\* VKE, by which of the accumulators is greater.
Relations == [EQ |-> {"same"}, NE |-> {"first", "second"}, GT |-> {"second"},
              LT |-> {"first"}, GE |-> {"same", "second"}, LE |-> {"same", "first"}]

\* Mutant: the accumulators are compared by their difference.
CompareByDifference(relation, t) ==
  /\ Find(2, t)
  /\ LET diff == SignedOf(t, SignedOf(t, accu[2]) - SignedOf(t, accu[1]))
         greater == IF diff = 0 THEN "same" ELSE IF diff < 0 THEN "first" ELSE "second"
     IN stw' = [stw EXCEPT !.A1 = (greater = "second"), !.A0 = (greater = "first"),
                           !.OV = FALSE, !.VKE = greater \in Relations[relation]]
  /\ verdict' = [sign |-> Sign(items[2].v - items[1].v), over |-> FALSE,
                 holds |-> Holds(relation, items[2].v, items[1].v)]
  /\ UNCHANGED <<accu, items, lost>>

CompareAccus(relation, t) ==
  /\ Find(2, t)
  /\ LET x == SignedOf(t, accu[1])
         y == SignedOf(t, accu[2])
         greater == IF x = y THEN "same" ELSE IF x > y THEN "first" ELSE "second"
     IN stw' = [stw EXCEPT !.A1 = (greater = "second"), !.A0 = (greater = "first"),
                           !.OV = FALSE, !.VKE = greater \in Relations[relation]]
  /\ verdict' = [sign |-> Sign(items[2].v - items[1].v), over |-> FALSE,
                 holds |-> Holds(relation, items[2].v, items[1].v)]
  /\ UNCHANGED <<accu, items, lost>>

(***************************************************************************)
(* Shifts and rotations, by a constant                                     *)
(***************************************************************************)

\* What is left of accumulator 1, and A1, of which the lowest bit counts.
ShiftLeft(t, count) ==
  LET word == accu[1] % Width(t)
  IN [word |-> word * Pow2[count], out |-> word \div Pow2[BitsOf(t) - count]]

ShiftRight(t, count) ==
  LET word == accu[1] % Width(t)
  IN [word |-> word \div Pow2[count], out |-> word \div Pow2[count - 1]]

ShiftSigned(t, count) ==
  LET x == SignedOf(t, accu[1]) IN [word |-> x \div Pow2[count], out |-> x \div Pow2[count - 1]]

RotateLeft(t, count) ==
  LET rotated == accu[1] * Pow2[count] + accu[1] \div Pow2[BitsOf(t) - count]
  IN [word |-> rotated, out |-> rotated]

RotateRight(t, count) ==
  LET rotated == accu[1] \div Pow2[count] + accu[1] * Pow2[BitsOf(t) - count]
  IN [word |-> rotated, out |-> rotated \div Pow2[BitsOf(t) - 1]]

Shifted(op, t, count) ==
  CASE op = "SL" -> ShiftLeft(t, count)
    [] op = "SR" -> ShiftRight(t, count)
    [] op = "SS" -> ShiftSigned(t, count)
    [] op = "RL" -> RotateLeft(t, count)
    [] op = "RR" -> RotateRight(t, count)

\* SLW, SRW, SSI, SLD, SRD, SSD, RLD and RRD.  A1 is the bit that has left the
\* word last.  The code moves by no more than the bits there are, and A1 of a
\* larger count is that of a count of these.
Shift(op, t, n) ==
  /\ Find(1, t) /\ n > 0
  /\ op \in {"RL", "RR"} => t = "D" /\ n <= BitsOf(t)
  /\ LET count == IF n > BitsOf(t) THEN BitsOf(t) ELSE n
         s == Shifted(op, t, count)
     IN /\ accu' = [accu EXCEPT ![1] = Put(t, @, s.word)]
        /\ stw' = [stw EXCEPT !.A1 = (s.out % 2 = 1), !.A0 = FALSE, !.OV = FALSE]
  /\ LET moved == Moved(op, BitsOf(t), items[1].v % Width(t), n)
     IN /\ items' = [items EXCEPT ![1].v = SignedOf(t, moved.word)]
        /\ verdict' = [verdict EXCEPT !.over = FALSE,
                         !.sign = IF n > BitsOf(t) THEN "any"
                                  ELSE IF moved.out = 1 THEN "plus" ELSE "zero"]
  /\ UNCHANGED lost

(***************************************************************************)
(* Moves between the accumulators                                          *)
(***************************************************************************)

\* L.  With one value there is room in accumulator 2; with more, ENT has made it.
Load(t, c) ==
  /\ OneInstruction /\ entered' = FALSE
  /\ Len(items) < 2 \/ entered
  /\ accu' = [accu EXCEPT ![2] = accu[1], ![1] = c % Width(t)]
  /\ items' = <<[t |-> t, v |-> c]>> \o items
  /\ UNCHANGED <<stw, verdict, lost>>

\* ENT, which a CPU with two accumulators does not have.
Enter ==
  /\ OneInstruction /\ is4accu /\ ~entered /\ Len(items) \in 2..3
  /\ accu' = <<accu[1], accu[2], accu[2], accu[3]>>
  /\ entered' = TRUE
  /\ UNCHANGED <<stw, items, verdict, lost>>

\* LEAVE: the value behind the last one is not needed any more.
LeaveAccu ==
  /\ OneInstruction /\ is4accu /\ ~entered /\ Len(items) >= 2
  /\ accu' = <<accu[1], accu[3], accu[4], accu[4]>>
  /\ items' = <<items[1]>> \o SubSeq(items, 3, Len(items))
  /\ UNCHANGED <<stw, entered, verdict, lost>>

\* TAK.
Swap ==
  /\ OneInstruction /\ ~entered /\ Len(items) >= 2
  /\ accu' = [accu EXCEPT ![1] = accu[2], ![2] = accu[1]]
  /\ items' = [items EXCEPT ![1] = items[2], ![2] = items[1]]
  /\ UNCHANGED <<stw, entered, verdict, lost>>

\* PUSH, with a value in accumulator 2 that is not needed, and POP.
Push ==
  /\ OneInstruction /\ ~entered /\ items # <<>>
  /\ accu' = [accu EXCEPT ![2] = accu[1]]
  /\ items' = <<items[1], items[1]>> \o SubSeq(items, 3, Len(items))
  /\ UNCHANGED <<stw, entered, verdict, lost>>

PopAccu ==
  /\ OneInstruction /\ ~entered /\ Len(items) >= 2
  /\ accu' = [accu EXCEPT ![1] = accu[2]]
  /\ items' = [items EXCEPT ![1] = items[2]]
  /\ UNCHANGED <<stw, entered, verdict, lost>>

(***************************************************************************)
(* Jumps and the ends of blocks                                            *)
(***************************************************************************)

SPZ == ~stw.A0 /\ ~stw.A1
SPN == stw.A1 # stw.A0
SPP == ~stw.A0 /\ stw.A1
SPM == stw.A0 /\ ~stw.A1
SPPZ == ~stw.A0
SPMZ == ~stw.A1
SPU == stw.A0 /\ stw.A1

\* The conditional jumps that are taken.
Taken ==
  LET taken == [SPZ |-> SPZ, SPN |-> SPN, SPP |-> SPP, SPM |-> SPM,
                SPPZ |-> SPPZ, SPMZ |-> SPMZ, SPU |-> SPU]
  IN {jump \in DOMAIN taken : taken[jump]}

\* SPS takes what OS has told.  BE and CALL clear OS as well, taken or not.
ClearOS ==
  /\ OneInstruction /\ ~entered
  /\ stw' = [stw EXCEPT !.OS = FALSE]
  /\ lost' = FALSE
  /\ UNCHANGED <<accu, items, entered, verdict>>

(***************************************************************************)
(* The specification                                                       *)
(***************************************************************************)

Calculate ==
  \E t \in Types :
    \/ Add(t) \/ Subtract(t) \/ Multiply(t) \/ Divide(t) \/ DivideByZero(t)
    \/ Negate(t) \/ Invert(t)
    \/ \E c \in Values : AddConstant(t, c)
    \/ \E relation \in DOMAIN Relations : CompareAccus(relation, t)
    \/ \E op \in {"SL", "SR", "SS", "RL", "RR"}, n \in Counts : Shift(op, t, n)

AccuNext ==
  \/ Calculate \/ Modulo \/ IntToDouble
  \/ \E t \in Types, c \in Values : Load(t, c)
  \/ NextCycle \/ Enter \/ LeaveAccu \/ Swap \/ Push \/ PopAccu \/ ClearOS

AccuSpec == AccuInit /\ [][AccuNext]_accuVars

(***************************************************************************)
(* Properties                                                              *)
(***************************************************************************)

\* ENT has moved all values but the last two.
Place(i) == IF entered /\ i > 2 THEN i + 1 ELSE i

\* Every value of the expression is in its accumulator, exactly, through all
\* instructions since the last result that did not fit.
ResultsAreExact ==
  \A i \in DOMAIN items : SignedOf(items[i].t, accu[Place(i)]) = items[i].v

\* OS tells at the end of a calculation, which is where programs look at it,
\* whether any result on the way did not fit or was not defined, whatever
\* the others and the comparisons in between have made of OV.
OverflowIsRemembered == stw.OS = lost

\* The conditional jumps decide on the last exact result: its sign, and for a
\* comparison which value is greater even where their difference does not
\* fit.  A sum that does not fit has no sign to rely on.
JumpsDecide ==
  /\ verdict.sign # "any" => Taken = Follow(verdict.sign)
  /\ stw.OV = verdict.over
  /\ stw.VKE = verdict.holds
=============================================================================
