---------------------------- MODULE Calculation ----------------------------
(***************************************************************************)
(* What a program computes with integers: operations on the integers       *)
(* themselves, and shifts and rotations as so many moves by one bit.       *)
(* Nothing here is taken from how the CPU does it.                         *)
(***************************************************************************)
EXTENDS Integers, Sequences

\* 2^n.
Pow2[n \in Nat] == IF n = 0 THEN 1 ELSE 2 * Pow2[n - 1]

Magnitude(x) == IF x < 0 THEN -x ELSE x
Sign(x) == IF x < 0 THEN "minus" ELSE IF x > 0 THEN "plus" ELSE "zero"

\* The quotient whose remainder is less than the divisor and has the sign of
\* the dividend.
Quotient(x, y) ==
  CHOOSE q \in -Magnitude(x)..Magnitude(x) :
    LET rem == x - q * y
    IN Magnitude(rem) < Magnitude(y) /\ (rem = 0 \/ Sign(rem) = Sign(x))

Exact(op, x, y) ==
  CASE op = "PL" -> x + y
    [] op = "MI" -> x - y
    [] op = "MU" -> x * y
    [] op = "DI" -> Quotient(x, y)
    [] op = "MOD" -> x - Quotient(x, y) * y

Holds(relation, x, y) ==
  CASE relation = "EQ" -> x = y
    [] relation = "NE" -> x # y
    [] relation = "GT" -> x > y
    [] relation = "LT" -> x < y
    [] relation = "GE" -> x >= y
    [] relation = "LE" -> x <= y

\* One move of a word of "bits" bits, and the bit that has left it.
Move(op, bits, word) ==
  LET half == Pow2[bits - 1]
      top == word \div half
      low == word % 2
  IN CASE op = "SL" -> [word |-> (word - top * half) * 2, out |-> top]
       [] op = "SR" -> [word |-> word \div 2, out |-> low]
       [] op = "SS" -> [word |-> word \div 2 + top * half, out |-> low]
       [] op = "RL" -> [word |-> (word - top * half) * 2 + top, out |-> top]
       [] op = "RR" -> [word |-> word \div 2 + low * half, out |-> low]

Moved(op, bits, word, n) ==
  LET after[k \in 0..n] == IF k = 0 THEN [word |-> word, out |-> 0]
                           ELSE Move(op, bits, after[k - 1].word)
  IN after[n]

\* The conditional jumps that a result should let through, by its sign, and
\* those that tell that there is none.
Follow(verdict) ==
  CASE verdict = "zero" -> {"SPZ", "SPPZ", "SPMZ"}
    [] verdict = "plus" -> {"SPN", "SPP", "SPPZ"}
    [] verdict = "minus" -> {"SPN", "SPM", "SPMZ"}
    [] verdict = "undefined" -> {"SPU"}
=============================================================================
