------------------------------ MODULE Network -------------------------------
(***************************************************************************)
(* The Boolean expression that a network of bit logic instructions stands  *)
(* for: a sum of products, an "O" without operand beginning the next       *)
(* product, that may be negated as a whole.  sum has the values of the     *)
(* products but the last, and last those of the factors of the last one.   *)
(***************************************************************************)

Expressions == [sum : SUBSET BOOLEAN, last : SUBSET BOOLEAN, negated : BOOLEAN]

Single(v) == [sum |-> {}, last |-> {v}, negated |-> FALSE]

\* A network that has not begun; v is the result the one before it has left.
Left(v) == [sum |-> {}, last |-> {}, negated |-> v]

SumOf(e) == TRUE \in e.sum
Product(e) == e.last # {} /\ FALSE \notin e.last
Value(e) == IF e.negated THEN ~(SumOf(e) \/ Product(e)) ELSE SumOf(e) \/ Product(e)

\* Nothing has been done since the result in front was negated or left.
Fresh(e) == e.negated /\ e.last = {}

\* What an O, ON, X or XN with an operand finds in front of it.
InFront(e) == Value(e) /\ ~Fresh(e)

\* U and UN: a factor binds to the last product, or to all of what has been
\* negated; the products in front are summed up after it.
Times(e, v) ==
  [sum |-> e.sum, negated |-> FALSE,
   last |-> IF e.negated /\ e.last # {} THEN {Value(e), v} ELSE e.last \cup {v}]

Summed(values) == [sum |-> values, last |-> {}, negated |-> FALSE]

\* "O" without operand.
NextProduct(e) ==
  CASE Fresh(e) -> Left(Value(e))
    [] e.last = {} /\ ~e.negated -> e
    [] e.last # {} /\ ~e.negated -> Summed(e.sum \cup {Product(e)})
    [] e.last # {} /\ e.negated -> Summed({Value(e)})

Negated(e) == [e EXCEPT !.negated = ~@]

Joined(gate, e, v) ==
  CASE gate = "U"  -> Times(e, v)
    [] gate = "UN" -> Times(e, ~v)
    [] gate = "O"  -> Single(InFront(e) \/ v)
    [] gate = "ON" -> Single(InFront(e) \/ ~v)
    [] gate = "X"  -> Single(InFront(e) # v)
    [] gate = "XN" -> Single(InFront(e) = v)
=============================================================================
