---------------------------- MODULE StatusWord ----------------------------
(***************************************************************************)
(* What the bit logic instructions (awlsim/core/instructions) do to the    *)
(* bits NER, VKE and OR of the status word, and to a parenthesis element   *)
(* that has saved them.                                                    *)
(***************************************************************************)

Gates == {"U", "UN", "O", "ON", "X", "XN"}
Bits == [NER : BOOLEAN, VKE : BOOLEAN, OR : BOOLEAN]

ResetWord == [NER |-> FALSE, VKE |-> FALSE, OR |-> FALSE]

U(s, sta) ==
  LET newOR == s.OR /\ s.NER
  IN [VKE |-> ((s.VKE \/ ~s.NER) /\ sta) \/ newOR, OR |-> newOR, NER |-> TRUE]

UN(s, sta) == U(s, ~sta)

O(s, sta) == [VKE |-> (s.VKE /\ s.NER) \/ sta, OR |-> FALSE, NER |-> TRUE]

X(s, sta) == [VKE |-> (s.VKE /\ s.NER) # sta, OR |-> FALSE, NER |-> TRUE]

ON(s, sta) == O(s, ~sta)
XN(s, sta) == X(s, ~sta)

Operate(gate, s, sta) ==
  CASE gate = "U"  -> U(s, sta)
    [] gate = "UN" -> UN(s, sta)
    [] gate = "O"  -> O(s, sta)
    [] gate = "ON" -> ON(s, sta)
    [] gate = "X"  -> X(s, sta)
    [] gate = "XN" -> XN(s, sta)

\* "O" without operand: UND vor ODER.
OrSum(s) == [NER |-> s.VKE /\ s.NER, VKE |-> s.VKE, OR |-> (s.VKE \/ s.OR) /\ s.NER]

\* The bits at the end of a network, with the result it leaves.
Ended(vke) == [NER |-> FALSE, VKE |-> vke, OR |-> FALSE]

\* U(, UN(, O(, ON(, X( and XN( save the bits and keep VKE.
Opened(s) == Ended(s.VKE)

\* Mutant: the saved bit OR is lost.
ClosedWithoutOR(element, s) ==
  Operate(element.insnType, [element.bits EXCEPT !.OR = FALSE], s.VKE)

\* ")": the value in parentheses is the operand of what was saved.
Closed(element, s) == Operate(element.insnType, element.bits, s.VKE)
===========================================================================
