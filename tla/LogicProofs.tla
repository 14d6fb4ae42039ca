---------------------------- MODULE LogicProofs -----------------------------
(***************************************************************************)
(* Proofs about Boolean logic, in a program and in a diagram: the status   *)
(* word agrees with the Boolean expression, for every size of the          *)
(* parenthesis and the call stack; and a grid is compiled and optimized    *)
(* to code whose jumps have their labels, whatever is drawn, with any      *)
(* number of elements and inputs.  FupProofs is about what that code does. *)
(***************************************************************************)
EXTENDS BitLogic, Fup, FiniteSetTheorems, SequenceTheorems, WellFoundedInduction, TLAPS

(***************************************************************************)
(* What the three bits of a status word have to do with an expression: VKE *)
(* alone is its value, and with NER what an O or X finds in front of it;   *)
(* OR and NER are the products in front of the last one; and a factor is   *)
(* multiplied with VKE unless the last product is without factors.         *)
(***************************************************************************)

LastFactor(e) == IF e.negated /\ e.last # {} THEN Value(e) ELSE FALSE \notin e.last

Agree(s, e) ==
  /\ s \in Bits /\ e \in Expressions
  /\ s.VKE <=> Value(e)
  /\ s.VKE /\ s.NER <=> InFront(e)
  /\ s.OR /\ s.NER <=> SumOf(e)
  /\ s.VKE \/ ~s.NER \/ SumOf(e) <=> LastFactor(e) \/ SumOf(e)

\* The parenthesis stack elements whose saved bits agree with the network in
\* front of the parenthesis.
AgreeingElements == {x \in Elements : Agree(x.bits, x.expr)}

StacksAgree(blocks) ==
  /\ blocks \in Seq(Seq(AgreeingElements))
  /\ Len(blocks) <= CallStackSize
  /\ \A i \in DOMAIN blocks : Len(blocks[i]) <= ParenStackSize

\* The inductive invariant.  It has to speak of the saved bits too: they are
\* the status word again when the parenthesis is closed.
IInv ==
  /\ Agree(sw, expr)
  /\ StacksAgree(stack)
  /\ mcrActive \in BOOLEAN /\ mcrStack \in Seq(BOOLEAN) /\ Len(mcrStack) <= MaxZones
  /\ q \in BOOLEAN

(***************************************************************************)
(* The instructions keep the agreement.                                    *)
(***************************************************************************)

LEMMA SingleAgrees ==
  ASSUME NEW v \in BOOLEAN
  PROVE  Agree([NER |-> TRUE, VKE |-> v, OR |-> FALSE], Single(v))
<1>1. Single(v) \in Expressions /\ [NER |-> TRUE, VKE |-> v, OR |-> FALSE] \in Bits
  BY DEF Single, Expressions, Bits
<1>2. ~SumOf(Single(v)) /\ ~Fresh(Single(v))
  BY DEF Single, SumOf, Fresh
<1>3. FALSE \notin {v} <=> v
  BY Zenon
<1>4. Product(Single(v)) <=> v
  BY <1>3 DEF Single, Product
<1>5. LastFactor(Single(v)) <=> v
  BY <1>3 DEF Single, LastFactor
<1>6. Value(Single(v)) <=> v
  BY <1>2, <1>4 DEF Value, Single
<1> QED
  BY <1>1, <1>2, <1>5, <1>6 DEF Agree, InFront

\* OR does not matter where no network has begun.
LEMMA LeftAgrees ==
  ASSUME NEW v \in BOOLEAN, NEW or \in BOOLEAN
  PROVE  Agree([NER |-> FALSE, VKE |-> v, OR |-> or], Left(v))
<1>1. Left(v) \in Expressions /\ [NER |-> FALSE, VKE |-> v, OR |-> or] \in Bits
  BY DEF Left, Expressions, Bits
<1>2. ~SumOf(Left(v)) /\ ~Product(Left(v)) /\ LastFactor(Left(v))
  BY DEF Left, SumOf, Product, LastFactor
<1>3. (Fresh(Left(v)) <=> v) /\ (Value(Left(v)) <=> v)
  BY <1>2 DEF Left, Fresh, Value
<1> QED
  BY <1>1, <1>2, <1>3 DEF Agree, InFront

LEMMA EndedAgrees ==
  ASSUME NEW v \in BOOLEAN
  PROVE  Agree(Ended(v), Left(v))
BY LeftAgrees DEF Ended

LEMMA OpenedAgrees ==
  ASSUME NEW s, NEW e, Agree(s, e)
  PROVE  Agree(Opened(s), Left(Value(e)))
<1>1. s.VKE \in BOOLEAN /\ s.VKE = Value(e)
  BY DEF Agree, Bits, Value
<1> QED
  BY <1>1, EndedAgrees DEF Opened

LEMMA NotAgrees ==
  ASSUME NEW s, NEW e, Agree(s, e)
  PROVE  Agree([s EXCEPT !.VKE = ~@], Negated(e))
BY DEF Agree, Bits, Expressions, Negated, Value, SumOf, Product, InFront, Fresh, LastFactor

\* A network between its products: OR is the sum if the sum is true.
LEMMA SummedAgrees ==
  ASSUME NEW values \in SUBSET BOOLEAN, NEW v \in BOOLEAN, NEW or \in BOOLEAN,
         v <=> TRUE \in values, v => or
  PROVE  Agree([NER |-> v, VKE |-> v, OR |-> or], Summed(values))
<1>1. Summed(values) \in Expressions /\ [NER |-> v, VKE |-> v, OR |-> or] \in Bits
  BY DEF Summed, Expressions, Bits
<1>2. /\ SumOf(Summed(values)) <=> v
      /\ ~Product(Summed(values)) /\ ~Fresh(Summed(values)) /\ LastFactor(Summed(values))
  BY DEF Summed, SumOf, Product, Fresh, LastFactor
<1>3. Value(Summed(values)) <=> v
  BY <1>2 DEF Summed, Value
<1> QED
  BY <1>1, <1>2, <1>3 DEF Agree, InFront

LEMMA SumAgrees ==
  ASSUME NEW s, NEW e, Agree(s, e)
  PROVE  Agree(OrSum(s), NextProduct(e))
<1> DEFINE or == (s.VKE \/ s.OR) /\ s.NER
<1>1. /\ s.VKE \in BOOLEAN /\ s.OR \in BOOLEAN /\ s.NER \in BOOLEAN /\ or \in BOOLEAN
      /\ e \in Expressions /\ e.sum \in SUBSET BOOLEAN /\ e.last \in SUBSET BOOLEAN
      /\ e.negated \in BOOLEAN /\ Value(e) \in BOOLEAN /\ Product(e) \in BOOLEAN
  BY DEF Agree, Bits, Expressions, Value, Product
<1>2. s.VKE = Value(e)
  BY <1>1 DEF Agree
<1>2a. OrSum(s) = [NER |-> s.VKE /\ s.NER, VKE |-> s.VKE, OR |-> or]
  BY DEF OrSum
<1>2b. s.VKE /\ s.NER => or
  OBVIOUS
<1> HIDE DEF or
<1>3. CASE Fresh(e)
  <2>1. s.VKE /\ s.NER <=> FALSE
    BY <1>3 DEF Agree, InFront
  <2>2. OrSum(s) = [NER |-> FALSE, VKE |-> s.VKE, OR |-> or]
    BY <1>2a, <2>1
  <2>3. NextProduct(e) = Left(s.VKE)
    BY <1>2, <1>3 DEF NextProduct, Fresh
  <2> QED
    BY <1>1, <2>2, <2>3, LeftAgrees
<1>4. CASE ~Fresh(e)
  <2>1. s.VKE /\ s.NER <=> s.VKE
    BY <1>4 DEF Agree, InFront
  <2>2. OrSum(s) = [NER |-> s.VKE, VKE |-> s.VKE, OR |-> or]
    BY <1>1, <1>2a, <2>1
  <2>3. s.VKE => or
    BY <1>2b, <2>1
  <2>4. CASE e.last = {} /\ ~e.negated
    <3>1. NextProduct(e) = Summed(e.sum)
      BY <1>1, <2>4 DEF NextProduct, Fresh, Summed, Expressions
    <3>2. s.VKE <=> TRUE \in e.sum
      BY <1>2, <2>4 DEF Value, SumOf, Product
    <3>3. Agree([NER |-> s.VKE, VKE |-> s.VKE, OR |-> or], Summed(e.sum))
      BY <1>1, <2>3, <3>2, SummedAgrees, Zenon
    <3> QED
      BY <2>2, <3>1, <3>3
  <2>5. CASE e.last # {} /\ ~e.negated
    <3>1. NextProduct(e) = Summed(e.sum \cup {Product(e)})
      BY <2>5 DEF NextProduct, Fresh
    <3>2. TRUE \in {Product(e)} <=> Product(e)
      BY <1>1, Zenon
    <3>3. s.VKE <=> TRUE \in e.sum \cup {Product(e)}
      BY <1>2, <2>5, <3>2 DEF Value, SumOf
    <3>4. e.sum \cup {Product(e)} \in SUBSET BOOLEAN
      BY <1>1
    <3>5. Agree([NER |-> s.VKE, VKE |-> s.VKE, OR |-> or], Summed(e.sum \cup {Product(e)}))
      BY <1>1, <2>3, <3>3, <3>4, SummedAgrees, Zenon
    <3> QED
      BY <2>2, <3>1, <3>5
  <2>6. CASE e.last # {} /\ e.negated
    <3>1. NextProduct(e) = Summed({Value(e)})
      BY <2>6 DEF NextProduct, Fresh
    <3>2. s.VKE <=> TRUE \in {Value(e)}
      BY <1>1, <1>2, Zenon
    <3> QED
      BY <1>1, <2>2, <2>3, <3>1, <3>2, SummedAgrees
  <2> QED
    BY <1>1, <1>4, <2>4, <2>5, <2>6 DEF Fresh
<1> QED
  BY <1>3, <1>4

LEMMA TimesAgrees ==
  ASSUME NEW s, NEW e, Agree(s, e), NEW v \in BOOLEAN
  PROVE  Agree(U(s, v), Times(e, v))
BY DEF Agree, Bits, Expressions, U, Times, Value, SumOf, Product, InFront, Fresh, LastFactor

LEMMA OperateAgrees ==
  ASSUME NEW s, NEW e, Agree(s, e), NEW v \in BOOLEAN, NEW gate \in Gates
  PROVE  Agree(Operate(gate, s, v), Joined(gate, e, v))
<1>1. CASE gate = "U"
  BY <1>1, TimesAgrees DEF Operate, Joined
<1>2. CASE gate = "UN"
  BY <1>2, TimesAgrees DEF Operate, Joined, UN
<1>3. CASE gate = "O"
  BY <1>3, SingleAgrees DEF Operate, Joined, O, Agree
<1>4. CASE gate = "ON"
  BY <1>4, SingleAgrees DEF Operate, Joined, O, ON, Agree
<1>5. (s.VKE /\ s.NER) = InFront(e) /\ InFront(e) \in BOOLEAN
  BY DEF Agree, InFront
<1>6. CASE gate = "X"
  <2>1. Operate(gate, s, v) = [NER |-> TRUE, VKE |-> InFront(e) # v, OR |-> FALSE]
    BY <1>5, <1>6 DEF Operate, X
  <2> QED
    BY <1>6, <2>1, SingleAgrees DEF Joined
<1>7. CASE gate = "XN"
  <2>1. (InFront(e) # ~v) = (InFront(e) = v)
    BY <1>5
  <2>2. Operate(gate, s, v) = [NER |-> TRUE, VKE |-> InFront(e) # ~v, OR |-> FALSE]
    BY <1>5, <1>7 DEF Operate, X, XN
  <2> QED
    BY <1>7, <2>1, <2>2, SingleAgrees DEF Joined
<1> QED
  BY <1>1, <1>2, <1>3, <1>4, <1>6, <1>7 DEF Gates

(***************************************************************************)
(* What the instructions do to the stacks                                  *)
(***************************************************************************)

LEMMA ReplaceTop ==
  ASSUME NEW blocks, StacksAgree(blocks), blocks # <<>>,
         NEW top \in Seq(AgreeingElements), Len(top) <= ParenStackSize
  PROVE  StacksAgree([blocks EXCEPT ![Len(blocks)] = top])
BY BitLogicAssumption DEF StacksAgree

LEMMA PushBlock ==
  ASSUME NEW blocks, StacksAgree(blocks), Len(blocks) < CallStackSize
  PROVE  StacksAgree(Append(blocks, <<>>))
BY BitLogicAssumption DEF StacksAgree

LEMMA PopBlock ==
  ASSUME NEW blocks, StacksAgree(blocks), blocks # <<>>
  PROVE  StacksAgree(SubSeq(blocks, 1, Len(blocks) - 1))
BY BitLogicAssumption DEF StacksAgree

LEMMA FirstBlock == StacksAgree(<<>>) /\ StacksAgree(<< <<>> >>)
BY BitLogicAssumption DEF StacksAgree

(***************************************************************************)
(* The invariant                                                           *)
(***************************************************************************)

LEMMA BeginKeeps ==
  ASSUME Begin
  PROVE  Agree(sw, expr)' /\ StacksAgree(stack)'
<1>1. ResetWord = Ended(FALSE)
  BY DEF ResetWord, Ended
<1> QED
  BY <1>1, EndedAgrees, FirstBlock DEF Begin

LEMMA EndKeeps ==
  ASSUME Agree(sw, expr), End(sw.VKE, Value(expr))
  PROVE  Agree(sw, expr)'
<1>1. sw.VKE \in BOOLEAN /\ sw.VKE = Value(expr)
  BY DEF Agree, Bits, Value
<1> QED
  BY <1>1, EndedAgrees DEF End

LEMMA InitIInv == Init => IInv
<1> SUFFICES ASSUME Init PROVE IInv
  OBVIOUS
<1>1. Agree(sw, expr)
  BY EndedAgrees DEF Init, ResetWord, Ended
<1>2. StacksAgree(stack)
  BY FirstBlock DEF Init
<1>3. mcrStack \in Seq(BOOLEAN) /\ Len(mcrStack) <= MaxZones
  BY BitLogicAssumption DEF Init
<1>4. mcrActive \in BOOLEAN /\ q \in BOOLEAN
  BY DEF Init
<1> QED
  BY <1>1, <1>2, <1>3, <1>4 DEF IInv

LEMMA NextIInv == IInv /\ [Next]_vars => IInv'
<1> SUFFICES ASSUME IInv, [Next]_vars PROVE IInv'
  OBVIOUS
<1>1. /\ Agree(sw, expr) /\ StacksAgree(stack)
      /\ sw.VKE \in BOOLEAN /\ Value(expr) \in BOOLEAN /\ sw.VKE = Value(expr)
  BY DEF IInv, Agree, Bits, Value
<1> DEFINE McrTypes == mcrActive \in BOOLEAN /\ mcrStack \in Seq(BOOLEAN) /\ Len(mcrStack) <= MaxZones
<1>2. McrTypes /\ q \in BOOLEAN
  BY DEF IInv
<1>3. CASE RunOB
  BY <1>2, <1>3, BeginKeeps DEF RunOB, mcr, IInv
<1>3a. CASE Reset
  <2>1. Init'
    BY <1>3a DEF Reset, Init
  <2> QED
    BY <2>1, InitIInv, PTL
<1>4. ASSUME NEW gate \in Gates, NEW sta \in BOOLEAN, Gate(gate, sta) PROVE IInv'
  BY <1>1, <1>2, <1>4, OperateAgrees DEF Gate, mcr, IInv
<1>5. CASE NextSum
  BY <1>1, <1>2, <1>5, SumAgrees DEF NextSum, mcr, IInv
<1>6. ASSUME NEW gate \in Gates, Open(gate) PROVE IInv'
  <2> DEFINE element == [insnType |-> gate, bits |-> sw, expr |-> expr]
             top == Append(stack[Len(stack)], element)
  <2>1. element \in AgreeingElements
    BY <1>1 DEF AgreeingElements, Elements, Agree
  <2>2. stack # <<>> /\ Len(stack) \in DOMAIN stack /\ stack[Len(stack)] \in Seq(AgreeingElements)
    BY <1>1, <1>6 DEF Open, Instruction, StacksAgree
  <2>3. top \in Seq(AgreeingElements) /\ Len(top) <= ParenStackSize
    BY <2>1, <2>2, <1>6, BitLogicAssumption DEF Open, Parens
  <2>4. stack' = [stack EXCEPT ![Len(stack)] = top]
    BY <1>6 DEF Open
  <2>5. StacksAgree(stack)'
    BY <1>1, <2>2, <2>3, <2>4, ReplaceTop
  <2>6. Agree(sw, expr)'
    BY <1>1, <1>6, OpenedAgrees DEF Open
  <2> QED
    BY <1>2, <1>6, <2>5, <2>6 DEF Open, mcr, IInv
<1>7. CASE Close
  <2> DEFINE element == stack[Len(stack)][Len(stack[Len(stack)])]
             top == SubSeq(stack[Len(stack)], 1, Len(stack[Len(stack)]) - 1)
  <2>1. /\ stack # <<>> /\ stack[Len(stack)] # <<>>
        /\ stack[Len(stack)] \in Seq(AgreeingElements) /\ Len(stack[Len(stack)]) <= ParenStackSize
    BY <1>1, <1>7 DEF Close, Instruction, Parens, StacksAgree
  <2>2. element \in AgreeingElements
    BY <2>1
  <2>3. top \in Seq(AgreeingElements) /\ Len(top) <= ParenStackSize
    BY <2>1, BitLogicAssumption
  <2>4. stack' = [stack EXCEPT ![Len(stack)] = top]
    BY <1>7 DEF Close
  <2>5. StacksAgree(stack)'
    BY <1>1, <2>1, <2>3, <2>4, ReplaceTop
  <2>6. Agree(element.bits, element.expr) /\ element.insnType \in Gates
    BY <2>2 DEF AgreeingElements, Elements
  <2>7. sw' = Operate(element.insnType, element.bits, sw.VKE)
        /\ expr' = Joined(element.insnType, element.expr, sw.VKE)
    BY <1>1, <1>7 DEF Close, Closed, Parens
  <2>8. Agree(sw, expr)'
    BY <1>1, <2>6, <2>7, OperateAgrees
  <2> QED
    BY <1>2, <1>7, <2>5, <2>8 DEF Close, mcr, IInv
<1>8. CASE Not
  BY <1>1, <1>2, <1>8, NotAgrees DEF Not, mcr, IInv
<1>9. ASSUME NEW rising \in BOOLEAN, NEW fm \in BOOLEAN, Edge(rising, fm) PROVE IInv'
  <2> DEFINE edge == IF rising THEN sw.VKE /\ ~fm ELSE ~sw.VKE /\ fm
  <2>1. edge \in BOOLEAN
    OBVIOUS
  <2>2. sw' = [NER |-> TRUE, VKE |-> edge, OR |-> FALSE] /\ expr' = Single(edge)
    BY <1>1, <1>9 DEF Edge
  <2>3. Agree(sw, expr)'
    BY <2>1, <2>2, SingleAgrees
  <2> QED
    BY <1>1, <1>2, <1>9, <2>3 DEF Edge, mcr, IInv
<1>10. ASSUME NEW v \in BOOLEAN, Compare(v) PROVE IInv'
  BY <1>1, <1>2, <1>10, SingleAgrees DEF Compare, mcr, IInv
<1>11. ASSUME NEW v \in BOOLEAN, Constant(v) PROVE IInv'
  BY <1>1, <1>2, <1>11, EndedAgrees DEF Constant, End, mcr, IInv
<1>12. ASSUME NEW v \in BOOLEAN, SetMcrActive(v) PROVE IInv'
  BY <1>1, <1>2, <1>12 DEF SetMcrActive, IInv
<1>13. ConditionalJump => IInv'
  BY <1>1, <1>2, EndedAgrees DEF ConditionalJump, End, mcr, IInv
<1>14. CASE Use
  BY <1>1, <1>2, <1>14, EndKeeps DEF Use, mcr, IInv
<1>15. CASE Assign
  BY <1>1, <1>2, <1>15, EndKeeps DEF Assign, mcr, IInv
<1>16. CASE SetOutput
  BY <1>1, <1>2, <1>16, EndKeeps DEF SetOutput, mcr, IInv
<1>17. CASE ResetOutput
  BY <1>1, <1>2, <1>17, EndKeeps DEF ResetOutput, mcr, IInv
<1>18. CASE OpenZone
  <2>1. Agree(sw, expr)' /\ StacksAgree(stack)'
    BY <1>1, <1>18, EndKeeps, BeginKeeps DEF OpenZone
  <2>2. McrTypes'
    BY <1>1, <1>2, <1>18, BitLogicAssumption DEF OpenZone
  <2> QED
    BY <1>2, <1>18, <2>1, <2>2 DEF OpenZone, IInv
<1>19. CASE CloseZone
  <2>1. McrTypes'
    BY <1>1, <1>2, <1>19, BitLogicAssumption DEF CloseZone
  <2> QED
    BY <1>1, <1>2, <1>19, <2>1, EndKeeps DEF CloseZone, IInv
<1>20. ASSUME NEW v \in BOOLEAN, Call(v, v) PROVE IInv'
  BY <1>1, <1>2, <1>20, EndedAgrees, PushBlock DEF Call, End, mcr, IInv
<1>21. Return => IInv'
  BY <1>1, <1>2, EndKeeps, PopBlock DEF Return, Instruction, mcr, IInv
<1>22. CASE CallBlock
  BY <1>1, <1>20, <1>22 DEF CallBlock
<1>23. CASE ConditionalCall
  BY <1>13, <1>20, <1>23 DEF ConditionalCall
<1>24. CASE BlockEnd \/ ConditionalEnd
  BY <1>13, <1>21, <1>24 DEF BlockEnd, ConditionalEnd
<1>25. CASE UNCHANGED vars
  BY <1>1, <1>2, <1>25 DEF vars, IInv
<1> QED
  BY <1>3, <1>3a, <1>4, <1>5, <1>6, <1>7, <1>8, <1>9, <1>10, <1>11, <1>12, <1>13, <1>14, <1>15, <1>16,
     <1>17, <1>18, <1>19, <1>22, <1>23, <1>24, <1>25 DEF Next

LEMMA IInvariant == Spec => []IInv
BY InitIInv, NextIInv, PTL DEF Spec

\* Every variable has its type and the stacks keep their sizes, whatever
\* instructions a program has.
THEOREM TypeCorrect == Spec => []TypeOK
<1>1. IInv => TypeOK
  <2> SUFFICES ASSUME IInv PROVE TypeOK
    OBVIOUS
  <2>1. Seq(Seq(AgreeingElements)) \subseteq Seq(Seq(Elements))
    <3>1. Seq(AgreeingElements) \subseteq Seq(Elements)
      BY DEF AgreeingElements
    <3> QED
      BY <3>1
  <2> QED
    BY <2>1 DEF IInv, TypeOK, StacksAgree, Agree
<1> QED
  BY <1>1, IInvariant, PTL

\* At every instruction of every program VKE is the value of the Boolean
\* expression spelled out in front of it, for every depth of parentheses and
\* calls.
THEOREM ResultCorrect == Spec => []ResultIsExpression
<1>1. IInv => ResultIsExpression
  BY DEF IInv, Agree, Bits, Value, ResultIsExpression
<1> QED
  BY <1>1, IInvariant, PTL

\* What =, S and R write is decided by the expression in front of them and by
\* the zones around them.
THEOREM OutputsCorrect == Spec => OutputsFollow
<1>1. IInv /\ [Next]_vars => [/\ Assign => q' = On
                              /\ SetOutput => q' = (q \/ On)
                              /\ ResetOutput => q' = (q /\ ~On)]_vars
  <2> SUFFICES ASSUME IInv
               PROVE  /\ Assign => q' = On
                      /\ SetOutput => q' = (q \/ On)
                      /\ ResetOutput => q' = (q /\ ~On)
    OBVIOUS
  <2>1. (sw.VKE /\ McrIsOn) = On
    BY DEF IInv, Agree, Bits, Value, On, McrIsOn
  <2> QED
    BY <2>1 DEF Assign, SetOutput, ResetOutput
<1> QED
  BY <1>1, IInvariant, PTL DEF Spec, OutputsFollow

\* A set of numbers has a least one.
LEMMA LeastOfSet ==
  ASSUME NEW T, T \subseteq Nat, T # {}
  PROVE  \E x \in T : \A y \in T : x <= y
<1> DEFINE R == {ss \in Nat \X Nat : ss[1] < ss[2]}
<1>1. IsWellFoundedOn(R, Nat)
  BY NatLessThanWellFounded, Zenon DEF OpToRel
<1> HIDE DEF R
<1>2. PICK x \in T : \A y \in T : <<y, x>> \notin R
  BY <1>1, WFMin, Zenon
<1>3. ASSUME NEW y \in T PROVE x <= y
  <2>1. <<y, x>> \notin R
    BY <1>2
  <2>2. x \in Nat /\ y \in Nat
    OBVIOUS
  <2> QED BY <2>1, <2>2 DEF R
<1> QED BY <1>3

\* A set that has 0, and with a number the next one, has them all.
LEMMA SetInduction ==
  ASSUME NEW S, 0 \in S, \A n \in Nat : n \in S => n + 1 \in S
  PROVE  Nat \subseteq S
<1> DEFINE T == Nat \ S
<1>1. ASSUME T # {} PROVE FALSE
  <2>1. PICK x \in T : \A y \in T : x <= y
    BY <1>1, LeastOfSet
  <2>2. x \in Nat /\ x # 0
    BY <2>1
  <2>3. x - 1 \in Nat /\ x - 1 \notin T
    BY <2>1, <2>2
  <2> QED BY <2>1, <2>2, <2>3
<1> QED BY <1>1

\* What is computed step by step can be computed as far as one likes.
StepByStep(g, V, c, m, F) ==
  g \in [0..m -> V] /\ g[0] = c /\ \A k \in 1..m : g[k] = F[<<g[k - 1], k>>]

LEMMA Recursion ==
  ASSUME NEW V, NEW c \in V, NEW m \in Nat, NEW F \in [V \X (1..m) -> V]
  PROVE  \E g : StepByStep(g, V, c, m, F)
<1> DEFINE Steps(n, g) == g \in [0..n -> V] /\ g[0] = c /\ \A k \in 1..n : g[k] = F[<<g[k - 1], k>>]
           S == {n \in Nat : n <= m => \E g : Steps(n, g)}
<1>1. 0 \in S
  <2>1. Steps(0, [k \in 0..0 |-> c])
    OBVIOUS
  <2> QED BY <2>1
<1>2. ASSUME NEW n \in Nat, n \in S PROVE n + 1 \in S
  <2> SUFFICES ASSUME n + 1 <= m PROVE \E h : Steps(n + 1, h)
    OBVIOUS
  <2>1. PICK g : Steps(n, g)
    BY <1>2
  <2> DEFINE h == [k \in 0..(n + 1) |-> IF k <= n THEN g[k] ELSE F[<<g[n], n + 1>>]]
  <2>2. g[n] \in V /\ <<g[n], n + 1>> \in V \X (1..m)
    BY <2>1
  <2>3. h \in [0..(n + 1) -> V] /\ h[0] = c
    BY <2>1, <2>2
  <2>4. ASSUME NEW k \in 1..(n + 1) PROVE h[k] = F[<<h[k - 1], k>>]
    <3>1. k - 1 \in 0..n /\ h[k - 1] = g[k - 1]
      OBVIOUS
    <3>2. CASE k <= n
      BY <2>1, <3>1, <3>2
    <3>3. CASE k = n + 1
      BY <3>1, <3>3
    <3> QED BY <3>2, <3>3
  <2> QED BY <2>3, <2>4
<1> HIDE DEF Steps
<1> HIDE DEF S
<1>3. m \in S
  BY <1>1, <1>2, SetInduction
<1>4. \E g : Steps(m, g)
  BY <1>3 DEF S
<1> QED BY <1>4 DEF Steps, StepByStep


\* A function that is defined by recursion: its value at x depends on its
\* values at what is ranked lower.
AgreeBelow(V, rank, n, h1, h2) == \A x \in V : rank[x] < n => h1[x] = h2[x]
IsLocal(V, Y, rank, G) ==
  \A x \in V, h1, h2 \in [V -> Y] :
    AgreeBelow(V, rank, rank[x], h1, h2) => G[<<x, h1>>] = G[<<x, h2>>]

IsRecursive(f, V, Y, G) == f \in [V -> Y] /\ \A x \in V : f[x] = G[<<x, f>>]

LEMMA RankedRecursion ==
  ASSUME NEW V, NEW Y, NEW y0 \in Y, NEW N \in Nat, NEW rank \in [V -> 0..N],
         NEW G \in [V \X [V -> Y] -> Y], IsLocal(V, Y, rank, G)
  PROVE  \E f : IsRecursive(f, V, Y, G)
<1> DEFINE Solves(f, n) == \A x \in V : rank[x] < n => f[x] = G[<<x, f>>]
           S == {n \in Nat : \E f \in [V -> Y] : Solves(f, n)}
<1>1. 0 \in S
  <2>1. [x \in V |-> y0] \in [V -> Y] /\ Solves([x \in V |-> y0], 0)
    OBVIOUS
  <2> QED BY <2>1
<1>2. ASSUME NEW n \in Nat, n \in S PROVE n + 1 \in S
  <2>1. PICK f \in [V -> Y] : Solves(f, n)
    BY <1>2
  <2> DEFINE g == [x \in V |-> IF rank[x] < n THEN f[x] ELSE G[<<x, f>>]]
  <2>2. g \in [V -> Y]
    OBVIOUS
  <2>3. ASSUME NEW x \in V, rank[x] < n + 1 PROVE g[x] = G[<<x, g>>]
    <3>1. AgreeBelow(V, rank, rank[x], f, g)
      BY <2>3 DEF AgreeBelow
    <3>2. G[<<x, f>>] = G[<<x, g>>]
      BY <2>2, <3>1 DEF IsLocal
    <3>3. g[x] = G[<<x, f>>]
      BY <2>1
    <3> QED BY <3>2, <3>3
  <2> HIDE DEF g
  <2>4. Solves(g, n + 1)
    BY <2>3
  <2> QED BY <2>2, <2>4
<1> HIDE DEF Solves
<1> HIDE DEF S
<1>3. N + 1 \in S
  BY <1>1, <1>2, SetInduction
<1>4. PICK f \in [V -> Y] : Solves(f, N + 1)
  BY <1>3 DEF S
<1> QED BY <1>2, <1>4 DEF Solves, IsRecursive

(***************************************************************************)
(* Diagrams that can be compiled.                                          *)
(***************************************************************************)

\* The pins of a diagram, and its parts.
GridPins(d) == {Load(name) : name \in Loads} \cup UNION {PinsOf(d, i) : i \in DOMAIN d.nodes}
Wires(P) == [pin : P, inverted : BOOLEAN]
Elems(P) == [kind : Booleans \cup Boxes, ins : Seq(Wires(P)), inverted : BOOLEAN, source : Nat]

\* A pin that comes before node i: nodes are ordered by a rank.
Before(rank, pin, i) == pin[1] # 0 => rank[pin[1]] < rank[i]

\* A node of a diagram: a gate has inputs, a box one at most, that is not
\* inverted, and only a MOVE has its data from another one.
NodeFits(d, rank, i) ==
  /\ \A k \in DOMAIN d.nodes[i].ins : Before(rank, d.nodes[i].ins[k].pin, i)
  /\ Is(d, i, Booleans) => d.nodes[i].ins # <<>> /\ d.nodes[i].source = 0
  /\ Is(d, i, Boxes) =>
       /\ Len(d.nodes[i].ins) <= 1
       /\ \A k \in DOMAIN d.nodes[i].ins : ~d.nodes[i].ins[k].inverted
  /\ Is(d, i, {"CMP"}) => d.nodes[i].source = 0
  /\ d.nodes[i].source # 0 =>
       Is(d, d.nodes[i].source, {"MOVE"}) /\ rank[d.nodes[i].source] < rank[i]

IsDiagram(d) ==
  /\ d = Diagram(d.nodes, d.stores)
  /\ d.nodes \in Seq(Elems(GridPins(d)))
  /\ DOMAIN d.stores \subseteq Stores /\ IsFiniteSet(DOMAIN d.stores)
  /\ d.stores \in [DOMAIN d.stores -> GridPins(d)]

Fits(d, rank, N) ==
  /\ IsDiagram(d)
  /\ N \in Nat /\ rank \in [DOMAIN d.nodes -> 0..N]
  /\ \A i \in DOMAIN d.nodes : NodeFits(d, rank, i)

\* What a pin can be.
LEMMA KindsOfPins ==
  ASSUME NEW d, IsDiagram(d), NEW pin \in GridPins(d)
  PROVE  /\ pin = <<pin[1], pin[2]>> /\ pin[1] \in Nat
         /\ pin[1] = 0 => pin[2] \in Loads /\ pin = Load(pin[2])
         /\ pin[1] # 0 => pin[1] \in DOMAIN d.nodes /\ pin \in PinsOf(d, pin[1])
<1> DEFINE n == d.nodes
<1>1. n \in Seq(Elems(GridPins(d)))
  BY DEF IsDiagram
<1>2. DOMAIN n = 1..Len(n) /\ Len(n) \in Nat
  BY <1>1, LenProperties
<1>3. CASE \E name \in Loads : pin = Load(name)
  BY <1>3, <1>2 DEF Load
<1>4. ASSUME NEW i \in DOMAIN n, pin \in PinsOf(d, i) PROVE pin = <<pin[1], pin[2]>> /\ pin[1] = i
  <2>1. n[i] \in Elems(GridPins(d))
    BY <1>1, ElementOfSeq, <1>2
  <2>2. n[i].kind \in Booleans \cup Boxes
    BY <2>1 DEF Elems
  <2>3. pin \in {Out(i), Eno(i)}
    BY <2>2, <1>4 DEF PinsOf, Is, Booleans, Boxes
  <2> QED BY <2>3 DEF Out, Eno
<1> HIDE DEF n
<1>5. (\E name \in Loads : pin = Load(name)) \/ (\E i \in DOMAIN n : pin \in PinsOf(d, i))
  BY DEF GridPins, n
<1>6. CASE \E i \in DOMAIN n : pin \in PinsOf(d, i)
  <2>1. PICK i \in DOMAIN n : pin \in PinsOf(d, i)
    BY <1>6
  <2>2. pin = <<pin[1], pin[2]>> /\ pin[1] = i
    BY <1>4, <2>1
  <2>3. i \in Nat /\ i # 0
    BY <1>2
  <2> QED BY <2>1, <2>2, <2>3 DEF n
<1> QED BY <1>3, <1>5, <1>6 DEF n

\* The pins of each kind of node.
LEMMA PinsOfKinds ==
  ASSUME NEW d, IsDiagram(d), NEW i \in DOMAIN d.nodes
  PROVE  /\ i \in Nat \ {0}
         /\ d.nodes[i] \in Elems(GridPins(d))
         /\ Is(d, i, Booleans) \/ Is(d, i, {"MOVE"}) \/ Is(d, i, {"CMP"})
         /\ Is(d, i, Booleans) => ~Is(d, i, Boxes) /\ PinsOf(d, i) = {Out(i)}
         /\ Is(d, i, {"MOVE"}) => Is(d, i, Boxes) /\ ~Is(d, i, {"CMP"}) /\ ~Is(d, i, Booleans) /\ PinsOf(d, i) = {Eno(i)}
         /\ Is(d, i, {"CMP"}) => Is(d, i, Boxes) /\ ~Is(d, i, {"MOVE"}) /\ ~Is(d, i, Booleans) /\ PinsOf(d, i) = {Out(i), Eno(i)}
<1>1. d.nodes \in Seq(Elems(GridPins(d)))
  BY DEF IsDiagram
<1>2. DOMAIN d.nodes = 1..Len(d.nodes) /\ Len(d.nodes) \in Nat
  BY <1>1, LenProperties
<1>3. d.nodes[i] \in Elems(GridPins(d)) /\ i \in Nat \ {0}
  BY <1>1, ElementOfSeq, <1>2
<1>4. d.nodes[i].kind \in Booleans \cup Boxes
  BY <1>3 DEF Elems
<1> QED BY <1>3, <1>4 DEF Is, PinsOf, Booleans, Boxes

(***************************************************************************)
(* The type of a compilation.                                              *)
(***************************************************************************)

Marks == {"", "BIE", "OUT", "ENO", "TEMP", "TEMP ENO", "T", "end", "set"}
Ops == {"U", "UN", "O", "ON", "U(", "UN(", "O(", "ON(", ")", "NOT", "SET", "SAVE", "CMP", "=",
        "T", "SPBNB", "NOP", "BE"}
Names(d) == Marks \cup {pin[2] : pin \in GridPins(d)} \cup DOMAIN d.stores
Args(d) == Nat \X Names(d)
InsnsOf(d) == [op : Ops, arg : Args(d), label : Args(d)]
Result(d) ==
  [code : Seq(InsnsOf(d)), done : SUBSET DOMAIN d.nodes, loaded : SUBSET Wired(d),
   stored : SUBSET DOMAIN d.stores, temps : SUBSET Wired(d), failed : BOOLEAN]
Classes == {"U", "UN", "O", "ON"}

\* What the instructions of nodes can be.
NodeCode(d) == [Progress(d) \X DOMAIN d.nodes -> Result(d)]

LEMMA WiredPins ==
  ASSUME NEW d, IsDiagram(d)
  PROVE  /\ Wired(d) \subseteq GridPins(d)
         /\ \A i \in DOMAIN d.nodes : \A k \in DOMAIN d.nodes[i].ins :
              /\ d.nodes[i].ins \in Seq(Wires(GridPins(d)))
              /\ d.nodes[i].ins[k] \in Wires(GridPins(d))
              /\ d.nodes[i].ins[k].pin \in Wired(d)
         /\ \A s \in DOMAIN d.stores : d.stores[s] \in Wired(d)
         /\ \A pin : Readers(d, pin) # {} \/ StoredTo(d, pin) # {} => pin \in Wired(d)
<1>1. ASSUME NEW i \in DOMAIN d.nodes
      PROVE  /\ d.nodes[i].ins \in Seq(Wires(GridPins(d)))
             /\ \A k \in DOMAIN d.nodes[i].ins :
                  /\ d.nodes[i].ins[k] \in Wires(GridPins(d))
                  /\ d.nodes[i].ins[k].pin \in GridPins(d)
                  /\ d.nodes[i].ins[k].pin \in Wired(d)
  <2>1. d.nodes[i].ins \in Seq(Wires(GridPins(d)))
    BY PinsOfKinds DEF Elems
  <2>2. ASSUME NEW k \in DOMAIN d.nodes[i].ins
        PROVE  /\ d.nodes[i].ins[k] \in Wires(GridPins(d))
               /\ d.nodes[i].ins[k].pin \in GridPins(d)
    <3>1. k \in 1..Len(d.nodes[i].ins)
      BY <2>1, LenProperties
    <3>2. d.nodes[i].ins[k] \in Wires(GridPins(d))
      BY <2>1, <3>1, ElementOfSeq
    <3> QED BY <3>2 DEF Wires
  <2>3. ASSUME NEW k \in DOMAIN d.nodes[i].ins PROVE d.nodes[i].ins[k].pin \in Wired(d)
    BY DEF Wired
  <2> QED BY <2>1, <2>2, <2>3
<1>2. ASSUME NEW s \in DOMAIN d.stores PROVE d.stores[s] \in Wired(d) /\ d.stores[s] \in GridPins(d)
  BY DEF Wired, IsDiagram
<1>3. Wired(d) \subseteq GridPins(d)
  BY <1>1, <1>2 DEF Wired
<1>4. ASSUME NEW pin, Readers(d, pin) # {} \/ StoredTo(d, pin) # {} PROVE pin \in Wired(d)
  <2>1. CASE Readers(d, pin) # {}
    <3>1. PICK i \in DOMAIN d.nodes : {<<i, k>> : k \in {k \in DOMAIN d.nodes[i].ins : d.nodes[i].ins[k].pin = pin}} # {}
      BY <2>1 DEF Readers
    <3>2. PICK k \in DOMAIN d.nodes[i].ins : d.nodes[i].ins[k].pin = pin
      BY <3>1
    <3> QED BY <1>1, <3>2
  <2>2. CASE StoredTo(d, pin) # {}
    BY <2>2, <1>2 DEF StoredTo
  <2> QED BY <1>4, <2>1, <2>2
<1> QED BY <1>1, <1>2, <1>3, <1>4

LEMMA ArgsTyped ==
  ASSUME NEW d, IsDiagram(d)
  PROVE  /\ NoLabel \in Args(d) /\ BIE \in Args(d)
         /\ \A pin \in GridPins(d) : pin \in Args(d) /\ Temp(pin) \in Args(d)
         /\ \A s \in DOMAIN d.stores : Stored(s) \in Args(d)
         /\ \A i \in DOMAIN d.nodes : \A name \in Marks : <<i, name>> \in Args(d)
         /\ \A i \in DOMAIN d.nodes : Out(i) \in Args(d) /\ Transferred(i) \in Args(d)
<1>1. "" \in Names(d) /\ "BIE" \in Names(d) /\ Marks \subseteq Names(d)
  BY DEF Names, Marks
<1>2. \A pin \in GridPins(d) : pin[2] \in Names(d)
  BY DEF Names
<1>3. \A s \in DOMAIN d.stores : s \in Names(d)
  BY DEF Names
<1>4. \A pin \in GridPins(d) : pin = <<pin[1], pin[2]>> /\ pin[1] \in Nat
  BY KindsOfPins
<1>5. \A i \in DOMAIN d.nodes : i \in Nat
  BY PinsOfKinds
<1> HIDE DEF Names
<1>6. ASSUME NEW pin \in GridPins(d) PROVE Temp(pin) \in Args(d)
  <2>1. pin[1] \in Nat
    BY <1>4
  <2> QED BY <1>1, <2>1 DEF Args, Temp, Marks
<1>7. NoLabel \in Args(d) /\ BIE \in Args(d)
  BY <1>1 DEF Args, NoLabel, BIE
<1>8. \A i \in DOMAIN d.nodes : \A name \in Marks : <<i, name>> \in Args(d)
  BY <1>1, <1>5 DEF Args
<1>9. \A i \in DOMAIN d.nodes : Out(i) \in Args(d) /\ Transferred(i) \in Args(d)
  BY <1>8 DEF Out, Transferred, Marks
<1>10. \A s \in DOMAIN d.stores : Stored(s) \in Args(d)
  BY <1>3 DEF Args, Stored
<1>11. ASSUME NEW pin \in GridPins(d) PROVE pin \in Args(d)
  <2>1. pin[1] \in Nat /\ pin[2] \in Names(d)
    BY <1>2, <1>4
  <2>2. <<pin[1], pin[2]>> \in Args(d)
    BY <2>1 DEF Args
  <2>3. pin = <<pin[1], pin[2]>>
    BY <1>4
  <2> QED BY <2>2, <2>3, Zenon
<1> QED BY <1>6, <1>7, <1>8, <1>9, <1>10, <1>11

LEMMA InsnsTyped ==
  ASSUME NEW d, IsDiagram(d), NEW op \in Ops
  PROVE  /\ Plain(op) \in InsnsOf(d)
         /\ \A arg \in Args(d) : Insn(op, arg) \in InsnsOf(d)
         /\ \A label \in Args(d), insn \in InsnsOf(d) : Labelled(label, insn) \in InsnsOf(d)
<1>1. NoLabel \in Args(d)
  BY ArgsTyped
<1>2. ASSUME NEW arg \in Args(d) PROVE Insn(op, arg) \in InsnsOf(d)
  BY <1>1, <1>2 DEF InsnsOf, Insn
<1>3. ASSUME NEW label \in Args(d), NEW insn \in InsnsOf(d)
      PROVE  Labelled(label, insn) \in InsnsOf(d)
  BY <1>3 DEF InsnsOf, Labelled
<1> QED BY <1>1, <1>2, <1>3 DEF Plain

LEMMA EmitTyped ==
  ASSUME NEW d, NEW c \in Result(d), NEW insns \in Seq(InsnsOf(d))
  PROVE  /\ Emit(c, insns) \in Result(d) /\ Emit(c, insns).code = c.code \o insns
         /\ Emit(c, insns).done = c.done /\ Emit(c, insns).loaded = c.loaded
         /\ Emit(c, insns).stored = c.stored /\ Emit(c, insns).temps = c.temps
         /\ Emit(c, insns).failed = c.failed
<1>1. c.code \o insns \in Seq(InsnsOf(d))
  BY ConcatProperties DEF Result
<1> HIDE DEF InsnsOf
<1> QED BY <1>1 DEF Emit, Result

LEMMA EmitOne ==
  ASSUME NEW d, NEW c \in Result(d), NEW insn \in InsnsOf(d)
  PROVE  /\ Emit(c, <<insn>>) \in Result(d) /\ Emit(c, <<insn>>).code = c.code \o <<insn>>
         /\ Emit(c, <<insn>>).done = c.done /\ Emit(c, <<insn>>).loaded = c.loaded
         /\ Emit(c, <<insn>>).stored = c.stored /\ Emit(c, <<insn>>).temps = c.temps
         /\ Emit(c, <<insn>>).failed = c.failed
<1>1. <<insn>> \in Seq(InsnsOf(d))
  OBVIOUS
<1> QED BY <1>1, EmitTyped, Zenon

(***************************************************************************)
(* What each step of the compiler adds to a compilation.                   *)
(***************************************************************************)

\* A compilation r that goes on from c: the instructions and the stored
\* operands and TEMP variables that are added.
Adds(d, c, r, insns, stored, temps) ==
  /\ r \in Result(d) /\ insns \in Seq(InsnsOf(d))
  /\ r.code = c.code \o insns
  /\ r.done = c.done /\ r.loaded = c.loaded /\ r.failed = c.failed
  /\ r.stored = c.stored \cup stored /\ r.temps = c.temps \cup temps

LEMMA EmitAdds ==
  ASSUME NEW d, NEW c \in Result(d), NEW insns \in Seq(InsnsOf(d))
  PROVE  Adds(d, c, Emit(c, insns), insns, {}, {})
<1>1. c.stored = c.stored \cup {} /\ c.temps = c.temps \cup {}
  OBVIOUS
<1> QED BY <1>1, EmitTyped DEF Adds

LEMMA StoreToTempAdds ==
  ASSUME NEW d, IsDiagram(d), NEW c \in Result(d), NEW pin \in Wired(d)
  PROVE  Adds(d, c, StoreToTemp(c, pin), <<Insn("=", Temp(pin))>>, {}, {pin})
<1>1. Temp(pin) \in Args(d)
  BY WiredPins, ArgsTyped
<1>2. Insn("=", Temp(pin)) \in InsnsOf(d)
  BY <1>1, InsnsTyped DEF Ops
<1>3. <<Insn("=", Temp(pin))>> \in Seq(InsnsOf(d))
  BY <1>2
<1> DEFINE e == Emit(c, <<Insn("=", Temp(pin))>>)
<1>4. Adds(d, c, e, <<Insn("=", Temp(pin))>>, {}, {})
  BY <1>3, EmitAdds, Zenon
<1> HIDE DEF e
<1>5. StoreToTemp(c, pin) = [e EXCEPT !.temps = @ \cup {pin}]
  BY DEF StoreToTemp, e
<1> HIDE DEF InsnsOf
<1>6. e \in Result(d) /\ c.temps \cup {} = c.temps
  BY <1>4 DEF Adds
<1> QED BY <1>4, <1>5, <1>6 DEF Adds, Result

\* The operands in a sequence: each of them is there.
LEMMA SetToSeqFacts ==
  ASSUME NEW T, IsFiniteSet(T)
  PROVE  /\ Cardinality(T) \in Nat
         /\ SetToSeq(T) \in [1..Cardinality(T) -> T]
         /\ \A x \in T : \E k \in 1..Cardinality(T) : SetToSeq(T)[k] = x
<1> DEFINE n == Cardinality(T)
           g == SetToSeq(T)
<1>1. n \in Nat
  BY FS_CardinalityType, Zenon
<1>2. IsFiniteSet(1..n) /\ Cardinality(1..n) = n
  BY <1>1, FS_Interval
<1>3. \E f : f \in Bijection(1..n, T)
  BY FS_CardinalityType, Zenon DEF ExistsBijection
<1> HIDE DEF n
<1>4. PICK f : f \in Bijection(1..n, T)
  BY <1>3
<1>5. f \in [1..n -> T] /\ IsInjective(f)
  BY <1>4 DEF Bijection, Injection
<1>6. g = CHOOSE h \in [1..n -> T] : IsInjective(h)
  BY DEF SetToSeq, n
<1> HIDE DEF g
<1>7. g \in [1..n -> T] /\ IsInjective(g)
  BY <1>5, <1>6, Zenon
<1>8. g \in Injection(1..n, T)
  BY <1>7 DEF Injection
<1>9. g \in Surjection(1..n, T)
  BY <1>1, <1>2, <1>8, FS_Injection, Zenon DEF n
<1>10. \A x \in T : \E k \in 1..n : g[k] = x
  BY <1>9 DEF Surjection
<1> QED BY <1>1, <1>7, <1>10 DEF n, g

\* Instructions "=" for a set of operands.
Assigns(insns, A) ==
  /\ \A k \in DOMAIN insns : insns[k] = Insn("=", insns[k].arg) /\ insns[k].arg \in A
  /\ \A x \in A : \E k \in DOMAIN insns : insns[k].arg = x

\* r goes on from c and has saved VKE in operands and TEMP variables.
Saves(d, c, r, stored, temps) ==
  \E insns : /\ Adds(d, c, r, insns, stored, temps)
             /\ Assigns(insns, {Stored(s) : s \in stored} \cup {Temp(pin) : pin \in temps})

LEMMA StoreToTempSaves ==
  ASSUME NEW d, IsDiagram(d), NEW c \in Result(d), NEW pin \in Wired(d)
  PROVE  Saves(d, c, StoreToTemp(c, pin), {}, {pin})
<1> DEFINE insns == <<Insn("=", Temp(pin))>>
<1>1. Adds(d, c, StoreToTemp(c, pin), insns, {}, {pin})
  BY StoreToTempAdds
<1>2. Assigns(insns, {Temp(pin)})
  BY DEF Assigns, Insn
<1>3. {Stored(s) : s \in {}} \cup {Temp(p) : p \in {pin}} = {Temp(pin)}
  OBVIOUS
<1> QED BY <1>1, <1>2, <1>3 DEF Saves

LEMMA StoreAllSaves ==
  ASSUME NEW d, IsDiagram(d), NEW c \in Result(d), NEW T \in SUBSET DOMAIN d.stores
  PROVE  Saves(d, c, StoreAll(c, T), T, {})
<1> DEFINE n == Cardinality(T)
           g == SetToSeq(T)
           insns == [k \in 1..n |-> Insn("=", Stored(g[k]))]
           e == Emit(c, insns)
<1>1. IsFiniteSet(T)
  BY FS_Subset DEF IsDiagram
<1>2. n \in Nat /\ g \in [1..n -> T] /\ \A x \in T : \E k \in 1..n : g[k] = x
  BY <1>1, SetToSeqFacts, Zenon
<1> HIDE DEF n, g
<1>3. ASSUME NEW s \in T PROVE Insn("=", Stored(s)) \in InsnsOf(d)
  <2>1. Stored(s) \in Args(d)
    BY ArgsTyped
  <2> QED BY <2>1, InsnsTyped DEF Ops
<1>4. insns \in [1..n -> InsnsOf(d)]
  BY <1>2, <1>3
<1>5. insns \in Seq(InsnsOf(d)) /\ DOMAIN insns = 1..n
  BY <1>2, <1>4
<1>6. \A k \in 1..n : insns[k] = Insn("=", Stored(g[k]))
  OBVIOUS
<1>7. Assigns(insns, {Stored(s) : s \in T} \cup {Temp(p) : p \in {}})
  <2>1. ASSUME NEW k \in DOMAIN insns
        PROVE  insns[k] = Insn("=", insns[k].arg) /\ insns[k].arg \in {Stored(s) : s \in T}
    <3>1. insns[k] = Insn("=", Stored(g[k])) /\ g[k] \in T
      BY <1>2, <1>5, <1>6
    <3>2. insns[k].arg = Stored(g[k])
      BY <3>1 DEF Insn
    <3> QED BY <3>1, <3>2
  <2>2. ASSUME NEW x \in {Stored(s) : s \in T} PROVE \E k \in DOMAIN insns : insns[k].arg = x
    <3>1. PICK s \in T : x = Stored(s)
      OBVIOUS
    <3>2. PICK k \in 1..n : g[k] = s
      BY <1>2
    <3>3. insns[k].arg = Stored(g[k])
      BY <1>6 DEF Insn
    <3> QED BY <1>5, <3>1, <3>2, <3>3
  <2>3. {Stored(s) : s \in T} \cup {Temp(p) : p \in {}} = {Stored(s) : s \in T}
    OBVIOUS
  <2> HIDE DEF insns
  <2> QED BY <2>1, <2>2, <2>3 DEF Assigns
<1>8. StoreAll(c, T) = [e EXCEPT !.stored = @ \cup T]
  BY DEF StoreAll, n, g
<1> HIDE DEF insns
<1>9. Adds(d, c, e, insns, {}, {})
  BY <1>5, EmitAdds, Zenon
<1> HIDE DEF e
<1> HIDE DEF InsnsOf
<1>10. e \in Result(d) /\ c.temps \cup {} = c.temps /\ c.stored \cup {} = c.stored
  BY <1>9 DEF Adds
<1>11. Adds(d, c, StoreAll(c, T), insns, T, {})
  BY <1>8, <1>9, <1>10 DEF Adds, Result
<1> QED BY <1>7, <1>11 DEF Saves

LEMMA Concat3 ==
  ASSUME NEW A, NEW a \in Seq(A), NEW b \in Seq(A), NEW c \in Seq(A)
  PROVE  (a \o b) \o c = a \o (b \o c)
BY ConcatAssociative

LEMMA SavesTwice ==
  ASSUME NEW d, NEW c \in Result(d), NEW r, NEW r2, NEW T, NEW T2, NEW P, NEW P2,
         Saves(d, c, r, T, P), Saves(d, r, r2, T2, P2)
  PROVE  Saves(d, c, r2, T \cup T2, P \cup P2)
<1>1. PICK a : /\ Adds(d, c, r, a, T, P)
               /\ Assigns(a, {Stored(s) : s \in T} \cup {Temp(pin) : pin \in P})
  BY DEF Saves
<1>2. PICK b : /\ Adds(d, r, r2, b, T2, P2)
               /\ Assigns(b, {Stored(s) : s \in T2} \cup {Temp(pin) : pin \in P2})
  BY DEF Saves
<1> DEFINE A == {Stored(s) : s \in T} \cup {Temp(pin) : pin \in P}
           B == {Stored(s) : s \in T2} \cup {Temp(pin) : pin \in P2}
<1>3. a \in Seq(InsnsOf(d)) /\ b \in Seq(InsnsOf(d)) /\ c.code \in Seq(InsnsOf(d))
  BY <1>1, <1>2 DEF Adds, Result
<1>4. /\ a \o b \in Seq(InsnsOf(d)) /\ Len(a \o b) = Len(a) + Len(b)
      /\ \A k \in 1..Len(a) + Len(b) :
           (a \o b)[k] = IF k <= Len(a) THEN a[k] ELSE b[k - Len(a)]
      /\ DOMAIN a = 1..Len(a) /\ DOMAIN b = 1..Len(b) /\ Len(a) \in Nat /\ Len(b) \in Nat
      /\ DOMAIN (a \o b) = 1..Len(a) + Len(b)
  BY <1>3, ConcatProperties, LenProperties
<1>5. (c.code \o a) \o b = c.code \o (a \o b)
  <2>1. \A x \in Seq(InsnsOf(d)), y \in Seq(InsnsOf(d)), z \in Seq(InsnsOf(d)) :
          (x \o y) \o z = x \o (y \o z)
    BY Concat3
  <2> HIDE DEF InsnsOf
  <2> QED BY <1>3, <2>1, Zenon
<1>6. Adds(d, c, r2, a \o b, T \cup T2, P \cup P2)
  <2>1. r2.stored = c.stored \cup (T \cup T2) /\ r2.temps = c.temps \cup (P \cup P2)
    <3>1. r2.stored = r.stored \cup T2 /\ r.stored = c.stored \cup T
      BY <1>1, <1>2 DEF Adds
    <3>2. r2.temps = r.temps \cup P2 /\ r.temps = c.temps \cup P
      BY <1>1, <1>2 DEF Adds
    <3>3. (c.stored \cup T) \cup T2 = c.stored \cup (T \cup T2)
      OBVIOUS
    <3>4. (c.temps \cup P) \cup P2 = c.temps \cup (P \cup P2)
      OBVIOUS
    <3> QED BY <3>1, <3>2, <3>3, <3>4, Zenon
  <2>2. r2.code = c.code \o (a \o b)
    BY <1>1, <1>2, <1>5 DEF Adds
  <2> QED BY <1>1, <1>2, <1>4, <2>1, <2>2 DEF Adds
<1>7. Assigns(a \o b, A \cup B)
  <2>1. ASSUME NEW k \in 1..Len(a) + Len(b)
        PROVE (a \o b)[k] = Insn("=", (a \o b)[k].arg) /\ (a \o b)[k].arg \in A \cup B
    <3>1. CASE k <= Len(a)
      <4>1. k \in DOMAIN a /\ (a \o b)[k] = a[k]
        BY <1>4, <3>1
      <4> QED BY <1>1, <4>1 DEF Assigns
    <3>2. CASE k > Len(a)
      <4>1. k - Len(a) \in DOMAIN b /\ (a \o b)[k] = b[k - Len(a)]
        BY <1>4, <3>2
      <4> QED BY <1>2, <4>1 DEF Assigns
    <3> QED BY <1>4, <3>1, <3>2
  <2>2. ASSUME NEW x \in A PROVE \E k \in 1..Len(a) + Len(b) : (a \o b)[k].arg = x
    <3>1. PICK k \in DOMAIN a : a[k].arg = x
      BY <1>1 DEF Assigns
    <3>2. k \in 1..Len(a) + Len(b) /\ (a \o b)[k] = a[k]
      BY <1>4
    <3> QED BY <3>1, <3>2
  <2>3. ASSUME NEW x \in B PROVE \E k \in 1..Len(a) + Len(b) : (a \o b)[k].arg = x
    <3>1. PICK k \in DOMAIN b : b[k].arg = x
      BY <1>2 DEF Assigns
    <3>2. k + Len(a) \in 1..Len(a) + Len(b) /\ (k + Len(a)) - Len(a) = k /\ (~(k + Len(a) <= Len(a)))
      BY <1>4
    <3>3. (a \o b)[k + Len(a)] = b[k]
      BY <1>4, <3>2
    <3> QED BY <3>1, <3>2, <3>3
  <2> HIDE DEF A, B
  <2>4. \A x \in A \cup B : \E k \in 1..Len(a) + Len(b) : (a \o b)[k].arg = x
    BY <2>2, <2>3
  <2> QED BY <1>4, <2>1, <2>4 DEF Assigns
<1>8. A \cup B = {Stored(s) : s \in T \cup T2} \cup {Temp(pin) : pin \in P \cup P2}
  OBVIOUS
<1> QED BY <1>6, <1>7, <1>8 DEF Saves

\* What an output of a box is saved in.
TempsOf(d, pin) == IF Readers(d, pin) # {} THEN {pin} ELSE {}

LEMMA StoreBoxOutputSaves ==
  ASSUME NEW d, IsDiagram(d), NEW c \in Result(d), NEW pin \in GridPins(d)
  PROVE  Saves(d, c, StoreBoxOutput(d, c, pin), StoredTo(d, pin), TempsOf(d, pin))
<1> DEFINE assigned == StoreAll(c, StoredTo(d, pin))
<1>1. StoredTo(d, pin) \in SUBSET DOMAIN d.stores
  BY DEF StoredTo
<1>2. Saves(d, c, assigned, StoredTo(d, pin), {})
  BY <1>1, StoreAllSaves
<1>3. assigned \in Result(d)
  BY <1>2 DEF Saves, Adds
<1>4. StoreBoxOutput(d, c, pin) = IF Readers(d, pin) # {} THEN StoreToTemp(assigned, pin) ELSE assigned
  BY DEF StoreBoxOutput
<1> HIDE DEF assigned
<1>5. CASE Readers(d, pin) # {}
  <2>1. pin \in Wired(d)
    BY <1>5, WiredPins
  <2>2. Saves(d, assigned, StoreToTemp(assigned, pin), {}, {pin})
    BY <1>3, <2>1, StoreToTempSaves
  <2>3. Saves(d, c, StoreToTemp(assigned, pin), StoredTo(d, pin) \cup {}, {} \cup {pin})
    BY <1>2, <2>2, SavesTwice
  <2>4. StoredTo(d, pin) \cup {} = StoredTo(d, pin) /\ {} \cup {pin} = TempsOf(d, pin)
    BY <1>5 DEF TempsOf
  <2> QED BY <1>4, <1>5, <2>3, <2>4
<1>6. CASE Readers(d, pin) = {}
  BY <1>2, <1>4, <1>6 DEF TempsOf
<1> QED BY <1>5, <1>6

Prog(c) == [c EXCEPT !.code = <<>>]
NewCode(h, c, i) == h[<<Prog(c), i>>]

\* r is c with the instructions of a node.
Extends(d, c, new, r) ==
  /\ new \in Result(d) /\ r \in Result(d)
  /\ r.code = c.code \o new.code
  /\ r.done = new.done /\ r.loaded = new.loaded /\ r.failed = new.failed
  /\ r.stored = new.stored /\ r.temps = new.temps

LEMMA ProgTyped ==
  ASSUME NEW d, NEW c \in Result(d)
  PROVE  /\ Prog(c) \in Progress(d) /\ Prog(c).code = <<>>
         /\ Prog(c).done = c.done /\ Prog(c).loaded = c.loaded /\ Prog(c).failed = c.failed
         /\ Prog(c).stored = c.stored /\ Prog(c).temps = c.temps
BY DEF Prog, Progress, Result

LEMMA ProgressResult ==
  ASSUME NEW d, NEW p \in Progress(d)
  PROVE  p \in Result(d) /\ p.code = <<>>
<1>1. <<>> \in Seq(InsnsOf(d))
  OBVIOUS
<1> HIDE DEF InsnsOf
<1> QED BY <1>1 DEF Progress, Result

LEMMA CompiledExtends ==
  ASSUME NEW d, NEW h \in NodeCode(d), NEW c \in Result(d), NEW i \in DOMAIN d.nodes
  PROVE  Extends(d, c, NewCode(h, c, i), Compiled(h, c, i))
<1> DEFINE new == NewCode(h, c, i)
<1>1. new \in Result(d)
  BY ProgTyped DEF NodeCode, NewCode
<1>2. Compiled(h, c, i) = [new EXCEPT !.code = c.code \o new.code]
  BY <1>1 DEF Compiled, NewCode, Prog, Result
<1> HIDE DEF new
<1>3. c.code \o new.code \in Seq(InsnsOf(d))
  BY <1>1, ConcatProperties DEF Result
<1> HIDE DEF InsnsOf
<1> QED BY <1>1, <1>2, <1>3 DEF Extends, Result, new

LEMMA LoadsTyped ==
  ASSUME NEW d, IsDiagram(d), NEW c \in Result(d), NEW class \in Classes, NEW pin \in Wired(d)
  PROVE  /\ CompileLoad(c, class, pin) \in Result(d)
         /\ CompileLoad(c, class, pin).code = c.code \o <<Insn(class, pin)>>
         /\ CompileLoad(c, class, pin).loaded = c.loaded \cup {pin}
         /\ CompileLoad(c, class, pin).done = c.done
         /\ CompileLoad(c, class, pin).failed = c.failed
         /\ CompileLoad(c, class, pin).stored = c.stored
         /\ CompileLoad(c, class, pin).temps = c.temps
         /\ LoadFromTemp(c, class, pin) \in Result(d)
         /\ LoadFromTemp(c, class, pin).code = c.code \o <<Insn(class, Temp(pin))>>
         /\ LoadFromTemp(c, class, pin).loaded = c.loaded
         /\ LoadFromTemp(c, class, pin).done = c.done
         /\ LoadFromTemp(c, class, pin).failed = (c.failed \/ pin \notin c.temps)
         /\ LoadFromTemp(c, class, pin).stored = c.stored
         /\ LoadFromTemp(c, class, pin).temps = c.temps
<1>1. pin \in Args(d) /\ Temp(pin) \in Args(d) /\ class \in Ops
  BY WiredPins, ArgsTyped DEF Classes, Ops
<1>2. Insn(class, pin) \in InsnsOf(d) /\ Insn(class, Temp(pin)) \in InsnsOf(d)
  BY <1>1, InsnsTyped
<1> DEFINE e == Emit(c, <<Insn(class, pin)>>)
           f == Emit(c, <<Insn(class, Temp(pin))>>)
<1>3. /\ e \in Result(d) /\ e.code = c.code \o <<Insn(class, pin)>> /\ e.done = c.done
      /\ e.loaded = c.loaded /\ e.stored = c.stored /\ e.temps = c.temps /\ e.failed = c.failed
  BY <1>2, EmitOne
<1>4. /\ f \in Result(d) /\ f.code = c.code \o <<Insn(class, Temp(pin))>> /\ f.done = c.done
      /\ f.loaded = c.loaded /\ f.stored = c.stored /\ f.temps = c.temps /\ f.failed = c.failed
  BY <1>2, EmitOne
<1>5. /\ CompileLoad(c, class, pin) = [e EXCEPT !.loaded = @ \cup {pin}]
      /\ LoadFromTemp(c, class, pin) = [f EXCEPT !.failed = @ \/ pin \notin c.temps]
  BY DEF CompileLoad, LoadFromTemp
<1> HIDE DEF e, f, InsnsOf
<1>6. /\ CompileLoad(c, class, pin) \in Result(d)
      /\ CompileLoad(c, class, pin).code = e.code
      /\ CompileLoad(c, class, pin).loaded = e.loaded \cup {pin}
      /\ CompileLoad(c, class, pin).done = e.done
      /\ CompileLoad(c, class, pin).failed = e.failed
      /\ CompileLoad(c, class, pin).stored = e.stored
      /\ CompileLoad(c, class, pin).temps = e.temps
  BY <1>3, <1>5 DEF Result
<1>7. /\ LoadFromTemp(c, class, pin) \in Result(d)
      /\ LoadFromTemp(c, class, pin).code = f.code
      /\ LoadFromTemp(c, class, pin).loaded = f.loaded
      /\ LoadFromTemp(c, class, pin).done = f.done
      /\ LoadFromTemp(c, class, pin).failed = (f.failed \/ pin \notin c.temps)
      /\ LoadFromTemp(c, class, pin).stored = f.stored
      /\ LoadFromTemp(c, class, pin).temps = f.temps
  BY <1>4, <1>5 DEF Result
<1> QED BY <1>3, <1>4, <1>6, <1>7

LEMMA ConnClasses ==
  ASSUME NEW kind \in Booleans, NEW inverted \in BOOLEAN
  PROVE  Class(kind, inverted) \in Classes /\ kind \in Classes
BY DEF Class, Inverted, Booleans, Classes

LEMMA BranchTyped ==
  ASSUME NEW class \in Classes
  PROVE  Branch(class) \in Ops /\ ")" \in Ops /\ "NOT" \in Ops /\ class \in Ops
BY DEF Branch, Classes, Ops

\* The cases of CompileConn.
FirstGate(d, h, c, class, pin) ==
  LET compiled0 == Compiled(h, Emit(c, <<Plain(Branch(class))>>), pin[1])
  IN Emit(IF Fanout(d, pin) > 1 THEN StoreToTemp(compiled0, pin) ELSE compiled0, <<Plain(")")>>)
FirstBox(h, c, class, pin) ==
  LET compiled0 == Compiled(h, c, pin[1])
  IN IF class \in {"UN", "ON"} THEN Emit(compiled0, <<Plain("NOT")>>) ELSE compiled0

LEMMA ConnCases ==
  ASSUME NEW d, IsDiagram(d), NEW h, NEW c, NEW class, NEW pin \in Wired(d)
  PROVE  /\ pin[1] = 0 => CompileConn(d, h, c, class, pin) = CompileLoad(c, class, pin)
         /\ pin[1] # 0 => pin[1] \in DOMAIN d.nodes /\ pin \in PinsOf(d, pin[1])
         /\ pin[1] # 0 /\ pin[1] \notin c.done /\ Is(d, pin[1], Booleans) =>
              CompileConn(d, h, c, class, pin) = FirstGate(d, h, c, class, pin)
         /\ pin[1] # 0 /\ pin[1] \notin c.done /\ Is(d, pin[1], Boxes) =>
              CompileConn(d, h, c, class, pin) = FirstBox(h, c, class, pin)
         /\ pin[1] # 0 /\ pin[1] \in c.done =>
              CompileConn(d, h, c, class, pin) = LoadFromTemp(c, class, pin)
<1>1. pin \in GridPins(d)
  BY WiredPins
<1>2. pin[1] # 0 => pin[1] \in DOMAIN d.nodes /\ pin \in PinsOf(d, pin[1])
  BY <1>1, KindsOfPins
<1>3. pin[1] # 0 => ~(Is(d, pin[1], Booleans) /\ Is(d, pin[1], Boxes))
  BY <1>2, PinsOfKinds
<1>4. pin[1] = 0 => CompileConn(d, h, c, class, pin) = CompileLoad(c, class, pin)
  <2>1. 0 \notin DOMAIN d.nodes
    BY PinsOfKinds
  <2>2. ~Is(d, 0, Booleans) /\ ~Is(d, 0, Boxes)
    BY <2>1 DEF Is
  <2> QED BY <2>2 DEF CompileConn
<1>5. pin[1] # 0 /\ pin[1] \notin c.done /\ Is(d, pin[1], Booleans) =>
        CompileConn(d, h, c, class, pin) = FirstGate(d, h, c, class, pin)
  BY <1>3 DEF CompileConn, FirstGate
<1>6. pin[1] # 0 /\ pin[1] \notin c.done /\ Is(d, pin[1], Boxes) =>
        CompileConn(d, h, c, class, pin) = FirstBox(h, c, class, pin)
  BY <1>3 DEF CompileConn, FirstBox
<1>7. pin[1] # 0 /\ pin[1] \in c.done =>
        CompileConn(d, h, c, class, pin) = LoadFromTemp(c, class, pin)
  BY DEF CompileConn
<1> QED BY <1>2, <1>4, <1>5, <1>6, <1>7

\* Two functions that have the same instructions for the nodes before node i.
SameBefore(d, rank, i, h, h2) ==
  \A p \in Progress(d), j \in DOMAIN d.nodes : rank[j] < rank[i] => h[<<p, j>>] = h2[<<p, j>>]

LEMMA CompiledLocal ==
  ASSUME NEW d, NEW rank, NEW i, NEW h \in NodeCode(d), NEW h2,
         SameBefore(d, rank, i, h, h2), NEW c \in Result(d), NEW j \in DOMAIN d.nodes, rank[j] < rank[i]
  PROVE  Compiled(h, c, j) = Compiled(h2, c, j)
<1>1. h[<<Prog(c), j>>] = h2[<<Prog(c), j>>]
  BY ProgTyped DEF SameBefore
<1> QED BY <1>1 DEF Compiled, Prog

LEMMA ConnTyped ==
  ASSUME NEW d, IsDiagram(d), NEW h \in NodeCode(d), NEW c \in Result(d),
         NEW class \in Classes, NEW pin \in Wired(d)
  PROVE  CompileConn(d, h, c, class, pin) \in Result(d)
<1> DEFINE r == CompileConn(d, h, c, class, pin)
<1>1. CASE pin[1] = 0
  <2>1. r = CompileLoad(c, class, pin)
    BY <1>1, ConnCases
  <2> QED BY <2>1, LoadsTyped
<1>2. CASE pin[1] # 0 /\ pin[1] \in c.done
  <2>1. r = LoadFromTemp(c, class, pin)
    BY <1>2, ConnCases
  <2> QED BY <2>1, LoadsTyped
<1>3. Plain(Branch(class)) \in InsnsOf(d) /\ Plain(")") \in InsnsOf(d) /\ Plain("NOT") \in InsnsOf(d)
  BY BranchTyped, InsnsTyped
<1>4. CASE pin[1] # 0 /\ pin[1] \notin c.done /\ Is(d, pin[1], Booleans)
  <2>1. r = FirstGate(d, h, c, class, pin) /\ pin[1] \in DOMAIN d.nodes
    BY <1>4, ConnCases
  <2> DEFINE e == Emit(c, <<Plain(Branch(class))>>)
             f == Compiled(h, e, pin[1])
             g == IF Fanout(d, pin) > 1 THEN StoreToTemp(f, pin) ELSE f
  <2>2. e \in Result(d)
    BY <1>3, EmitOne
  <2> HIDE DEF e
  <2>3. f \in Result(d)
    BY <2>1, <2>2, CompiledExtends DEF Extends
  <2> HIDE DEF f
  <2>4. g \in Result(d)
    BY <2>3, StoreToTempAdds DEF Adds
  <2>5. r = Emit(g, <<Plain(")")>>)
    BY <2>1 DEF FirstGate, e, f
  <2> HIDE DEF g
  <2> QED BY <1>3, <2>4, <2>5, EmitOne
<1>5. CASE pin[1] # 0 /\ pin[1] \notin c.done /\ Is(d, pin[1], Boxes)
  <2>1. r = FirstBox(h, c, class, pin) /\ pin[1] \in DOMAIN d.nodes
    BY <1>5, ConnCases
  <2>2. Compiled(h, c, pin[1]) \in Result(d)
    BY <2>1, CompiledExtends DEF Extends
  <2> QED BY <1>3, <2>1, <2>2, EmitOne DEF FirstBox
<1>6. pin[1] # 0 => Is(d, pin[1], Booleans) \/ Is(d, pin[1], Boxes)
  BY ConnCases, PinsOfKinds
<1> QED BY <1>1, <1>2, <1>4, <1>5, <1>6

LEMMA ConnLocal ==
  ASSUME NEW d, IsDiagram(d), NEW rank, NEW i, NEW h \in NodeCode(d), NEW h2,
         SameBefore(d, rank, i, h, h2), NEW c \in Result(d),
         NEW class \in Classes, NEW pin \in Wired(d), Before(rank, pin, i)
  PROVE  CompileConn(d, h, c, class, pin) = CompileConn(d, h2, c, class, pin)
<1>1. CASE pin[1] = 0
  <2>1. CompileConn(d, h, c, class, pin) = CompileLoad(c, class, pin)
    BY <1>1, ConnCases
  <2>2. CompileConn(d, h2, c, class, pin) = CompileLoad(c, class, pin)
    BY <1>1, ConnCases
  <2> QED BY <2>1, <2>2
<1>2. CASE pin[1] # 0 /\ pin[1] \in c.done
  <2>1. CompileConn(d, h, c, class, pin) = LoadFromTemp(c, class, pin)
    BY <1>2, ConnCases
  <2>2. CompileConn(d, h2, c, class, pin) = LoadFromTemp(c, class, pin)
    BY <1>2, ConnCases
  <2> QED BY <2>1, <2>2
<1>3. Plain(Branch(class)) \in InsnsOf(d)
  BY BranchTyped, InsnsTyped
<1>4. CASE pin[1] # 0 /\ pin[1] \notin c.done /\ Is(d, pin[1], Booleans)
  <2>1. pin[1] \in DOMAIN d.nodes /\ rank[pin[1]] < rank[i]
    BY <1>4, ConnCases DEF Before
  <2>2. Compiled(h, Emit(c, <<Plain(Branch(class))>>), pin[1])
          = Compiled(h2, Emit(c, <<Plain(Branch(class))>>), pin[1])
    <3> DEFINE e == Emit(c, <<Plain(Branch(class))>>)
    <3>1. e \in Result(d)
      BY <1>3, EmitOne
    <3> HIDE DEF e
    <3>2. Compiled(h, e, pin[1]) = Compiled(h2, e, pin[1])
      BY <2>1, <3>1, CompiledLocal
    <3> QED BY <3>2 DEF e
  <2>3. FirstGate(d, h, c, class, pin) = FirstGate(d, h2, c, class, pin)
    BY <2>2 DEF FirstGate
  <2> QED BY <1>4, <2>3, ConnCases
<1>5. CASE pin[1] # 0 /\ pin[1] \notin c.done /\ Is(d, pin[1], Boxes)
  <2>1. pin[1] \in DOMAIN d.nodes /\ rank[pin[1]] < rank[i]
    BY <1>5, ConnCases DEF Before
  <2> DEFINE j == pin[1]
  <2>a. j \in DOMAIN d.nodes /\ rank[j] < rank[i]
    BY <2>1
  <2> HIDE DEF j
  <2>b. Compiled(h, c, j) = Compiled(h2, c, j)
    BY <2>a, CompiledLocal
  <2>2. Compiled(h, c, pin[1]) = Compiled(h2, c, pin[1])
    BY <2>b DEF j
  <2>3. FirstBox(h, c, class, pin) = FirstBox(h2, c, class, pin)
    BY <2>2 DEF FirstBox
  <2> QED BY <1>5, <2>3, ConnCases
<1>6. pin[1] # 0 => Is(d, pin[1], Booleans) \/ Is(d, pin[1], Boxes)
  BY ConnCases, PinsOfKinds
<1> QED BY <1>1, <1>2, <1>4, <1>5, <1>6

LEMMA InputTyped ==
  ASSUME NEW d, IsDiagram(d), NEW h \in NodeCode(d), NEW c \in Result(d),
         NEW kind \in Booleans, NEW input \in Wires(GridPins(d)), input.pin \in Wired(d)
  PROVE  CompileInput(d, h, c, kind, input) \in Result(d)
<1> DEFINE class == Class(kind, input.inverted)
           e == Emit(c, <<Plain(Branch(kind))>>)
<1>1. class \in Classes /\ kind \in Classes
  BY ConnClasses DEF Wires
<1>2. Plain(Branch(kind)) \in InsnsOf(d) /\ Plain(")") \in InsnsOf(d)
  BY <1>1, BranchTyped, InsnsTyped
<1>3. e \in Result(d)
  BY <1>2, EmitOne
<1> HIDE DEF class
<1>4. CompileInput(d, h, c, kind, input)
        = IF Is(d, input.pin[1], Boxes)
          THEN Emit(CompileConn(d, h, e, class, input.pin), <<Plain(")")>>)
          ELSE CompileConn(d, h, c, class, input.pin)
  BY DEF CompileInput, class
<1> HIDE DEF e
<1>5. /\ CompileConn(d, h, e, class, input.pin) \in Result(d)
      /\ CompileConn(d, h, c, class, input.pin) \in Result(d)
  BY <1>1, <1>3, ConnTyped
<1> QED BY <1>2, <1>4, <1>5, EmitOne

LEMMA InputLocal ==
  ASSUME NEW d, IsDiagram(d), NEW rank, NEW i, NEW h \in NodeCode(d), NEW h2,
         SameBefore(d, rank, i, h, h2), NEW c \in Result(d),
         NEW kind \in Booleans, NEW input \in Wires(GridPins(d)), input.pin \in Wired(d),
         Before(rank, input.pin, i)
  PROVE  CompileInput(d, h, c, kind, input) = CompileInput(d, h2, c, kind, input)
<1> DEFINE class == Class(kind, input.inverted)
           e == Emit(c, <<Plain(Branch(kind))>>)
<1>1. class \in Classes /\ kind \in Classes
  BY ConnClasses DEF Wires
<1>2. Plain(Branch(kind)) \in InsnsOf(d)
  BY <1>1, BranchTyped, InsnsTyped
<1>3. e \in Result(d)
  BY <1>2, EmitOne
<1> HIDE DEF class
<1>4. /\ CompileConn(d, h, e, class, input.pin) = CompileConn(d, h2, e, class, input.pin)
      /\ CompileConn(d, h, c, class, input.pin) = CompileConn(d, h2, c, class, input.pin)
  BY <1>1, <1>3, ConnLocal
<1> QED BY <1>4 DEF CompileInput, class, e

LEMMA StepsTyped ==
  ASSUME NEW V, NEW c \in V, NEW m \in Nat, NEW F \in [V \X (1..m) -> V],
         NEW h, h = [k \in 0..m |-> h[k]], h[0] = c,
         \A k \in 1..m : h[k - 1] \in V => h[k] = F[<<h[k - 1], k>>]
  PROVE  StepByStep(h, V, c, m, F)
<1> DEFINE S == {k \in Nat : k <= m => h[k] \in V}
<1>1. 0 \in S
  OBVIOUS
<1>2. ASSUME NEW k \in Nat, k \in S PROVE k + 1 \in S
  <2> SUFFICES ASSUME k + 1 <= m PROVE h[k + 1] \in V
    OBVIOUS
  <2>1. k + 1 \in 1..m /\ (k + 1) - 1 = k /\ h[k] \in V
    BY <1>2
  <2>2. h[k + 1] = F[<<h[k], k + 1>>]
    BY <2>1
  <2> QED BY <2>1, <2>2
<1> HIDE DEF S
<1>3. Nat \subseteq S
  BY <1>1, <1>2, SetInduction
<1>4. \A k \in 0..m : h[k] \in V
  BY <1>3 DEF S
<1>5. h \in [0..m -> V]
  BY <1>4
<1>6. \A k \in 1..m : h[k - 1] \in V
  BY <1>4
<1> QED BY <1>5, <1>6 DEF StepByStep

\* The compilation of a gate's inputs, one after the other.
Joining(d, h, c, i, g) ==
  /\ g \in [0..Len(d.nodes[i].ins) -> Result(d)]
  /\ g[0] = c
  /\ \A k \in 1..Len(d.nodes[i].ins) :
       g[k] = CompileInput(d, h, g[k - 1], d.nodes[i].kind, d.nodes[i].ins[k])
JoinedEnd(d, i, g) ==
  LET all == g[Len(d.nodes[i].ins)]
  IN IF d.nodes[i].inverted THEN Emit(all, <<Plain("NOT")>>) ELSE all

LEMMA GateFacts ==
  ASSUME NEW d, IsDiagram(d), NEW i \in DOMAIN d.nodes
  PROVE  /\ Len(d.nodes[i].ins) \in Nat /\ DOMAIN d.nodes[i].ins = 1..Len(d.nodes[i].ins)
         /\ \A k \in 1..Len(d.nodes[i].ins) :
              d.nodes[i].ins[k] \in Wires(GridPins(d)) /\ d.nodes[i].ins[k].pin \in Wired(d)
         /\ Is(d, i, Booleans) => d.nodes[i].kind \in Booleans
         /\ d.nodes[i].inverted \in BOOLEAN /\ d.nodes[i].source \in Nat
<1>1. d.nodes[i] \in Elems(GridPins(d))
  BY PinsOfKinds
<1>2. d.nodes[i].ins \in Seq(Wires(GridPins(d))) /\ d.nodes[i].inverted \in BOOLEAN
      /\ d.nodes[i].source \in Nat
  BY <1>1 DEF Elems
<1>3. Len(d.nodes[i].ins) \in Nat /\ DOMAIN d.nodes[i].ins = 1..Len(d.nodes[i].ins)
  BY <1>2, LenProperties
<1> QED BY <1>2, <1>3, WiredPins DEF Is

InputsTyped(d, h, i) ==
  \A r \in Result(d), k \in 1..Len(d.nodes[i].ins) :
    CompileInput(d, h, r, d.nodes[i].kind, d.nodes[i].ins[k]) \in Result(d)

LEMMA GateInputsTyped ==
  ASSUME NEW d, IsDiagram(d), NEW h \in NodeCode(d), NEW i \in DOMAIN d.nodes, Is(d, i, Booleans)
  PROVE  InputsTyped(d, h, i)
BY GateFacts, InputTyped DEF InputsTyped

LEMMA GateJoins ==
  ASSUME NEW d, IsDiagram(d), NEW h, NEW c \in Result(d),
         NEW i \in DOMAIN d.nodes, Is(d, i, Booleans), InputsTyped(d, h, i)
  PROVE  \E g : Joining(d, h, c, i, g) /\ CompileBoolean(d, h, c, i) = JoinedEnd(d, i, g)
<1> DEFINE m == Len(d.nodes[i].ins)
           V == Result(d)
           E(r, k) == CompileInput(d, h, r, d.nodes[i].kind, d.nodes[i].ins[k])
           F == [x \in V \X (1..m) |-> E(x[1], x[2])]
<1>1. m \in Nat
  BY GateFacts
<1>2. ASSUME NEW r \in V, NEW k \in 1..m PROVE E(r, k) \in V
  BY DEF InputsTyped
<1> HIDE DEF m, V, E
<1>3. F \in [V \X (1..m) -> V]
  BY <1>2
<1>4. \A r \in V, k \in 1..m : F[<<r, k>>] = E(r, k)
  OBVIOUS
<1> HIDE DEF F
<1>5. c \in V
  BY DEF V
<1>6. PICK g : StepByStep(g, V, c, m, F)
  BY <1>1, <1>3, <1>5, Recursion, Zenon
<1>7. g = [k \in 0..m |-> IF k = 0 THEN c ELSE E(g[k - 1], k)]
  <2>1. g \in [0..m -> V] /\ g[0] = c /\ \A k \in 1..m : g[k] = F[<<g[k - 1], k>>]
    BY <1>6 DEF StepByStep
  <2>2. ASSUME NEW k \in 0..m PROVE g[k] = IF k = 0 THEN c ELSE E(g[k - 1], k)
    <3>1. CASE k = 0
      BY <2>1, <3>1
    <3>2. CASE k # 0
      <4>1. k \in 1..m /\ k - 1 \in 0..m
        BY <1>1, <3>2
      <4>2. g[k - 1] \in V
        BY <2>1, <4>1
      <4>3. g[k] = E(g[k - 1], k)
        BY <1>4, <2>1, <4>1, <4>2
      <4> QED BY <3>2, <4>3
    <3> QED BY <3>1, <3>2
  <2> QED BY <2>1, <2>2
<1> DEFINE j == CHOOSE f : f = [k \in 0..m |-> IF k = 0 THEN c ELSE E(f[k - 1], k)]
<1>8. j = [k \in 0..m |-> IF k = 0 THEN c ELSE E(j[k - 1], k)]
  BY <1>7, Zenon
<1>9. CompileBoolean(d, h, c, i) = JoinedEnd(d, i, j)
  BY Zenon DEF CompileBoolean, JoinedEnd, m, E
<1> HIDE DEF j
<1>10. PICK f : f = j
  OBVIOUS
<1>11. f = [k \in 0..m |-> IF k = 0 THEN c ELSE E(f[k - 1], k)]
  BY <1>8, <1>10, Zenon
<1>12. f[0] = c /\ \A k \in 1..m : f[k] = E(f[k - 1], k)
  BY <1>1, <1>11
<1>13. f = [k \in 0..m |-> f[k]]
  BY <1>11
<1>14. StepByStep(f, V, c, m, F)
  <2>1. \A k \in 1..m : f[k - 1] \in V => f[k] = F[<<f[k - 1], k>>]
    BY <1>4, <1>12
  <2>2. f[0] = c
    BY <1>12
  <2> QED BY <1>1, <1>3, <1>5, <1>13, <2>1, <2>2, StepsTyped, Zenon
<1>15. Joining(d, h, c, i, f)
  BY <1>12, <1>14 DEF StepByStep, Joining, m, V, E
<1> QED BY <1>9, <1>10, <1>15

LEMMA GateLocal ==
  ASSUME NEW d, IsDiagram(d), NEW rank, NEW i \in DOMAIN d.nodes, Is(d, i, Booleans),
         NEW h \in NodeCode(d), NEW h2,
         SameBefore(d, rank, i, h, h2), NEW c \in Result(d), NodeFits(d, rank, i)
  PROVE  CompileBoolean(d, h, c, i) = CompileBoolean(d, h2, c, i)
<1> DEFINE m == Len(d.nodes[i].ins)
<1>1. PICK g : Joining(d, h, c, i, g) /\ CompileBoolean(d, h, c, i) = JoinedEnd(d, i, g)
  BY GateInputsTyped, GateJoins
<1>0. ASSUME NEW r \in Result(d), NEW k \in 1..Len(d.nodes[i].ins)
      PROVE  /\ CompileInput(d, h, r, d.nodes[i].kind, d.nodes[i].ins[k])
                  = CompileInput(d, h2, r, d.nodes[i].kind, d.nodes[i].ins[k])
             /\ CompileInput(d, h2, r, d.nodes[i].kind, d.nodes[i].ins[k]) \in Result(d)
  <2> DEFINE input == d.nodes[i].ins[k]
             kind == d.nodes[i].kind
  <2>4. /\ kind \in Booleans /\ input \in Wires(GridPins(d)) /\ input.pin \in Wired(d)
        /\ Before(rank, input.pin, i)
    BY GateFacts DEF NodeFits
  <2> HIDE DEF kind, input
  <2>5. CompileInput(d, h, r, kind, input) = CompileInput(d, h2, r, kind, input)
    BY <2>4, InputLocal
  <2>6. CompileInput(d, h, r, kind, input) \in Result(d)
    BY <2>4, InputTyped
  <2> QED BY <2>5, <2>6 DEF kind, input
<1>2. PICK g2 : Joining(d, h2, c, i, g2) /\ CompileBoolean(d, h2, c, i) = JoinedEnd(d, i, g2)
  <2>1. InputsTyped(d, h2, i)
    BY <1>0 DEF InputsTyped
  <2> QED BY <2>1, GateJoins
<1>3. m \in Nat
  BY GateFacts
<1> DEFINE S == {k \in Nat : k <= m => g[k] = g2[k]}
<1>4. 0 \in S
  BY <1>1, <1>2 DEF Joining
<1>5. ASSUME NEW k \in Nat, k \in S PROVE k + 1 \in S
  <2> SUFFICES ASSUME k + 1 <= m PROVE g[k + 1] = g2[k + 1]
    OBVIOUS
  <2> DEFINE input == d.nodes[i].ins[k + 1]
             kind == d.nodes[i].kind
  <2>1. k + 1 \in 1..m /\ (k + 1) - 1 = k /\ g[k] = g2[k] /\ k \in 0..m
    BY <1>3, <1>5
  <2>2. g[k + 1] = CompileInput(d, h, g[k], kind, input) /\ g[k] \in Result(d)
    BY <1>1, <2>1 DEF Joining
  <2>3. g2[k + 1] = CompileInput(d, h2, g2[k], kind, input)
    BY <1>2, <2>1 DEF Joining
  <2>5. CompileInput(d, h, g[k], kind, input) = CompileInput(d, h2, g[k], kind, input)
    BY <1>0, <2>1, <2>2
  <2> HIDE DEF kind, input
  <2> QED BY <2>1, <2>2, <2>3, <2>5
<1> HIDE DEF S
<1>6. Nat \subseteq S
  BY <1>4, <1>5, SetInduction
<1>7. g[m] = g2[m]
  BY <1>3, <1>6 DEF S
<1> QED BY <1>1, <1>2, <1>7 DEF JoinedEnd

\* Tuples.
LEMMA Tuple11 ==
  ASSUME NEW x1, NEW x2
  PROVE  <<x1>> \o <<x2>> = <<x1, x2>>
<1> DEFINE a == <<x1>> \o <<x2>>
           b == <<x1, x2>>
<1>1. Len(a) = 2
  OBVIOUS
<1>2. a[1] = x1
  OBVIOUS
<1>3. a[2] = x2
  OBVIOUS
<1>4. Len(b) = 2 /\ b[1] = x1 /\ b[2] = x2
  OBVIOUS
<1>5. a \in Seq({x1, x2}) /\ b \in Seq({x1, x2})
  OBVIOUS
<1> HIDE DEF a, b
<1>6. Len(a) = Len(b) /\ \A i \in 1..Len(a) : a[i] = b[i]
  BY <1>1, <1>2, <1>3, <1>4
<1>7. a = b
  BY <1>5, <1>6, SeqEqual, Zenon
<1> QED BY <1>7 DEF a, b

LEMMA Tuple21 ==
  ASSUME NEW x1, NEW x2, NEW x3
  PROVE  <<x1, x2>> \o <<x3>> = <<x1, x2, x3>>
<1> DEFINE a == <<x1, x2>> \o <<x3>>
           b == <<x1, x2, x3>>
<1>1. Len(a) = 3
  OBVIOUS
<1>2. a[1] = x1
  OBVIOUS
<1>3. a[2] = x2
  OBVIOUS
<1>4. a[3] = x3
  OBVIOUS
<1>5. Len(b) = 3 /\ b[1] = x1 /\ b[2] = x2 /\ b[3] = x3
  OBVIOUS
<1>6. a \in Seq({x1, x2, x3}) /\ b \in Seq({x1, x2, x3})
  OBVIOUS
<1> HIDE DEF a, b
<1>7. Len(a) = Len(b) /\ \A i \in 1..Len(a) : a[i] = b[i]
  BY <1>1, <1>2, <1>3, <1>4, <1>5
<1>8. a = b
  BY <1>6, <1>7, SeqEqual, Zenon
<1> QED BY <1>8 DEF a, b

LEMMA Tuple31 ==
  ASSUME NEW x1, NEW x2, NEW x3, NEW x4
  PROVE  <<x1, x2, x3>> \o <<x4>> = <<x1, x2, x3, x4>>
<1> DEFINE a == <<x1, x2, x3>> \o <<x4>>
           b == <<x1, x2, x3, x4>>
<1>1. Len(a) = 4
  OBVIOUS
<1>2. a[1] = x1
  OBVIOUS
<1>3. a[2] = x2
  OBVIOUS
<1>4. a[3] = x3
  OBVIOUS
<1>5. a[4] = x4
  OBVIOUS
<1>6. Len(b) = 4 /\ b[1] = x1 /\ b[2] = x2 /\ b[3] = x3 /\ b[4] = x4
  OBVIOUS
<1>7. a \in Seq({x1, x2, x3, x4}) /\ b \in Seq({x1, x2, x3, x4})
  OBVIOUS
<1> HIDE DEF a, b
<1>8. Len(a) = Len(b) /\ \A i \in 1..Len(a) : a[i] = b[i]
  BY <1>1, <1>2, <1>3, <1>4, <1>5, <1>6
<1>9. a = b
  BY <1>7, <1>8, SeqEqual, Zenon
<1> QED BY <1>9 DEF a, b

LEMMA Tuple12 ==
  ASSUME NEW x1, NEW x2, NEW x3
  PROVE  <<x1>> \o <<x2, x3>> = <<x1, x2, x3>>
<1> DEFINE a == <<x1>> \o <<x2, x3>>
           b == <<x1, x2, x3>>
<1>1. Len(a) = 3
  OBVIOUS
<1>2. a[1] = x1
  OBVIOUS
<1>3. a[2] = x2
  OBVIOUS
<1>4. a[3] = x3
  OBVIOUS
<1>5. Len(b) = 3 /\ b[1] = x1 /\ b[2] = x2 /\ b[3] = x3
  OBVIOUS
<1>6. a \in Seq({x1, x2, x3}) /\ b \in Seq({x1, x2, x3})
  OBVIOUS
<1> HIDE DEF a, b
<1>7. Len(a) = Len(b) /\ \A i \in 1..Len(a) : a[i] = b[i]
  BY <1>1, <1>2, <1>3, <1>4, <1>5
<1>8. a = b
  BY <1>6, <1>7, SeqEqual, Zenon
<1> QED BY <1>8 DEF a, b

LEMMA EmitTwice ==
  ASSUME NEW d, NEW c \in Result(d), NEW a \in Seq(InsnsOf(d)), NEW b \in Seq(InsnsOf(d))
  PROVE  Emit(Emit(c, a), b) = Emit(c, a \o b)
<1> DEFINE I == InsnsOf(d)
<1>1. c.code \in Seq(I) /\ a \in Seq(I) /\ b \in Seq(I)
  BY DEF Result
<1>2. \A x \in Seq(I), y \in Seq(I), z \in Seq(I) : (x \o y) \o z = x \o (y \o z)
  BY Concat3
<1> HIDE DEF I
<1>3. (c.code \o a) \o b = c.code \o (a \o b)
  BY <1>1, <1>2, Zenon
<1>4. Emit(c, a) = [c EXCEPT !.code = c.code \o a] /\ Emit(c, a \o b) = [c EXCEPT !.code = c.code \o (a \o b)]
  BY DEF Emit, Result
<1> DEFINE e == Emit(c, a)
<1>5. e.code = c.code \o a
  BY <1>4 DEF Result
<1>6. Emit(e, b) = [e EXCEPT !.code = e.code \o b]
  BY <1>4 DEF Emit, Result
<1>7. Emit(e, b) = [e EXCEPT !.code = c.code \o (a \o b)]
  BY <1>3, <1>5, <1>6
<1>8. e = [c EXCEPT !.code = c.code \o a]
  BY <1>4
<1> DEFINE x == c.code \o a
           y == c.code \o (a \o b)
<1> HIDE DEF x, y, e
<1>9. e = [c EXCEPT !.code = x] /\ Emit(e, b) = [e EXCEPT !.code = y] /\ Emit(c, a \o b) = [c EXCEPT !.code = y]
  BY <1>4, <1>7, <1>8 DEF x, y
<1>10. [[c EXCEPT !.code = x] EXCEPT !.code = y] = [c EXCEPT !.code = y]
  BY DEF Result
<1> QED BY <1>9, <1>10 DEF e

\* CompileMove and CompileCompare as a few segments of instructions.
End0(i) == <<i, "end">>
MoveBody(d, i) ==
  CASE d.nodes[i].ins # <<>> ->
         <<Insn("SPBNB", End0(i)), Insn("T", Transferred(i)), Labelled(End0(i), Plain("NOP"))>>
    [] d.nodes[i].ins = <<>> /\ Fanout(d, Eno(i)) > 0 ->
         <<Insn("T", Transferred(i)), Plain("SET"),
           Labelled(<<i, "set">>, Insn("SPBNB", <<i, "set">>)), Labelled(End0(i), Plain("NOP"))>>
    [] d.nodes[i].ins = <<>> /\ ~(Fanout(d, Eno(i)) > 0) ->
         <<Insn("T", Transferred(i)), Labelled(End0(i), Plain("NOP"))>>
MoveSource(d, h, c, i) ==
  IF d.nodes[i].source \notin c.done \cup {0} THEN Compiled(h, c, d.nodes[i].source) ELSE c
MoveEnabled(d, h, s, i) ==
  IF d.nodes[i].ins = <<>> THEN s ELSE CompileConn(d, h, s, "U", d.nodes[i].ins[1].pin)
MoveEnd(d, e, i) ==
  LET b == Emit(e, MoveBody(d, i))
  IN IF Fanout(d, Eno(i)) > 0
     THEN StoreBoxOutput(d, Emit(b, <<Insn("U", BIE)>>), Eno(i)) ELSE b

LEMMA MoveBodyTyped ==
  ASSUME NEW d, IsDiagram(d), NEW i \in DOMAIN d.nodes
  PROVE  /\ Insn("SPBNB", End0(i)) \in InsnsOf(d) /\ Insn("T", Transferred(i)) \in InsnsOf(d)
         /\ Labelled(End0(i), Plain("NOP")) \in InsnsOf(d) /\ Plain("SET") \in InsnsOf(d)
         /\ Labelled(<<i, "set">>, Insn("SPBNB", <<i, "set">>)) \in InsnsOf(d)
         /\ Insn("U", BIE) \in InsnsOf(d)
         /\ MoveBody(d, i) \in Seq(InsnsOf(d))
<1>1. End0(i) \in Args(d) /\ <<i, "set">> \in Args(d) /\ Transferred(i) \in Args(d) /\ BIE \in Args(d)
  BY ArgsTyped DEF Marks, End0
<1>2. {"SPBNB", "T", "NOP", "SET", "U"} \subseteq Ops
  BY DEF Ops
<1>3. /\ Insn("SPBNB", End0(i)) \in InsnsOf(d) /\ Insn("T", Transferred(i)) \in InsnsOf(d)
      /\ Labelled(End0(i), Plain("NOP")) \in InsnsOf(d) /\ Plain("SET") \in InsnsOf(d)
      /\ Labelled(<<i, "set">>, Insn("SPBNB", <<i, "set">>)) \in InsnsOf(d)
      /\ Insn("U", BIE) \in InsnsOf(d)
  BY <1>1, <1>2, InsnsTyped
<1> HIDE DEF InsnsOf
<1>4. MoveBody(d, i) \in Seq(InsnsOf(d))
  BY <1>3 DEF MoveBody
<1> QED BY <1>3, <1>4

LEMMA MoveSegments ==
  ASSUME NEW d, IsDiagram(d), NEW h, NEW c \in Result(d),
         NEW i \in DOMAIN d.nodes, NEW s, s = MoveSource(d, h, c, i), NEW e, e = MoveEnabled(d, h, s, i),
         e \in Result(d)
  PROVE  CompileMove(d, h, c, i) = MoveEnd(d, e, i)
<1> DEFINE I == InsnsOf(d)
           spbnb == Insn("SPBNB", <<i, "end">>)
           t == Insn("T", Transferred(i))
           set == Plain("SET")
           jump == Labelled(<<i, "set">>, Insn("SPBNB", <<i, "set">>))
           nop == Labelled(<<i, "end">>, Plain("NOP"))
           ins == d.nodes[i].ins
           used == Fanout(d, Eno(i)) > 0
           enabled == IF ins = <<>> THEN e ELSE Emit(e, <<spbnb>>)
           moved == Emit(enabled, <<t>>)
           bieSet == IF ins = <<>> /\ used THEN Emit(moved, <<set, jump>>) ELSE moved
           ended == Emit(bieSet, <<nop>>)
<1>1. CompileMove(d, h, c, i) = IF used THEN StoreBoxOutput(d, Emit(ended, <<Insn("U", BIE)>>), Eno(i)) ELSE ended
  BY DEF CompileMove, MoveSource, MoveEnabled, SetBieClearEr
<1>2. spbnb \in I /\ t \in I /\ set \in I /\ jump \in I /\ nop \in I
  BY MoveBodyTyped DEF End0
<1>3. MoveBody(d, i) = CASE ins # <<>> -> <<spbnb, t, nop>>
                         [] ins = <<>> /\ used -> <<t, set, jump, nop>>
                         [] ins = <<>> /\ ~used -> <<t, nop>>
  BY DEF MoveBody, End0
<1> HIDE DEF spbnb, t, set, jump, nop, ins, used
<1>4. \A x \in Result(d), a \in Seq(I), b \in Seq(I) : Emit(Emit(x, a), b) = Emit(x, a \o b)
  BY EmitTwice
<1> HIDE DEF I
<1>5. ended = Emit(e, MoveBody(d, i))
  <2>0. /\ <<spbnb>> \in Seq(I) /\ <<t>> \in Seq(I) /\ <<nop>> \in Seq(I) /\ <<set, jump>> \in Seq(I)
        /\ <<spbnb, t>> \in Seq(I) /\ <<t, set, jump>> \in Seq(I)
    BY <1>2
  <2>1. CASE ins # <<>>
    <3>1. ended = Emit(Emit(Emit(e, <<spbnb>>), <<t>>), <<nop>>)
      BY <2>1
    <3>2. Emit(Emit(e, <<spbnb>>), <<t>>) = Emit(e, <<spbnb>> \o <<t>>)
      BY <1>4, <2>0
    <3>3. <<spbnb>> \o <<t>> = <<spbnb, t>> /\ <<spbnb, t>> \o <<nop>> = <<spbnb, t, nop>>
      BY Tuple11, Tuple21
    <3>4. Emit(Emit(e, <<spbnb, t>>), <<nop>>) = Emit(e, <<spbnb, t>> \o <<nop>>)
      BY <1>4, <2>0
    <3>5. MoveBody(d, i) = <<spbnb, t, nop>>
      BY <1>3, <2>1
    <3> QED BY <3>1, <3>2, <3>3, <3>4, <3>5, Zenon
  <2>2. CASE ins = <<>> /\ used
    <3>1. ended = Emit(Emit(Emit(e, <<t>>), <<set, jump>>), <<nop>>)
      BY <2>2
    <3>2. Emit(Emit(e, <<t>>), <<set, jump>>) = Emit(e, <<t>> \o <<set, jump>>)
      BY <1>4, <2>0
    <3>3. <<t>> \o <<set, jump>> = <<t, set, jump>> /\ <<t, set, jump>> \o <<nop>> = <<t, set, jump, nop>>
      BY Tuple12, Tuple31
    <3>4. Emit(Emit(e, <<t, set, jump>>), <<nop>>) = Emit(e, <<t, set, jump>> \o <<nop>>)
      BY <1>4, <2>0
    <3>5. MoveBody(d, i) = <<t, set, jump, nop>>
      BY <1>3, <2>2
    <3> QED BY <3>1, <3>2, <3>3, <3>4, <3>5, Zenon
  <2>3. CASE ins = <<>> /\ ~used
    <3>1. ended = Emit(Emit(e, <<t>>), <<nop>>)
      BY <2>3
    <3>2. Emit(Emit(e, <<t>>), <<nop>>) = Emit(e, <<t>> \o <<nop>>)
      BY <1>4, <2>0
    <3>3. <<t>> \o <<nop>> = <<t, nop>>
      BY Tuple11
    <3>5. MoveBody(d, i) = <<t, nop>>
      BY <1>3, <2>3
    <3> QED BY <3>1, <3>2, <3>3, <3>5, Zenon
  <2> QED BY <2>1, <2>2, <2>3
<1> HIDE DEF ended
<1> QED BY <1>1, <1>5 DEF MoveEnd, used

CmpGated(d, h, c, i) ==
  LET en == d.nodes[i].ins[1].pin
  IN CASE d.nodes[i].ins # <<>> /\ Fanout(d, Eno(i)) > 0 ->
            Emit(CompileConn(d, h, c, "U", en), <<Plain("SAVE"), Insn("CMP", Out(i)), Insn("U", BIE)>>)
       [] d.nodes[i].ins # <<>> /\ ~(Fanout(d, Eno(i)) > 0) ->
            CompileConn(d, h, Emit(c, <<Insn("CMP", Out(i))>>), "U", en)
       [] ~(d.nodes[i].ins # <<>>) -> Emit(c, <<Insn("CMP", Out(i))>>)
CmpEnd(d, gated, i) ==
  LET out == StoreBoxOutput(d, gated, Out(i))
  IN IF Fanout(d, Eno(i)) > 0
     THEN StoreBoxOutput(d, Emit(out, <<IF d.nodes[i].ins # <<>> THEN Insn("U", BIE) ELSE Plain("SET")>>),
                         Eno(i))
     ELSE out

LEMMA CmpBodyTyped ==
  ASSUME NEW d, IsDiagram(d), NEW i \in DOMAIN d.nodes
  PROVE  /\ Insn("CMP", Out(i)) \in InsnsOf(d) /\ Plain("SAVE") \in InsnsOf(d)
         /\ Insn("U", BIE) \in InsnsOf(d) /\ Plain("SET") \in InsnsOf(d)
<1>1. Out(i) \in Args(d) /\ BIE \in Args(d)
  BY ArgsTyped
<1>2. {"SAVE", "CMP", "SET", "U"} \subseteq Ops
  BY DEF Ops
<1> QED BY <1>1, <1>2, InsnsTyped

LEMMA CompareSegments ==
  ASSUME NEW d, IsDiagram(d), NEW h, NEW c \in Result(d),
         NEW i \in DOMAIN d.nodes, d.nodes[i].ins # <<>> => CompileConn(d, h, c, "U", d.nodes[i].ins[1].pin) \in Result(d)
  PROVE  CompileCompare(d, h, c, i) = CmpEnd(d, CmpGated(d, h, c, i), i)
<1> DEFINE I == InsnsOf(d)
           used == Fanout(d, Eno(i)) > 0
           ins == d.nodes[i].ins
           en == d.nodes[i].ins[1].pin
           save == Plain("SAVE")
           cmp == Insn("CMP", Out(i))
           ubie == Insn("U", BIE)
           saved == IF ins # <<>> /\ used THEN Emit(CompileConn(d, h, c, "U", en), <<save>>) ELSE c
           compared0 == Emit(saved, <<cmp>>)
           gated == CASE ins # <<>> /\ used -> Emit(compared0, <<ubie>>)
                      [] ins # <<>> /\ ~used -> CompileConn(d, h, compared0, "U", en)
                      [] ~(ins # <<>>) -> compared0
<1>1. CompileCompare(d, h, c, i) = CmpEnd(d, gated, i)
  BY DEF CompileCompare, CmpEnd
<1>2. save \in I /\ cmp \in I /\ ubie \in I
  BY CmpBodyTyped
<1>3. CmpGated(d, h, c, i) = CASE ins # <<>> /\ used -> Emit(CompileConn(d, h, c, "U", en), <<save, cmp, ubie>>)
                               [] ins # <<>> /\ ~used -> CompileConn(d, h, Emit(c, <<cmp>>), "U", en)
                               [] ~(ins # <<>>) -> Emit(c, <<cmp>>)
  BY DEF CmpGated
<1>4. ins # <<>> => CompileConn(d, h, c, "U", en) \in Result(d)
  OBVIOUS
<1>5. \A x \in Result(d), a \in Seq(I), b \in Seq(I) : Emit(Emit(x, a), b) = Emit(x, a \o b)
  BY EmitTwice
<1> HIDE DEF I, used, ins, en, save, cmp, ubie
<1>6. gated = CmpGated(d, h, c, i)
  <2>1. CASE ins # <<>> /\ used
    <3> DEFINE x == CompileConn(d, h, c, "U", en)
    <3>0. x \in Result(d)
      BY <1>4, <2>1
    <3> HIDE DEF x
    <3>1. gated = Emit(Emit(Emit(x, <<save>>), <<cmp>>), <<ubie>>)
      BY <2>1 DEF x
    <3>2. <<save>> \in Seq(I) /\ <<cmp>> \in Seq(I) /\ <<ubie>> \in Seq(I) /\ <<save, cmp>> \in Seq(I)
      BY <1>2
    <3>3. Emit(Emit(x, <<save>>), <<cmp>>) = Emit(x, <<save>> \o <<cmp>>)
      BY <1>5, <3>0, <3>2
    <3>4. <<save>> \o <<cmp>> = <<save, cmp>> /\ <<save, cmp>> \o <<ubie>> = <<save, cmp, ubie>>
      BY Tuple11, Tuple21
    <3>5. Emit(Emit(x, <<save, cmp>>), <<ubie>>) = Emit(x, <<save, cmp>> \o <<ubie>>)
      BY <1>5, <3>0, <3>2
    <3>6. CmpGated(d, h, c, i) = Emit(x, <<save, cmp, ubie>>)
      BY <1>3, <2>1 DEF x
    <3> QED BY <3>1, <3>3, <3>4, <3>5, <3>6, Zenon
  <2>2. CASE ins # <<>> /\ ~used
    BY <1>3, <2>2
  <2>3. CASE ~(ins # <<>>)
    BY <1>3, <2>3
  <2> QED BY <2>1, <2>2, <2>3
<1> HIDE DEF gated
<1> QED BY <1>1, <1>6

LEMMA BoxFacts ==
  ASSUME NEW d, IsDiagram(d), NEW rank, NEW i \in DOMAIN d.nodes, Is(d, i, Boxes), NodeFits(d, rank, i)
  PROVE  /\ d.nodes[i].ins # <<>> =>
              /\ d.nodes[i].ins[1] \in Wires(GridPins(d)) /\ ~d.nodes[i].ins[1].inverted
              /\ DOMAIN d.nodes[i].ins = {1} /\ 1 \in DOMAIN d.nodes[i].ins
              /\ d.nodes[i].ins[1].pin \in Wired(d) /\ Before(rank, d.nodes[i].ins[1].pin, i)
         /\ d.nodes[i].ins = <<>> => DOMAIN d.nodes[i].ins = {}
         /\ d.nodes[i].source # 0 =>
              /\ d.nodes[i].source \in DOMAIN d.nodes /\ Is(d, d.nodes[i].source, {"MOVE"})
              /\ rank[d.nodes[i].source] < rank[i]
<1>1. /\ Len(d.nodes[i].ins) \in Nat /\ DOMAIN d.nodes[i].ins = 1..Len(d.nodes[i].ins)
      /\ \A k \in 1..Len(d.nodes[i].ins) :
           d.nodes[i].ins[k] \in Wires(GridPins(d)) /\ d.nodes[i].ins[k].pin \in Wired(d)
  BY GateFacts
<1>2. /\ Len(d.nodes[i].ins) <= 1
      /\ \A k \in DOMAIN d.nodes[i].ins : ~d.nodes[i].ins[k].inverted
      /\ \A k \in DOMAIN d.nodes[i].ins : Before(rank, d.nodes[i].ins[k].pin, i)
  BY DEF NodeFits
<1>3. d.nodes[i].ins \in Seq(Wires(GridPins(d)))
  BY PinsOfKinds DEF Elems
<1> DEFINE l == d.nodes[i].ins
<1>4. l # <<>> => Len(l) = 1
  <2>1. l \in Seq(Wires(GridPins(d))) /\ Len(l) \in Nat /\ Len(l) <= 1
    BY <1>1, <1>2, <1>3
  <2> HIDE DEF l
  <2>2. Len(l) = 0 => l = <<>>
    BY <2>1
  <2>3. \A n \in Nat : n <= 1 /\ n # 0 => n = 1
    OBVIOUS
  <2> QED BY <2>1, <2>2, <2>3, Zenon
<1>5. d.nodes[i].ins = <<>> => Len(d.nodes[i].ins) = 0
  OBVIOUS
<1>6. d.nodes[i].source # 0 => Is(d, d.nodes[i].source, {"MOVE"}) /\ rank[d.nodes[i].source] < rank[i]
  BY DEF NodeFits
<1>7. d.nodes[i].ins # <<>> => DOMAIN d.nodes[i].ins = {1}
  BY <1>1, <1>4
<1>8. d.nodes[i].ins = <<>> => DOMAIN d.nodes[i].ins = {}
  BY <1>1, <1>5
<1>9. d.nodes[i].ins # <<>> => 1 \in DOMAIN d.nodes[i].ins /\ 1 \in 1..Len(d.nodes[i].ins)
  BY <1>1, <1>4
<1> QED BY <1>1, <1>2, <1>6, <1>7, <1>8, <1>9 DEF Is

LEMMA MoveTyped ==
  ASSUME NEW d, IsDiagram(d), NEW rank, NEW i \in DOMAIN d.nodes, Is(d, i, {"MOVE"}), NodeFits(d, rank, i),
         NEW h \in NodeCode(d), NEW c \in Result(d)
  PROVE  LET s == MoveSource(d, h, c, i)
             e == MoveEnabled(d, h, s, i)
         IN s \in Result(d) /\ e \in Result(d) /\ CompileMove(d, h, c, i) = MoveEnd(d, e, i)
            /\ MoveEnd(d, e, i) \in Result(d)
<1> DEFINE s == MoveSource(d, h, c, i)
           e == MoveEnabled(d, h, s, i)
<1>0. Is(d, i, Boxes)
  BY PinsOfKinds
<1>1. s \in Result(d)
  <2>1. d.nodes[i].source # 0 => d.nodes[i].source \in DOMAIN d.nodes
    BY <1>0, BoxFacts
  <2>2. d.nodes[i].source \notin c.done \cup {0} => d.nodes[i].source # 0
    OBVIOUS
  <2> QED BY <2>1, <2>2, CompiledExtends DEF MoveSource, Extends
<1> HIDE DEF s
<1>2. e \in Result(d)
  <2>1. d.nodes[i].ins # <<>> => d.nodes[i].ins[1].pin \in Wired(d)
    BY <1>0, BoxFacts
  <2>2. "U" \in Classes
    BY DEF Classes
  <2> QED BY <1>1, <2>1, <2>2, ConnTyped DEF MoveEnabled
<1>3. CompileMove(d, h, c, i) = MoveEnd(d, e, i)
  BY <1>2, MoveSegments DEF s
<1> HIDE DEF e
<1>4. MoveEnd(d, e, i) \in Result(d)
  <2> DEFINE b == Emit(e, MoveBody(d, i))
             u == Emit(b, <<Insn("U", BIE)>>)
  <2>1. b \in Result(d)
    BY <1>2, MoveBodyTyped, EmitTyped
  <2> HIDE DEF b
  <2>2. u \in Result(d)
    BY <2>1, MoveBodyTyped, EmitOne
  <2> HIDE DEF u
  <2>3. Eno(i) \in GridPins(d)
    BY PinsOfKinds DEF GridPins
  <2>4. StoreBoxOutput(d, u, Eno(i)) \in Result(d)
    BY <2>2, <2>3, StoreBoxOutputSaves DEF Saves, Adds
  <2> QED BY <2>1, <2>4 DEF MoveEnd, b, u
<1> QED BY <1>1, <1>2, <1>3, <1>4 DEF s, e

LEMMA MoveLocal ==
  ASSUME NEW d, IsDiagram(d), NEW rank, NEW i \in DOMAIN d.nodes, Is(d, i, {"MOVE"}), NodeFits(d, rank, i),
         NEW h \in NodeCode(d), NEW h2,
         SameBefore(d, rank, i, h, h2), NEW c \in Result(d)
  PROVE  CompileMove(d, h, c, i) = CompileMove(d, h2, c, i)
<1> DEFINE s == MoveSource(d, h, c, i)
           e == MoveEnabled(d, h, s, i)
           s2 == MoveSource(d, h2, c, i)
           e2 == MoveEnabled(d, h2, s2, i)
<1>0. Is(d, i, Boxes)
  BY PinsOfKinds
<1>1. s \in Result(d) /\ e \in Result(d) /\ CompileMove(d, h, c, i) = MoveEnd(d, e, i)
  BY MoveTyped
<1>3. s = s2
  <2>1. d.nodes[i].source # 0 => d.nodes[i].source \in DOMAIN d.nodes /\ rank[d.nodes[i].source] < rank[i]
    BY <1>0, BoxFacts
  <2>2. d.nodes[i].source \notin c.done \cup {0} => d.nodes[i].source # 0
    OBVIOUS
  <2>3. d.nodes[i].source # 0 => Compiled(h, c, d.nodes[i].source) = Compiled(h2, c, d.nodes[i].source)
    <3> SUFFICES ASSUME d.nodes[i].source # 0
                 PROVE  Compiled(h, c, d.nodes[i].source) = Compiled(h2, c, d.nodes[i].source)
      OBVIOUS
    <3> DEFINE j == d.nodes[i].source
    <3>1. j \in DOMAIN d.nodes /\ rank[j] < rank[i]
      BY <2>1
    <3> HIDE DEF j
    <3>2. Compiled(h, c, j) = Compiled(h2, c, j)
      BY <3>1, CompiledLocal
    <3> QED BY <3>2 DEF j
  <2> QED BY <2>2, <2>3 DEF MoveSource
<1> HIDE DEF s, s2
<1>4. e = e2
  <2>1. d.nodes[i].ins # <<>> => d.nodes[i].ins[1].pin \in Wired(d) /\ Before(rank, d.nodes[i].ins[1].pin, i)
    BY <1>0, BoxFacts
  <2>2. "U" \in Classes
    BY DEF Classes
  <2>3. d.nodes[i].ins # <<>> => CompileConn(d, h, s, "U", d.nodes[i].ins[1].pin)
                                   = CompileConn(d, h2, s, "U", d.nodes[i].ins[1].pin)
    BY <1>1, <2>1, <2>2, ConnLocal
  <2> QED BY <1>3, <2>3 DEF MoveEnabled
<1>2. CompileMove(d, h2, c, i) = MoveEnd(d, e2, i)
  BY <1>1, <1>4, MoveSegments DEF s2
<1> HIDE DEF e, e2
<1> QED BY <1>1, <1>2, <1>4

LEMMA CompareTyped ==
  ASSUME NEW d, IsDiagram(d), NEW rank, NEW i \in DOMAIN d.nodes, Is(d, i, {"CMP"}), NodeFits(d, rank, i),
         NEW h \in NodeCode(d), NEW c \in Result(d)
  PROVE  /\ CmpGated(d, h, c, i) \in Result(d)
         /\ CompileCompare(d, h, c, i) = CmpEnd(d, CmpGated(d, h, c, i), i)
         /\ CompileCompare(d, h, c, i) \in Result(d)
<1>0. Is(d, i, Boxes)
  BY PinsOfKinds
<1>1. d.nodes[i].ins # <<>> => d.nodes[i].ins[1].pin \in Wired(d)
  BY <1>0, BoxFacts
<1>2. /\ Insn("CMP", Out(i)) \in InsnsOf(d) /\ Plain("SAVE") \in InsnsOf(d)
      /\ Insn("U", BIE) \in InsnsOf(d) /\ Plain("SET") \in InsnsOf(d)
  BY CmpBodyTyped
<1>3. Out(i) \in GridPins(d) /\ Eno(i) \in GridPins(d)
  <2>1. PinsOf(d, i) = {Out(i), Eno(i)}
    BY PinsOfKinds
  <2>2. PinsOf(d, i) \subseteq GridPins(d)
    BY DEF GridPins
  <2> QED BY <2>1, <2>2, Zenon
<1> DEFINE I == InsnsOf(d)
<1>4. <<Plain("SAVE"), Insn("CMP", Out(i)), Insn("U", BIE)>> \in Seq(I)
  <2> DEFINE a == Plain("SAVE")
             b == Insn("CMP", Out(i))
             u == Insn("U", BIE)
  <2>1. a \in I /\ b \in I /\ u \in I
    BY <1>2
  <2> HIDE DEF a, b, u, I
  <2>2. <<a, b, u>> \in Seq(I)
    BY <2>1
  <2> QED BY <2>2 DEF a, b, u
<1>5. Emit(c, <<Insn("CMP", Out(i))>>) \in Result(d)
  BY <1>2, EmitOne
<1>6. "U" \in Classes
  BY DEF Classes
<1>7. CmpGated(d, h, c, i) \in Result(d)
  <2> DEFINE en == d.nodes[i].ins[1].pin
             e == Emit(c, <<Insn("CMP", Out(i))>>)
             x == CompileConn(d, h, c, "U", en)
  <2>1. d.nodes[i].ins # <<>> => x \in Result(d) /\ CompileConn(d, h, e, "U", en) \in Result(d)
    BY <1>1, <1>5, <1>6, ConnTyped
  <2>2. x \in Result(d) => Emit(x, <<Plain("SAVE"), Insn("CMP", Out(i)), Insn("U", BIE)>>) \in Result(d)
    BY <1>4, EmitTyped
  <2> DEFINE y == <<Plain("SAVE"), Insn("CMP", Out(i)), Insn("U", BIE)>>
  <2>3. CmpGated(d, h, c, i) =
          CASE d.nodes[i].ins # <<>> /\ Fanout(d, Eno(i)) > 0 ->
                 Emit(x, y)
            [] d.nodes[i].ins # <<>> /\ ~(Fanout(d, Eno(i)) > 0) -> CompileConn(d, h, e, "U", en)
            [] ~(d.nodes[i].ins # <<>>) -> e
    BY DEF CmpGated
  <2>4. x \in Result(d) => Emit(x, y) \in Result(d)
    BY <2>2
  <2>5. e \in Result(d)
    BY <1>5
  <2> HIDE DEF x, e, en, y
  <2> QED BY <2>1, <2>3, <2>4, <2>5
<1>8. CompileCompare(d, h, c, i) = CmpEnd(d, CmpGated(d, h, c, i), i)
  <2>1. d.nodes[i].ins # <<>> => CompileConn(d, h, c, "U", d.nodes[i].ins[1].pin) \in Result(d)
    BY <1>1, <1>6, ConnTyped
  <2> QED BY <2>1, CompareSegments
<1> DEFINE g == CmpGated(d, h, c, i)
           out == StoreBoxOutput(d, g, Out(i))
           last == IF d.nodes[i].ins # <<>> THEN Insn("U", BIE) ELSE Plain("SET")
           u == Emit(out, <<last>>)
<1>9. out \in Result(d)
  BY <1>3, <1>7, StoreBoxOutputSaves DEF Saves, Adds
<1> HIDE DEF g, out
<1>10. last \in InsnsOf(d)
  BY <1>2
<1> HIDE DEF last
<1>11. u \in Result(d)
  BY <1>9, <1>10, EmitOne
<1> HIDE DEF u
<1>12. StoreBoxOutput(d, u, Eno(i)) \in Result(d)
  BY <1>3, <1>11, StoreBoxOutputSaves DEF Saves, Adds
<1>13. CmpEnd(d, g, i) = IF Fanout(d, Eno(i)) > 0 THEN StoreBoxOutput(d, u, Eno(i)) ELSE out
  BY DEF CmpEnd, out, u, last
<1> QED BY <1>7, <1>8, <1>9, <1>12, <1>13 DEF g

LEMMA CompareLocal ==
  ASSUME NEW d, IsDiagram(d), NEW rank, NEW i \in DOMAIN d.nodes, Is(d, i, {"CMP"}), NodeFits(d, rank, i),
         NEW h \in NodeCode(d), NEW h2,
         SameBefore(d, rank, i, h, h2), NEW c \in Result(d)
  PROVE  CompileCompare(d, h, c, i) = CompileCompare(d, h2, c, i)
<1>0. Is(d, i, Boxes)
  BY PinsOfKinds
<1>1. d.nodes[i].ins # <<>> => d.nodes[i].ins[1].pin \in Wired(d) /\ Before(rank, d.nodes[i].ins[1].pin, i)
  BY <1>0, BoxFacts
<1> DEFINE e == Emit(c, <<Insn("CMP", Out(i))>>)
           en == d.nodes[i].ins[1].pin
<1>2. e \in Result(d)
  BY CmpBodyTyped, EmitOne
<1> HIDE DEF e
<1>3. "U" \in Classes
  BY DEF Classes
<1>4. d.nodes[i].ins # <<>> =>
        /\ CompileConn(d, h, c, "U", en) = CompileConn(d, h2, c, "U", en)
        /\ CompileConn(d, h, e, "U", en) = CompileConn(d, h2, e, "U", en)
  BY <1>1, <1>2, <1>3, ConnLocal
<1>5. CmpGated(d, h, c, i) = CmpGated(d, h2, c, i)
  BY <1>4 DEF CmpGated, e
<1>6. d.nodes[i].ins # <<>> => CompileConn(d, h2, c, "U", en) \in Result(d)
  BY <1>1, <1>3, <1>4, ConnTyped
<1>7. CompileCompare(d, h2, c, i) = CmpEnd(d, CmpGated(d, h2, c, i), i)
  BY <1>6, CompareSegments
<1>8. CompileCompare(d, h, c, i) = CmpEnd(d, CmpGated(d, h, c, i), i)
  BY CompareTyped
<1> QED BY <1>5, <1>7, <1>8

\* A node that is being compiled counts as done.
Running(c, i) == [c EXCEPT !.done = @ \cup {i}]

LEMMA RunningTyped ==
  ASSUME NEW d, NEW c \in Result(d), NEW i \in DOMAIN d.nodes
  PROVE  /\ Running(c, i) \in Result(d) /\ Running(c, i).code = c.code
         /\ Running(c, i).done = c.done \cup {i}
         /\ Running(c, i).loaded = c.loaded /\ Running(c, i).stored = c.stored
         /\ Running(c, i).temps = c.temps /\ Running(c, i).failed = c.failed
<1> DEFINE S == Seq(InsnsOf(d))
<1>1. c.code \in S /\ c.done \cup {i} \in SUBSET DOMAIN d.nodes
  BY DEF Result
<1> HIDE DEF InsnsOf
<1> QED BY <1>1 DEF Running, Result

LEMMA ElemCases ==
  ASSUME NEW d, IsDiagram(d), NEW h, NEW c, NEW i \in DOMAIN d.nodes
  PROVE  /\ Is(d, i, Booleans) => CompileElem(d, h, c, i) = CompileBoolean(d, h, Running(c, i), i)
         /\ Is(d, i, {"MOVE"}) => CompileElem(d, h, c, i) = CompileMove(d, h, Running(c, i), i)
         /\ Is(d, i, {"CMP"}) => CompileElem(d, h, c, i) = CompileCompare(d, h, Running(c, i), i)
<1>1. CASE Is(d, i, Booleans)
  <2>1. ~Is(d, i, {"MOVE"}) /\ ~Is(d, i, {"CMP"})
    BY <1>1, PinsOfKinds
  <2> QED BY <1>1, <2>1 DEF CompileElem, Running
<1>2. CASE Is(d, i, {"MOVE"})
  <2>1. ~Is(d, i, Booleans) /\ ~Is(d, i, {"CMP"})
    BY <1>2, PinsOfKinds
  <2> QED BY <1>2, <2>1 DEF CompileElem, Running
<1>3. CASE Is(d, i, {"CMP"})
  <2>1. ~Is(d, i, Booleans) /\ ~Is(d, i, {"MOVE"})
    BY <1>3, PinsOfKinds
  <2> QED BY <1>3, <2>1 DEF CompileElem, Running
<1> QED BY <1>1, <1>2, <1>3, PinsOfKinds

LEMMA JoinedEndTyped ==
  ASSUME NEW d, IsDiagram(d), NEW h, NEW c, NEW i \in DOMAIN d.nodes, NEW g, Joining(d, h, c, i, g)
  PROVE  JoinedEnd(d, i, g) \in Result(d)
<1>1. g[Len(d.nodes[i].ins)] \in Result(d)
  BY GateFacts DEF Joining
<1>2. Plain("NOT") \in InsnsOf(d)
  BY InsnsTyped DEF Ops
<1> QED BY <1>1, <1>2, EmitOne DEF JoinedEnd

LEMMA ElemTyped ==
  ASSUME NEW d, NEW rank, NEW N, Fits(d, rank, N), NEW h \in NodeCode(d), NEW c \in Result(d),
         NEW i \in DOMAIN d.nodes
  PROVE  CompileElem(d, h, c, i) \in Result(d)
<1>1. IsDiagram(d) /\ NodeFits(d, rank, i) /\ Running(c, i) \in Result(d)
  BY RunningTyped DEF Fits
<1>2. CASE Is(d, i, Booleans)
  <2>1. PICK g : Joining(d, h, Running(c, i), i, g)
                   /\ CompileBoolean(d, h, Running(c, i), i) = JoinedEnd(d, i, g)
    BY <1>1, <1>2, GateInputsTyped, GateJoins
  <2>2. JoinedEnd(d, i, g) \in Result(d)
    BY <1>1, <2>1, JoinedEndTyped
  <2> QED BY <1>1, <1>2, <2>1, <2>2, ElemCases
<1>3. CASE Is(d, i, {"MOVE"})
  <2>1. CompileMove(d, h, Running(c, i), i) \in Result(d)
    BY <1>1, <1>3, MoveTyped
  <2> QED BY <1>1, <1>3, <2>1, ElemCases
<1>4. CASE Is(d, i, {"CMP"})
  <2>1. CompileCompare(d, h, Running(c, i), i) \in Result(d)
    BY <1>1, <1>4, CompareTyped
  <2> QED BY <1>1, <1>4, <2>1, ElemCases
<1> QED BY <1>1, <1>2, <1>3, <1>4, PinsOfKinds

LEMMA ElemLocal ==
  ASSUME NEW d, NEW rank, NEW N, Fits(d, rank, N), NEW h \in NodeCode(d), NEW h2,
         NEW c \in Result(d), NEW i \in DOMAIN d.nodes, SameBefore(d, rank, i, h, h2)
  PROVE  CompileElem(d, h, c, i) = CompileElem(d, h2, c, i)
<1> DEFINE r == Running(c, i)
<1>1. IsDiagram(d) /\ NodeFits(d, rank, i) /\ r \in Result(d)
  BY RunningTyped DEF Fits
<1>5. /\ Is(d, i, Booleans) => CompileElem(d, h, c, i) = CompileBoolean(d, h, r, i)
      /\ Is(d, i, {"MOVE"}) => CompileElem(d, h, c, i) = CompileMove(d, h, r, i)
      /\ Is(d, i, {"CMP"}) => CompileElem(d, h, c, i) = CompileCompare(d, h, r, i)
      /\ Is(d, i, Booleans) => CompileElem(d, h2, c, i) = CompileBoolean(d, h2, r, i)
      /\ Is(d, i, {"MOVE"}) => CompileElem(d, h2, c, i) = CompileMove(d, h2, r, i)
      /\ Is(d, i, {"CMP"}) => CompileElem(d, h2, c, i) = CompileCompare(d, h2, r, i)
  BY <1>1, ElemCases
<1> HIDE DEF r
<1>2. CASE Is(d, i, Booleans)
  <2>1. CompileBoolean(d, h, r, i) = CompileBoolean(d, h2, r, i)
    BY <1>1, <1>2, GateLocal
  <2> QED BY <1>2, <1>5, <2>1
<1>3. CASE Is(d, i, {"MOVE"})
  <2>1. CompileMove(d, h, r, i) = CompileMove(d, h2, r, i)
    BY <1>1, <1>3, MoveLocal
  <2> QED BY <1>3, <1>5, <2>1
<1>4. CASE Is(d, i, {"CMP"})
  <2>1. CompileCompare(d, h, r, i) = CompileCompare(d, h2, r, i)
    BY <1>1, <1>4, CompareLocal
  <2> QED BY <1>4, <1>5, <2>1
<1> QED BY <1>1, <1>2, <1>3, <1>4, PinsOfKinds

\* The instructions of a node are those of CompileElem, which looks at the
\* nodes in front of it: the recursion is well-founded.
LEMMA InstructionsDefined ==
  ASSUME NEW d, NEW rank, NEW N, Fits(d, rank, N)
  PROVE  /\ Instructions(d) \in NodeCode(d)
         /\ \A p \in Progress(d), i \in DOMAIN d.nodes :
              Instructions(d)[<<p, i>>] = CompileElem(d, Instructions(d), p, i)
<1> DEFINE V == Progress(d) \X DOMAIN d.nodes
           Y == Result(d)
           E(x, f) == CompileElem(d, f, x[1], x[2])
           level == [x \in V |-> rank[x[2]]]
           G == [x \in V \X [V -> Y] |-> E(x[1], x[2])]
<1>1. Nothing \in Y /\ N \in Nat
  <2>1. <<>> \in Seq(InsnsOf(d))
    OBVIOUS
  <2> HIDE DEF InsnsOf
  <2> QED BY <2>1 DEF Nothing, Result, Fits
<1>2. level \in [V -> 0..N]
  BY DEF Fits
<1>3. ASSUME NEW x \in V, NEW f \in [V -> Y] PROVE E(x, f) \in Y
  <2>1. x[1] \in Result(d) /\ x[2] \in DOMAIN d.nodes
    BY ProgressResult
  <2>2. f \in NodeCode(d)
    BY DEF NodeCode
  <2> QED BY <2>1, <2>2, ElemTyped
<1>4. ASSUME NEW x \in V, NEW f \in [V -> Y], NEW f2, AgreeBelow(V, level, level[x], f, f2)
      PROVE  E(x, f) = E(x, f2)
  <2>1. x[1] \in Result(d) /\ x[2] \in DOMAIN d.nodes
    BY ProgressResult
  <2>2. f \in NodeCode(d)
    BY DEF NodeCode
  <2>3. ASSUME NEW p \in Progress(d), NEW j \in DOMAIN d.nodes, rank[j] < rank[x[2]]
        PROVE  f[<<p, j>>] = f2[<<p, j>>]
    <3>1. <<p, j>> \in V /\ level[<<p, j>>] < level[x]
      BY <2>3
    <3> QED BY <1>4, <3>1 DEF AgreeBelow
  <2>4. SameBefore(d, rank, x[2], f, f2)
    BY <2>3 DEF SameBefore
  <2> QED BY <2>1, <2>2, <2>4, ElemLocal
<1> HIDE DEF V, Y, E, level
<1>5. G \in [V \X [V -> Y] -> Y]
  BY <1>3
<1>6. \A x \in V, f \in [V -> Y] : G[<<x, f>>] = E(x, f)
  OBVIOUS
<1>7. IsLocal(V, Y, level, G)
  BY <1>4, <1>6 DEF IsLocal
<1> HIDE DEF G
<1>8. \E f : IsRecursive(f, V, Y, G)
  <2>1. /\ Nothing \in Y /\ N \in Nat /\ level \in [V -> 0..N] /\ G \in [V \X [V -> Y] -> Y]
        /\ IsLocal(V, Y, level, G)
    BY <1>1, <1>2, <1>5, <1>7
  <2> HIDE DEF Nothing
  <2> QED BY <2>1, RankedRecursion, Zenon
<1>9. PICK f \in [V -> Y] : \A x \in V : f[x] = G[<<x, f>>]
  BY <1>8 DEF IsRecursive
<1>10. f = [x \in V |-> E(x, f)]
  BY <1>6, <1>9
<1> DEFINE g == CHOOSE of : of = [x \in V |-> E(x, of)]
<1>11. g = [x \in V |-> E(x, g)]
  BY <1>10, Zenon
<1>12. Instructions(d) = g
  <2>1. Instructions(d) = CHOOSE of : of = [x \in Progress(d) \X DOMAIN d.nodes |-> CompileElem(d, of, x[1], x[2])]
    BY Zenon DEF Instructions
  <2>2. g = CHOOSE of : of = [x \in Progress(d) \X DOMAIN d.nodes |-> CompileElem(d, of, x[1], x[2])]
    BY Zenon DEF V, E
  <2> QED BY <2>1, <2>2, Zenon
<1> HIDE DEF g
<1>13. PICK of : of = g
  OBVIOUS
<1>14. of = [x \in V |-> E(x, of)]
  BY <1>11, <1>13, Zenon
<1>15. of = [x \in V |-> of[x]] /\ f = [x \in V |-> f[x]]
  BY <1>10, <1>14
<1>16. \A x \in V : of[x] = E(x, of) /\ f[x] = E(x, f) /\ level[x] \in 0..N
  BY <1>2, <1>10, <1>14
<1> DEFINE S == {n \in Nat : \A x \in V : level[x] < n => of[x] = f[x]}
<1>17. 0 \in S
  BY <1>16
<1>18. ASSUME NEW n \in Nat, n \in S PROVE n + 1 \in S
  <2>1. ASSUME NEW x \in V, level[x] < n + 1 PROVE of[x] = f[x]
    <3>1. ASSUME NEW y \in V, level[y] < level[x] PROVE f[y] = of[y]
      <4>1. level[y] < n
        BY <1>16, <2>1, <3>1
      <4> QED BY <1>18, <4>1
    <3>2. AgreeBelow(V, level, level[x], f, of)
      BY <3>1 DEF AgreeBelow
    <3>3. E(x, f) = E(x, of)
      BY <1>4, <1>9, <3>2
    <3> QED BY <1>16, <3>3
  <2> QED BY <2>1
<1> HIDE DEF S
<1>19. N + 1 \in Nat /\ N + 1 \in S
  BY <1>1, <1>17, <1>18, SetInduction
<1>20. \A x \in V : of[x] = f[x]
  BY <1>1, <1>16, <1>19 DEF S
<1>21. of = f
  BY <1>15, <1>20
<1>22. Instructions(d) = f
  BY <1>12, <1>13, <1>21
<1>23. f \in NodeCode(d)
  BY <1>9 DEF NodeCode, V, Y
<1>24. \A p \in Progress(d), i \in DOMAIN d.nodes : f[<<p, i>>] = CompileElem(d, f, p, i)
  <2>1. ASSUME NEW p \in Progress(d), NEW i \in DOMAIN d.nodes PROVE f[<<p, i>>] = CompileElem(d, f, p, i)
    <3>1. <<p, i>> \in V
      BY DEF V
    <3>2. f[<<p, i>>] = E(<<p, i>>, f)
      BY <1>16, <3>1
    <3> QED BY <3>2 DEF E
  <2> QED BY <2>1
<1> QED BY <1>22, <1>23, <1>24

(***************************************************************************)
(* The virtual elements.                                                   *)
(***************************************************************************)

\* A diagram in which node i has another EN, and perhaps one more element.
Rewires(d, d2, i, en) ==
  /\ d2 = Diagram(d2.nodes, d.stores)
  /\ Len(d2.nodes) \in Nat /\ DOMAIN d2.nodes = 1..Len(d2.nodes) /\ Len(d.nodes) <= Len(d2.nodes)
  /\ d2.nodes = [j \in 1..Len(d2.nodes) |-> d2.nodes[j]]
  /\ \A j \in DOMAIN d.nodes : j # i => d2.nodes[j] = d.nodes[j]
  /\ d2.nodes[i] = [d.nodes[i] EXCEPT !.ins = <<en>>]

\* What the virtual elements leave as it is.
Kept(d, d2) ==
  /\ d2.stores = d.stores
  /\ DOMAIN d.nodes \subseteq DOMAIN d2.nodes
  /\ \A j \in DOMAIN d.nodes :
       d2.nodes[j].kind = d.nodes[j].kind /\ d2.nodes[j].source = d.nodes[j].source
  /\ \A j \in DOMAIN d2.nodes \ DOMAIN d.nodes : d2.nodes[j].kind = "U" /\ d2.nodes[j].source = 0

\* A sequence, by its length.
HasLength(w, l) == l \in Nat /\ Len(w) = l /\ DOMAIN w = 1..l /\ w = [j \in 1..l |-> w[j]]

LEMMA RewiresIntro ==
  ASSUME NEW d, NEW d2, NEW w, NEW i, NEW en, NEW l,
         d2.nodes = w, d2 = Diagram(w, d.stores), HasLength(w, l), Len(d.nodes) <= l,
         \A j \in DOMAIN d.nodes : j # i => w[j] = d.nodes[j],
         w[i] = [d.nodes[i] EXCEPT !.ins = <<en>>]
  PROVE  Rewires(d, d2, i, en)
<1>0. l \in Nat /\ Len(w) = l /\ DOMAIN w = 1..l /\ w = [j \in 1..l |-> w[j]]
  BY Zenon DEF HasLength
<1>1. Len(d2.nodes) = l
  BY <1>0, Zenon
<1>2. Len(d2.nodes) \in Nat /\ DOMAIN d2.nodes = 1..Len(d2.nodes)
      /\ d2.nodes = [j \in 1..Len(d2.nodes) |-> d2.nodes[j]]
  BY <1>0, <1>1, Zenon
<1>3. Len(d.nodes) <= Len(d2.nodes)
  BY <1>1, Zenon
<1>4. /\ d2 = Diagram(d2.nodes, d.stores)
      /\ \A j \in DOMAIN d.nodes : j # i => d2.nodes[j] = d.nodes[j]
      /\ d2.nodes[i] = [d.nodes[i] EXCEPT !.ins = <<en>>]
  BY Zenon
<1> QED BY <1>2, <1>3, <1>4, Zenon DEF Rewires

LEMMA TakeENOCases ==
  ASSUME NEW d, IsDiagram(d), NEW i \in DOMAIN d.nodes, d.nodes[i].source # 0
  PROVE  LET d2 == TakeENO(d, i)
             eno == Input(Eno(d.nodes[i].source), FALSE)
             n == Len(d.nodes) + 1
         IN /\ d.nodes[i].ins = <<>> => Rewires(d, d2, i, eno) /\ Len(d2.nodes) = Len(d.nodes)
            /\ d.nodes[i].ins # <<>> =>
                 /\ Rewires(d, d2, i, Input(Out(n), FALSE)) /\ Len(d2.nodes) = n
                 /\ d2.nodes[n] = Node("U", <<eno>> \o d.nodes[i].ins, FALSE, 0)
<1> DEFINE nodes == d.nodes
           E == Elems(GridPins(d))
           eno == Input(Eno(d.nodes[i].source), FALSE)
           n == Len(nodes) + 1
           and == Node("U", <<eno>> \o d.nodes[i].ins, FALSE, 0)
           en == IF d.nodes[i].ins = <<>> THEN eno ELSE Input(Out(n), FALSE)
           node == [d.nodes[i] EXCEPT !.ins = <<en>>]
           w == [d.nodes EXCEPT ![i].ins = <<en>>]
<1>1. nodes \in Seq(E) /\ Len(nodes) \in Nat /\ DOMAIN nodes = 1..Len(nodes)
  BY LenProperties DEF IsDiagram
<1>2. w = [nodes EXCEPT ![i] = node]
  OBVIOUS
<1>3. TakeENO(d, i) = IF d.nodes[i].ins = <<>> THEN Diagram(w, d.stores) ELSE Diagram(Append(w, and), d.stores)
  BY DEF TakeENO
<1> HIDE DEF eno, n, and, node, E
<1>4. i \in 1..Len(nodes)
  BY <1>1
<1> HIDE DEF nodes, en
<1>5. /\ DOMAIN w = 1..Len(nodes) /\ w[i] = node /\ \A j \in 1..Len(nodes) : j # i => w[j] = nodes[j]
      /\ w = [j \in 1..Len(nodes) |-> w[j]]
  BY <1>1, <1>2, <1>4
<1> HIDE DEF w
<1>6. w \in Seq(E \cup {node})
  <2>1. \A j \in 1..Len(nodes) : nodes[j] \in E
    BY <1>1, ElementOfSeq
  <2>2. w \in [1..Len(nodes) -> E \cup {node}]
    BY <1>5, <2>1
  <2> QED BY <1>1, <2>2
<1>7. Len(w) = Len(nodes)
  BY <1>1, <1>5, <1>6, LenProperties
<1>8. CASE d.nodes[i].ins = <<>>
  <2>1. TakeENO(d, i) = Diagram(w, d.stores)
    BY <1>3, <1>8
  <2> DEFINE d2 == TakeENO(d, i)
  <2>2. d2.nodes = w /\ d2.stores = d.stores /\ d2 = Diagram(w, d.stores)
    BY <2>1 DEF Diagram
  <2>3. en = eno
    BY <1>8 DEF en
  <2> HIDE DEF d2
  <2>4. Rewires(d, d2, i, eno) /\ Len(d2.nodes) = Len(d.nodes)
    <3> DEFINE l == Len(nodes)
    <3>1. l \in Nat /\ Len(d.nodes) <= l
      BY <1>1 DEF nodes
    <3>2. \A j \in DOMAIN d.nodes : j # i => w[j] = d.nodes[j]
      BY <1>1, <1>5 DEF nodes
    <3>3. w[i] = [d.nodes[i] EXCEPT !.ins = <<eno>>]
      BY <1>5, <2>3 DEF node
    <3>4. Len(w) = l /\ DOMAIN w = 1..l /\ w = [j \in 1..l |-> w[j]]
      BY <1>5, <1>7, Zenon
    <3>5. d2.nodes = w /\ d2 = Diagram(w, d.stores)
      BY <2>2
    <3> HIDE DEF l
    <3>6. Rewires(d, d2, i, eno)
      <4>0. HasLength(w, l)
        BY <3>1, <3>4, Zenon DEF HasLength
      <4>1. /\ d2.nodes = w /\ d2 = Diagram(w, d.stores)
            /\ HasLength(w, l) /\ Len(d.nodes) <= l
            /\ \A j \in DOMAIN d.nodes : j # i => w[j] = d.nodes[j]
            /\ w[i] = [d.nodes[i] EXCEPT !.ins = <<eno>>]
        BY <4>0, <3>1, <3>2, <3>3, <3>5, Zenon
      <4> QED BY <4>1, RewiresIntro, Zenon
    <3>7. Len(d2.nodes) = Len(d.nodes)
      BY <3>4, <3>5, Zenon DEF l, nodes
    <3> QED BY <3>6, <3>7
  <2>5. Rewires(d, TakeENO(d, i), i, Input(Eno(d.nodes[i].source), FALSE))
        /\ Len(TakeENO(d, i).nodes) = Len(d.nodes)
    BY <2>4 DEF d2, eno
  <2> QED BY <1>8, <2>5, Zenon
<1>9. CASE d.nodes[i].ins # <<>>
  <2>1. TakeENO(d, i) = Diagram(Append(w, and), d.stores)
    BY <1>3, <1>9
  <2> DEFINE v == Append(w, and)
             d2 == TakeENO(d, i)
  <2>2. d2.nodes = v /\ d2.stores = d.stores /\ d2 = Diagram(v, d.stores)
    BY <2>1 DEF Diagram
  <2>3. en = Input(Out(n), FALSE)
    BY <1>9 DEF en
  <2>4. v \in Seq(E \cup {node, and})
    <3>1. w \in Seq(E \cup {node, and})
      BY <1>6
    <3> QED BY <3>1, AppendProperties
  <2>5. Len(v) = Len(w) + 1 /\ v[Len(w) + 1] = and /\ \A j \in 1..Len(w) : v[j] = w[j]
    BY <1>6, AppendProperties
  <2> HIDE DEF v, d2
  <2>6. DOMAIN v = 1..Len(v) /\ v = [j \in 1..Len(v) |-> v[j]] /\ Len(v) = n
    BY <1>7, <2>4, <2>5, LenProperties DEF n
  <2>7. \A j \in 1..Len(nodes) : v[j] = w[j]
    BY <1>7, <2>5
  <2>8. Rewires(d, d2, i, en)
    <3>0. Len(nodes) <= Len(nodes) + 1 /\ Len(nodes) + 1 \in Nat
      BY <1>1
    <3>1. n \in Nat /\ Len(d.nodes) <= n
      BY <3>0, Zenon DEF n, nodes
    <3>2. Len(v) = n /\ DOMAIN v = 1..n /\ v = [j \in 1..n |-> v[j]]
      BY <2>6, Zenon
    <3>3. \A j \in DOMAIN d.nodes : j # i => v[j] = d.nodes[j]
      BY <1>1, <1>5, <2>7 DEF nodes
    <3>4. v[i] = [d.nodes[i] EXCEPT !.ins = <<en>>]
      BY <1>4, <1>5, <2>7 DEF node
    <3>5. d2.nodes = v /\ d2 = Diagram(v, d.stores)
      BY <2>2
    <3> HIDE DEF n
    <3>7. HasLength(v, n)
      BY <3>1, <3>2, Zenon DEF HasLength
    <3>6. /\ d2.nodes = v /\ d2 = Diagram(v, d.stores)
          /\ HasLength(v, n) /\ Len(d.nodes) <= n
          /\ \A j \in DOMAIN d.nodes : j # i => v[j] = d.nodes[j]
          /\ v[i] = [d.nodes[i] EXCEPT !.ins = <<en>>]
      BY <3>7, <3>1, <3>3, <3>4, <3>5, Zenon
    <3> QED BY <3>6, RewiresIntro, Zenon
  <2>9. v[n] = and
    BY <1>7, <2>5 DEF n
  <2>10. Rewires(d, d2, i, Input(Out(n), FALSE)) /\ Len(d2.nodes) = n /\ d2.nodes[n] = and
    BY <2>2, <2>3, <2>6, <2>8, <2>9
  <2>11. /\ Rewires(d, TakeENO(d, i), i, Input(Out(Len(d.nodes) + 1), FALSE))
         /\ Len(TakeENO(d, i).nodes) = Len(d.nodes) + 1
         /\ TakeENO(d, i).nodes[Len(d.nodes) + 1]
              = Node("U", <<Input(Eno(d.nodes[i].source), FALSE)>> \o d.nodes[i].ins, FALSE, 0)
    BY <2>10 DEF d2, n, and, eno, nodes
  <2> QED BY <1>9, <2>11, Zenon
<1> QED BY <1>8, <1>9 DEF eno, n, nodes

LEMMA ElemsGrow ==
  ASSUME NEW P, NEW P2, P \subseteq P2
  PROVE  Wires(P) \subseteq Wires(P2) /\ Elems(P) \subseteq Elems(P2)
<1>1. Wires(P) \subseteq Wires(P2)
  BY DEF Wires
<1>2. Seq(Wires(P)) \subseteq Seq(Wires(P2))
  BY <1>1, SeqMonotonic, Zenon
<1> HIDE DEF Wires
<1> QED BY <1>1, <1>2 DEF Elems

LEMMA PinsKept ==
  ASSUME NEW d, IsDiagram(d), NEW d2, Kept(d, d2)
  PROVE  GridPins(d) \subseteq GridPins(d2) /\ \A j \in DOMAIN d.nodes : PinsOf(d2, j) = PinsOf(d, j)
<1>1. ASSUME NEW j \in DOMAIN d.nodes PROVE PinsOf(d2, j) = PinsOf(d, j) /\ j \in DOMAIN d2.nodes
  <2>1. j \in DOMAIN d2.nodes /\ d2.nodes[j].kind = d.nodes[j].kind
    BY DEF Kept
  <2>2. /\ Is(d2, j, Booleans) = Is(d, j, Booleans)
        /\ Is(d2, j, {"MOVE"}) = Is(d, j, {"MOVE"}) /\ Is(d2, j, {"CMP"}) = Is(d, j, {"CMP"})
    BY <2>1 DEF Is
  <2> QED BY <2>1, <2>2 DEF PinsOf
<1>2. UNION {PinsOf(d, i) : i \in DOMAIN d.nodes} \subseteq UNION {PinsOf(d2, i) : i \in DOMAIN d2.nodes}
  <2>1. ASSUME NEW j \in DOMAIN d.nodes, NEW pin \in PinsOf(d, j)
        PROVE  pin \in UNION {PinsOf(d2, i) : i \in DOMAIN d2.nodes}
    BY <1>1
  <2> QED BY <2>1
<1> QED BY <1>1, <1>2 DEF GridPins

\* The rank of the nodes when a virtual element comes in front of node i.
Ranked(d, d2, rank, i) ==
  [j \in DOMAIN d2.nodes |-> IF j \in DOMAIN d.nodes THEN 2 * rank[j] + 1 ELSE 2 * rank[i]]

LEMMA RankedBefore ==
  ASSUME NEW d, IsDiagram(d), NEW d2, Kept(d, d2), NEW N \in Nat, NEW rank \in [DOMAIN d.nodes -> 0..N],
         NEW i \in DOMAIN d.nodes
  PROVE  /\ Ranked(d, d2, rank, i) \in [DOMAIN d2.nodes -> 0 .. 2 * N + 1]
         /\ \A j \in DOMAIN d.nodes, pin \in GridPins(d) :
              Before(rank, pin, j) => Before(Ranked(d, d2, rank, i), pin, j)
         /\ \A pin \in GridPins(d), n \in DOMAIN d2.nodes \ DOMAIN d.nodes :
              /\ Before(rank, pin, i) => Before(Ranked(d, d2, rank, i), pin, n)
              /\ Before(Ranked(d, d2, rank, i), Out(n), i)
         /\ \A j, k \in DOMAIN d.nodes :
              rank[j] < rank[k] => Ranked(d, d2, rank, i)[j] < Ranked(d, d2, rank, i)[k]
<1> DEFINE r == Ranked(d, d2, rank, i)
<1>1. \A j \in DOMAIN d.nodes : rank[j] \in 0..N /\ j \in DOMAIN d2.nodes /\ r[j] = 2 * rank[j] + 1
  BY DEF Ranked, Kept
<1>2. \A n \in DOMAIN d2.nodes \ DOMAIN d.nodes : r[n] = 2 * rank[i]
  BY DEF Ranked
<1>3. r = [j \in DOMAIN d2.nodes |-> r[j]]
  BY DEF Ranked
<1> HIDE DEF r
<1>4. \A j \in DOMAIN d2.nodes : r[j] \in 0 .. 2 * N + 1
  <2>1. \A x \in 0..N : 2 * x + 1 \in 0 .. 2 * N + 1 /\ 2 * x \in 0 .. 2 * N + 1
    OBVIOUS
  <2> QED BY <1>1, <1>2, <2>1
<1>5. r \in [DOMAIN d2.nodes -> 0 .. 2 * N + 1]
  BY <1>3, <1>4
<1>6. \A pin \in GridPins(d) : pin[1] # 0 => pin[1] \in DOMAIN d.nodes
  BY KindsOfPins
<1>7. \A j, k \in DOMAIN d.nodes : rank[j] < rank[k] => r[j] < r[k]
  <2>1. \A x, y \in 0..N : x < y => 2 * x + 1 < 2 * y + 1
    OBVIOUS
  <2> QED BY <1>1, <2>1
<1>8. \A j \in DOMAIN d.nodes, pin \in GridPins(d) : Before(rank, pin, j) => Before(r, pin, j)
  BY <1>6, <1>7 DEF Before
<1>9. ASSUME NEW pin \in GridPins(d), NEW n \in DOMAIN d2.nodes \ DOMAIN d.nodes
      PROVE  /\ Before(rank, pin, i) => Before(r, pin, n)
             /\ Before(r, Out(n), i)
  <2>1. \A x, y \in 0..N : (x < y => 2 * x + 1 < 2 * y) /\ 2 * y < 2 * y + 1
    OBVIOUS
  <2>2. r[n] = 2 * rank[i] /\ r[i] = 2 * rank[i] + 1 /\ rank[i] \in 0..N
    BY <1>1, <1>2
  <2>3. r[n] < r[i]
    BY <2>1, <2>2
  <2>4. Before(r, Out(n), i)
    BY <2>3 DEF Before, Out
  <2>5. ASSUME Before(rank, pin, i), pin[1] # 0 PROVE r[pin[1]] < r[n]
    <3> DEFINE j == pin[1]
    <3>1. j \in DOMAIN d.nodes /\ rank[j] < rank[i]
      BY <1>6, <2>5 DEF Before
    <3> HIDE DEF j
    <3>2. r[j] = 2 * rank[j] + 1 /\ rank[j] \in 0..N
      BY <1>1, <3>1
    <3>3. r[j] < r[n]
      BY <2>1, <2>2, <3>1, <3>2
    <3> QED BY <3>3 DEF j
  <2> QED BY <2>4, <2>5 DEF Before
<1> QED BY <1>5, <1>7, <1>8, <1>9 DEF r

LEMMA RewiresKept ==
  ASSUME NEW d, IsDiagram(d), NEW d2, NEW i \in DOMAIN d.nodes, NEW en, Rewires(d, d2, i, en),
         \/ Len(d2.nodes) = Len(d.nodes)
         \/ /\ Len(d2.nodes) = Len(d.nodes) + 1
            /\ d2.nodes[Len(d.nodes) + 1].kind = "U" /\ d2.nodes[Len(d.nodes) + 1].source = 0
  PROVE  /\ Kept(d, d2)
         /\ Len(d2.nodes) = Len(d.nodes) => DOMAIN d2.nodes = DOMAIN d.nodes
         /\ Len(d2.nodes) = Len(d.nodes) + 1 => DOMAIN d2.nodes \ DOMAIN d.nodes = {Len(d.nodes) + 1}
<1>1. Len(d.nodes) \in Nat /\ DOMAIN d.nodes = 1..Len(d.nodes)
  BY LenProperties DEF IsDiagram
<1>2. /\ DOMAIN d2.nodes = 1..Len(d2.nodes) /\ Len(d2.nodes) \in Nat /\ Len(d.nodes) <= Len(d2.nodes)
      /\ \A j \in DOMAIN d.nodes : j # i => d2.nodes[j] = d.nodes[j]
      /\ d2.nodes[i] = [d.nodes[i] EXCEPT !.ins = <<en>>]
      /\ d2.stores = d.stores
  BY DEF Rewires, Diagram
<1>3. d2.nodes[i].kind = d.nodes[i].kind /\ d2.nodes[i].source = d.nodes[i].source
  BY <1>2, PinsOfKinds DEF Elems
<1>4. \A n, n2 \in Nat : n2 = n + 1 => (1..n2) \ (1..n) = {n + 1}
  OBVIOUS
<1>5. \A n, n2 \in Nat : n2 = n => (1..n2) \ (1..n) = {}
  OBVIOUS
<1>6. \A n, n2 \in Nat : n <= n2 => 1..n \subseteq 1..n2
  OBVIOUS
<1>7. DOMAIN d.nodes \subseteq DOMAIN d2.nodes
  BY <1>1, <1>2, <1>6
<1>8. Len(d2.nodes) = Len(d.nodes) + 1 => DOMAIN d2.nodes \ DOMAIN d.nodes = {Len(d.nodes) + 1}
  BY <1>1, <1>2, <1>4
<1>9. Len(d2.nodes) = Len(d.nodes) => DOMAIN d2.nodes = DOMAIN d.nodes
  BY <1>1, <1>2, Zenon
<1>10. \A j \in DOMAIN d2.nodes \ DOMAIN d.nodes : d2.nodes[j].kind = "U" /\ d2.nodes[j].source = 0
  BY <1>8, <1>9
<1> QED BY <1>2, <1>3, <1>7, <1>8, <1>9, <1>10 DEF Kept

\* The new EN of a node and the virtual element in front of it.
VirtualFits(d, d2, i, en) ==
  /\ en \in Wires(GridPins(d2)) /\ ~en.inverted
  /\ \/ DOMAIN d2.nodes = DOMAIN d.nodes
     \/ \E n \in DOMAIN d2.nodes :
          /\ DOMAIN d2.nodes \ DOMAIN d.nodes = {n}
          /\ d2.nodes[n] = Node("U", <<Input(Eno(d.nodes[i].source), FALSE)>> \o d.nodes[i].ins, FALSE, 0)

Virtual(d, d2, i, en) ==
  /\ Rewires(d, d2, i, en) /\ Kept(d, d2) /\ VirtualFits(d, d2, i, en)
  /\ \/ /\ DOMAIN d2.nodes = DOMAIN d.nodes /\ d.nodes[i].ins = <<>>
        /\ en = Input(Eno(d.nodes[i].source), FALSE)
     \/ \E n \in DOMAIN d2.nodes \ DOMAIN d.nodes : en = Input(Out(n), FALSE)

LEMMA TakeENOVirtual ==
  ASSUME NEW d, IsDiagram(d), NEW i \in DOMAIN d.nodes, d.nodes[i].source # 0,
         Is(d, d.nodes[i].source, {"MOVE"})
  PROVE  \E en : Virtual(d, TakeENO(d, i), i, en)
<1> DEFINE d2 == TakeENO(d, i)
           eno == Input(Eno(d.nodes[i].source), FALSE)
           n == Len(d.nodes) + 1
           en == Input(Out(n), FALSE)
           u == Node("U", <<eno>> \o d.nodes[i].ins, FALSE, 0)
<1>1. /\ d.nodes[i].ins = <<>> => Rewires(d, d2, i, eno) /\ Len(d2.nodes) = Len(d.nodes)
      /\ d.nodes[i].ins # <<>> => Rewires(d, d2, i, en) /\ Len(d2.nodes) = n /\ d2.nodes[n] = u
  BY TakeENOCases
<1>2. u.kind = "U" /\ u.source = 0
  BY DEF Node
<1> HIDE DEF u, d2
<1>3. ~eno.inverted /\ eno.pin = Eno(d.nodes[i].source) /\ eno = [pin |-> eno.pin, inverted |-> FALSE]
      /\ ~en.inverted /\ en.pin = Out(n) /\ en = [pin |-> en.pin, inverted |-> FALSE]
  BY DEF Input
<1> HIDE DEF eno, en
<1>4. Eno(d.nodes[i].source) \in GridPins(d)
  <2> DEFINE j == d.nodes[i].source
  <2>1. j \in DOMAIN d.nodes /\ Is(d, j, {"MOVE"})
    BY DEF Is
  <2> HIDE DEF j
  <2>2. Eno(j) \in PinsOf(d, j)
    BY <2>1, PinsOfKinds
  <2>3. Eno(j) \in GridPins(d)
    BY <2>1, <2>2 DEF GridPins
  <2> QED BY <2>3 DEF j
<1>5. CASE d.nodes[i].ins = <<>>
  <2>1. Rewires(d, d2, i, eno) /\ Kept(d, d2) /\ DOMAIN d2.nodes = DOMAIN d.nodes
    <3>1. Rewires(d, d2, i, eno) /\ Len(d2.nodes) = Len(d.nodes)
      BY <1>1, <1>5
    <3>2. Kept(d, d2) /\ DOMAIN d2.nodes = DOMAIN d.nodes
      BY <3>1, RewiresKept, Zenon
    <3> QED BY <3>1, <3>2
  <2>2. Eno(d.nodes[i].source) \in GridPins(d2)
    BY <1>4, <2>1, PinsKept
  <2>3. eno \in Wires(GridPins(d2))
    <3>1. eno.pin \in GridPins(d2)
      BY <1>3, <2>2
    <3>2. eno = [pin |-> eno.pin, inverted |-> FALSE]
      BY <1>3
    <3>3. \A P, p : p \in P => [pin |-> p, inverted |-> FALSE] \in Wires(P)
      BY DEF Wires
    <3> QED BY <3>1, <3>2, <3>3, Zenon
  <2>4. VirtualFits(d, d2, i, eno)
    BY <1>3, <2>1, <2>3 DEF VirtualFits
  <2>5. Virtual(d, d2, i, eno)
    BY <1>5, <2>1, <2>4, Zenon DEF Virtual, eno
  <2> QED BY <2>5 DEF d2
<1>6. CASE d.nodes[i].ins # <<>>
  <2>1. Rewires(d, d2, i, en) /\ Len(d2.nodes) = n /\ d2.nodes[n] = u
    BY <1>1, <1>6
  <2>2. Kept(d, d2) /\ DOMAIN d2.nodes \ DOMAIN d.nodes = {n}
    <3>1. Rewires(d, d2, i, en) /\ Len(d2.nodes) = Len(d.nodes) + 1
          /\ d2.nodes[Len(d.nodes) + 1].kind = "U" /\ d2.nodes[Len(d.nodes) + 1].source = 0
      BY <1>2, <2>1 DEF n
    <3>2. Kept(d, d2) /\ DOMAIN d2.nodes \ DOMAIN d.nodes = {Len(d.nodes) + 1}
      BY <3>1, RewiresKept, Zenon
    <3> QED BY <3>2 DEF n
  <2> HIDE DEF n
  <2>3. n \in DOMAIN d2.nodes /\ n \notin DOMAIN d.nodes
    BY <2>2
  <2>4. Out(n) \in GridPins(d2)
    <3>1. Is(d2, n, Booleans)
      BY <1>2, <2>1, <2>3 DEF Is, Booleans
    <3>2. Out(n) \in PinsOf(d2, n)
      BY <3>1, <1>2, <2>1 DEF PinsOf, Is
    <3> QED BY <2>3, <3>2 DEF GridPins
  <2>5. en \in Wires(GridPins(d2))
    <3>1. en.pin \in GridPins(d2) /\ en = [pin |-> en.pin, inverted |-> FALSE]
      BY <1>3, <2>4
    <3>3. \A P, p : p \in P => [pin |-> p, inverted |-> FALSE] \in Wires(P)
      BY DEF Wires
    <3> QED BY <3>1, <3>3, Zenon
  <2>6. VirtualFits(d, d2, i, en)
    BY <1>3, <2>1, <2>2, <2>3, <2>5, Zenon DEF VirtualFits, u, eno
  <2>7. Virtual(d, d2, i, en)
    <3>1. n \in DOMAIN d2.nodes \ DOMAIN d.nodes /\ en = Input(Out(n), FALSE)
      BY <2>3 DEF en
    <3> QED BY <2>1, <2>2, <2>6, <3>1, Zenon DEF Virtual
  <2> QED BY <2>7 DEF d2
<1> QED BY <1>5, <1>6

VirtualShape(d, d2, i, en) ==
  /\ d2.nodes[i].ins = <<en>> /\ d2.nodes[i].inverted = d.nodes[i].inverted
  /\ \A n \in DOMAIN d2.nodes \ DOMAIN d.nodes :
       /\ d2.nodes[n].ins \in Seq(Wires(GridPins(d2))) /\ d2.nodes[n].ins # <<>>
       /\ ~d2.nodes[n].inverted
       /\ d2.nodes[n].ins[1] = Input(Eno(d.nodes[i].source), FALSE)
       /\ DOMAIN d2.nodes[n].ins = 1 .. Len(d.nodes[i].ins) + 1
       /\ \A k \in 1..Len(d.nodes[i].ins) : d2.nodes[n].ins[k + 1] = d.nodes[i].ins[k]

\* What is wired to a node in front of which there is a virtual element, or none.
LEMMA VirtualNodes ==
  ASSUME NEW d, NEW rank, NEW N, Fits(d, rank, N), NEW i \in DOMAIN d.nodes, d.nodes[i].source # 0,
         NEW d2, NEW en, Virtual(d, d2, i, en)
  PROVE  IsDiagram(d2) /\ VirtualShape(d, d2, i, en)
<1> DEFINE P == GridPins(d)
           P2 == GridPins(d2)
           eno == Input(Eno(d.nodes[i].source), FALSE)
           u == Node("U", <<eno>> \o d.nodes[i].ins, FALSE, 0)
<1>1. /\ d2 = Diagram(d2.nodes, d.stores)
      /\ Len(d2.nodes) \in Nat /\ DOMAIN d2.nodes = 1..Len(d2.nodes)
      /\ d2.nodes = [j \in 1..Len(d2.nodes) |-> d2.nodes[j]]
      /\ \A j \in DOMAIN d.nodes : j # i => d2.nodes[j] = d.nodes[j]
      /\ d2.nodes[i] = [d.nodes[i] EXCEPT !.ins = <<en>>]
  BY DEF Virtual, Rewires
<1>2. /\ IsDiagram(d) /\ NodeFits(d, rank, i) /\ Kept(d, d2) /\ VirtualFits(d, d2, i, en)
  BY DEF Virtual, Fits
<1>3. P \subseteq P2 /\ Wires(P) \subseteq Wires(P2) /\ Elems(P) \subseteq Elems(P2)
  BY <1>2, PinsKept, ElemsGrow
<1>4. \A j \in DOMAIN d.nodes : d.nodes[j] \in Elems(P)
  BY <1>2, PinsOfKinds
<1>5. eno \in Wires(P2)
  <2> DEFINE j == d.nodes[i].source
  <2>1. j \in DOMAIN d.nodes /\ Is(d, j, {"MOVE"})
    BY <1>2 DEF NodeFits, Is
  <2> HIDE DEF j
  <2>2. Eno(j) \in PinsOf(d, j)
    BY <1>2, <2>1, PinsOfKinds
  <2>3. Eno(j) \in P2
    BY <1>3, <2>1, <2>2 DEF GridPins
  <2>4. \A Q, p : p \in Q => Input(p, FALSE) \in Wires(Q)
    BY DEF Wires, Input
  <2> HIDE DEF P2
  <2> QED BY <2>3, <2>4, Zenon DEF j
<1> HIDE DEF P, P2, eno
<1>6. en \in Wires(P2)
  BY <1>2 DEF VirtualFits, P2
<1>7. d2.nodes[i] \in Elems(P2) /\ d2.nodes[i].ins = <<en>> /\ d2.nodes[i].inverted = d.nodes[i].inverted
  <2>1. d.nodes[i] \in Elems(P2)
    BY <1>3, <1>4
  <2>2. <<en>> \in Seq(Wires(P2))
    BY <1>6
  <2> HIDE DEF Wires
  <2> QED BY <1>1, <2>1, <2>2 DEF Elems
<1>8. ASSUME NEW n \in DOMAIN d2.nodes \ DOMAIN d.nodes
      PROVE  /\ d2.nodes[n] \in Elems(P2)
             /\ d2.nodes[n].ins \in Seq(Wires(P2)) /\ d2.nodes[n].ins # <<>> /\ ~d2.nodes[n].inverted
             /\ d2.nodes[n].ins[1] = eno
             /\ DOMAIN d2.nodes[n].ins = 1 .. Len(d.nodes[i].ins) + 1
             /\ \A k \in 1..Len(d.nodes[i].ins) : d2.nodes[n].ins[k + 1] = d.nodes[i].ins[k]
  <2>1. d2.nodes[n] = u
    BY <1>2 DEF VirtualFits, eno
  <2> DEFINE l == d.nodes[i].ins
             s == <<eno>> \o l
  <2>2. l \in Seq(Wires(P2))
    <3>1. d.nodes[i] \in Elems(P2)
      BY <1>3, <1>4
    <3> HIDE DEF Wires
    <3> QED BY <3>1 DEF Elems
  <2> HIDE DEF l
  <2>3. <<eno>> \in Seq(Wires(P2)) /\ Len(<<eno>>) = 1 /\ <<eno>>[1] = eno
    BY <1>5
  <2>4. /\ s \in Seq(Wires(P2)) /\ Len(s) = 1 + Len(l) /\ Len(l) \in Nat
        /\ \A k \in 1 .. 1 + Len(l) : s[k] = IF k <= 1 THEN <<eno>>[k] ELSE l[k - 1]
    BY <2>2, <2>3, ConcatProperties, LenProperties
  <2> HIDE DEF s
  <2>5. s[1] = eno /\ \A k \in 1..Len(l) : s[k + 1] = l[k]
    BY <2>3, <2>4
  <2>6. DOMAIN s = 1 .. Len(l) + 1 /\ s # <<>>
    <3>1. DOMAIN s = 1..Len(s) /\ 1 + Len(l) = Len(l) + 1 /\ Len(l) + 1 # 0
      BY <2>4, LenProperties
    <3>2. s = <<>> => Len(s) = 0
      OBVIOUS
    <3> QED BY <2>4, <3>1, <3>2
  <2>7. u = [kind |-> "U", ins |-> s, inverted |-> FALSE, source |-> 0]
    BY DEF Node, s, l
  <2>8. u \in Elems(P2)
    <3> HIDE DEF Wires, u
    <3> QED BY <2>4, <2>7 DEF Elems, Booleans
  <2>9. d2.nodes[n].ins = s /\ d2.nodes[n].inverted = FALSE
    <3>1. u.ins = s /\ u.inverted = FALSE
      <4>1. \A x, y : x = [kind |-> "U", ins |-> y, inverted |-> FALSE, source |-> 0] =>
                      x.ins = y /\ x.inverted = FALSE
        OBVIOUS
      <4> HIDE DEF u
      <4> QED BY <2>7, <4>1, Zenon
    <3> QED BY <2>1, <3>1, Zenon
  <2> HIDE DEF u
  <2> QED BY <2>1, <2>4, <2>5, <2>6, <2>8, <2>9 DEF l
<1>9. \A j \in DOMAIN d2.nodes : d2.nodes[j] \in Elems(P2)
  BY <1>1, <1>3, <1>4, <1>7, <1>8
<1>10. d2.nodes \in Seq(Elems(P2))
  <2> DEFINE n == d2.nodes
             l == Len(n)
  <2>1. l \in Nat /\ n = [j \in 1..l |-> n[j]] /\ \A j \in 1..l : n[j] \in Elems(P2)
    BY <1>1, <1>9
  <2> HIDE DEF n, l
  <2>2. n \in [1..l -> Elems(P2)]
    BY <2>1
  <2>3. n \in Seq(Elems(P2))
    BY <2>1, <2>2
  <2> QED BY <2>3 DEF n
<1>11. IsDiagram(d2)
  <2>1. d2.stores = d.stores
    BY <1>2 DEF Kept
  <2>2. DOMAIN d.stores \subseteq Stores /\ IsFiniteSet(DOMAIN d.stores) /\ d.stores \in [DOMAIN d.stores -> P]
    BY <1>2 DEF IsDiagram, P
  <2>3. d.stores \in [DOMAIN d.stores -> P2]
    BY <1>3, <2>2
  <2> QED BY <1>1, <1>10, <2>1, <2>2, <2>3 DEF IsDiagram, P2
<1> QED BY <1>7, <1>8, <1>11 DEF P2, eno, VirtualShape

LEMMA VirtualRank ==
  ASSUME NEW d, NEW rank, NEW N, Fits(d, rank, N), NEW i \in DOMAIN d.nodes, d.nodes[i].source # 0,
         NEW d2, NEW en, Virtual(d, d2, i, en)
  PROVE  Fits(d2, Ranked(d, d2, rank, i), 2 * N + 1)
<1> DEFINE r == Ranked(d, d2, rank, i)
           P == GridPins(d)
           j == d.nodes[i].source
<1>1. /\ IsDiagram(d) /\ N \in Nat /\ rank \in [DOMAIN d.nodes -> 0..N] /\ NodeFits(d, rank, i)
      /\ \A m \in DOMAIN d.nodes : NodeFits(d, rank, m)
      /\ Kept(d, d2) /\ VirtualFits(d, d2, i, en)
      /\ d2.stores = d.stores
      /\ \A m \in DOMAIN d.nodes : m # i => d2.nodes[m] = d.nodes[m]
  BY DEF Fits, Virtual, Rewires, Diagram
<1>2. /\ IsDiagram(d2)
      /\ d2.nodes[i].ins = <<en>> /\ d2.nodes[i].inverted = d.nodes[i].inverted
      /\ \A n \in DOMAIN d2.nodes \ DOMAIN d.nodes :
           /\ d2.nodes[n].ins # <<>>
           /\ d2.nodes[n].ins[1] = Input(Eno(d.nodes[i].source), FALSE)
           /\ DOMAIN d2.nodes[n].ins = 1 .. Len(d.nodes[i].ins) + 1
           /\ \A k \in 1..Len(d.nodes[i].ins) : d2.nodes[n].ins[k + 1] = d.nodes[i].ins[k]
  <2>1. IsDiagram(d2) /\ VirtualShape(d, d2, i, en)
    BY VirtualNodes
  <2> QED BY <2>1 DEF VirtualShape
<1>3. /\ r \in [DOMAIN d2.nodes -> 0 .. 2 * N + 1]
      /\ \A m \in DOMAIN d.nodes, pin \in P : Before(rank, pin, m) => Before(r, pin, m)
      /\ \A pin \in P, n \in DOMAIN d2.nodes \ DOMAIN d.nodes :
           /\ Before(rank, pin, i) => Before(r, pin, n)
           /\ Before(r, Out(n), i)
      /\ \A m, k \in DOMAIN d.nodes : rank[m] < rank[k] => r[m] < r[k]
  BY <1>1, RankedBefore
<1> HIDE DEF r
<1>4. j \in DOMAIN d.nodes /\ Is(d, j, {"MOVE"}) /\ rank[j] < rank[i] /\ j # 0
  BY <1>1 DEF NodeFits, Is
<1>5. Eno(j) \in P /\ Before(rank, Eno(j), i)
  <2>0. j \in DOMAIN d.nodes /\ Is(d, j, {"MOVE"}) /\ rank[j] < rank[i]
    BY <1>4
  <2> HIDE DEF j
  <2>1. Eno(j) \in PinsOf(d, j)
    BY <1>1, <2>0, PinsOfKinds
  <2>2. Eno(j) \in P
    BY <2>0, <2>1 DEF GridPins
  <2>3. Eno(j)[1] = j
    BY DEF Eno
  <2> QED BY <2>0, <2>2, <2>3 DEF Before
<1> HIDE DEF j, P
<1>6. ASSUME NEW m \in DOMAIN d.nodes
      PROVE  /\ m \in DOMAIN d2.nodes /\ d2.nodes[m].source = d.nodes[m].source
             /\ \A kinds : Is(d2, m, kinds) <=> Is(d, m, kinds)
  <2>1. m \in DOMAIN d2.nodes /\ d2.nodes[m].source = d.nodes[m].source /\ d2.nodes[m].kind = d.nodes[m].kind
    BY <1>1 DEF Kept
  <2> QED BY <2>1 DEF Is
<1>7. \A m \in DOMAIN d.nodes : \A k \in DOMAIN d.nodes[m].ins :
        d.nodes[m].ins[k].pin \in P /\ Before(r, d.nodes[m].ins[k].pin, m)
  <2>1. \A m \in DOMAIN d.nodes : \A k \in DOMAIN d.nodes[m].ins : d.nodes[m].ins[k].pin \in P
    BY <1>1, WiredPins DEF P
  <2> QED BY <1>1, <1>3, <2>1 DEF NodeFits
<1>8. ASSUME NEW m \in DOMAIN d.nodes, m # i PROVE NodeFits(d2, r, m)
  <2>1. d2.nodes[m] = d.nodes[m]
    BY <1>1, <1>8
  <2>2. d.nodes[m].source # 0 => Is(d2, d.nodes[m].source, {"MOVE"}) /\ r[d.nodes[m].source] < r[m]
    BY <1>1, <1>3, <1>6 DEF NodeFits, Is
  <2>3. NodeFits(d, rank, m)
    BY <1>1
  <2> QED BY <1>6, <1>7, <2>1, <2>2, <2>3 DEF NodeFits
<1>9. NodeFits(d2, r, i)
  <2>1. Is(d, i, {"MOVE"}) /\ ~Is(d, i, Booleans) /\ ~Is(d, i, {"CMP"})
    BY <1>1, PinsOfKinds DEF NodeFits
  <2>2. Before(r, en.pin, i)
    <3>1. CASE DOMAIN d2.nodes = DOMAIN d.nodes /\ en = Input(Eno(d.nodes[i].source), FALSE)
      <4>1. en.pin = Eno(j)
        BY <3>1 DEF Input, j
      <4> QED BY <1>3, <1>5, <4>1
    <3>2. CASE \E n \in DOMAIN d2.nodes \ DOMAIN d.nodes : en = Input(Out(n), FALSE)
      <4>1. PICK n \in DOMAIN d2.nodes \ DOMAIN d.nodes : en = Input(Out(n), FALSE)
        BY <3>2
      <4>2. en.pin = Out(n)
        BY <4>1 DEF Input
      <4> QED BY <1>3, <1>5, <4>2
    <3> QED BY <3>1, <3>2 DEF Virtual
  <2>3. ~en.inverted
    BY <1>1 DEF VirtualFits
  <2>4. Len(d2.nodes[i].ins) = 1 /\ DOMAIN d2.nodes[i].ins = {1} /\ d2.nodes[i].ins[1] = en
    BY <1>2
  <2>5. ~Is(d2, i, Booleans) /\ ~Is(d2, i, {"CMP"}) /\ Is(d2, j, {"MOVE"}) /\ r[j] < r[i]
        /\ d2.nodes[i].source = j
    BY <1>3, <1>4, <1>6, <2>1 DEF j
  <2>6. Len(d2.nodes[i].ins) <= 1
    BY <2>4
  <2> QED BY <2>2, <2>3, <2>4, <2>5, <2>6 DEF NodeFits
<1>10. ASSUME NEW n \in DOMAIN d2.nodes \ DOMAIN d.nodes PROVE NodeFits(d2, r, n)
  <2>1. d2.nodes[n].kind = "U" /\ d2.nodes[n].source = 0
    BY <1>1 DEF Kept
  <2>2. ~Is(d2, n, Boxes) /\ ~Is(d2, n, {"CMP"})
    BY <2>1 DEF Is, Boxes
  <2>3. ASSUME NEW k \in DOMAIN d2.nodes[n].ins PROVE Before(r, d2.nodes[n].ins[k].pin, n)
    <3>1. k \in 1 .. Len(d.nodes[i].ins) + 1 /\ Len(d.nodes[i].ins) \in Nat
          /\ DOMAIN d.nodes[i].ins = 1..Len(d.nodes[i].ins)
      BY <1>1, <1>2, GateFacts
    <3>2. CASE k = 1
      <4>1. d2.nodes[n].ins[k].pin = Eno(j)
        BY <1>2, <3>2 DEF Input, j
      <4> QED BY <1>3, <1>5, <4>1
    <3>3. CASE k # 1
      <4>1. k - 1 \in 1..Len(d.nodes[i].ins) /\ (k - 1) + 1 = k
        BY <3>1, <3>3
      <4> DEFINE l == k - 1
      <4>2. l \in 1..Len(d.nodes[i].ins) /\ k = l + 1
        BY <4>1
      <4> HIDE DEF l
      <4>3. d2.nodes[n].ins[k] = d.nodes[i].ins[l] /\ l \in DOMAIN d.nodes[i].ins
        BY <1>2, <3>1, <4>2
      <4>4. Before(rank, d.nodes[i].ins[l].pin, i) /\ d.nodes[i].ins[l].pin \in P
        BY <1>1, <1>7, <4>3 DEF NodeFits
      <4> QED BY <1>3, <4>3, <4>4
    <3> QED BY <3>2, <3>3
  <2> QED BY <1>2, <2>1, <2>2, <2>3 DEF NodeFits
<1>11. 2 * N + 1 \in Nat
  BY <1>1
<1> QED BY <1>2, <1>3, <1>8, <1>9, <1>10, <1>11 DEF Fits, r

\* The ENO of the node that the data of node i come from is wired to its EN,
\* directly or through an AND.
TakesENO(d, i) ==
  LET pin == d.nodes[i].ins[1].pin
      eno == Input(Eno(d.nodes[i].source), FALSE)
  IN d.nodes[i].source # 0 =>
       /\ d.nodes[i].ins # <<>>
       /\ \/ pin = Eno(d.nodes[i].source)
          \/ /\ pin = Out(pin[1]) /\ Is(d, pin[1], {"U"}) /\ ~d.nodes[pin[1]].inverted
             /\ \E k \in DOMAIN d.nodes[pin[1]].ins : d.nodes[pin[1]].ins[k] = eno

\* Something takes the result of every comparison.
ComparesRead(d) ==
  \A i \in Compares(d) : Readers(d, Out(i)) # {} \/ StoredTo(d, Out(i)) # {}

LEMMA VirtualTakes ==
  ASSUME NEW d, NEW rank, NEW N, Fits(d, rank, N), NEW i \in DOMAIN d.nodes, d.nodes[i].source # 0,
         NEW d2, NEW en, Virtual(d, d2, i, en)
  PROVE  /\ \A j \in DOMAIN d2.nodes \ DOMAIN d.nodes : TakesENO(d2, j)
         /\ TakesENO(d2, i)
         /\ \A j \in DOMAIN d.nodes : TakesENO(d, j) => TakesENO(d2, j)
<1>1. /\ Kept(d, d2)
      /\ \A j \in DOMAIN d.nodes : j # i => d2.nodes[j] = d.nodes[j]
      /\ DOMAIN d.nodes \subseteq DOMAIN d2.nodes /\ i \in DOMAIN d2.nodes
      /\ IsDiagram(d) /\ NodeFits(d, rank, i)
  BY DEF Virtual, Rewires, Kept, Fits
<1>2. /\ d2.nodes[i].ins = <<en>>
      /\ \A n \in DOMAIN d2.nodes \ DOMAIN d.nodes :
           /\ d2.nodes[n].ins # <<>> /\ ~d2.nodes[n].inverted
           /\ d2.nodes[n].ins[1] = Input(Eno(d.nodes[i].source), FALSE)
           /\ 1 \in DOMAIN d2.nodes[n].ins
  <2>1. VirtualShape(d, d2, i, en)
    BY VirtualNodes
  <2>2. 1 \in 1 .. Len(d.nodes[i].ins) + 1
    BY <1>1, GateFacts
  <2> QED BY <2>1, <2>2 DEF VirtualShape
<1>3. ASSUME NEW j \in DOMAIN d2.nodes \ DOMAIN d.nodes PROVE TakesENO(d2, j)
  BY <1>1 DEF Kept, TakesENO
<1>4. d2.nodes[i].source = d.nodes[i].source /\ d2.nodes[i].ins # <<>> /\ d2.nodes[i].ins[1] = en
  BY <1>1, <1>2 DEF Kept
<1>5. TakesENO(d2, i)
  <2>1. CASE en = Input(Eno(d.nodes[i].source), FALSE)
    <3>1. en.pin = Eno(d.nodes[i].source)
      BY <2>1 DEF Input
    <3> QED BY <1>4, <3>1 DEF TakesENO
  <2>2. CASE \E n \in DOMAIN d2.nodes \ DOMAIN d.nodes : en = Input(Out(n), FALSE)
    <3>1. PICK n \in DOMAIN d2.nodes \ DOMAIN d.nodes : en = Input(Out(n), FALSE)
      BY <2>2
    <3>2. en.pin = Out(n) /\ Out(n)[1] = n
      BY <3>1 DEF Input, Out
    <3>3. Is(d2, n, {"U"})
      BY <1>1, <3>1 DEF Kept, Is
    <3>4. /\ 1 \in DOMAIN d2.nodes[n].ins /\ ~d2.nodes[n].inverted
          /\ d2.nodes[n].ins[1] = Input(Eno(d2.nodes[i].source), FALSE)
      BY <1>2, <1>4, <3>1
    <3>5. d2.nodes[i].ins[1].pin = Out(n)
      BY <1>4, <3>2
    <3> HIDE DEF Kept
    <3> QED BY <1>4, <3>2, <3>3, <3>4, <3>5, Zenon DEF TakesENO
  <2>3. en = Input(Eno(d.nodes[i].source), FALSE)
          \/ \E n \in DOMAIN d2.nodes \ DOMAIN d.nodes : en = Input(Out(n), FALSE)
    BY DEF Virtual
  <2> QED BY <2>1, <2>2, <2>3
<1>6. ASSUME NEW j \in DOMAIN d.nodes, TakesENO(d, j) PROVE TakesENO(d2, j)
  <2>1. CASE j = i
    BY <1>5, <2>1
  <2>2. CASE j # i
    <3> DEFINE m == d.nodes[j].ins[1].pin[1]
    <3>1. d2.nodes[j] = d.nodes[j]
      BY <1>1, <2>2
    <3>2. Is(d, m, {"U"}) => m # i /\ m \in DOMAIN d.nodes
      <4>1. Is(d, i, {"MOVE"})
        BY <1>1, PinsOfKinds DEF NodeFits
      <4> QED BY <4>1 DEF Is
    <3>3. Is(d, m, {"U"}) => Is(d2, m, {"U"}) /\ d2.nodes[m] = d.nodes[m]
      BY <1>1, <3>2 DEF Is
    <3> QED BY <1>6, <3>1, <3>3 DEF TakesENO
  <2> QED BY <2>1, <2>2
<1> QED BY <1>3, <1>5, <1>6

LEMMA VirtualReads ==
  ASSUME NEW d, NEW rank, NEW N, Fits(d, rank, N), NEW i \in DOMAIN d.nodes, d.nodes[i].source # 0,
         NEW d2, NEW en, Virtual(d, d2, i, en), ComparesRead(d)
  PROVE  ComparesRead(d2)
<1>1. /\ Kept(d, d2) /\ d2.stores = d.stores /\ IsDiagram(d)
      /\ \A j \in DOMAIN d.nodes : j # i => d2.nodes[j] = d.nodes[j]
      /\ DOMAIN d.nodes \subseteq DOMAIN d2.nodes
      /\ \/ DOMAIN d2.nodes = DOMAIN d.nodes /\ d.nodes[i].ins = <<>>
         \/ \E n \in DOMAIN d2.nodes : n \notin DOMAIN d.nodes
  BY DEF Virtual, Rewires, Kept, Fits
<1>2. VirtualShape(d, d2, i, en)
  BY VirtualNodes
<1> SUFFICES ASSUME NEW c \in Compares(d2) PROVE Readers(d2, Out(c)) # {} \/ StoredTo(d2, Out(c)) # {}
  BY DEF ComparesRead
<1>3. c \in Compares(d)
  <2>1. c \in DOMAIN d2.nodes /\ d2.nodes[c].kind = "CMP"
    BY DEF Compares, Is
  <2>2. c \in DOMAIN d.nodes /\ d.nodes[c].kind = "CMP"
    BY <1>1, <2>1 DEF Kept
  <2> QED BY <2>2 DEF Compares, Is
<1> DEFINE pin == Out(c)
<1>4. Readers(d, pin) # {} \/ StoredTo(d, pin) # {}
  BY <1>3 DEF ComparesRead
<1> HIDE DEF pin
<1>5. StoredTo(d2, pin) = StoredTo(d, pin)
  BY <1>1 DEF StoredTo
<1>6. ASSUME Readers(d, pin) # {} PROVE Readers(d2, pin) # {}
  <2>1. PICK x : x \in Readers(d, pin)
    BY <1>6
  <2>2. PICK j, k : /\ j \in DOMAIN d.nodes /\ k \in DOMAIN d.nodes[j].ins
                       /\ d.nodes[j].ins[k].pin = pin
    BY <2>1 DEF Readers
  <2>3. \A m \in DOMAIN d2.nodes : \A l \in DOMAIN d2.nodes[m].ins :
          d2.nodes[m].ins[l].pin = pin => <<m, l>> \in Readers(d2, pin)
    BY DEF Readers
  <2>4. CASE j # i
    BY <1>1, <2>2, <2>3, <2>4
  <2>5. CASE j = i
    <3>1. k \in 1..Len(d.nodes[i].ins) /\ k \in Nat /\ Len(d.nodes[i].ins) \in Nat
      BY <1>1, <2>2, <2>5, GateFacts
    <3>2. d.nodes[i].ins # <<>>
      BY <2>2, <2>5
    <3>3. PICK n \in DOMAIN d2.nodes : n \notin DOMAIN d.nodes
      BY <1>1, <3>2
    <3>4. k + 1 \in DOMAIN d2.nodes[n].ins /\ d2.nodes[n].ins[k + 1] = d.nodes[i].ins[k]
      <4> DEFINE m == Len(d.nodes[i].ins)
      <4>1. n \in DOMAIN d2.nodes \ DOMAIN d.nodes
        BY <3>3
      <4>2. DOMAIN d2.nodes[n].ins = 1 .. m + 1 /\ \A l \in 1..m : d2.nodes[n].ins[l + 1] = d.nodes[i].ins[l]
        BY <1>2, <4>1 DEF VirtualShape
      <4>3. k \in 1..m /\ m \in Nat
        BY <3>1
      <4> HIDE DEF m
      <4>4. k + 1 \in 1 .. m + 1
        BY <4>3
      <4> QED BY <4>2, <4>3, <4>4
    <3>5. d2.nodes[n].ins[k + 1].pin = pin
      BY <2>2, <2>5, <3>4
    <3>6. <<n, k + 1>> \in Readers(d2, pin)
      BY <2>3, <3>3, <3>4, <3>5
    <3> QED BY <3>6
  <2> QED BY <2>4, <2>5
<1> QED BY <1>4, <1>5, <1>6 DEF pin

\* The virtual elements of the first k nodes have been added to diagram d0.
Preprocessed(d0, d, k) ==
  /\ \E rank, N : Fits(d, rank, N)
  /\ DOMAIN d0.nodes \subseteq DOMAIN d.nodes
  /\ \A j \in DOMAIN d.nodes : j <= k \/ j \notin DOMAIN d0.nodes => TakesENO(d, j)
  /\ ComparesRead(d0) => ComparesRead(d)
  /\ d.stores = d0.stores

LEMMA PreprocessedStep ==
  ASSUME NEW d0, NEW d, NEW k \in Nat, Preprocessed(d0, d, k), k + 1 \in DOMAIN d0.nodes
  PROVE  Preprocessed(d0, TakeENO(d, k + 1), k + 1)
<1> DEFINE i == k + 1
           d2 == TakeENO(d, i)
<1>1. PICK rank, N : Fits(d, rank, N)
  BY DEF Preprocessed
<1>2. IsDiagram(d) /\ i \in DOMAIN d.nodes /\ NodeFits(d, rank, i)
  BY <1>1 DEF Fits, Preprocessed
<1>3. \A j \in DOMAIN d.nodes : j <= i => j <= k \/ j = i
  <2>1. \A j \in DOMAIN d.nodes : j \in Nat
    BY <1>2, PinsOfKinds
  <2> QED BY <2>1
<1> HIDE DEF i
<1>4. CASE d.nodes[i].source = 0
  <2>1. d2 = d
    BY <1>4 DEF TakeENO
  <2>2. TakesENO(d, i)
    BY <1>4 DEF TakesENO
  <2>3. Preprocessed(d0, d, i)
    BY <1>3, <2>2 DEF Preprocessed
  <2> QED BY <2>1, <2>3 DEF i
<1>5. CASE d.nodes[i].source # 0
  <2>1. Is(d, d.nodes[i].source, {"MOVE"})
    BY <1>2, <1>5 DEF NodeFits
  <2>2. PICK en : Virtual(d, d2, i, en)
    BY <1>2, <1>5, <2>1, TakeENOVirtual
  <2> HIDE DEF d2
  <2>3. Fits(d2, Ranked(d, d2, rank, i), 2 * N + 1)
    BY <1>1, <1>2, <1>5, <2>2, VirtualRank
  <2>4. /\ \A j \in DOMAIN d2.nodes \ DOMAIN d.nodes : TakesENO(d2, j)
        /\ TakesENO(d2, i)
        /\ \A j \in DOMAIN d.nodes : TakesENO(d, j) => TakesENO(d2, j)
    BY <1>1, <1>2, <1>5, <2>2, VirtualTakes
  <2>5. ComparesRead(d) => ComparesRead(d2)
    BY <1>1, <1>2, <1>5, <2>2, VirtualReads
  <2>6. d2.stores = d.stores /\ DOMAIN d.nodes \subseteq DOMAIN d2.nodes
    BY <2>2 DEF Virtual, Kept
  <2>7. \E rank2, N2 : Fits(d2, rank2, N2)
    BY <2>3
  <2>8. Preprocessed(d0, d2, i)
    BY <1>3, <2>4, <2>5, <2>6, <2>7 DEF Preprocessed
  <2> QED BY <2>8 DEF d2, i
<1> QED BY <1>4, <1>5

LEMMA PreprocessResult ==
  ASSUME NEW d, NEW rank0, NEW N0, Fits(d, rank0, N0)
  PROVE  /\ \E rank, N : Fits(Preprocess(d), rank, N)
         /\ \A i \in DOMAIN Preprocess(d).nodes : TakesENO(Preprocess(d), i)
         /\ ComparesRead(d) => ComparesRead(Preprocess(d))
<1> DEFINE n == Len(d.nodes)
           Steps(m, g) == g = [k \in 0..m |-> g[k]] /\ g[0] = d /\ \A k \in 1..m : g[k] = TakeENO(g[k - 1], k)
           S == {m \in Nat : \E g : Steps(m, g)}
<1>1. n \in Nat /\ DOMAIN d.nodes = 1..n /\ IsDiagram(d)
  BY LenProperties DEF Fits, IsDiagram
<1>2. 0 \in S
  <2>1. Steps(0, [k \in 0..0 |-> d])
    OBVIOUS
  <2> QED BY <2>1
<1>3. ASSUME NEW m \in Nat, m \in S PROVE m + 1 \in S
  <2>1. PICK g : Steps(m, g)
    BY <1>3
  <2> DEFINE h == [k \in 0..(m + 1) |-> IF k <= m THEN g[k] ELSE TakeENO(g[m], m + 1)]
  <2>2. h = [k \in 0..(m + 1) |-> h[k]] /\ h[0] = d
    BY <2>1
  <2>3. ASSUME NEW k \in 1..(m + 1) PROVE h[k] = TakeENO(h[k - 1], k)
    <3>1. k - 1 \in 0..m /\ h[k - 1] = g[k - 1]
      OBVIOUS
    <3>2. CASE k <= m
      <4>1. k \in 1..m /\ h[k] = g[k]
        BY <3>2
      <4>2. g[k] = TakeENO(g[k - 1], k)
        BY <2>1, <4>1
      <4> QED BY <3>1, <4>1, <4>2
    <3>3. CASE k = m + 1
      BY <3>1, <3>3
    <3> QED BY <3>2, <3>3
  <2>4. Steps(m + 1, h)
    BY <2>2, <2>3
  <2> HIDE DEF h, Steps
  <2> QED BY <2>4
<1> HIDE DEF S
<1>4. n \in S
  BY <1>1, <1>2, <1>3, SetInduction
<1>5. PICK g : Steps(n, g)
  BY <1>4 DEF S
<1> HIDE DEF n
<1>6. g = [k \in 0..n |-> IF k = 0 THEN d ELSE TakeENO(g[k - 1], k)]
  <2>1. ASSUME NEW k \in 0..n PROVE g[k] = IF k = 0 THEN d ELSE TakeENO(g[k - 1], k)
    <3>1. k # 0 => k \in 1..n
      BY <1>1
    <3> QED BY <1>5, <3>1
  <2> QED BY <1>5, <2>1
<1> DEFINE j == CHOOSE f : f = [k \in 0..n |-> IF k = 0 THEN d ELSE TakeENO(f[k - 1], k)]
<1>7. j = [k \in 0..n |-> IF k = 0 THEN d ELSE TakeENO(j[k - 1], k)]
  BY <1>6, Zenon
<1>8. Preprocess(d) = j[n]
  BY Zenon DEF Preprocess, n
<1> HIDE DEF j
<1>9. PICK f : f = j
  OBVIOUS
<1>10. f = [k \in 0..n |-> IF k = 0 THEN d ELSE TakeENO(f[k - 1], k)]
  BY <1>7, <1>9, Zenon
<1>11. f[0] = d /\ \A k \in 1..n : f[k] = TakeENO(f[k - 1], k)
  BY <1>1, <1>10
<1> DEFINE T == {k \in Nat : k <= n => Preprocessed(d, f[k], k)}
<1>12. 0 \in T
  <2>1. \A k \in DOMAIN d.nodes : ~(k <= 0)
    BY <1>1
  <2>2. Preprocessed(d, d, 0)
    BY <2>1 DEF Preprocessed
  <2> QED BY <1>11, <2>2
<1>13. ASSUME NEW k \in Nat, k \in T PROVE k + 1 \in T
  <2> SUFFICES ASSUME k + 1 <= n PROVE Preprocessed(d, f[k + 1], k + 1)
    OBVIOUS
  <2>1. k + 1 \in 1..n /\ (k + 1) - 1 = k /\ Preprocessed(d, f[k], k) /\ k + 1 \in DOMAIN d.nodes
    BY <1>1, <1>13
  <2>2. f[k + 1] = TakeENO(f[k], k + 1)
    BY <1>11, <2>1
  <2> DEFINE x == f[k]
  <2>3. Preprocessed(d, x, k)
    BY <2>1
  <2> HIDE DEF x
  <2>4. Preprocessed(d, TakeENO(x, k + 1), k + 1)
    BY <2>1, <2>3, PreprocessedStep
  <2> QED BY <2>2, <2>4 DEF x
<1> HIDE DEF T
<1>14. Preprocessed(d, f[n], n)
  <2>1. n \in T
    BY <1>1, <1>12, <1>13, SetInduction
  <2> QED BY <1>1, <2>1 DEF T
<1> DEFINE p == Preprocess(d)
<1>15. Preprocessed(d, p, n)
  BY <1>8, <1>9, <1>14
<1> HIDE DEF p
<1>16. \A i \in DOMAIN p.nodes : TakesENO(p, i)
  <2>1. \A i \in DOMAIN p.nodes : i \in DOMAIN d.nodes => i <= n
    BY <1>1
  <2> QED BY <1>15, <2>1 DEF Preprocessed
<1>17. (\E rank, N : Fits(p, rank, N)) /\ (ComparesRead(d) => ComparesRead(p))
  BY <1>15 DEF Preprocessed
<1> QED BY <1>16, <1>17 DEF p

(***************************************************************************)
(* The state of a grid.                                                    *)
(***************************************************************************)

IsOrdered(d) == \E rank, N : Fits(d, rank, N)

LEMMA PinsGrow ==
  ASSUME NEW d, IsDiagram(d), NEW d2, NEW node, d2.nodes = Append(d.nodes, node)
  PROVE  /\ GridPins(d) \subseteq GridPins(d2)
         /\ DOMAIN d2.nodes = DOMAIN d.nodes \cup {Len(d.nodes) + 1}
         /\ Len(d.nodes) \in Nat /\ DOMAIN d.nodes = 1..Len(d.nodes)
         /\ \A i \in DOMAIN d.nodes : d2.nodes[i] = d.nodes[i]
         /\ d2.nodes[Len(d.nodes) + 1] = node
<1> DEFINE l == d.nodes
           E == Elems(GridPins(d)) \cup {node}
<1>1. l \in Seq(E)
  BY SeqMonotonic DEF IsDiagram
<1> HIDE DEF E
<1>2. /\ Len(l) \in Nat /\ DOMAIN l = 1..Len(l)
      /\ Len(Append(l, node)) = Len(l) + 1 /\ DOMAIN Append(l, node) = 1..Len(Append(l, node))
      /\ \A i \in 1..Len(l) : Append(l, node)[i] = l[i]
      /\ Append(l, node)[Len(l) + 1] = node
  <2>1. node \in E
    BY DEF E
  <2>2. Append(l, node) \in Seq(E)
    BY <1>1, <2>1, AppendProperties
  <2> HIDE DEF l
  <2> QED BY <1>1, <2>1, <2>2, AppendProperties, LenProperties
<1>3. \A n \in Nat : 1..(n + 1) = (1..n) \cup {n + 1}
  OBVIOUS
<1>4. DOMAIN d2.nodes = DOMAIN d.nodes \cup {Len(d.nodes) + 1}
  BY <1>2, <1>3
<1>5. \A i \in DOMAIN d.nodes : d2.nodes[i] = d.nodes[i]
  BY <1>2
<1>6. \A i \in DOMAIN d.nodes : PinsOf(d2, i) = PinsOf(d, i)
  <2>1. \A i \in DOMAIN d.nodes : i \in DOMAIN d2.nodes
    BY <1>4
  <2>2. \A i \in DOMAIN d.nodes : \A kinds : Is(d2, i, kinds) = Is(d, i, kinds)
    BY <1>5, <2>1 DEF Is
  <2> QED BY <2>2 DEF PinsOf
<1>7. GridPins(d) \subseteq GridPins(d2)
  <2>1. ASSUME NEW i \in DOMAIN d.nodes, NEW pin \in PinsOf(d, i)
        PROVE  pin \in UNION {PinsOf(d2, j) : j \in DOMAIN d2.nodes}
    BY <1>4, <1>6
  <2> QED BY <2>1 DEF GridPins
<1> QED BY <1>2, <1>4, <1>5, <1>7

LEMMA DrawFits ==
  ASSUME NEW d, IsOrdered(d), NEW node \in Elems(GridPins(d)),
         node.kind \in Booleans => node.ins # <<>> /\ node.source = 0,
         node.kind \in Boxes => Len(node.ins) <= 1 /\ \A k \in DOMAIN node.ins : ~node.ins[k].inverted,
         node.kind = "CMP" => node.source = 0,
         node.source # 0 => Is(d, node.source, {"MOVE"})
  PROVE  IsOrdered([d EXCEPT !.nodes = Append(@, node)])
<1>1. PICK rank, N : Fits(d, rank, N)
  BY DEF IsOrdered
<1>2. /\ IsDiagram(d) /\ N \in Nat /\ rank \in [DOMAIN d.nodes -> 0..N]
      /\ \A i \in DOMAIN d.nodes : NodeFits(d, rank, i)
  BY <1>1 DEF Fits
<1> DEFINE d2 == [d EXCEPT !.nodes = Append(@, node)]
           n == Len(d.nodes) + 1
           r == [i \in DOMAIN d2.nodes |-> IF i = n THEN N + 1 ELSE rank[i]]
           P == GridPins(d)
           P2 == GridPins(d2)
<1>3. d2 = Diagram(Append(d.nodes, node), d.stores) /\ d2.nodes = Append(d.nodes, node) /\ d2.stores = d.stores
  <2>1. d = [nodes |-> d.nodes, stores |-> d.stores]
    BY <1>2 DEF IsDiagram, Diagram
  <2>2. \A w : [d EXCEPT !.nodes = w] = [nodes |-> w, stores |-> d.stores]
    BY <2>1
  <2>3. d2 = [nodes |-> Append(d.nodes, node), stores |-> d.stores]
    BY <2>2
  <2> QED BY <2>3 DEF Diagram
<1> HIDE DEF d2
<1>4. /\ P \subseteq P2
      /\ DOMAIN d2.nodes = DOMAIN d.nodes \cup {n}
      /\ Len(d.nodes) \in Nat /\ DOMAIN d.nodes = 1..Len(d.nodes)
      /\ \A i \in DOMAIN d.nodes : d2.nodes[i] = d.nodes[i]
      /\ d2.nodes[n] = node
  BY <1>2, <1>3, PinsGrow
<1>5. n \notin DOMAIN d.nodes
  BY <1>4
<1>6. \A pin \in P : pin[1] # 0 => pin[1] \in DOMAIN d.nodes
  BY <1>2, KindsOfPins
<1>7. \A m \in DOMAIN d.nodes : \A k \in DOMAIN d.nodes[m].ins : d.nodes[m].ins[k].pin \in P
  BY <1>2, WiredPins
<1>8. \A k \in DOMAIN node.ins : node.ins[k].pin \in P
  <2>1. node.ins \in Seq(Wires(P))
    BY DEF Elems, P
  <2>2. ASSUME NEW k \in DOMAIN node.ins PROVE node.ins[k] \in Wires(P)
    BY <2>1, ElementOfSeq, LenProperties
  <2> QED BY <2>2 DEF Wires
<1>9. Elems(P) \subseteq Elems(P2)
  BY <1>4, ElemsGrow
<1> HIDE DEF n, P, P2
<1>10. IsDiagram(d2)
  <2>1. d.nodes \in Seq(Elems(P)) /\ node \in Elems(P)
    BY <1>2 DEF IsDiagram, P
  <2>2. d.nodes \in Seq(Elems(P2)) /\ node \in Elems(P2)
    BY <1>9, <2>1, SeqMonotonic
  <2>3. Append(d.nodes, node) \in Seq(Elems(P2))
    <3> HIDE DEF Elems
    <3> QED BY <2>2, AppendProperties
  <2>4. DOMAIN d.stores \subseteq Stores /\ IsFiniteSet(DOMAIN d.stores) /\ d.stores \in [DOMAIN d.stores -> P]
    BY <1>2 DEF IsDiagram, P
  <2>5. d.stores \in [DOMAIN d.stores -> P2]
    BY <1>4, <2>4
  <2> QED BY <1>3, <2>3, <2>4, <2>5 DEF IsDiagram, P2
<1>11. r \in [DOMAIN d2.nodes -> 0..N + 1] /\ N + 1 \in Nat
  <2>1. \A x \in 0..N : x \in 0..N + 1
    BY <1>2
  <2>2. N + 1 \in 0..N + 1 /\ N + 1 \in Nat
    BY <1>2
  <2> QED BY <1>2, <1>4, <2>1, <2>2
<1>12. \A i \in DOMAIN d.nodes : r[i] = rank[i] /\ r[i] < r[n] /\ i \in DOMAIN d2.nodes
  <2>1. \A x \in 0..N : x < N + 1
    BY <1>2
  <2> QED BY <1>2, <1>4, <1>5, <2>1
<1> HIDE DEF r
<1>13. \A i \in DOMAIN d.nodes : \A kinds : Is(d2, i, kinds) <=> Is(d, i, kinds)
  BY <1>4 DEF Is
<1>14. ASSUME NEW i \in DOMAIN d.nodes PROVE NodeFits(d2, r, i)
  <2>1. NodeFits(d, rank, i) /\ d2.nodes[i] = d.nodes[i]
    BY <1>2, <1>4
  <2>2. \A k \in DOMAIN d.nodes[i].ins : Before(r, d.nodes[i].ins[k].pin, i)
    BY <1>6, <1>7, <1>12, <2>1 DEF NodeFits, Before
  <2>3. d.nodes[i].source # 0 => Is(d2, d.nodes[i].source, {"MOVE"}) /\ r[d.nodes[i].source] < r[i]
    <3>1. d.nodes[i].source # 0 => Is(d, d.nodes[i].source, {"MOVE"}) /\ rank[d.nodes[i].source] < rank[i]
      BY <2>1 DEF NodeFits
    <3>2. Is(d, d.nodes[i].source, {"MOVE"}) => d.nodes[i].source \in DOMAIN d.nodes
      BY DEF Is
    <3> QED BY <1>12, <1>13, <3>1, <3>2
  <2> QED BY <1>13, <2>1, <2>2, <2>3 DEF NodeFits
<1>15. NodeFits(d2, r, n)
  <2>1. \A k \in DOMAIN node.ins : Before(r, node.ins[k].pin, n)
    BY <1>6, <1>8, <1>12 DEF Before
  <2>2. node.source # 0 => Is(d2, node.source, {"MOVE"}) /\ r[node.source] < r[n]
    BY <1>12, <1>13 DEF Is
  <2>3. \A kinds : Is(d2, n, kinds) <=> node.kind \in kinds
    BY <1>4 DEF Is
  <2>4. n # 0
    BY <1>4 DEF n
  <2> QED BY <1>4, <2>1, <2>2, <2>3, <2>4 DEF NodeFits
<1>16. Fits(d2, r, N + 1)
  BY <1>4, <1>10, <1>11, <1>14, <1>15 DEF Fits
<1> QED BY <1>16 DEF IsOrdered, d2

LEMMA AssignFits ==
  ASSUME NEW d, IsOrdered(d), NEW s \in Stores, NEW pin \in GridPins(d), s \notin DOMAIN d.stores
  PROVE  IsOrdered(Diagram(d.nodes, [t \in DOMAIN d.stores \cup {s} |-> IF t = s THEN pin ELSE d.stores[t]]))
<1>1. PICK rank, N : Fits(d, rank, N)
  BY DEF IsOrdered
<1> DEFINE st == [t \in DOMAIN d.stores \cup {s} |-> IF t = s THEN pin ELSE d.stores[t]]
           d2 == Diagram(d.nodes, st)
<1>2. d2 = Diagram(d.nodes, st) /\ d2.nodes = d.nodes /\ d2.stores = st
  BY DEF Diagram
<1>3. d.stores \in [DOMAIN d.stores -> GridPins(d)] /\ DOMAIN d.stores \subseteq Stores
      /\ IsFiniteSet(DOMAIN d.stores) /\ IsDiagram(d)
  BY <1>1 DEF Fits, IsDiagram
<1>4. DOMAIN st = DOMAIN d.stores \cup {s} /\ st \in [DOMAIN st -> GridPins(d)]
  BY <1>3
<1>5. IsFiniteSet(DOMAIN d.stores \cup {s})
  BY <1>3, FS_AddElement
<1> HIDE DEF d2, st
<1>6. \A i, kinds : Is(d2, i, kinds) = Is(d, i, kinds)
  BY <1>2 DEF Is
<1>7. GridPins(d2) = GridPins(d)
  BY <1>2, <1>6 DEF GridPins, PinsOf
<1>8. IsDiagram(d2)
  BY <1>2, <1>3, <1>4, <1>5, <1>7 DEF IsDiagram
<1>9. \A i \in DOMAIN d.nodes : NodeFits(d2, rank, i)
  BY <1>1, <1>2, <1>6 DEF Fits, NodeFits
<1>10. Fits(d2, rank, N)
  BY <1>1, <1>2, <1>8, <1>9 DEF Fits
<1> QED BY <1>10 DEF IsOrdered, d2, st

LEMMA NodeTyped ==
  ASSUME NEW d, IsOrdered(d), NEW c \in Result(d), NEW i \in DOMAIN d.nodes
  PROVE  CompileNode(d, c, i) \in Result(d)
<1>1. Instructions(d) \in NodeCode(d)
  BY InstructionsDefined, Zenon DEF IsOrdered
<1>2. Compiled(Instructions(d), c, i) \in Result(d)
  <2> DEFINE h == Instructions(d)
  <2>1. h \in NodeCode(d)
    BY <1>1
  <2> HIDE DEF h
  <2>2. Compiled(h, c, i) \in Result(d)
    BY <2>1, CompiledExtends DEF Extends
  <2> QED BY <2>2 DEF h
<1> QED BY <1>2 DEF CompileNode

\* The steps of CompileAssign.
AssignFirst(d, c, s) ==
  LET pin == d.stores[s]
  IN CASE pin[1] = 0 /\ pin \notin c.loaded -> CompileLoad(c, "U", pin)
       [] pin[1] # 0 /\ pin[1] \notin c.done -> CompileNode(d, c, pin[1])
       [] OTHER -> LoadFromTemp(c, "U", pin)
AssignKept(d, c, s) ==
  LET pin == d.stores[s]
      r == StoreAll(AssignFirst(d, c, s), {s})
  IN IF Is(d, pin[1], Booleans) /\ Fanout(d, pin) > 1 THEN StoreToTemp(r, pin) ELSE r
AssignLast(d, c, s) == StoreAll(AssignKept(d, c, s), StoredTo(d, d.stores[s]) \ {s})

LEMMA AssignCases ==
  ASSUME NEW d, NEW c, NEW s
  PROVE  /\ s \in c.stored => CompileAssign(d, c, s) = c
         /\ s \notin c.stored /\ s \in AssignFirst(d, c, s).stored => CompileAssign(d, c, s) = AssignFirst(d, c, s)
         /\ s \notin c.stored /\ s \notin AssignFirst(d, c, s).stored => CompileAssign(d, c, s) = AssignLast(d, c, s)
<1> DEFINE r == AssignFirst(d, c, s)
           l == AssignLast(d, c, s)
<1>1. CompileAssign(d, c, s) = CASE s \in c.stored -> c
                                 [] s \in r.stored \ c.stored -> r
                                 [] s \notin c.stored \cup r.stored -> l
  BY Zenon DEF CompileAssign, AssignFirst, AssignKept, AssignLast
<1> HIDE DEF r, l
<1>2. /\ s \in c.stored => CompileAssign(d, c, s) = c
      /\ s \notin c.stored /\ s \in r.stored => CompileAssign(d, c, s) = r
  BY <1>1
<1>3. ASSUME s \notin c.stored, s \notin r.stored PROVE CompileAssign(d, c, s) = l
  BY <1>1, <1>3
<1> QED BY <1>2, <1>3 DEF r, l

LEMMA AssignTyped ==
  ASSUME NEW d, IsOrdered(d), NEW c \in Result(d), NEW s \in DOMAIN d.stores
  PROVE  /\ AssignFirst(d, c, s) \in Result(d) /\ AssignKept(d, c, s) \in Result(d)
         /\ AssignLast(d, c, s) \in Result(d) /\ CompileAssign(d, c, s) \in Result(d)
<1> DEFINE pin == d.stores[s]
           r == AssignFirst(d, c, s)
           st == StoreAll(r, {s})
           k == AssignKept(d, c, s)
           T == StoredTo(d, pin) \ {s}
<1>1. IsDiagram(d)
  BY DEF IsOrdered, Fits
<1>2. pin \in Wired(d) /\ pin \in GridPins(d)
  BY <1>1, WiredPins
<1>3. r \in Result(d)
  <2>0. "U" \in Classes
    BY DEF Classes
  <2>1. pin[1] # 0 => pin[1] \in DOMAIN d.nodes
    BY <1>1, <1>2, KindsOfPins
  <2>2. CompileLoad(c, "U", pin) \in Result(d) /\ LoadFromTemp(c, "U", pin) \in Result(d)
    BY <1>1, <1>2, <2>0, LoadsTyped
  <2>3. pin[1] # 0 => CompileNode(d, c, pin[1]) \in Result(d)
    BY <2>1, NodeTyped
  <2>4. r = CASE pin[1] = 0 /\ pin \notin c.loaded -> CompileLoad(c, "U", pin)
              [] pin[1] # 0 /\ pin[1] \notin c.done -> CompileNode(d, c, pin[1])
              [] OTHER -> LoadFromTemp(c, "U", pin)
    BY Zenon DEF AssignFirst
  <2> QED BY <2>2, <2>3, <2>4
<1> HIDE DEF r
<1>4. st \in Result(d)
  <2>1. {s} \in SUBSET DOMAIN d.stores
    OBVIOUS
  <2> QED BY <1>1, <1>3, <2>1, StoreAllSaves DEF Saves, Adds
<1> HIDE DEF st
<1>5. k \in Result(d)
  <2>1. StoreToTemp(st, pin) \in Result(d)
    BY <1>1, <1>2, <1>4, StoreToTempAdds DEF Adds
  <2> QED BY <1>4, <2>1 DEF AssignKept, st, r
<1> HIDE DEF k
<1>6. StoreAll(k, T) \in Result(d)
  <2>1. T \in SUBSET DOMAIN d.stores
    BY DEF StoredTo
  <2> HIDE DEF T
  <2> QED BY <1>1, <1>5, <2>1, StoreAllSaves DEF Saves, Adds
<1>7. AssignLast(d, c, s) \in Result(d)
  BY <1>6 DEF AssignLast, k
<1>8. CompileAssign(d, c, s) \in {c, r, AssignLast(d, c, s)}
  BY AssignCases DEF r
<1> QED BY <1>3, <1>5, <1>7, <1>8 DEF r, k

LEMMA ConnectedReads ==
  ASSUME NEW d, Connected(d)
  PROVE  ComparesRead(d)
<1> SUFFICES ASSUME NEW i \in Compares(d), Readers(d, Out(i)) = {}, StoredTo(d, Out(i)) = {} PROVE FALSE
  BY DEF ComparesRead
<1>1. i \in DOMAIN d.nodes /\ d.nodes[i].kind = "CMP"
  BY DEF Compares, Is
<1>2. PinsOf(d, i) = {Out(i), Eno(i)}
  BY <1>1 DEF PinsOf, Is, Booleans
<1>3. Out(i) # Eno(i)
  BY DEF Out, Eno
<1>4. Fanout(d, Out(i)) > 0
  BY <1>1, <1>2, <1>3 DEF Connected
<1>5. Cardinality({}) = 0
  BY FS_EmptySet
<1> QED BY <1>4, <1>5 DEF Fanout

\* What holds of a grid, whatever is drawn: it is ordered, the compilation has
\* its type, and when it begins the virtual elements are there.
GridInv ==
  /\ phase \in {"draw", "compile", "compiled", "optimized"}
  /\ IsOrdered(diagram)
  /\ compiled \in Result(diagram)
  /\ phase = "draw" => compiled = Nothing
  /\ phase # "draw" => ComparesRead(diagram) /\ \A i \in DOMAIN diagram.nodes : TakesENO(diagram, i)

LEMMA NothingTyped ==
  ASSUME NEW d
  PROVE  Nothing \in Result(d)
<1>1. <<>> \in Seq(InsnsOf(d))
  OBVIOUS
<1> HIDE DEF InsnsOf
<1> QED BY <1>1 DEF Nothing, Result

LEMMA GridInvInit ==
  GridInit => GridInv
<1> SUFFICES ASSUME GridInit PROVE GridInv
  OBVIOUS
<1> DEFINE d == Diagram(<<>>, <<>>)
<1>1. d.nodes = <<>> /\ d.stores = <<>> /\ d = Diagram(d.nodes, d.stores)
  BY DEF Diagram
<1> HIDE DEF d
<1>2. <<>> \in Seq(Elems(GridPins(d))) /\ DOMAIN <<>> = {}
  OBVIOUS
<1>3. <<>> \in [{} -> GridPins(d)] /\ IsFiniteSet({})
  <2>1. <<>> \in [{} -> GridPins(d)]
    BY <1>2
  <2> QED BY <2>1, FS_EmptySet
<1>4. IsDiagram(d)
  BY <1>1, <1>2, <1>3 DEF IsDiagram
<1>5. <<>> \in [{} -> 0..0]
  BY <1>2
<1>6. Fits(d, <<>>, 0)
  BY <1>1, <1>2, <1>4, <1>5 DEF Fits
<1>7. IsOrdered(d)
  BY <1>6 DEF IsOrdered
<1> QED BY <1>7, NothingTyped DEF GridInit, GridInv, d

LEMMA DrawKeeps ==
  ASSUME GridInv, NEW node \in Elems(GridPins(diagram)), Draw(node),
         node.kind \in Booleans => node.ins # <<>> /\ node.source = 0,
         node.kind \in Boxes => Len(node.ins) <= 1 /\ \A k \in DOMAIN node.ins : ~node.ins[k].inverted,
         node.kind = "CMP" => node.source = 0,
         node.source # 0 => Is(diagram, node.source, {"MOVE"})
  PROVE  GridInv'
<1>1. IsOrdered([diagram EXCEPT !.nodes = Append(@, node)])
  BY DrawFits DEF GridInv
<1>2. IsOrdered(diagram')
  BY <1>1 DEF Draw
<1>3. compiled' = Nothing /\ phase' = "draw"
  BY DEF Draw, GridInv
<1>4. compiled' \in Result(diagram')
  BY <1>3, NothingTyped
<1> QED BY <1>2, <1>3, <1>4 DEF GridInv

LEMMA PinsAreGridPins ==
  Pins = GridPins(diagram)
BY DEF Pins, GridPins, Nodes

LEMMA DrawBooleanKeeps ==
  ASSUME GridInv, NEW shape \in Shapes, NEW n \in Widths, NEW pins \in [1..n -> Pins], DrawBoolean(shape, pins)
  PROVE  GridInv'
<1> DEFINE P == GridPins(diagram)
           ins == [k \in DOMAIN pins |-> Input(pins[k], k \in shape[2])]
           node == Node(shape[1], ins, shape[3], 0)
<1>1. shape[1] \in Booleans /\ shape[3] \in BOOLEAN /\ n \in Nat \ {0}
  BY FupAssumption
<1>2. pins \in [1..n -> P]
  BY PinsAreGridPins
<1> HIDE DEF P
<1>3. ins \in [1..n -> Wires(P)]
  BY <1>2 DEF Wires, Input
<1>4. ins \in Seq(Wires(P)) /\ ins # <<>>
  <2>1. 1 \in DOMAIN ins
    BY <1>1, <1>3
  <2>2. ins \in Seq(Wires(P))
    BY <1>1, <1>3
  <2> HIDE DEF ins
  <2> QED BY <2>1, <2>2
<1> HIDE DEF ins
<1>5. node \in Elems(P) /\ node.kind = shape[1] /\ node.ins = ins /\ node.source = 0
  <2> HIDE DEF Wires
  <2> QED BY <1>1, <1>4 DEF Node, Elems
<1>6. shape[1] \notin Boxes /\ shape[1] # "CMP"
  BY <1>1 DEF Booleans, Boxes
<1>7. Draw(node)
  BY DEF DrawBoolean, ins
<1> HIDE DEF node
<1> QED BY <1>4, <1>5, <1>6, <1>7, DrawKeeps DEF P

LEMMA DrawBoxKeeps ==
  ASSUME GridInv, NEW kind \in Boxes, NEW en \in Pins \cup {NoLabel}, NEW source \in Moves(diagram) \cup {0},
         kind = "CMP" => source = 0, DrawBox(kind, en, source)
  PROVE  GridInv'
<1> DEFINE P == GridPins(diagram)
           ins == IF en = NoLabel THEN <<>> ELSE <<Input(en, FALSE)>>
           node == Node(kind, ins, FALSE, source)
<1>1. en \in P \cup {NoLabel}
  BY PinsAreGridPins
<1> HIDE DEF P
<1>2. ins \in Seq(Wires(P)) /\ Len(ins) <= 1 /\ \A k \in DOMAIN ins : ~ins[k].inverted
  <2>1. CASE en = NoLabel
    <3>1. ins = <<>> /\ <<>> \in Seq(Wires(P)) /\ Len(<<>>) <= 1
      BY <2>1
    <3> HIDE DEF ins
    <3> QED BY <3>1
  <2>2. CASE en # NoLabel
    <3> DEFINE w == Input(en, FALSE)
    <3>1. w \in Wires(P) /\ ~w.inverted
      BY <1>1, <2>2 DEF Wires, Input
    <3> HIDE DEF w, Wires
    <3>2. <<w>> \in Seq(Wires(P)) /\ Len(<<w>>) <= 1 /\ DOMAIN <<w>> = {1} /\ <<w>>[1] = w
      BY <3>1
    <3>3. ins = <<w>>
      BY <2>2 DEF w
    <3> HIDE DEF ins
    <3> QED BY <3>1, <3>2, <3>3
  <2> QED BY <2>1, <2>2
<1> HIDE DEF ins
<1>3. IsDiagram(diagram)
  BY DEF GridInv, IsOrdered, Fits
<1>4. source \in Nat /\ (source # 0 => Is(diagram, source, {"MOVE"}))
  BY <1>3, PinsOfKinds DEF Moves
<1>5. node \in Elems(P) /\ node.kind = kind /\ node.ins = ins /\ node.source = source
  <2> HIDE DEF Wires
  <2> QED BY <1>2, <1>4 DEF Node, Elems
<1>6. kind \notin Booleans
  BY DEF Booleans, Boxes
<1>7. Draw(node)
  BY DEF DrawBox, ins
<1> HIDE DEF node
<1> QED BY <1>2, <1>4, <1>5, <1>6, <1>7, DrawKeeps DEF P

LEMMA AssignOperandKeeps ==
  ASSUME GridInv, NEW s \in Stores, NEW pin \in Pins, AssignOperand(s, pin)
  PROVE  GridInv'
<1>1. IsOrdered(Diagram(diagram.nodes,
                        [t \in DOMAIN diagram.stores \cup {s} |-> IF t = s THEN pin ELSE diagram.stores[t]]))
  <2>1. IsOrdered(diagram) /\ pin \in GridPins(diagram) /\ s \notin DOMAIN diagram.stores
    BY PinsAreGridPins DEF GridInv, AssignOperand
  <2> QED BY <2>1, AssignFits
<1>2. IsOrdered(diagram')
  BY <1>1 DEF AssignOperand
<1>3. compiled' = Nothing /\ phase' = "draw"
  BY DEF AssignOperand, GridInv
<1>4. compiled' \in Result(diagram')
  BY <1>3, NothingTyped
<1> QED BY <1>2, <1>3, <1>4 DEF GridInv

LEMMA StartKeeps ==
  ASSUME GridInv, Start
  PROVE  GridInv'
<1>1. PICK rank, N : Fits(diagram, rank, N)
  BY DEF GridInv, IsOrdered
<1> DEFINE p == Preprocess(diagram)
<1>2. ComparesRead(diagram)
  BY ConnectedReads DEF Start
<1>3. (\E rank2, N2 : Fits(p, rank2, N2)) /\ (\A i \in DOMAIN p.nodes : TakesENO(p, i)) /\ ComparesRead(p)
  BY <1>1, <1>2, PreprocessResult
<1> HIDE DEF p
<1>4. IsOrdered(p)
  BY <1>3 DEF IsOrdered
<1>5. diagram' = p /\ phase' = "compile" /\ compiled' = Nothing
  BY DEF Start, GridInv, p
<1> QED BY <1>3, <1>4, <1>5, NothingTyped DEF GridInv

THEOREM GridInvCorrect == GridSpec => []GridInv
<1>1. GridInit => GridInv
  BY GridInvInit
<1>2. GridInv /\ [GridNext]_gridVars => GridInv'
  <2> SUFFICES ASSUME GridInv, [GridNext]_gridVars PROVE GridInv'
    OBVIOUS
  <2>1. ASSUME NEW s \in Stores, CompileAssignment(s) PROVE GridInv'
    <3>1. CompileAssign(diagram, compiled, s) \in Result(diagram)
      BY <2>1, AssignTyped DEF GridInv, CompileAssignment
    <3> QED BY <2>1, <3>1 DEF GridInv, CompileAssignment
  <2>2. ASSUME NEW i \in Nodes, CompileTransfer(i) PROVE GridInv'
    <3>1. CompileNode(diagram, compiled, i) \in Result(diagram)
      BY <2>2, NodeTyped DEF GridInv, CompileTransfer, Nodes
    <3> QED BY <2>2, <3>1 DEF GridInv, CompileTransfer
  <2>3. ASSUME NEW last \in BOOLEAN, Finish(last) PROVE GridInv'
    BY <2>3 DEF GridInv, Finish
  <2>4. ASSUME NEW enabled \in SUBSET Passes, Optimize(enabled) PROVE GridInv'
    BY <2>4 DEF GridInv, Optimize
  <2>5. CASE UNCHANGED gridVars
    BY <2>5 DEF GridInv, gridVars
  <2> QED BY <2>1, <2>2, <2>3, <2>4, <2>5, DrawBooleanKeeps, DrawBoxKeeps, AssignOperandKeeps, StartKeeps
          DEF GridNext
<1> QED BY <1>1, <1>2, PTL DEF GridSpec

LEMMA GridInvType ==
  GridInv => GridTypeOK
<1> SUFFICES ASSUME GridInv PROVE GridTypeOK
  OBVIOUS
<1>1. PICK rank, N : Fits(diagram, rank, N)
  BY DEF GridInv, IsOrdered
<1>2. IsDiagram(diagram) /\ \A i \in Nodes : NodeFits(diagram, rank, i)
  BY <1>1 DEF Fits, Nodes
<1>3. \A i \in Nodes : \/ Is(diagram, i, Booleans) /\ diagram.nodes[i].ins # <<>>
                       \/ Is(diagram, i, Boxes) /\ Len(diagram.nodes[i].ins) <= 1
  BY <1>2, PinsOfKinds DEF NodeFits, Nodes
<1>4. DOMAIN diagram.stores \subseteq Stores
  BY <1>2 DEF IsDiagram
<1>5. compiled.done \subseteq Nodes /\ compiled.stored \subseteq DOMAIN diagram.stores
      /\ compiled.temps \subseteq Wired(diagram)
  BY DEF GridInv, Result, Nodes
<1>6. Wired(diagram) \subseteq Pins
  BY <1>2, WiredPins, PinsAreGridPins
<1> QED BY <1>3, <1>4, <1>5, <1>6 DEF GridTypeOK, GridInv

THEOREM GridTypeCorrect == GridSpec => []GridTypeOK
BY GridInvCorrect, GridInvType, PTL

(***************************************************************************)
(* What the compilation of an element brings about.                        *)
(***************************************************************************)

HasLabel(code0, label) == \E k \in DOMAIN code0 : code0[k].label = label

\* Instructions whose labels belong to the nodes D: a jump has its label there,
\* and it is the label of the jump itself or there is a transfer behind it.
Tidy(code0, D) ==
  /\ \A k \in DOMAIN code0 :
       code0[k].op # "BE" /\ (code0[k].label # NoLabel => code0[k].label[1] \in D)
  /\ \A j, k \in DOMAIN code0 :
       code0[j].label = code0[k].label => j = k \/ code0[j].label = NoLabel
  /\ \A k \in DOMAIN code0 : Jumps(code0[k]) =>
       /\ code0[k].arg # NoLabel /\ HasLabel(code0, code0[k].arg)
       /\ \/ code0[k].label = code0[k].arg
          \/ k + 1 \in DOMAIN code0 /\ code0[k + 1].op = "T"

PlainCode(code0) == \A k \in DOMAIN code0 : code0[k].label = NoLabel /\ code0[k].op \notin {"SPBNB", "BE"}

LEMMA PlainTidy ==
  ASSUME NEW code0, PlainCode(code0)
  PROVE  Tidy(code0, {})
BY DEF PlainCode, Tidy, Jumps

LEMMA ConcatFacts ==
  ASSUME NEW A, NEW a \in Seq(A), NEW b \in Seq(A)
  PROVE  /\ a \o b \in Seq(A) /\ Len(a) \in Nat /\ Len(b) \in Nat
         /\ DOMAIN a = 1..Len(a) /\ DOMAIN b = 1..Len(b) /\ DOMAIN (a \o b) = 1..Len(a) + Len(b)
         /\ \A k \in DOMAIN a : k \in DOMAIN (a \o b) /\ (a \o b)[k] = a[k]
         /\ \A k \in DOMAIN b : Len(a) + k \in DOMAIN (a \o b) /\ (a \o b)[Len(a) + k] = b[k]
         /\ \A k \in DOMAIN (a \o b) :
              k \in DOMAIN a \/ \E l \in DOMAIN b : k = Len(a) + l
<1> DEFINE ab == a \o b
           m == Len(a)
           n == Len(b)
<1>1. /\ ab \in Seq(A) /\ Len(ab) = m + n /\ m \in Nat /\ n \in Nat
      /\ DOMAIN a = 1..m /\ DOMAIN b = 1..n
      /\ \A k \in 1..m + n : ab[k] = IF k <= m THEN a[k] ELSE b[k - m]
  BY ConcatProperties, LenProperties
<1>2. DOMAIN ab = 1..m + n
  BY <1>1, LenProperties
<1> HIDE DEF ab, m, n
<1>3. \A k \in DOMAIN a : k \in DOMAIN ab /\ ab[k] = a[k]
  BY <1>1, <1>2
<1>4. \A k \in DOMAIN b : m + k \in DOMAIN ab /\ ab[m + k] = b[k]
  <2>1. \A k \in 1..n : m + k \in 1..m + n /\ ~(m + k <= m) /\ (m + k) - m = k
    BY <1>1
  <2> QED BY <1>1, <1>2, <2>1
<1>5. ASSUME NEW k \in DOMAIN ab, k \notin DOMAIN a PROVE \E l \in DOMAIN b : k = m + l
  <2>1. k - m \in 1..n /\ k = m + (k - m)
    BY <1>1, <1>2, <1>5
  <2> QED BY <1>1, <2>1
<1> QED BY <1>1, <1>2, <1>3, <1>4, <1>5 DEF ab, m, n

LEMMA TidyConcat ==
  ASSUME NEW A, NEW a \in Seq(A), NEW b \in Seq(A), NEW D, NEW D2, D \cap D2 = {}, Tidy(a, D), Tidy(b, D2)
  PROVE  Tidy(a \o b, D \cup D2)
<1> DEFINE ab == a \o b
           m == Len(a)
<1>1. /\ m \in Nat /\ DOMAIN a = 1..m
      /\ \A k \in DOMAIN a : k \in DOMAIN ab /\ ab[k] = a[k]
      /\ \A k \in DOMAIN b : m + k \in DOMAIN ab /\ ab[m + k] = b[k]
      /\ \A k \in DOMAIN ab : k \in DOMAIN a \/ \E l \in DOMAIN b : k = m + l
      /\ DOMAIN b = 1..Len(b) /\ Len(b) \in Nat
  BY ConcatFacts
<1> HIDE DEF ab, m
<1>2. \A k \in DOMAIN ab : ab[k].op # "BE" /\ (ab[k].label # NoLabel => ab[k].label[1] \in D \cup D2)
  BY <1>1 DEF Tidy
<1>3. ASSUME NEW j \in DOMAIN ab, NEW k \in DOMAIN ab, ab[j].label = ab[k].label, ab[j].label # NoLabel
      PROVE  j = k
  <2>1. CASE j \in DOMAIN a /\ k \in DOMAIN a
    BY <1>1, <1>3, <2>1 DEF Tidy
  <2>2. CASE (\E l \in DOMAIN b : j = m + l) /\ (\E l \in DOMAIN b : k = m + l)
    BY <1>1, <1>3, <2>2 DEF Tidy
  <2>3. CASE j \in DOMAIN a /\ (\E l \in DOMAIN b : k = m + l)
    <3>1. ab[j].label[1] \in D /\ ab[k].label[1] \in D2
      BY <1>1, <1>3, <2>3 DEF Tidy
    <3> QED BY <1>3, <3>1
  <2>4. CASE k \in DOMAIN a /\ (\E l \in DOMAIN b : j = m + l)
    <3>1. ab[k].label[1] \in D /\ ab[j].label[1] \in D2
      BY <1>1, <1>3, <2>4 DEF Tidy
    <3> QED BY <1>3, <3>1
  <2> QED BY <1>1, <2>1, <2>2, <2>3, <2>4
<1>4. ASSUME NEW k \in DOMAIN ab, Jumps(ab[k])
      PROVE  /\ ab[k].arg # NoLabel /\ HasLabel(ab, ab[k].arg)
             /\ ab[k].label = ab[k].arg \/ (k + 1 \in DOMAIN ab /\ ab[k + 1].op = "T")
  <2>1. CASE k \in DOMAIN a
    <3>1. ab[k] = a[k]
      BY <1>1, <2>1
    <3>2. /\ a[k].arg # NoLabel /\ HasLabel(a, a[k].arg)
          /\ a[k].label = a[k].arg \/ (k + 1 \in DOMAIN a /\ a[k + 1].op = "T")
      BY <1>4, <2>1, <3>1 DEF Tidy
    <3>3. HasLabel(ab, a[k].arg)
      BY <1>1, <3>2 DEF HasLabel
    <3> QED BY <1>1, <3>1, <3>2, <3>3
  <2>2. CASE \E l \in DOMAIN b : k = m + l
    <3>0. PICK l \in DOMAIN b : k = m + l
      BY <2>2
    <3>1. ab[k] = b[l]
      BY <1>1, <3>0
    <3>2. /\ b[l].arg # NoLabel /\ HasLabel(b, b[l].arg)
          /\ b[l].label = b[l].arg \/ (l + 1 \in DOMAIN b /\ b[l + 1].op = "T")
      BY <1>4, <3>1 DEF Tidy
    <3>3. HasLabel(ab, b[l].arg)
      BY <1>1, <3>2 DEF HasLabel
    <3>4. l + 1 \in DOMAIN b => k + 1 \in DOMAIN ab /\ ab[k + 1] = b[l + 1]
      <4>1. m + (l + 1) = k + 1
        BY <1>1, <3>0
      <4> QED BY <1>1, <4>1
    <3> QED BY <3>1, <3>2, <3>3, <3>4
  <2> QED BY <1>1, <2>1, <2>2
<1>5. Tidy(ab, D \cup D2)
  BY <1>2, <1>3, <1>4 DEF Tidy
<1> QED BY <1>5 DEF ab

LEMMA TidyWeaken ==
  ASSUME NEW code0, NEW D, NEW D2, D \subseteq D2, Tidy(code0, D)
  PROVE  Tidy(code0, D2)
BY DEF Tidy

\* Who wants the value of a node that has been compiled has it, or can have
\* it: K has the inputs that have been compiled.
Settled(d, c, K, j) ==
  /\ Is(d, j, Booleans) =>
       \/ Out(j) \in c.temps
       \/ /\ ~(Fanout(d, Out(j)) > 1)
          /\ K \cap Readers(d, Out(j)) # {} \/ StoredTo(d, Out(j)) \cap c.stored # {}
  /\ Is(d, j, Boxes) =>
       \A pin \in PinsOf(d, j) :
         (Readers(d, pin) # {} => pin \in c.temps) /\ StoredTo(d, pin) \subseteq c.stored

Ready(d, rank, c, K, i) ==
  /\ \A x \in K : x[1] \in c.done
  /\ \A j \in c.done : rank[j] < rank[i] => Settled(d, c, K, j)

\* r goes on from c while node i is being compiled: ins are the inputs of the node
\* that are compiled, E the nodes whose labels there are next to those of the
\* nodes that are compiled.
Walks(d, rank, i, c, K, r, K2, ins, E) ==
  /\ c \in Result(d) /\ r \in Result(d)
  /\ c.done \subseteq r.done /\ c.temps \subseteq r.temps /\ c.stored \subseteq r.stored
  /\ r.failed = c.failed
  /\ K \subseteq K2 /\ \A x \in K2 : x \in K \/ x \in ins \/ x[1] \in r.done \ c.done
  /\ \A j \in r.done \ c.done : rank[j] < rank[i] /\ Settled(d, r, K2, j)
  /\ \A pin \in r.loaded : pin \in c.loaded \/ Readers(d, pin) # {}
  /\ \A s \in r.stored :
       \/ s \in c.stored
       \/ Is(d, d.stores[s][1], Boxes) /\ d.stores[s][1] \in (r.done \ c.done) \cup {i}
  /\ \E new \in Seq(InsnsOf(d)) : r.code = c.code \o new /\ Tidy(new, (r.done \ c.done) \cup E)

LEMMA SettledGrows ==
  ASSUME NEW d, NEW c, NEW K, NEW r, NEW K2, NEW j, c.temps \subseteq r.temps, c.stored \subseteq r.stored,
         K \subseteq K2, Settled(d, c, K, j)
  PROVE  Settled(d, r, K2, j)
BY DEF Settled

LEMMA WalksThen ==
  ASSUME NEW d, NEW rank, NEW i, NEW c, NEW K, NEW r, NEW K2, NEW X1, NEW E1,
         NEW t, NEW K3, NEW X2, NEW E2, i \in c.done, E1 \cup E2 \subseteq {i}, E1 \cap E2 = {},
         Walks(d, rank, i, c, K, r, K2, X1, E1), Walks(d, rank, i, r, K2, t, K3, X2, E2)
  PROVE  Walks(d, rank, i, c, K, t, K3, X1 \cup X2, E1 \cup E2)
<1>1. /\ c \in Result(d) /\ r \in Result(d) /\ t \in Result(d)
      /\ c.done \subseteq r.done /\ c.temps \subseteq r.temps /\ c.stored \subseteq r.stored
      /\ r.done \subseteq t.done /\ r.temps \subseteq t.temps /\ r.stored \subseteq t.stored
      /\ r.failed = c.failed /\ t.failed = r.failed
      /\ K \subseteq K2 /\ K2 \subseteq K3
  BY DEF Walks
<1>2. \A x \in K3 : x \in K \/ x \in X1 \cup X2 \/ x[1] \in t.done \ c.done
  <2>1. /\ \A x \in K2 : x \in K \/ x \in X1 \/ x[1] \in r.done \ c.done
        /\ \A x \in K3 : x \in K2 \/ x \in X2 \/ x[1] \in t.done \ r.done
    BY DEF Walks
  <2> QED BY <1>1, <2>1
<1>3. \A j \in t.done \ c.done : rank[j] < rank[i] /\ Settled(d, t, K3, j)
  <2>1. /\ \A j \in r.done \ c.done : rank[j] < rank[i] /\ Settled(d, r, K2, j)
        /\ \A j \in t.done \ r.done : rank[j] < rank[i] /\ Settled(d, t, K3, j)
    BY DEF Walks
  <2>2. ASSUME NEW j \in r.done \ c.done PROVE Settled(d, t, K3, j)
    BY <1>1, <2>1, SettledGrows
  <2> QED BY <2>1, <2>2
<1>4. \A pin \in t.loaded : pin \in c.loaded \/ Readers(d, pin) # {}
  BY DEF Walks
<1>5. \A s \in t.stored :
       \/ s \in c.stored
       \/ Is(d, d.stores[s][1], Boxes) /\ d.stores[s][1] \in (t.done \ c.done) \cup {i}
  <2>1. /\ \A s \in r.stored :
             \/ s \in c.stored
             \/ Is(d, d.stores[s][1], Boxes) /\ d.stores[s][1] \in (r.done \ c.done) \cup {i}
        /\ \A s \in t.stored :
             \/ s \in r.stored
             \/ Is(d, d.stores[s][1], Boxes) /\ d.stores[s][1] \in (t.done \ r.done) \cup {i}
    BY DEF Walks
  <2> QED BY <1>1, <2>1
<1>6. \E new \in Seq(InsnsOf(d)) :
        t.code = c.code \o new /\ Tidy(new, (t.done \ c.done) \cup (E1 \cup E2))
  <2>1. PICK a \in Seq(InsnsOf(d)) : r.code = c.code \o a /\ Tidy(a, (r.done \ c.done) \cup E1)
    BY DEF Walks
  <2>2. PICK b \in Seq(InsnsOf(d)) : t.code = r.code \o b /\ Tidy(b, (t.done \ r.done) \cup E2)
    BY DEF Walks
  <2>3. c.code \in Seq(InsnsOf(d))
    BY <1>1 DEF Result
  <2>4. t.code = c.code \o (a \o b)
    <3> DEFINE cc == c.code
    <3> HIDE DEF cc
    <3>1. cc \in Seq(InsnsOf(d)) /\ a \in Seq(InsnsOf(d)) /\ b \in Seq(InsnsOf(d))
      BY <2>3 DEF cc
    <3>2. (cc \o a) \o b = cc \o (a \o b)
      BY <3>1, Concat3
    <3>3. t.code = (cc \o a) \o b
      BY <2>1, <2>2, Zenon DEF cc
    <3> QED BY <3>2, <3>3, Zenon DEF cc
  <2>5. Tidy(a \o b, ((r.done \ c.done) \cup E1) \cup ((t.done \ r.done) \cup E2))
    <3>1. ((r.done \ c.done) \cup E1) \cap ((t.done \ r.done) \cup E2) = {}
      BY <1>1
    <3> QED BY <2>1, <2>2, <3>1, TidyConcat
  <2>6. ((r.done \ c.done) \cup E1) \cup ((t.done \ r.done) \cup E2) = (t.done \ c.done) \cup (E1 \cup E2)
    BY <1>1
  <2>7. a \o b \in Seq(InsnsOf(d))
    BY ConcatFacts
  <2> QED BY <2>4, <2>5, <2>6, <2>7
<1> QED BY <1>1, <1>2, <1>3, <1>4, <1>5, <1>6 DEF Walks

LEMMA WalksWeaken ==
  ASSUME NEW d, NEW rank, NEW i, NEW c, NEW K, NEW r, NEW K2, NEW X1, NEW E1, NEW X2, NEW E2,
         X1 \subseteq X2, E1 \subseteq E2, Walks(d, rank, i, c, K, r, K2, X1, E1)
  PROVE  Walks(d, rank, i, c, K, r, K2, X2, E2)
<1>1. PICK new \in Seq(InsnsOf(d)) : r.code = c.code \o new /\ Tidy(new, (r.done \ c.done) \cup E1)
  BY DEF Walks
<1>2. Tidy(new, (r.done \ c.done) \cup E2)
  BY <1>1, TidyWeaken
<1>3. \E w \in Seq(InsnsOf(d)) : r.code = c.code \o w /\ Tidy(w, (r.done \ c.done) \cup E2)
  BY <1>1, <1>2
<1> QED BY <1>3 DEF Walks

LEMMA WalksAdds ==
  ASSUME NEW d, NEW rank, NEW i, NEW c \in Result(d), NEW r, NEW insns, NEW stored, NEW temps,
         Adds(d, c, r, insns, stored, temps), NEW K, NEW E1, Tidy(insns, E1),
         \A s \in stored : Is(d, d.stores[s][1], Boxes) /\ d.stores[s][1] = i
  PROVE  Walks(d, rank, i, c, K, r, K, {}, E1)
<1>1. /\ r \in Result(d) /\ insns \in Seq(InsnsOf(d))
      /\ r.code = c.code \o insns
      /\ r.done = c.done /\ r.loaded = c.loaded /\ r.failed = c.failed
      /\ r.stored = c.stored \cup stored /\ r.temps = c.temps \cup temps
  BY DEF Adds
<1>2. (r.done \ c.done) \cup E1 = E1
  BY <1>1
<1>3. \E new \in Seq(InsnsOf(d)) : r.code = c.code \o new /\ Tidy(new, (r.done \ c.done) \cup E1)
  BY <1>1, <1>2
<1> QED BY <1>1, <1>3 DEF Walks

LEMMA AssignsPlain ==
  ASSUME NEW insns, NEW A, Assigns(insns, A)
  PROVE  PlainCode(insns) /\ Tidy(insns, {})
<1>1. \A arg : Insn("=", arg).label = NoLabel /\ Insn("=", arg).op = "="
  BY DEF Insn
<1>2. PlainCode(insns)
  BY <1>1 DEF Assigns, PlainCode
<1> QED BY <1>2, PlainTidy

\* r goes on from c by saving VKE.
WalksOn(d, rank, i, c, K, r, stored, temps) ==
  /\ Walks(d, rank, i, c, K, r, K, {}, {})
  /\ r.stored = c.stored \cup stored /\ r.temps = c.temps \cup temps /\ r.done = c.done

LEMMA WalksSaves ==
  ASSUME NEW d, NEW rank, NEW i, NEW c \in Result(d), NEW r, NEW stored, NEW temps,
         Saves(d, c, r, stored, temps), NEW K,
         \A s \in stored : Is(d, d.stores[s][1], Boxes) /\ d.stores[s][1] = i
  PROVE  WalksOn(d, rank, i, c, K, r, stored, temps)
<1>1. PICK insns : /\ Adds(d, c, r, insns, stored, temps)
                   /\ Assigns(insns, {Stored(s) : s \in stored} \cup {Temp(pin) : pin \in temps})
  BY DEF Saves
<1>2. Tidy(insns, {})
  BY <1>1, AssignsPlain
<1>3. Walks(d, rank, i, c, K, r, K, {}, {})
  BY <1>1, <1>2, WalksAdds
<1> QED BY <1>1, <1>3 DEF Adds, WalksOn

LEMMA WalksEmit ==
  ASSUME NEW d, NEW rank, NEW i, NEW c \in Result(d), NEW insns \in Seq(InsnsOf(d)), NEW K, NEW E1,
         Tidy(insns, E1)
  PROVE  Walks(d, rank, i, c, K, Emit(c, insns), K, {}, E1)
<1>1. Adds(d, c, Emit(c, insns), insns, {}, {})
  BY EmitAdds
<1> QED BY <1>1, WalksAdds

LEMMA ReadyAfter ==
  ASSUME NEW d, NEW rank, NEW i, NEW c, NEW K, NEW r, NEW K2, NEW X1, NEW E1,
         i \in c.done, Ready(d, rank, c, K, i), Walks(d, rank, i, c, K, r, K2, X1, E1),
         \A x \in X1 : x[1] = i
  PROVE  i \in r.done /\ Ready(d, rank, r, K2, i)
<1>1. /\ c.done \subseteq r.done /\ c.temps \subseteq r.temps /\ c.stored \subseteq r.stored /\ K \subseteq K2
      /\ \A x \in K2 : x \in K \/ x \in X1 \/ x[1] \in r.done \ c.done
      /\ \A j \in r.done \ c.done : rank[j] < rank[i] /\ Settled(d, r, K2, j)
  BY DEF Walks
<1>2. \A x \in K2 : x[1] \in r.done
  BY <1>1 DEF Ready
<1>3. ASSUME NEW j \in r.done, rank[j] < rank[i] PROVE Settled(d, r, K2, j)
  <2>1. CASE j \in c.done
    <3>1. Settled(d, c, K, j)
      BY <2>1, <1>3 DEF Ready
    <3> QED BY <1>1, <3>1, SettledGrows
  <2> QED BY <1>1, <2>1
<1> QED BY <1>1, <1>2, <1>3 DEF Ready

LEMMA WalksResult ==
  ASSUME NEW d, NEW rank, NEW i, NEW c, NEW K, NEW r, NEW K2, NEW X1, NEW E1, Walks(d, rank, i, c, K, r, K2, X1, E1)
  PROVE  r \in Result(d) /\ c.done \subseteq r.done
BY DEF Walks

\* The inputs of a node that are wired to a pin.
SlotsAt(d, pin, i) == {<<i, k>> : k \in {k \in DOMAIN d.nodes[i].ins : d.nodes[i].ins[k].pin = pin}}

LEMMA ReadersFinite ==
  ASSUME NEW d, IsDiagram(d), NEW pin
  PROVE  IsFiniteSet(Readers(d, pin)) /\ IsFiniteSet(StoredTo(d, pin))
<1> DEFINE N == DOMAIN d.nodes
           f == [i \in N |-> SlotsAt(d, pin, i)]
           T == {SlotsAt(d, pin, i) : i \in N}
<1>1. IsFiniteSet(N)
  <2>1. Len(d.nodes) \in Nat /\ N = 1..Len(d.nodes)
    BY LenProperties DEF IsDiagram
  <2> QED BY <2>1, FS_Interval
<1>2. f \in Surjection(N, T)
  BY DEF Surjection
<1>3. IsFiniteSet(T)
  BY <1>1, <1>2, FS_Surjection
<1>4. ASSUME NEW i \in N PROVE IsFiniteSet(SlotsAt(d, pin, i))
  <2>1. Len(d.nodes[i].ins) \in Nat /\ DOMAIN d.nodes[i].ins = 1..Len(d.nodes[i].ins)
    BY GateFacts
  <2>2. IsFiniteSet({i}) /\ IsFiniteSet(1..Len(d.nodes[i].ins))
    <3> DEFINE m == Len(d.nodes[i].ins)
    <3>1. 1 \in Int /\ m \in Int
      BY <2>1
    <3> HIDE DEF m
    <3>2. IsFiniteSet(1..m)
      BY <3>1, FS_Interval
    <3> QED BY <3>2, FS_Singleton DEF m
  <2>3. IsFiniteSet({i} \X (1..Len(d.nodes[i].ins)))
    BY <2>2, FS_Product
  <2>4. SlotsAt(d, pin, i) \subseteq {i} \X (1..Len(d.nodes[i].ins))
    BY <2>1 DEF SlotsAt
  <2> QED BY <2>3, <2>4, FS_Subset
<1>5. IsFiniteSet(UNION T)
  BY <1>3, <1>4, FS_UNION
<1>6. Readers(d, pin) = UNION T
  BY DEF Readers, SlotsAt
<1>7. IsFiniteSet(StoredTo(d, pin))
  <2>1. StoredTo(d, pin) \subseteq DOMAIN d.stores /\ IsFiniteSet(DOMAIN d.stores)
    BY DEF StoredTo, IsDiagram
  <2> QED BY <2>1, FS_Subset
<1> QED BY <1>5, <1>6, <1>7

LEMMA TwoOfSet ==
  ASSUME NEW S, IsFiniteSet(S)
  PROVE  /\ Cardinality(S) \in Nat
         /\ S # {} => Cardinality(S) >= 1
         /\ \A x, y \in S : x # y => Cardinality(S) >= 2
<1>1. Cardinality(S) \in Nat
  BY FS_CardinalityType
<1>2. S # {} => Cardinality(S) >= 1
  BY <1>1, FS_EmptySet
<1>3. ASSUME NEW x \in S, NEW y \in S, x # y PROVE Cardinality(S) >= 2
  <2>1. Cardinality(S) # 1
    <3>1. \A z : S # {z}
      BY <1>3
    <3> QED BY <3>1, FS_Singleton
  <2> QED BY <1>1, <1>2, <1>3, <2>1
<1> QED BY <1>1, <1>2, <1>3

\* How many want the value of a pin.
LEMMA FanoutFacts ==
  ASSUME NEW d, IsDiagram(d), NEW pin
  PROVE  /\ Fanout(d, pin) \in Nat
         /\ Fanout(d, pin) > 0 <=> Readers(d, pin) # {} \/ StoredTo(d, pin) # {}
         /\ \A x, y \in Readers(d, pin) : x # y => Fanout(d, pin) > 1
         /\ \A x, y \in StoredTo(d, pin) : x # y => Fanout(d, pin) > 1
         /\ Readers(d, pin) # {} /\ StoredTo(d, pin) # {} => Fanout(d, pin) > 1
<1> DEFINE a == Cardinality(Readers(d, pin))
           b == Cardinality(StoredTo(d, pin))
<1>1. /\ a \in Nat /\ (Readers(d, pin) # {} => a >= 1)
      /\ \A x, y \in Readers(d, pin) : x # y => a >= 2
      /\ b \in Nat /\ (StoredTo(d, pin) # {} => b >= 1)
      /\ \A x, y \in StoredTo(d, pin) : x # y => b >= 2
  BY ReadersFinite, TwoOfSet
<1>2. (Readers(d, pin) = {} => a = 0) /\ (StoredTo(d, pin) = {} => b = 0)
  BY FS_EmptySet
<1>3. Fanout(d, pin) = a + b
  BY DEF Fanout
<1> HIDE DEF a, b
<1> QED BY <1>1, <1>2, <1>3

\* What the compilation of a node does, from any progress at which the nodes in
\* front of it are ready, if they have been compiled.
NodeWalk(d, rank, i, p, K, r, K2) ==
  /\ Walks(d, rank, i, Running(p, i), K, r, K2, {i} \X Nat, {i})
  /\ Is(d, i, Boxes) => Settled(d, r, K2, i)
NodeOK(d, rank, h, i) ==
  \A p \in Progress(d) : \A K :
    i \notin p.done /\ Ready(d, rank, p, K, i) => \E K2 : NodeWalk(d, rank, i, p, K, h[<<p, i>>], K2)
NodesBefore(d, rank, h, i) == \A j \in DOMAIN d.nodes : rank[j] < rank[i] => NodeOK(d, rank, h, j)

\* Instructions around those of a node.
Around(d, c, new, r, temps) ==
  \E pre, post \in Seq(InsnsOf(d)) :
    /\ PlainCode(pre) /\ PlainCode(post)
    /\ r.code = ((c.code \o pre) \o new.code) \o post
    /\ r \in Result(d)
    /\ r.done = new.done /\ r.loaded = new.loaded /\ r.failed = new.failed /\ r.stored = new.stored
    /\ r.temps = new.temps \cup temps

LEMMA WalksNode ==
  ASSUME NEW d, NEW rank, NEW i, NEW c \in Result(d), NEW K, NEW j \in DOMAIN d.nodes, rank[j] < rank[i],
         NEW N \in Nat, rank \in [DOMAIN d.nodes -> 0..N], i \in DOMAIN d.nodes, j \notin c.done,
         NEW p, p = Prog(c), NEW new \in Result(d), NEW K2, NodeWalk(d, rank, j, p, K, new, K2),
         NEW r, NEW temps, Around(d, c, new, r, temps),
         NEW Y, NEW K3, K3 = K2 \cup Y, Settled(d, r, K3, j)
  PROVE  Walks(d, rank, i, c, K, r, K3, Y, {})
<1>1. /\ p.code = <<>> /\ p.done = c.done /\ p.loaded = c.loaded /\ p.failed = c.failed
      /\ p.stored = c.stored /\ p.temps = c.temps /\ p \in Result(d)
  BY ProgTyped, ProgressResult
<1> DEFINE q0 == Running(p, j)
<1>2. /\ q0.code = <<>> /\ q0.done = c.done \cup {j} /\ q0.loaded = c.loaded /\ q0.failed = c.failed
      /\ q0.stored = c.stored /\ q0.temps = c.temps
  BY <1>1, RunningTyped
<1>3. Walks(d, rank, j, q0, K, new, K2, {j} \X Nat, {j})
  BY DEF NodeWalk
<1> HIDE DEF q0
<1>4. PICK pre \in Seq(InsnsOf(d)), post \in Seq(InsnsOf(d)) :
    /\ PlainCode(pre) /\ PlainCode(post)
    /\ r.code = ((c.code \o pre) \o new.code) \o post
    /\ r \in Result(d)
    /\ r.done = new.done /\ r.loaded = new.loaded /\ r.failed = new.failed /\ r.stored = new.stored
    /\ r.temps = new.temps \cup temps
  BY DEF Around
<1>5. PICK w \in Seq(InsnsOf(d)) : new.code = q0.code \o w /\ Tidy(w, (new.done \ q0.done) \cup {j})
  BY <1>3 DEF Walks
<1>6. /\ c.done \cup {j} \subseteq new.done /\ c.temps \subseteq new.temps /\ c.stored \subseteq new.stored
      /\ new.failed = c.failed
      /\ K \subseteq K2 /\ \A x \in K2 : x \in K \/ x \in {j} \X Nat \/ x[1] \in new.done \ q0.done
      /\ \A k \in new.done \ q0.done : rank[k] < rank[j] /\ Settled(d, new, K2, k)
      /\ \A pin \in new.loaded : pin \in c.loaded \/ Readers(d, pin) # {}
      /\ \A s \in new.stored :
           \/ s \in c.stored
           \/ Is(d, d.stores[s][1], Boxes) /\ d.stores[s][1] \in (new.done \ q0.done) \cup {j}
  BY <1>2, <1>3 DEF Walks
<1>7. (new.done \ q0.done) \cup {j} = r.done \ c.done
  BY <1>2, <1>4, <1>6
<1>8. \A k \in r.done \ c.done : rank[k] < rank[i] /\ Settled(d, r, K3, k)
  <2>1. ASSUME NEW k \in new.done \ q0.done PROVE rank[k] < rank[i] /\ Settled(d, r, K3, k)
    <3>1. k \in DOMAIN d.nodes
      BY DEF Result
    <3>2. rank[k] < rank[j] /\ rank[k] \in Nat /\ rank[j] \in Nat /\ rank[i] \in Nat
      BY <3>1, <1>6
    <3>3. Settled(d, r, K3, k)
      BY <1>4, <1>6, SettledGrows
    <3> QED BY <3>2, <3>3
  <2> QED BY <1>7, <2>1
<1>9. \A x \in K3 : x \in K \/ x \in Y \/ x[1] \in r.done \ c.done
  BY <1>6, <1>7
<1>10. \E a \in Seq(InsnsOf(d)) : r.code = c.code \o a /\ Tidy(a, (r.done \ c.done) \cup {})
  <2>1. c.code \in Seq(InsnsOf(d)) /\ new.code \in Seq(InsnsOf(d))
    BY DEF Result
  <2>2. new.code = w
    <3>1. \A u \in Seq(InsnsOf(d)) : <<>> \o u = u
      BY EmptySeq, ConcatEmptySeq
    <3> QED BY <1>2, <1>5, <3>1, Zenon
  <2>3. \A u, v \in Seq(InsnsOf(d)) : u \o v \in Seq(InsnsOf(d))
    BY ConcatProperties
  <2>4. r.code = c.code \o ((pre \o w) \o post)
    <3> DEFINE cc == c.code
    <3> HIDE DEF cc
    <3>1. cc \in Seq(InsnsOf(d))
      BY <2>1 DEF cc
    <3>2. (cc \o pre) \o w = cc \o (pre \o w)
      BY <3>1, Concat3
    <3> DEFINE pw == pre \o w
    <3>3. pw \in Seq(InsnsOf(d))
      BY <2>3, Zenon
    <3> HIDE DEF pw
    <3>4. (cc \o pw) \o post = cc \o (pw \o post)
      <4>1. post \in Seq(InsnsOf(d))
        OBVIOUS
      <4> DEFINE I == InsnsOf(d)
      <4>2. cc \in Seq(I) /\ pw \in Seq(I) /\ post \in Seq(I)
        BY <3>1, <3>3, <4>1
      <4> HIDE DEF I
      <4>3. \A a, b, e \in Seq(I) : (a \o b) \o e = a \o (b \o e)
        BY Concat3
      <4> QED BY <4>2, <4>3, Zenon
    <3>5. r.code = ((cc \o pre) \o w) \o post
      BY <1>4, <2>2, Zenon DEF cc
    <3> QED BY <3>2, <3>4, <3>5, Zenon DEF cc, pw
  <2>5. Tidy(pre, {}) /\ Tidy(post, {})
    BY <1>4, PlainTidy
  <2> DEFINE D == r.done \ c.done
             pw == pre \o w
  <2>6. Tidy(w, D)
    BY <1>5, <1>7
  <2> HIDE DEF D
  <2>7. Tidy(pw, {} \cup D)
    BY <2>5, <2>6, TidyConcat
  <2>8. pw \in Seq(InsnsOf(d))
    BY <2>3
  <2> HIDE DEF pw
  <2>9. Tidy(pw \o post, ({} \cup D) \cup {})
    BY <2>5, <2>7, <2>8, TidyConcat
  <2>10. Tidy(pw \o post, D \cup {})
    <3>1. ({} \cup D) \cup {} = D \cup {}
      OBVIOUS
    <3> QED BY <2>9, <3>1
  <2> QED BY <2>3, <2>4, <2>8, <2>10 DEF pw, D
<1> QED BY <1>4, <1>6, <1>7, <1>8, <1>9, <1>10 DEF Walks

LEMMA SameProg ==
  ASSUME NEW d, NEW c \in Result(d), NEW insns
  PROVE  Prog(Emit(c, insns)) = Prog(c)
<1>1. c = [code |-> c.code, done |-> c.done, loaded |-> c.loaded, stored |-> c.stored, temps |-> c.temps,
           failed |-> c.failed]
  BY DEF Result
<1>2. \A w : [c EXCEPT !.code = w] = [code |-> w, done |-> c.done, loaded |-> c.loaded, stored |-> c.stored,
                                      temps |-> c.temps, failed |-> c.failed]
  BY <1>1
<1> DEFINE e == Emit(c, insns)
<1>3. \E w : e = [code |-> w, done |-> c.done, loaded |-> c.loaded, stored |-> c.stored,
                  temps |-> c.temps, failed |-> c.failed]
  BY <1>2 DEF Emit
<1> HIDE DEF e
<1>4. [e EXCEPT !.code = <<>>] = [code |-> <<>>, done |-> c.done, loaded |-> c.loaded, stored |-> c.stored,
                                  temps |-> c.temps, failed |-> c.failed]
  BY <1>3
<1> QED BY <1>2, <1>4 DEF Prog, e

\* The TEMP variable of a gate.
GateTemps(d, pin) == IF Fanout(d, pin) > 1 THEN {pin} ELSE {}

LEMMA PlainOne ==
  ASSUME NEW insn, insn.label = NoLabel, insn.op \notin {"SPBNB", "BE"}
  PROVE  PlainCode(<<insn>>)
<1>1. DOMAIN <<insn>> = {1} /\ <<insn>>[1] = insn
  OBVIOUS
<1> QED BY <1>1 DEF PlainCode

LEMMA PlainConcat ==
  ASSUME NEW A, NEW a \in Seq(A), NEW b \in Seq(A), PlainCode(a), PlainCode(b)
  PROVE  PlainCode(a \o b)
<1> DEFINE ab == a \o b
           m == Len(a)
<1>1. /\ \A k \in DOMAIN a : k \in DOMAIN ab /\ ab[k] = a[k]
      /\ \A k \in DOMAIN b : m + k \in DOMAIN ab /\ ab[m + k] = b[k]
      /\ \A k \in DOMAIN ab : k \in DOMAIN a \/ \E l \in DOMAIN b : k = m + l
  BY ConcatFacts
<1> HIDE DEF ab, m
<1>2. PlainCode(ab)
  BY <1>1 DEF PlainCode
<1> QED BY <1>2 DEF ab

LEMMA PlainNil ==
  PlainCode(<<>>)
BY DEF PlainCode

LEMMA PlainOps ==
  /\ \A op, arg : op \notin {"SPBNB", "BE"} => Insn(op, arg).label = NoLabel /\ Insn(op, arg).op \notin {"SPBNB", "BE"}
  /\ \A op : op \notin {"SPBNB", "BE"} => Plain(op).label = NoLabel /\ Plain(op).op \notin {"SPBNB", "BE"}
  /\ \A class \in Classes : Branch(class) \notin {"SPBNB", "BE"} /\ class \notin {"SPBNB", "BE"}
BY DEF Insn, Plain, Classes, Branch

LEMMA GateAround ==
  ASSUME NEW d, IsDiagram(d), NEW h \in NodeCode(d), NEW c \in Result(d), NEW class \in Classes,
         NEW pin \in Wired(d), pin[1] \in DOMAIN d.nodes
  PROVE  Around(d, c, NewCode(h, c, pin[1]), FirstGate(d, h, c, class, pin), GateTemps(d, pin))
<1> DEFINE A == InsnsOf(d)
           b == <<Plain(Branch(class))>>
           c1 == Emit(c, b)
           j == pin[1]
           new == NewCode(h, c, j)
           r1 == Compiled(h, c1, j)
           s == <<Insn("=", Temp(pin))>>
           r2 == IF Fanout(d, pin) > 1 THEN StoreToTemp(r1, pin) ELSE r1
           e == <<Plain(")")>>
           r == Emit(r2, e)
<1>1. /\ Plain(Branch(class)) \in A /\ Plain(")") \in A /\ Insn("=", Temp(pin)) \in A
  <2>1. pin \in GridPins(d) /\ Temp(pin) \in Args(d) /\ "=" \in Ops
    BY WiredPins, ArgsTyped DEF Ops
  <2>2. Branch(class) \in Ops /\ ")" \in Ops
    BY BranchTyped
  <2> QED BY <2>1, <2>2, InsnsTyped
<1>2. b \in Seq(A) /\ e \in Seq(A) /\ s \in Seq(A)
  BY <1>1
<1>3. PlainCode(b) /\ PlainCode(e) /\ PlainCode(s)
  BY PlainOne, PlainOps
<1>4. c1 \in Result(d) /\ c1.code = c.code \o b
  BY <1>2, EmitTyped
<1>5. NewCode(h, c1, j) = new
  BY SameProg DEF NewCode
<1>6. Extends(d, c1, new, r1)
  BY <1>4, <1>5, CompiledExtends
<1>7. /\ new \in Result(d) /\ r1 \in Result(d)
      /\ r1.code = c1.code \o new.code
      /\ r1.done = new.done /\ r1.loaded = new.loaded /\ r1.failed = new.failed
      /\ r1.stored = new.stored /\ r1.temps = new.temps
  BY <1>6 DEF Extends
<1>8. FirstGate(d, h, c, class, pin) = r
  BY DEF FirstGate
<1>9. new.code \in Seq(A) /\ c.code \in Seq(A)
  BY <1>7 DEF Result
<1> HIDE DEF c1, new, r1, s, e, b
<1>10. CASE Fanout(d, pin) > 1
  <2>1. Adds(d, r1, r2, s, {}, {pin})
    BY <1>7, <1>10, StoreToTempAdds DEF s
  <2>2. /\ r2 \in Result(d) /\ r2.code = r1.code \o s /\ r2.done = r1.done /\ r2.loaded = r1.loaded
        /\ r2.failed = r1.failed /\ r2.stored = r1.stored \cup {} /\ r2.temps = r1.temps \cup {pin}
    BY <2>1 DEF Adds
  <2> HIDE DEF r2
  <2>3. /\ r \in Result(d) /\ r.code = r2.code \o e /\ r.done = r2.done /\ r.loaded = r2.loaded
        /\ r.failed = r2.failed /\ r.stored = r2.stored /\ r.temps = r2.temps
    <3>1. Adds(d, r2, r, e, {}, {})
      BY <1>2, <2>2, EmitAdds
    <3> QED BY <3>1 DEF Adds
  <2> HIDE DEF r
  <2>4. r.code = ((c.code \o b) \o new.code) \o (s \o e)
    <3> DEFINE x == (c.code \o b) \o new.code
    <3>1. x \in Seq(A)
      BY <1>2, <1>9, ConcatProperties
    <3>2. r.code = (x \o s) \o e
      BY <1>4, <1>7, <2>2, <2>3, Zenon
    <3> HIDE DEF x
    <3>3. (x \o s) \o e = x \o (s \o e)
      BY <1>2, <3>1, Concat3
    <3> QED BY <3>2, <3>3, Zenon DEF x
  <2>5. s \o e \in Seq(A) /\ PlainCode(s \o e)
    BY <1>2, <1>3, PlainConcat, ConcatProperties
  <2>6. GateTemps(d, pin) = {pin}
    BY <1>10 DEF GateTemps
  <2>7. \E pre, post \in Seq(A) :
          /\ PlainCode(pre) /\ PlainCode(post)
          /\ r.code = ((c.code \o pre) \o new.code) \o post
    BY <1>2, <1>3, <2>4, <2>5
  <2>8. /\ r \in Result(d)
        /\ r.done = new.done /\ r.loaded = new.loaded /\ r.failed = new.failed /\ r.stored = new.stored
        /\ r.temps = new.temps \cup GateTemps(d, pin)
    BY <1>7, <2>2, <2>3, <2>6
  <2> QED BY <1>8, <2>7, <2>8 DEF Around, new
<1>11. CASE ~(Fanout(d, pin) > 1)
  <2>1. r2 = r1
    BY <1>11
  <2> HIDE DEF r2
  <2>2. /\ r \in Result(d) /\ r.code = r1.code \o e /\ r.done = r1.done /\ r.loaded = r1.loaded
        /\ r.failed = r1.failed /\ r.stored = r1.stored /\ r.temps = r1.temps
    <3>1. Adds(d, r1, r, e, {}, {})
      BY <1>2, <1>7, <2>1, EmitAdds
    <3> QED BY <2>1, <3>1 DEF Adds
  <2> HIDE DEF r
  <2>3. r.code = ((c.code \o b) \o new.code) \o e
    BY <1>4, <1>7, <2>2, Zenon
  <2>4. GateTemps(d, pin) = {}
    BY <1>11 DEF GateTemps
  <2>5. \E pre, post \in Seq(A) :
          /\ PlainCode(pre) /\ PlainCode(post)
          /\ r.code = ((c.code \o pre) \o new.code) \o post
    BY <1>2, <1>3, <2>3
  <2>6. /\ r \in Result(d)
        /\ r.done = new.done /\ r.loaded = new.loaded /\ r.failed = new.failed /\ r.stored = new.stored
        /\ r.temps = new.temps \cup GateTemps(d, pin)
    BY <1>7, <2>2, <2>4
  <2> QED BY <1>8, <2>5, <2>6 DEF Around, new
<1> QED BY <1>10, <1>11

LEMMA BareAround ==
  ASSUME NEW d, NEW h \in NodeCode(d), NEW c \in Result(d), NEW j \in DOMAIN d.nodes
  PROVE  Around(d, c, NewCode(h, c, j), Compiled(h, c, j), {})
<1> DEFINE A == InsnsOf(d)
           new == NewCode(h, c, j)
           r == Compiled(h, c, j)
<1>1. /\ new \in Result(d) /\ r \in Result(d)
      /\ r.code = c.code \o new.code
      /\ r.done = new.done /\ r.loaded = new.loaded /\ r.failed = new.failed
      /\ r.stored = new.stored /\ r.temps = new.temps
  BY CompiledExtends DEF Extends
<1>2. c.code \in Seq(A) /\ new.code \in Seq(A)
  BY <1>1 DEF Result
<1> HIDE DEF new, r
<1>3. \A u \in Seq(A) : u \o <<>> = u
  BY ConcatEmptySeq
<1>4. c.code \o new.code \in Seq(A)
  BY <1>2, ConcatProperties
<1>5. r.code = ((c.code \o <<>>) \o new.code) \o <<>>
  BY <1>1, <1>2, <1>3, <1>4, Zenon
<1>6. <<>> \in Seq(A) /\ PlainCode(<<>>)
  BY EmptySeq, PlainNil
<1>7. \E pre, post \in Seq(A) :
        /\ PlainCode(pre) /\ PlainCode(post)
        /\ r.code = ((c.code \o pre) \o new.code) \o post
  BY <1>5, <1>6
<1>8. r.temps = new.temps \cup {}
  BY <1>1
<1> QED BY <1>1, <1>7, <1>8 DEF Around, new, r

LEMMA BoxAround ==
  ASSUME NEW d, IsDiagram(d), NEW h \in NodeCode(d), NEW c \in Result(d), NEW class \in Classes,
         NEW pin, pin[1] \in DOMAIN d.nodes
  PROVE  Around(d, c, NewCode(h, c, pin[1]), FirstBox(h, c, class, pin), {})
<1> DEFINE A == InsnsOf(d)
           j == pin[1]
           new == NewCode(h, c, j)
           r1 == Compiled(h, c, j)
           e == <<Plain("NOT")>>
           r == Emit(r1, e)
<1>1. Around(d, c, new, r1, {})
  BY BareAround
<1>2. CASE class \notin {"UN", "ON"}
  BY <1>1, <1>2 DEF FirstBox
<1>3. CASE class \in {"UN", "ON"}
  <2>1. /\ new \in Result(d) /\ r1 \in Result(d)
        /\ r1.code = c.code \o new.code
        /\ r1.done = new.done /\ r1.loaded = new.loaded /\ r1.failed = new.failed
        /\ r1.stored = new.stored /\ r1.temps = new.temps
    <3>1. Extends(d, c, new, r1)
      BY CompiledExtends
    <3> QED BY <3>1 DEF Extends
  <2>2. Plain("NOT") \in A
    BY InsnsTyped DEF Ops
  <2>3. e \in Seq(A) /\ PlainCode(e)
    BY <2>2, PlainOne, PlainOps
  <2> HIDE DEF r1, new, e
  <2>4. /\ r \in Result(d) /\ r.code = r1.code \o e /\ r.done = r1.done /\ r.loaded = r1.loaded
        /\ r.failed = r1.failed /\ r.stored = r1.stored /\ r.temps = r1.temps
    <3>1. Adds(d, r1, r, e, {}, {})
      BY <2>1, <2>3, EmitAdds
    <3> QED BY <3>1 DEF Adds
  <2>5. FirstBox(h, c, class, pin) = r
    BY <1>3 DEF FirstBox, r1, e
  <2> HIDE DEF r
  <2>6. <<>> \in Seq(A) /\ PlainCode(<<>>) /\ c.code \o <<>> = c.code
    <3>1. c.code \in Seq(A)
      BY DEF Result
    <3> QED BY <3>1, EmptySeq, PlainNil, ConcatEmptySeq
  <2>7. r.code = ((c.code \o <<>>) \o new.code) \o e
    BY <2>1, <2>4, <2>6, Zenon
  <2>8. \E pre, post \in Seq(A) :
          /\ PlainCode(pre) /\ PlainCode(post)
          /\ r.code = ((c.code \o pre) \o new.code) \o post
    BY <2>3, <2>6, <2>7
  <2>9. r.temps = new.temps \cup {}
    BY <2>1, <2>4
  <2> QED BY <2>1, <2>4, <2>5, <2>8, <2>9 DEF Around, new
<1> QED BY <1>2, <1>3

\* Node i of a diagram, and the instructions of the nodes in front of it.
Ctx(d, rank, N, h, i) ==
  Fits(d, rank, N) /\ h \in NodeCode(d) /\ i \in DOMAIN d.nodes /\ NodesBefore(d, rank, h, i)

LEMMA ReadyLower ==
  ASSUME NEW d, NEW rank, NEW N, Fits(d, rank, N), NEW i \in DOMAIN d.nodes, NEW j \in DOMAIN d.nodes,
         rank[j] < rank[i], NEW c \in Result(d), NEW K, Ready(d, rank, c, K, i), NEW p, p = Prog(c)
  PROVE  Ready(d, rank, p, K, j)
<1>1. p.done = c.done /\ p.temps = c.temps /\ p.stored = c.stored
  BY ProgTyped
<1>2. ASSUME NEW k \in p.done, rank[k] < rank[j] PROVE Settled(d, p, K, k)
  <2>1. k \in DOMAIN d.nodes
    BY <1>1 DEF Result
  <2>2. rank[k] \in Nat /\ rank[j] \in Nat /\ rank[i] \in Nat
    BY <2>1 DEF Fits
  <2>3. rank[k] < rank[i]
    BY <1>2, <2>2
  <2>4. Settled(d, c, K, k)
    BY <1>1, <1>2, <2>3 DEF Ready
  <2> QED BY <1>1, <2>4, SettledGrows
<1> QED BY <1>1, <1>2 DEF Ready

LEMMA NodeFrom ==
  ASSUME NEW d, NEW rank, NEW N, NEW h, NEW i, Ctx(d, rank, N, h, i), NEW c \in Result(d), NEW K,
         Ready(d, rank, c, K, i), NEW j \in DOMAIN d.nodes, rank[j] < rank[i], j \notin c.done
  PROVE  /\ NewCode(h, c, j) \in Result(d)
         /\ \E K2 : NodeWalk(d, rank, j, Prog(c), K, NewCode(h, c, j), K2)
<1>1. Fits(d, rank, N) /\ h \in NodeCode(d) /\ i \in DOMAIN d.nodes /\ NodeOK(d, rank, h, j)
  BY DEF Ctx, NodesBefore
<1> DEFINE p == Prog(c)
<1>2. p \in Progress(d) /\ p.done = c.done
  BY ProgTyped
<1>3. Ready(d, rank, p, K, j)
  BY <1>1, ReadyLower
<1>4. NewCode(h, c, j) = h[<<p, j>>]
  BY DEF NewCode
<1>5. NewCode(h, c, j) \in Result(d)
  BY <1>1, CompiledExtends DEF Extends
<1> HIDE DEF p
<1>6. j \notin p.done
  BY <1>2
<1>7. \E K2 : NodeWalk(d, rank, j, p, K, h[<<p, j>>], K2)
  BY <1>1, <1>2, <1>3, <1>6 DEF NodeOK
<1> QED BY <1>4, <1>5, <1>7 DEF p

\* r goes on from c with one instruction, that loads VKE.
LoadsOne(d, c, r, insn, pins, failed) ==
  /\ r \in Result(d) /\ r.code = c.code \o <<insn>>
  /\ r.loaded = c.loaded \cup pins /\ r.done = c.done /\ r.failed = failed
  /\ r.stored = c.stored /\ r.temps = c.temps

LEMMA LoadsAre ==
  ASSUME NEW d, IsDiagram(d), NEW c \in Result(d), NEW class \in Classes, NEW pin \in Wired(d)
  PROVE  /\ LoadsOne(d, c, CompileLoad(c, class, pin), Insn(class, pin), {pin}, c.failed)
         /\ LoadsOne(d, c, LoadFromTemp(c, class, pin), Insn(class, Temp(pin)), {},
                     c.failed \/ pin \notin c.temps)
BY LoadsTyped DEF LoadsOne

LEMMA ConnWalks ==
  ASSUME NEW d, NEW rank, NEW N, NEW h, NEW i, Ctx(d, rank, N, h, i), NEW c \in Result(d), NEW K,
         i \in c.done, Ready(d, rank, c, K, i), NEW class \in Classes,
         NEW k \in DOMAIN d.nodes[i].ins, NEW pin, pin = d.nodes[i].ins[k].pin, <<i, k>> \notin K
  PROVE  \E K2 : Walks(d, rank, i, c, K, CompileConn(d, h, c, class, pin), K2, {<<i, k>>}, {})
<1>1. /\ Fits(d, rank, N) /\ h \in NodeCode(d) /\ i \in DOMAIN d.nodes /\ NodesBefore(d, rank, h, i)
      /\ IsDiagram(d) /\ N \in Nat /\ rank \in [DOMAIN d.nodes -> 0..N] /\ NodeFits(d, rank, i)
  BY DEF Ctx, Fits
<1>2. pin \in Wired(d) /\ pin \in GridPins(d)
  BY <1>1, WiredPins
<1>3. <<i, k>> \in Readers(d, pin)
  BY <1>1 DEF Readers
<1>4. Before(rank, pin, i)
  BY <1>1 DEF NodeFits
<1> DEFINE r == CompileConn(d, h, c, class, pin)
           K2 == K \cup {<<i, k>>}
           j == pin[1]
           A == InsnsOf(d)
<1>5. pin \in Args(d) /\ Temp(pin) \in Args(d) /\ class \in Ops
  BY <1>1, <1>2, ArgsTyped, BranchTyped
<1>6. CASE j = 0
  <2>1. r = CompileLoad(c, class, pin)
    BY <1>1, <1>2, <1>6, ConnCases
  <2> DEFINE s == <<Insn(class, pin)>>
  <2>2. /\ r \in Result(d) /\ r.code = c.code \o s
        /\ r.loaded = c.loaded \cup {pin} /\ r.done = c.done /\ r.failed = c.failed
        /\ r.stored = c.stored /\ r.temps = c.temps
    <3>1. LoadsOne(d, c, CompileLoad(c, class, pin), Insn(class, pin), {pin}, c.failed)
      BY <1>1, <1>2, LoadsAre
    <3>2. LoadsOne(d, c, r, Insn(class, pin), {pin}, c.failed)
      BY <2>1, <3>1, Zenon
    <3> QED BY <3>2 DEF LoadsOne
  <2>3. s \in Seq(A) /\ Tidy(s, {})
    <3>1. Insn(class, pin) \in A
      BY <1>1, <1>5, InsnsTyped
    <3>2. PlainCode(s)
      BY PlainOne, PlainOps
    <3> QED BY <3>1, <3>2, PlainTidy
  <2> HIDE DEF r, s
  <2>4. \E new \in Seq(A) : r.code = c.code \o new /\ Tidy(new, (r.done \ c.done) \cup {})
    <3>1. (r.done \ c.done) \cup {} = {}
      BY <2>2
    <3> QED BY <2>2, <2>3, <3>1
  <2>5. \A q0 \in r.loaded : q0 \in c.loaded \/ Readers(d, q0) # {}
    BY <1>3, <2>2
  <2>6. Walks(d, rank, i, c, K, r, K2, {<<i, k>>}, {})
    BY <2>2, <2>4, <2>5 DEF Walks
  <2> QED BY <2>6 DEF r
<1>7. CASE j # 0 /\ j \in c.done
  <2>1. r = LoadFromTemp(c, class, pin) /\ j \in DOMAIN d.nodes /\ pin \in PinsOf(d, j) /\ rank[j] < rank[i]
    BY <1>1, <1>2, <1>4, <1>7, ConnCases DEF Before
  <2>2. Settled(d, c, K, j)
    BY <1>7, <2>1 DEF Ready
  <2>3. pin \in c.temps
    <3>1. CASE Is(d, j, Booleans)
      <4>1. pin = Out(j)
        BY <1>1, <2>1, <3>1, PinsOfKinds
      <4>2. Fanout(d, pin) > 1 => pin \in c.temps
        BY <2>2, <3>1, <4>1 DEF Settled
      <4>3. ASSUME pin \notin c.temps PROVE FALSE
        <5>1. K \cap Readers(d, pin) # {} \/ StoredTo(d, pin) # {}
          BY <2>2, <3>1, <4>1, <4>3 DEF Settled
        <5>2. Fanout(d, pin) > 1
          <6>1. CASE K \cap Readers(d, pin) # {}
            <7>1. PICK x : x \in K /\ x \in Readers(d, pin)
              BY <6>1
            <7>2. x # <<i, k>>
              BY <7>1
            <7> QED BY <1>1, <1>3, <7>1, <7>2, FanoutFacts
          <6>2. CASE StoredTo(d, pin) # {}
            BY <1>1, <1>3, <6>2, FanoutFacts
          <6> QED BY <5>1, <6>1, <6>2
        <5> QED BY <4>2, <4>3, <5>2
      <4> QED BY <4>3
    <3>2. CASE Is(d, j, Boxes)
      BY <1>3, <2>1, <2>2, <3>2 DEF Settled
    <3> QED BY <1>1, <2>1, <3>1, <3>2, PinsOfKinds
  <2> DEFINE s == <<Insn(class, Temp(pin))>>
  <2>4. /\ r \in Result(d) /\ r.code = c.code \o s
        /\ r.loaded = c.loaded /\ r.done = c.done /\ r.failed = (c.failed \/ pin \notin c.temps)
        /\ r.stored = c.stored /\ r.temps = c.temps
    <3>1. LoadsOne(d, c, LoadFromTemp(c, class, pin), Insn(class, Temp(pin)), {}, c.failed \/ pin \notin c.temps)
      BY <1>1, <1>2, LoadsAre
    <3>2. LoadsOne(d, c, r, Insn(class, Temp(pin)), {}, c.failed \/ pin \notin c.temps)
      BY <2>1, <3>1, Zenon
    <3>3. c.loaded \cup {} = c.loaded
      OBVIOUS
    <3> QED BY <3>2, <3>3 DEF LoadsOne
  <2>5. s \in Seq(A) /\ Tidy(s, {})
    <3>1. Insn(class, Temp(pin)) \in A
      BY <1>1, <1>5, InsnsTyped
    <3>2. PlainCode(s)
      BY PlainOne, PlainOps
    <3> QED BY <3>1, <3>2, PlainTidy
  <2>6. r.failed = c.failed
    <3>1. c.failed \in BOOLEAN
      BY DEF Result
    <3> QED BY <2>3, <2>4, <3>1
  <2> HIDE DEF r, s
  <2>7. \E new \in Seq(A) : r.code = c.code \o new /\ Tidy(new, (r.done \ c.done) \cup {})
    <3>1. (r.done \ c.done) \cup {} = {}
      BY <2>4
    <3> QED BY <2>4, <2>5, <3>1
  <2>8. Walks(d, rank, i, c, K, r, K2, {<<i, k>>}, {})
    BY <2>4, <2>6, <2>7 DEF Walks
  <2> QED BY <2>8 DEF r
<1>8. CASE j # 0 /\ j \notin c.done
  <2>1. j \in DOMAIN d.nodes /\ pin \in PinsOf(d, j) /\ rank[j] < rank[i]
    BY <1>1, <1>2, <1>4, <1>8, ConnCases DEF Before
  <2> DEFINE new == NewCode(h, c, j)
             p == Prog(c)
  <2>2. new \in Result(d) /\ \E K1 : NodeWalk(d, rank, j, p, K, new, K1)
    BY <1>8, <2>1, NodeFrom
  <2>3. PICK K1 : NodeWalk(d, rank, j, p, K, new, K1)
    BY <2>2
  <2> DEFINE K3 == K1 \cup {<<i, k>>}
  <2> HIDE DEF new, r
  <2>4. CASE Is(d, j, Booleans)
    <3>1. r = FirstGate(d, h, c, class, pin)
      BY <1>1, <1>2, <1>8, <2>4, ConnCases DEF r
    <3>2. Around(d, c, new, r, GateTemps(d, pin))
      BY <1>1, <1>2, <2>1, <3>1, GateAround DEF new
    <3>3. pin = Out(j) /\ ~Is(d, j, Boxes)
      BY <1>1, <2>1, <2>4, PinsOfKinds
    <3>4. Settled(d, r, K3, j)
      <4>1. Fanout(d, pin) > 1 => pin \in r.temps
        BY <3>2 DEF Around, GateTemps
      <4>2. K3 \cap Readers(d, pin) # {}
        BY <1>3
      <4> QED BY <3>3, <4>1, <4>2 DEF Settled
    <3> HIDE DEF p
    <3>5. p = Prog(c)
      BY DEF p
    <3> HIDE DEF j, K3
    <3>6. K3 = K1 \cup {<<i, k>>}
      BY DEF K3
    <3>7. Walks(d, rank, i, c, K, r, K3, {<<i, k>>}, {})
      BY <1>1, <1>8, <2>1, <2>2, <2>3, <3>2, <3>4, <3>5, <3>6, WalksNode
    <3> QED BY <3>7 DEF r
  <2>5. CASE Is(d, j, Boxes)
    <3>1. r = FirstBox(h, c, class, pin)
      BY <1>1, <1>2, <1>8, <2>5, ConnCases DEF r
    <3>2. Around(d, c, new, r, {})
      BY <1>1, <2>1, <3>1, BoxAround DEF new
    <3>3. Settled(d, new, K1, j)
      BY <2>3, <2>5 DEF NodeWalk
    <3>4. r.temps = new.temps \cup {} /\ r.stored = new.stored
      BY <3>2 DEF Around
    <3>5. Settled(d, r, K3, j)
      BY <3>3, <3>4, SettledGrows
    <3> HIDE DEF p
    <3>6. p = Prog(c)
      BY DEF p
    <3> HIDE DEF j, K3
    <3>7. K3 = K1 \cup {<<i, k>>}
      BY DEF K3
    <3>8. Walks(d, rank, i, c, K, r, K3, {<<i, k>>}, {})
      BY <1>1, <1>8, <2>1, <2>2, <2>3, <3>2, <3>5, <3>6, <3>7, WalksNode
    <3> QED BY <3>8 DEF r
  <2> QED BY <1>1, <2>1, <2>4, <2>5, PinsOfKinds
<1> QED BY <1>6, <1>7, <1>8

LEMMA InputWalks ==
  ASSUME NEW d, NEW rank, NEW N, NEW h, NEW i, Ctx(d, rank, N, h, i), NEW c \in Result(d), NEW K,
         i \in c.done, Ready(d, rank, c, K, i), Is(d, i, Booleans),
         NEW k \in DOMAIN d.nodes[i].ins, <<i, k>> \notin K
  PROVE  \E K2 : Walks(d, rank, i, c, K, CompileInput(d, h, c, d.nodes[i].kind, d.nodes[i].ins[k]), K2,
                       {<<i, k>>}, {})
<1> DEFINE input == d.nodes[i].ins[k]
           kind == d.nodes[i].kind
           class == Class(kind, input.inverted)
           pin == input.pin
           A == InsnsOf(d)
<1>1. IsDiagram(d) /\ i \in DOMAIN d.nodes /\ h \in NodeCode(d)
  BY DEF Ctx, Fits
<1>2. input.inverted \in BOOLEAN /\ kind \in Booleans /\ pin \in Wired(d)
  <2>1. kind \in Booleans /\ input \in Wires(GridPins(d)) /\ pin \in Wired(d)
    BY <1>1, GateFacts, WiredPins
  <2> QED BY <2>1 DEF Wires
<1>3. class \in Classes /\ kind \in Classes
  BY <1>2, ConnClasses
<1> HIDE DEF class, kind
<1> DEFINE b == <<Plain(Branch(kind))>>
           e == <<Plain(")")>>
           c1 == Emit(c, b)
           r1 == CompileConn(d, h, c1, class, pin)
           r == CompileInput(d, h, c, kind, input)
<1>4. CASE ~Is(d, pin[1], Boxes)
  <2>1. r = CompileConn(d, h, c, class, pin)
    BY <1>4 DEF CompileInput, class
  <2>2. \E K2 : Walks(d, rank, i, c, K, CompileConn(d, h, c, class, pin), K2, {<<i, k>>}, {})
    BY <1>3, ConnWalks
  <2> QED BY <2>1, <2>2 DEF kind
<1>5. CASE Is(d, pin[1], Boxes)
  <2>1. r = Emit(r1, e)
    BY <1>5 DEF CompileInput, class
  <2>2. Plain(Branch(kind)) \in A /\ Plain(")") \in A
    BY <1>1, <1>3, BranchTyped, InsnsTyped
  <2>3. b \in Seq(A) /\ e \in Seq(A) /\ Tidy(b, {}) /\ Tidy(e, {})
    <3>1. PlainCode(b) /\ PlainCode(e)
      BY <1>3, PlainOne, PlainOps
    <3> QED BY <2>2, <3>1, PlainTidy
  <2> HIDE DEF b, e
  <2>4. Walks(d, rank, i, c, K, c1, K, {}, {})
    BY <2>3, WalksEmit
  <2>5. i \in c1.done /\ Ready(d, rank, c1, K, i) /\ c1 \in Result(d)
    BY <2>4, ReadyAfter, WalksResult
  <2> HIDE DEF c1
  <2>6. PICK K2 : Walks(d, rank, i, c1, K, r1, K2, {<<i, k>>}, {})
    BY <1>3, <2>5, ConnWalks
  <2>7. Walks(d, rank, i, c, K, r1, K2, {} \cup {<<i, k>>}, {} \cup {})
    BY <2>4, <2>6, WalksThen
  <2>8. r1 \in Result(d)
    BY <2>6, WalksResult
  <2> HIDE DEF r1
  <2>9. Walks(d, rank, i, r1, K2, Emit(r1, e), K2, {}, {})
    BY <2>3, <2>8, WalksEmit
  <2> DEFINE X1 == {} \cup {<<i, k>>}
             E1 == {} \cup {}
  <2>10. X1 \cup {} = {<<i, k>>} /\ E1 \cup {} = {} /\ E1 \cap {} = {} /\ E1 \cup {} \subseteq {i}
    OBVIOUS
  <2> HIDE DEF X1, E1
  <2>11. Walks(d, rank, i, c, K, Emit(r1, e), K2, X1 \cup {}, E1 \cup {})
    BY <2>7, <2>9, <2>10, WalksThen DEF X1, E1
  <2>12. Walks(d, rank, i, c, K, r, K2, {<<i, k>>}, {})
    BY <2>1, <2>10, <2>11
  <2> QED BY <2>12 DEF kind
<1> QED BY <1>4, <1>5

LEMMA RunningReady ==
  ASSUME NEW d, NEW rank, NEW N, Fits(d, rank, N), NEW i \in DOMAIN d.nodes, NEW p \in Progress(d), NEW K,
         i \notin p.done, Ready(d, rank, p, K, i), NEW c, c = Running(p, i)
  PROVE  /\ c \in Result(d) /\ i \in c.done /\ Ready(d, rank, c, K, i)
         /\ \A x \in K : x[1] # i
         /\ c.code = <<>> /\ c.done = p.done \cup {i} /\ c.loaded = p.loaded /\ c.stored = p.stored
         /\ c.temps = p.temps /\ c.failed = p.failed
<1>1. p \in Result(d) /\ p.code = <<>>
  BY ProgressResult
<1>2. /\ c \in Result(d) /\ c.code = p.code /\ c.done = p.done \cup {i}
      /\ c.loaded = p.loaded /\ c.stored = p.stored /\ c.temps = p.temps /\ c.failed = p.failed
  BY <1>1, RunningTyped
<1>3. rank[i] \in Nat
  BY DEF Fits
<1>4. ASSUME NEW j \in c.done, rank[j] < rank[i] PROVE Settled(d, c, K, j)
  <2>1. j # i
    BY <1>3, <1>4
  <2>2. Settled(d, p, K, j)
    BY <1>2, <1>4, <2>1 DEF Ready
  <2> QED BY <1>2, <2>2, SettledGrows
<1> QED BY <1>1, <1>2, <1>4 DEF Ready

Slots(i, k) == {<<i, m>> : m \in 1..k}

LEMMA InputsWalk ==
  ASSUME NEW d, NEW rank, NEW N, NEW h, NEW i, Ctx(d, rank, N, h, i), NEW c \in Result(d), NEW K,
         i \in c.done, Ready(d, rank, c, K, i), Is(d, i, Booleans), \A x \in K : x[1] # i,
         NEW g, Joining(d, h, c, i, g)
  PROVE  \A k \in 0..Len(d.nodes[i].ins) : \E K2 : Walks(d, rank, i, c, K, g[k], K2, Slots(i, k), {})
<1> DEFINE n == Len(d.nodes[i].ins)
           S == {k \in Nat : k <= n => \E K2 : Walks(d, rank, i, c, K, g[k], K2, Slots(i, k), {})}
<1>0. IsDiagram(d) /\ i \in DOMAIN d.nodes
  BY DEF Ctx, Fits
<1>1. n \in Nat /\ DOMAIN d.nodes[i].ins = 1..n
  BY <1>0, GateFacts
<1>2. 0 \in S
  <2>1. Walks(d, rank, i, c, K, c, K, {}, {})
    <3>1. Adds(d, c, c, <<>>, {}, {})
      <4>1. c.code \o <<>> = c.code /\ <<>> \in Seq(InsnsOf(d))
        <5>1. c.code \in Seq(InsnsOf(d))
          BY DEF Result
        <5> QED BY <5>1, ConcatEmptySeq, EmptySeq
      <4> QED BY <4>1 DEF Adds
    <3>2. Tidy(<<>>, {})
      BY PlainNil, PlainTidy
    <3> QED BY <3>1, <3>2, WalksAdds
  <2>2. g[0] = c /\ Slots(i, 0) = {}
    BY DEF Joining, Slots
  <2> QED BY <2>1, <2>2
<1>3. ASSUME NEW k \in Nat, k \in S PROVE k + 1 \in S
  <2> SUFFICES ASSUME k + 1 <= n PROVE \E K2 : Walks(d, rank, i, c, K, g[k + 1], K2, Slots(i, k + 1), {})
    OBVIOUS
  <2> DEFINE l == k + 1
  <2>1. k <= n /\ l \in 1..n /\ l - 1 = k /\ k \in 0..n /\ l \in Nat
    BY <1>1
  <2>2. PICK K2 : Walks(d, rank, i, c, K, g[k], K2, Slots(i, k), {})
    BY <1>3, <2>1
  <2> HIDE DEF l
  <2>3. i \in g[k].done /\ Ready(d, rank, g[k], K2, i)
    <3>1. \A x \in Slots(i, k) : x[1] = i
      BY DEF Slots
    <3> QED BY <2>2, <3>1, ReadyAfter
  <2>4. <<i, l>> \notin K2
    <3>1. \A x \in K2 : x \in K \/ x \in Slots(i, k) \/ x[1] \in g[k].done \ c.done
      BY <2>2 DEF Walks
    <3>2. <<i, l>> \notin Slots(i, k)
      <4>1. l > k
        BY <2>1
      <4> QED BY <4>1 DEF Slots
    <3> QED BY <3>1, <3>2
  <2>5. g[k] \in Result(d) /\ g[l] = CompileInput(d, h, g[k], d.nodes[i].kind, d.nodes[i].ins[l])
    <3>1. /\ \A q0 \in 0..n : g[q0] \in Result(d)
          /\ \A m \in 1..n : g[m] = CompileInput(d, h, g[m - 1], d.nodes[i].kind, d.nodes[i].ins[m])
      BY DEF Joining
    <3>2. g[l] = CompileInput(d, h, g[l - 1], d.nodes[i].kind, d.nodes[i].ins[l])
      BY <2>1, <3>1, Zenon
    <3> QED BY <2>1, <3>1, <3>2
  <2> DEFINE gk == g[k]
             gl == g[l]
  <2>6. l \in DOMAIN d.nodes[i].ins
    BY <1>1, <2>1
  <2> HIDE DEF gk, gl, n
  <2>7. gk \in Result(d) /\ i \in gk.done /\ Ready(d, rank, gk, K2, i)
    BY <2>3, <2>5 DEF gk
  <2>8. \E K3 : Walks(d, rank, i, gk, K2, CompileInput(d, h, gk, d.nodes[i].kind, d.nodes[i].ins[l]), K3, {<<i, l>>}, {})
    BY <2>4, <2>6, <2>7, InputWalks
  <2>9. PICK K3 : Walks(d, rank, i, gk, K2, gl, K3, {<<i, l>>}, {})
    BY <2>5, <2>8 DEF gk, gl
  <2>10. Walks(d, rank, i, c, K, gk, K2, Slots(i, k), {})
    BY <2>2 DEF gk
  <2>11. Walks(d, rank, i, c, K, gl, K3, Slots(i, k) \cup {<<i, l>>}, {} \cup {})
    BY <2>9, <2>10, WalksThen
  <2>12. Slots(i, k) \cup {<<i, l>>} = Slots(i, l)
    <3>1. 1..l = (1..k) \cup {l}
      BY <2>1
    <3> QED BY <3>1 DEF Slots
  <2>13. {} \cup {} = {}
    OBVIOUS
  <2>14. Walks(d, rank, i, c, K, gl, K3, Slots(i, l), {})
    BY <2>11, <2>12, <2>13
  <2> QED BY <2>14 DEF gl, l
<1>4. Nat \subseteq S
  <2> HIDE DEF S
  <2> QED BY <1>2, <1>3, SetInduction
<1> QED BY <1>1, <1>4

LEMMA GateWalks ==
  ASSUME NEW d, NEW rank, NEW N, NEW h, NEW i, Ctx(d, rank, N, h, i), Is(d, i, Booleans),
         NEW p \in Progress(d), NEW K, i \notin p.done, Ready(d, rank, p, K, i)
  PROVE  \E K2 : NodeWalk(d, rank, i, p, K, CompileElem(d, h, p, i), K2)
<1> DEFINE c == Running(p, i)
           n == Len(d.nodes[i].ins)
           A == InsnsOf(d)
           b == <<Plain("NOT")>>
           r == CompileElem(d, h, p, i)
<1>1. IsDiagram(d) /\ Fits(d, rank, N) /\ i \in DOMAIN d.nodes /\ h \in NodeCode(d)
  BY DEF Ctx, Fits
<1>2. c \in Result(d) /\ i \in c.done /\ Ready(d, rank, c, K, i) /\ \A x \in K : x[1] # i
  BY <1>1, RunningReady
<1> HIDE DEF c
<1>3. PICK g : Joining(d, h, c, i, g) /\ CompileBoolean(d, h, c, i) = JoinedEnd(d, i, g)
  <2>1. InputsTyped(d, h, i)
    BY <1>1, GateInputsTyped
  <2> QED BY <1>1, <1>2, <2>1, GateJoins
<1>4. r = JoinedEnd(d, i, g)
  BY <1>1, <1>3, ElemCases DEF c
<1>5. n \in Nat
  BY <1>1, GateFacts
<1>6. PICK K2 : Walks(d, rank, i, c, K, g[n], K2, Slots(i, n), {})
  <2>1. n \in 0..n
    BY <1>5
  <2> QED BY <1>2, <1>3, <2>1, InputsWalk
<1> DEFINE all == g[n]
<1>7. Slots(i, n) \subseteq {i} \X Nat
  BY <1>5 DEF Slots
<1>8. all \in Result(d)
  BY <1>6, WalksResult
<1>9. Walks(d, rank, i, c, K, r, K2, {i} \X Nat, {i})
  <2>1. CASE d.nodes[i].inverted
    <3>1. r = Emit(all, b)
      BY <1>4, <2>1 DEF JoinedEnd
    <3>2. b \in Seq(A) /\ Tidy(b, {})
      <4>1. Plain("NOT") \in A
        BY <1>1, InsnsTyped DEF Ops
      <4>2. PlainCode(b)
        BY PlainOne, PlainOps
      <4> QED BY <4>1, <4>2, PlainTidy
    <3> HIDE DEF b, all, r
    <3>3. Walks(d, rank, i, all, K2, Emit(all, b), K2, {}, {})
      BY <1>8, <3>2, WalksEmit
    <3>4. Walks(d, rank, i, c, K, all, K2, Slots(i, n), {})
      BY <1>6 DEF all
    <3>5. Walks(d, rank, i, c, K, Emit(all, b), K2, Slots(i, n) \cup {}, {} \cup {})
      BY <1>2, <3>3, <3>4, WalksThen
    <3>6. Slots(i, n) \cup {} \subseteq {i} \X Nat /\ {} \cup {} \subseteq {i}
      BY <1>7
    <3> QED BY <3>1, <3>5, <3>6, WalksWeaken
  <2>2. CASE ~d.nodes[i].inverted
    <3>1. r = all
      BY <1>4, <2>2 DEF JoinedEnd
    <3> HIDE DEF all, r
    <3>2. Walks(d, rank, i, c, K, all, K2, Slots(i, n), {})
      BY <1>6 DEF all
    <3>3. {} \subseteq {i}
      OBVIOUS
    <3> QED BY <1>7, <3>1, <3>2, <3>3, WalksWeaken
  <2> QED BY <2>1, <2>2
<1>10. ~Is(d, i, Boxes)
  BY <1>1, PinsOfKinds
<1> QED BY <1>9, <1>10 DEF NodeWalk, c

\* A step that takes no more inputs and has no labels, before or after.
LEMMA WalksQuiet ==
  ASSUME NEW d, NEW rank, NEW i, NEW c, NEW K, NEW r, NEW K2, NEW X1, NEW E1,
         NEW t, NEW K3, i \in c.done, E1 \subseteq {i}
  PROVE  /\ Walks(d, rank, i, c, K, r, K2, X1, E1) /\ Walks(d, rank, i, r, K2, t, K3, {}, {}) =>
              Walks(d, rank, i, c, K, t, K3, X1, E1)
         /\ Walks(d, rank, i, c, K, r, K2, {}, {}) /\ Walks(d, rank, i, r, K2, t, K3, X1, E1) =>
              Walks(d, rank, i, c, K, t, K3, X1, E1)
<1>1. X1 \cup {} = X1 /\ {} \cup X1 = X1 /\ E1 \cup {} = E1 /\ {} \cup E1 = E1 /\ E1 \cap {} = {} /\ {} \cap E1 = {}
  OBVIOUS
<1>2. ASSUME Walks(d, rank, i, c, K, r, K2, X1, E1), Walks(d, rank, i, r, K2, t, K3, {}, {})
      PROVE  Walks(d, rank, i, c, K, t, K3, X1, E1)
  <2>1. E1 \cup {} \subseteq {i}
    OBVIOUS
  <2>2. Walks(d, rank, i, c, K, t, K3, X1 \cup {}, E1 \cup {})
    BY <1>1, <1>2, <2>1, WalksThen
  <2> QED BY <1>1, <2>2
<1>3. ASSUME Walks(d, rank, i, c, K, r, K2, {}, {}), Walks(d, rank, i, r, K2, t, K3, X1, E1)
      PROVE  Walks(d, rank, i, c, K, t, K3, X1, E1)
  <2>1. {} \cup E1 \subseteq {i}
    OBVIOUS
  <2>2. Walks(d, rank, i, c, K, t, K3, {} \cup X1, {} \cup E1)
    BY <1>1, <1>3, <2>1, WalksThen
  <2> QED BY <1>1, <2>2
<1> QED BY <1>2, <1>3

LEMMA WalksNothing ==
  ASSUME NEW d, NEW rank, NEW i, NEW c \in Result(d), NEW K
  PROVE  Walks(d, rank, i, c, K, c, K, {}, {})
<1>1. Adds(d, c, c, <<>>, {}, {})
  <2>1. c.code \o <<>> = c.code /\ <<>> \in Seq(InsnsOf(d))
    <3>1. c.code \in Seq(InsnsOf(d))
      BY DEF Result
    <3> QED BY <3>1, ConcatEmptySeq, EmptySeq
  <2> QED BY <2>1 DEF Adds
<1>2. Tidy(<<>>, {})
  BY PlainNil, PlainTidy
<1> QED BY <1>1, <1>2, WalksAdds

LEMMA MoveBodyTidy ==
  ASSUME NEW d, NEW i \in Nat \ {0}
  PROVE  Tidy(MoveBody(d, i), {i})
<1> DEFINE end == End0(i)
           set == <<i, "set">>
           jump == Insn("SPBNB", end)
           transfer == Insn("T", Transferred(i))
           nop == Labelled(end, Plain("NOP"))
           plain == Plain("SET")
           self == Labelled(set, Insn("SPBNB", set))
<1>1. end # NoLabel /\ set # NoLabel /\ end # set /\ end[1] = i /\ set[1] = i
  BY DEF End0, NoLabel
<1>2. /\ jump.op = "SPBNB" /\ jump.arg = end /\ jump.label = NoLabel
      /\ transfer.op = "T" /\ transfer.label = NoLabel
      /\ nop.op = "NOP" /\ nop.label = end
      /\ plain.op = "SET" /\ plain.label = NoLabel
      /\ self.op = "SPBNB" /\ self.arg = set /\ self.label = set
  BY DEF Insn, Plain, Labelled
<1> HIDE DEF end, set, jump, transfer, nop, plain, self
<1>3. CASE d.nodes[i].ins # <<>>
  <2> DEFINE w == <<jump, transfer, nop>>
  <2>1. MoveBody(d, i) = w
    BY <1>3 DEF MoveBody, jump, transfer, nop, end
  <2>2. DOMAIN w = 1..3 /\ w[1] = jump /\ w[2] = transfer /\ w[3] = nop
    OBVIOUS
  <2> HIDE DEF w
  <2>3. Tidy(w, {i})
    BY <1>1, <1>2, <2>2 DEF Tidy, Jumps, HasLabel
  <2> QED BY <2>1, <2>3
<1>4. CASE d.nodes[i].ins = <<>> /\ Fanout(d, Eno(i)) > 0
  <2> DEFINE w == <<transfer, plain, self, nop>>
  <2>1. MoveBody(d, i) = w
    BY <1>4 DEF MoveBody, transfer, nop, end, plain, self, set
  <2>2. DOMAIN w = 1..4 /\ w[1] = transfer /\ w[2] = plain /\ w[3] = self /\ w[4] = nop
    OBVIOUS
  <2> HIDE DEF w
  <2>3. Tidy(w, {i})
    BY <1>1, <1>2, <2>2 DEF Tidy, Jumps, HasLabel
  <2> QED BY <2>1, <2>3
<1>5. CASE d.nodes[i].ins = <<>> /\ ~(Fanout(d, Eno(i)) > 0)
  <2> DEFINE w == <<transfer, nop>>
  <2>1. MoveBody(d, i) = w
    BY <1>5 DEF MoveBody, transfer, nop, end
  <2>2. DOMAIN w = 1..2 /\ w[1] = transfer /\ w[2] = nop
    OBVIOUS
  <2> HIDE DEF w
  <2>3. Tidy(w, {i})
    BY <1>1, <1>2, <2>2 DEF Tidy, Jumps, HasLabel
  <2> QED BY <2>1, <2>3
<1> QED BY <1>3, <1>4, <1>5

\* The output of a box is saved for all who want it.
LEMMA BoxSaved ==
  ASSUME NEW d, IsDiagram(d), NEW rank, NEW i \in DOMAIN d.nodes, Is(d, i, Boxes), NEW c \in Result(d), NEW K,
         NEW pin \in PinsOf(d, i)
  PROVE  WalksOn(d, rank, i, c, K, StoreBoxOutput(d, c, pin), StoredTo(d, pin), TempsOf(d, pin))
<1> DEFINE r == StoreBoxOutput(d, c, pin)
<1>1. pin \in GridPins(d) /\ pin[1] = i
  <2>1. pin \in GridPins(d)
    BY DEF GridPins
  <2>2. pin = Out(i) \/ pin = Eno(i)
    BY PinsOfKinds
  <2> QED BY <2>1, <2>2 DEF Out, Eno
<1>2. Saves(d, c, r, StoredTo(d, pin), TempsOf(d, pin))
  BY <1>1, StoreBoxOutputSaves
<1>3. \A s \in StoredTo(d, pin) : Is(d, d.stores[s][1], Boxes) /\ d.stores[s][1] = i
  BY <1>1 DEF StoredTo
<1> HIDE DEF r
<1> DEFINE S == StoredTo(d, pin)
           T == TempsOf(d, pin)
<1>4. Saves(d, c, r, S, T) /\ \A s \in S : Is(d, d.stores[s][1], Boxes) /\ d.stores[s][1] = i
  BY <1>2, <1>3
<1> HIDE DEF S, T
<1>5. WalksOn(d, rank, i, c, K, r, S, T)
  BY <1>4, WalksSaves
<1> QED BY <1>5 DEF r, S, T

LEMMA MoveWalks ==
  ASSUME NEW d, NEW rank, NEW N, NEW h, NEW i, Ctx(d, rank, N, h, i), Is(d, i, {"MOVE"}),
         NEW p \in Progress(d), NEW K, i \notin p.done, Ready(d, rank, p, K, i)
  PROVE  \E K2 : NodeWalk(d, rank, i, p, K, CompileElem(d, h, p, i), K2)
<1> DEFINE c == Running(p, i)
           r == CompileElem(d, h, p, i)
           j == d.nodes[i].source
           s == MoveSource(d, h, c, i)
           e == MoveEnabled(d, h, s, i)
           A == InsnsOf(d)
<1>1. IsDiagram(d) /\ Fits(d, rank, N) /\ i \in DOMAIN d.nodes /\ h \in NodeCode(d) /\ NodeFits(d, rank, i)
      /\ N \in Nat /\ rank \in [DOMAIN d.nodes -> 0..N]
  BY DEF Ctx, Fits
<1>2. Is(d, i, Boxes) /\ PinsOf(d, i) = {Eno(i)} /\ i \in Nat \ {0}
  BY <1>1, PinsOfKinds
<1>3. c \in Result(d) /\ i \in c.done /\ Ready(d, rank, c, K, i) /\ \A x \in K : x[1] # i
  BY <1>1, RunningReady
<1>4. r = CompileMove(d, h, c, i)
  BY <1>1, ElemCases
<1> HIDE DEF c
<1>5. s \in Result(d) /\ e \in Result(d) /\ r = MoveEnd(d, e, i)
  BY <1>1, <1>3, <1>4, MoveTyped
<1>6. \E K1 : Walks(d, rank, i, c, K, s, K1, {}, {})
  <2>1. CASE j \in c.done \cup {0}
    <3>1. s = c
      BY <2>1 DEF MoveSource
    <3> QED BY <1>3, <3>1, WalksNothing
  <2>2. CASE j \notin c.done \cup {0}
    <3>1. s = Compiled(h, c, j)
      BY <2>2 DEF MoveSource
    <3>2. j \in DOMAIN d.nodes /\ Is(d, j, {"MOVE"}) /\ rank[j] < rank[i]
      BY <1>1, <1>2, <2>2, BoxFacts
    <3>3. Is(d, j, Boxes)
      BY <1>1, <3>2, PinsOfKinds
    <3> DEFINE new == NewCode(h, c, j)
               q0 == Prog(c)
    <3> HIDE DEF j
    <3>4. new \in Result(d) /\ \E K1 : NodeWalk(d, rank, j, q0, K, new, K1)
      BY <1>3, <2>2, <3>2, NodeFrom
    <3>5. PICK K1 : NodeWalk(d, rank, j, q0, K, new, K1)
      BY <3>4
    <3>6. Around(d, c, new, s, {})
      BY <1>1, <1>3, <3>1, <3>2, BareAround
    <3> DEFINE K3 == K1 \cup {}
    <3>7. Settled(d, s, K3, j)
      <4>1. Settled(d, new, K1, j)
        BY <3>3, <3>5 DEF NodeWalk
      <4>2. s.temps = new.temps \cup {} /\ s.stored = new.stored
        BY <3>6 DEF Around
      <4> QED BY <4>1, <4>2, SettledGrows
    <3> HIDE DEF new, q0, s, K3
    <3>8. q0 = Prog(c) /\ K3 = K1 \cup {}
      BY DEF q0, K3
    <3>9. Walks(d, rank, i, c, K, s, K3, {}, {})
      BY <1>1, <1>3, <2>2, <3>2, <3>4, <3>5, <3>6, <3>7, <3>8, WalksNode
    <3> QED BY <3>9 DEF s
  <2> QED BY <2>1, <2>2
<1>7. PICK K1 : Walks(d, rank, i, c, K, s, K1, {}, {})
  BY <1>6
<1> HIDE DEF s
<1>8. i \in s.done /\ Ready(d, rank, s, K1, i) /\ \A x \in K1 : x[1] # i
  <2>1. i \in s.done /\ Ready(d, rank, s, K1, i)
    BY <1>3, <1>7, ReadyAfter
  <2>2. \A x \in K1 : x \in K \/ x[1] \in s.done \ c.done
    BY <1>7 DEF Walks
  <2> QED BY <1>3, <2>1, <2>2
<1>9. \E K2 : Walks(d, rank, i, s, K1, e, K2, {<<i, 1>>}, {})
  <2>1. CASE d.nodes[i].ins = <<>>
    <3>1. e = s
      BY <2>1 DEF MoveEnabled
    <3>2. Walks(d, rank, i, s, K1, s, K1, {}, {})
      BY <1>5, WalksNothing
    <3>3. Walks(d, rank, i, s, K1, s, K1, {<<i, 1>>}, {})
      BY <3>2, WalksWeaken
    <3> QED BY <3>1, <3>3
  <2>2. CASE d.nodes[i].ins # <<>>
    <3>1. e = CompileConn(d, h, s, "U", d.nodes[i].ins[1].pin)
      BY <2>2 DEF MoveEnabled
    <3>2. 1 \in DOMAIN d.nodes[i].ins
      BY <1>1, <1>2, <2>2, BoxFacts
    <3>3. "U" \in Classes /\ <<i, 1>> \notin K1
      BY <1>8 DEF Classes
    <3> QED BY <1>5, <1>8, <3>1, <3>2, <3>3, ConnWalks
  <2> QED BY <2>1, <2>2
<1>10. PICK K2 : Walks(d, rank, i, s, K1, e, K2, {<<i, 1>>}, {})
  BY <1>9
<1> HIDE DEF e
<1>11. Walks(d, rank, i, c, K, e, K2, {<<i, 1>>}, {})
  BY <1>3, <1>7, <1>10, WalksQuiet
<1> DEFINE body == MoveBody(d, i)
           b == Emit(e, body)
<1>12. body \in Seq(A) /\ Tidy(body, {i})
  BY <1>1, <1>2, MoveBodyTyped, MoveBodyTidy
<1>13. Walks(d, rank, i, e, K2, b, K2, {}, {i})
  BY <1>5, <1>12, WalksEmit
<1>14. Walks(d, rank, i, c, K, b, K2, {<<i, 1>>} \cup {}, {} \cup {i})
  BY <1>3, <1>11, <1>13, WalksThen
<1>15. {<<i, 1>>} \cup {} = {<<i, 1>>} /\ {} \cup {i} = {i}
  OBVIOUS
<1>16. Walks(d, rank, i, c, K, b, K2, {<<i, 1>>}, {i})
  BY <1>14, <1>15
<1>17. b \in Result(d)
  BY <1>16, WalksResult
<1>18. CASE Fanout(d, Eno(i)) > 0
  <2> DEFINE u == <<Insn("U", BIE)>>
             bu == Emit(b, u)
             out == StoreBoxOutput(d, bu, Eno(i))
  <2>1. r = out
    BY <1>5, <1>18 DEF MoveEnd
  <2>2. u \in Seq(A) /\ Tidy(u, {})
    <3>1. Insn("U", BIE) \in A
      BY <1>1, MoveBodyTyped
    <3>2. PlainCode(u)
      BY PlainOne, PlainOps
    <3> QED BY <3>1, <3>2, PlainTidy
  <2> HIDE DEF u, b
  <2>3. Walks(d, rank, i, b, K2, bu, K2, {}, {})
    BY <1>17, <2>2, WalksEmit
  <2>4. bu \in Result(d)
    BY <2>3, WalksResult
  <2> HIDE DEF bu
  <2>5. Eno(i) \in PinsOf(d, i)
    BY <1>2
  <2>6. /\ Walks(d, rank, i, bu, K2, out, K2, {}, {})
        /\ out.temps = bu.temps \cup TempsOf(d, Eno(i)) /\ out.stored = bu.stored \cup StoredTo(d, Eno(i))
    <3>1. WalksOn(d, rank, i, bu, K2, out, StoredTo(d, Eno(i)), TempsOf(d, Eno(i)))
      BY <1>1, <1>2, <2>4, <2>5, BoxSaved
    <3> QED BY <3>1 DEF WalksOn
  <2> HIDE DEF out
  <2>7. Walks(d, rank, i, c, K, bu, K2, {<<i, 1>>}, {i})
    BY <1>3, <1>16, <2>3, WalksQuiet
  <2>8. Walks(d, rank, i, c, K, out, K2, {<<i, 1>>}, {i})
    BY <1>3, <2>6, <2>7, WalksQuiet
  <2>9. Walks(d, rank, i, c, K, out, K2, {i} \X Nat, {i})
    <3>1. {<<i, 1>>} \subseteq {i} \X Nat
      OBVIOUS
    <3> QED BY <2>8, <3>1, WalksWeaken
  <2>10. Settled(d, out, K2, i)
    <3>1. ~Is(d, i, Booleans)
      BY <1>1, PinsOfKinds
    <3> QED BY <1>2, <2>6, <3>1 DEF Settled, TempsOf
  <2> QED BY <2>1, <2>9, <2>10 DEF NodeWalk, c
<1>19. CASE ~(Fanout(d, Eno(i)) > 0)
  <2>1. r = b
    BY <1>5, <1>19 DEF MoveEnd
  <2>2. Readers(d, Eno(i)) = {} /\ StoredTo(d, Eno(i)) = {}
    BY <1>1, <1>19, FanoutFacts
  <2> HIDE DEF b
  <2>3. Walks(d, rank, i, c, K, b, K2, {i} \X Nat, {i})
    <3>1. {<<i, 1>>} \subseteq {i} \X Nat
      OBVIOUS
    <3> QED BY <1>16, <3>1, WalksWeaken
  <2>4. Settled(d, b, K2, i)
    <3>1. ~Is(d, i, Booleans)
      BY <1>1, PinsOfKinds
    <3> QED BY <1>2, <2>2, <3>1 DEF Settled
  <2> QED BY <2>1, <2>3, <2>4 DEF NodeWalk, c
<1> QED BY <1>18, <1>19

LEMMA Plain3 ==
  ASSUME NEW x1, NEW x2, NEW x3, \A x \in {x1, x2, x3} : x.label = NoLabel /\ x.op \notin {"SPBNB", "BE"}
  PROVE  PlainCode(<<x1, x2, x3>>)
<1> DEFINE w == <<x1, x2, x3>>
<1>1. DOMAIN w = 1..3 /\ w[1] = x1 /\ w[2] = x2 /\ w[3] = x3
  OBVIOUS
<1> HIDE DEF w
<1>2. PlainCode(w)
  BY <1>1 DEF PlainCode
<1> QED BY <1>2 DEF w

LEMMA GatedWalks ==
  ASSUME NEW d, NEW rank, NEW N, NEW h, NEW i, Ctx(d, rank, N, h, i), Is(d, i, {"CMP"}), Is(d, i, Boxes),
         NEW c \in Result(d), NEW K, i \in c.done, Ready(d, rank, c, K, i), \A x \in K : x[1] # i
  PROVE  \E K2 : Walks(d, rank, i, c, K, CmpGated(d, h, c, i), K2, {<<i, 1>>}, {})
<1> DEFINE A == InsnsOf(d)
           en == d.nodes[i].ins[1].pin
           r == CmpGated(d, h, c, i)
<1>1. IsDiagram(d) /\ Fits(d, rank, N) /\ i \in DOMAIN d.nodes /\ h \in NodeCode(d) /\ NodeFits(d, rank, i)
  BY DEF Ctx, Fits
<1>2. /\ Insn("CMP", Out(i)) \in A /\ Plain("SAVE") \in A /\ Insn("U", BIE) \in A
  BY <1>1, CmpBodyTyped
<1>3. "U" \in Classes /\ <<i, 1>> \notin K
  BY DEF Classes
<1>4. d.nodes[i].ins # <<>> => 1 \in DOMAIN d.nodes[i].ins
  BY <1>1, BoxFacts
<1> DEFINE b == <<Insn("CMP", Out(i))>>
           g1 == Emit(c, b)
<1>5. b \in Seq(A) /\ Tidy(b, {})
  <2>1. PlainCode(b)
    BY PlainOne, PlainOps
  <2> QED BY <1>2, <2>1, PlainTidy
<1> HIDE DEF b, r
<1>6. Walks(d, rank, i, c, K, g1, K, {}, {})
  BY <1>5, WalksEmit
<1>7. g1 \in Result(d) /\ i \in g1.done /\ Ready(d, rank, g1, K, i)
  BY <1>6, ReadyAfter, WalksResult
<1> HIDE DEF g1
<1>8. CASE d.nodes[i].ins # <<>> /\ Fanout(d, Eno(i)) > 0
  <2> DEFINE e == CompileConn(d, h, c, "U", en)
             w == <<Plain("SAVE"), Insn("CMP", Out(i)), Insn("U", BIE)>>
  <2>1. r = Emit(e, w)
    BY <1>8 DEF CmpGated, r
  <2>2. PICK K2 : Walks(d, rank, i, c, K, e, K2, {<<i, 1>>}, {})
    BY <1>3, <1>4, <1>8, ConnWalks
  <2>3. w \in Seq(A) /\ Tidy(w, {})
    <3>1. PlainCode(w)
      BY Plain3, PlainOps
    <3> QED BY <1>2, <3>1, PlainTidy
  <2>4. e \in Result(d)
    BY <2>2, WalksResult
  <2> HIDE DEF e, w
  <2>5. Walks(d, rank, i, e, K2, Emit(e, w), K2, {}, {})
    BY <2>3, <2>4, WalksEmit
  <2>6. Walks(d, rank, i, c, K, Emit(e, w), K2, {<<i, 1>>}, {})
    BY <2>2, <2>5, WalksQuiet
  <2> QED BY <2>1, <2>6 DEF r
<1>9. CASE d.nodes[i].ins # <<>> /\ ~(Fanout(d, Eno(i)) > 0)
  <2>1. r = CompileConn(d, h, g1, "U", en)
    BY <1>9 DEF CmpGated, r, g1, b
  <2>2. PICK K2 : Walks(d, rank, i, g1, K, CompileConn(d, h, g1, "U", en), K2, {<<i, 1>>}, {})
    BY <1>3, <1>4, <1>7, <1>9, ConnWalks
  <2>3. Walks(d, rank, i, g1, K, r, K2, {<<i, 1>>}, {})
    BY <2>1, <2>2
  <2>4. Walks(d, rank, i, c, K, r, K2, {<<i, 1>>}, {})
    BY <1>6, <2>3, WalksQuiet
  <2> QED BY <2>4 DEF r
<1>10. CASE d.nodes[i].ins = <<>>
  <2>1. r = g1
    BY <1>10 DEF CmpGated, r, g1, b
  <2>2. Walks(d, rank, i, c, K, g1, K, {<<i, 1>>}, {})
    BY <1>6, WalksWeaken
  <2> QED BY <2>1, <2>2 DEF r
<1> QED BY <1>8, <1>9, <1>10

LEMMA CompareWalks ==
  ASSUME NEW d, NEW rank, NEW N, NEW h, NEW i, Ctx(d, rank, N, h, i), Is(d, i, {"CMP"}),
         NEW p \in Progress(d), NEW K, i \notin p.done, Ready(d, rank, p, K, i)
  PROVE  \E K2 : NodeWalk(d, rank, i, p, K, CompileElem(d, h, p, i), K2)
<1> DEFINE c == Running(p, i)
           r == CompileElem(d, h, p, i)
           gated == CmpGated(d, h, c, i)
           A == InsnsOf(d)
<1>1. IsDiagram(d) /\ Fits(d, rank, N) /\ i \in DOMAIN d.nodes /\ h \in NodeCode(d) /\ NodeFits(d, rank, i)
  BY DEF Ctx, Fits
<1>2. Is(d, i, Boxes) /\ PinsOf(d, i) = {Out(i), Eno(i)} /\ i \in Nat \ {0} /\ ~Is(d, i, Booleans)
  BY <1>1, PinsOfKinds
<1>3. c \in Result(d) /\ i \in c.done /\ Ready(d, rank, c, K, i) /\ \A x \in K : x[1] # i
  BY <1>1, RunningReady
<1>4. r = CompileCompare(d, h, c, i)
  BY <1>1, ElemCases
<1> HIDE DEF c
<1>5. r = CmpEnd(d, gated, i)
  BY <1>1, <1>3, <1>4, CompareTyped
<1>6. PICK K2 : Walks(d, rank, i, c, K, gated, K2, {<<i, 1>>}, {})
  BY <1>2, <1>3, GatedWalks
<1>7. gated \in Result(d)
  BY <1>6, WalksResult
<1> HIDE DEF gated
<1> DEFINE out == StoreBoxOutput(d, gated, Out(i))
<1>8. WalksOn(d, rank, i, gated, K2, out, StoredTo(d, Out(i)), TempsOf(d, Out(i)))
  <2>1. Out(i) \in PinsOf(d, i)
    BY <1>2
  <2> QED BY <1>1, <1>2, <1>7, <2>1, BoxSaved
<1>9. /\ Walks(d, rank, i, gated, K2, out, K2, {}, {})
      /\ out.stored = gated.stored \cup StoredTo(d, Out(i)) /\ out.temps = gated.temps \cup TempsOf(d, Out(i))
  BY <1>8 DEF WalksOn
<1>10. Walks(d, rank, i, c, K, out, K2, {<<i, 1>>}, {})
  BY <1>3, <1>6, <1>9, WalksQuiet
<1>11. out \in Result(d)
  BY <1>10, WalksResult
<1>12. {<<i, 1>>} \subseteq {i} \X Nat /\ {} \subseteq {i}
  OBVIOUS
<1>13. CASE Fanout(d, Eno(i)) > 0
  <2> DEFINE w == <<IF d.nodes[i].ins # <<>> THEN Insn("U", BIE) ELSE Plain("SET")>>
             ow == Emit(out, w)
             last == StoreBoxOutput(d, ow, Eno(i))
  <2>1. r = last
    BY <1>5, <1>13 DEF CmpEnd
  <2>2. w \in Seq(A) /\ Tidy(w, {})
    <3>1. Insn("U", BIE) \in A /\ Plain("SET") \in A
      BY <1>1, CmpBodyTyped
    <3>2. PlainCode(<<Insn("U", BIE)>>) /\ PlainCode(<<Plain("SET")>>)
      BY PlainOne, PlainOps
    <3>3. w = <<Insn("U", BIE)>> \/ w = <<Plain("SET")>>
      OBVIOUS
    <3>4. <<Insn("U", BIE)>> \in Seq(A) /\ <<Plain("SET")>> \in Seq(A)
      BY <3>1
    <3> HIDE DEF w
    <3>5. PlainCode(w) /\ w \in Seq(A)
      BY <3>2, <3>3, <3>4
    <3> QED BY <3>5, PlainTidy
  <2> HIDE DEF w, out
  <2>3. Walks(d, rank, i, out, K2, ow, K2, {}, {})
    BY <1>11, <2>2, WalksEmit
  <2>4. /\ ow \in Result(d)
    BY <2>3, WalksResult
  <2>5. ow.temps = out.temps /\ ow.stored = out.stored
    <3>1. Adds(d, out, ow, w, {}, {})
      BY <1>11, <2>2, EmitAdds
    <3> QED BY <3>1 DEF Adds
  <2> HIDE DEF ow
  <2>6. Eno(i) \in PinsOf(d, i)
    BY <1>2
  <2>7. WalksOn(d, rank, i, ow, K2, last, StoredTo(d, Eno(i)), TempsOf(d, Eno(i)))
    BY <1>1, <1>2, <2>4, <2>6, BoxSaved
  <2>8. /\ Walks(d, rank, i, ow, K2, last, K2, {}, {})
        /\ last.stored = ow.stored \cup StoredTo(d, Eno(i)) /\ last.temps = ow.temps \cup TempsOf(d, Eno(i))
    BY <2>7 DEF WalksOn
  <2> HIDE DEF last
  <2>9. Walks(d, rank, i, c, K, ow, K2, {<<i, 1>>}, {})
    BY <1>3, <1>10, <2>3, WalksQuiet
  <2>10. Walks(d, rank, i, c, K, last, K2, {<<i, 1>>}, {})
    BY <1>3, <2>8, <2>9, WalksQuiet
  <2>11. Walks(d, rank, i, c, K, last, K2, {i} \X Nat, {i})
    BY <1>12, <2>10, WalksWeaken
  <2>12. Settled(d, last, K2, i)
    <3>1. Readers(d, Out(i)) # {} => Out(i) \in last.temps
      BY <1>9, <2>5, <2>8 DEF TempsOf, out
    <3>2. StoredTo(d, Out(i)) \subseteq last.stored /\ StoredTo(d, Eno(i)) \subseteq last.stored
      BY <1>9, <2>5, <2>8 DEF out
    <3>3. Readers(d, Eno(i)) # {} => Eno(i) \in last.temps
      BY <2>8 DEF TempsOf
    <3> QED BY <1>2, <3>1, <3>2, <3>3 DEF Settled
  <2> QED BY <2>1, <2>11, <2>12 DEF NodeWalk, c
<1>14. CASE ~(Fanout(d, Eno(i)) > 0)
  <2>1. r = out
    BY <1>5, <1>14 DEF CmpEnd
  <2>2. Readers(d, Eno(i)) = {} /\ StoredTo(d, Eno(i)) = {}
    BY <1>1, <1>14, FanoutFacts
  <2>3. Settled(d, out, K2, i)
    <3>1. Readers(d, Out(i)) # {} => Out(i) \in out.temps
      BY <1>9 DEF TempsOf
    <3>2. StoredTo(d, Out(i)) \subseteq out.stored
      BY <1>9
    <3> QED BY <1>2, <2>2, <3>1, <3>2 DEF Settled
  <2> HIDE DEF out
  <2>4. Walks(d, rank, i, c, K, out, K2, {i} \X Nat, {i})
    BY <1>10, <1>12, WalksWeaken
  <2> QED BY <2>1, <2>3, <2>4 DEF NodeWalk, c
<1> QED BY <1>13, <1>14

\* Whatever node is compiled, from whatever progress: what it does.
LEMMA NodesWalk ==
  ASSUME NEW d, NEW rank, NEW N, Fits(d, rank, N)
  PROVE  \A i \in DOMAIN d.nodes : NodeOK(d, rank, Instructions(d), i)
<1> DEFINE h == Instructions(d)
           S == {n \in Nat : \A i \in DOMAIN d.nodes : rank[i] < n => NodeOK(d, rank, h, i)}
<1>1. /\ h \in NodeCode(d)
      /\ \A p \in Progress(d), i \in DOMAIN d.nodes : h[<<p, i>>] = CompileElem(d, h, p, i)
  BY InstructionsDefined
<1>2. N \in Nat /\ rank \in [DOMAIN d.nodes -> 0..N] /\ IsDiagram(d)
  BY DEF Fits
<1> HIDE DEF h
<1>3. 0 \in S
  BY <1>2
<1>4. ASSUME NEW n \in Nat, n \in S PROVE n + 1 \in S
  <2> SUFFICES ASSUME NEW i \in DOMAIN d.nodes, rank[i] < n + 1 PROVE NodeOK(d, rank, h, i)
    OBVIOUS
  <2>1. NodesBefore(d, rank, h, i)
    <3> SUFFICES ASSUME NEW j \in DOMAIN d.nodes, rank[j] < rank[i] PROVE NodeOK(d, rank, h, j)
      BY DEF NodesBefore
    <3>1. rank[j] \in Nat /\ rank[i] \in Nat
      BY <1>2
    <3>2. rank[j] < n
      BY <3>1
    <3> QED BY <1>4, <3>2
  <2>2. Ctx(d, rank, N, h, i)
    BY <1>1, <2>1 DEF Ctx
  <2> SUFFICES ASSUME NEW p \in Progress(d), NEW K, i \notin p.done, Ready(d, rank, p, K, i)
               PROVE  \E K2 : NodeWalk(d, rank, i, p, K, h[<<p, i>>], K2)
    BY DEF NodeOK
  <2>3. \E K2 : NodeWalk(d, rank, i, p, K, CompileElem(d, h, p, i), K2)
    <3>1. CASE Is(d, i, Booleans)
      BY <2>2, <3>1, GateWalks
    <3>2. CASE Is(d, i, {"MOVE"})
      BY <2>2, <3>2, MoveWalks
    <3>3. CASE Is(d, i, {"CMP"})
      BY <2>2, <3>3, CompareWalks
    <3> QED BY <1>2, <3>1, <3>2, <3>3, PinsOfKinds
  <2>4. h[<<p, i>>] = CompileElem(d, h, p, i)
    BY <1>1
  <2> QED BY <2>3, <2>4
<1>5. Nat \subseteq S
  <2> HIDE DEF S
  <2> QED BY <1>3, <1>4, SetInduction
<1> SUFFICES ASSUME NEW i \in DOMAIN d.nodes PROVE NodeOK(d, rank, h, i)
  BY DEF h
<1>6. rank[i] + 1 \in Nat /\ rank[i] < rank[i] + 1
  BY <1>2
<1> QED BY <1>5, <1>6

\* A LOAD operand that is the input of an element and assigned as well.
LoadBoth(d) ==
  \E name \in Loads : Readers(d, Load(name)) # {} /\ StoredTo(d, Load(name)) # {}

\* What holds between two entry points, but for the nodes J.
Partly(d, c, K, J) ==
  /\ c \in Result(d)
  /\ \A x \in K : x[1] \in c.done
  /\ \A j \in c.done \ J : Settled(d, c, K, j)
  /\ c.failed => LoadBoth(d)
  /\ Tidy(c.code, c.done)

\* A LOAD operand that has been loaded is wanted no more, or there is an input
\* for it.
LoadedFor(d, c, pins) ==
  \A pin \in c.loaded : pin \in pins \/ Readers(d, pin) # {} \/ StoredTo(d, pin) \subseteq c.stored

CompilationInv(d, c) == (\E K : Partly(d, c, K, {})) /\ LoadedFor(d, c, {})

LEMMA TidyMore ==
  ASSUME NEW A, NEW a \in Seq(A), NEW b \in Seq(A), NEW D, Tidy(a, D), Tidy(b, {})
  PROVE  Tidy(a \o b, D)
<1>1. Tidy(a \o b, D \cup {})
  <2>1. D \cap {} = {}
    OBVIOUS
  <2> QED BY <2>1, TidyConcat
<1>2. D \cup {} = D
  OBVIOUS
<1> QED BY <1>1, <1>2

SavedPartly(d, c, K, J, r, T, P) ==
  /\ Partly(d, r, K, J)
  /\ r.done = c.done /\ r.loaded = c.loaded
  /\ r.stored = c.stored \cup T /\ r.temps = c.temps \cup P

LoadedPartly(d, c, K, r, pins) ==
  Partly(d, r, K, {}) /\ r.stored = c.stored /\ r.loaded = c.loaded \cup pins

NodeAdded(d, c, i, r) ==
  /\ \E K2 : Partly(d, r, K2, IF Is(d, i, Boxes) THEN {} ELSE {i})
  /\ i \in r.done /\ c.stored \subseteq r.stored
  /\ \A pin \in r.loaded : pin \in c.loaded \/ Readers(d, pin) # {}
  /\ \A s \in r.stored : s \in c.stored \/ Is(d, d.stores[s][1], Boxes)

LEMMA SavesPartly ==
  ASSUME NEW d, NEW c, NEW K, NEW J, Partly(d, c, K, J), NEW r, NEW T, NEW P, Saves(d, c, r, T, P)
  PROVE  SavedPartly(d, c, K, J, r, T, P)
<1>1. PICK insns : /\ Adds(d, c, r, insns, T, P)
                   /\ Assigns(insns, {Stored(s) : s \in T} \cup {Temp(pin) : pin \in P})
  BY DEF Saves
<1>2. /\ r \in Result(d) /\ insns \in Seq(InsnsOf(d))
      /\ r.code = c.code \o insns
      /\ r.done = c.done /\ r.loaded = c.loaded /\ r.failed = c.failed
      /\ r.stored = c.stored \cup T /\ r.temps = c.temps \cup P
  BY <1>1 DEF Adds
<1>3. c.code \in Seq(InsnsOf(d)) /\ Tidy(c.code, c.done)
  BY DEF Partly, Result
<1>4. Tidy(insns, {})
  BY <1>1, AssignsPlain
<1>5. Tidy(r.code, r.done)
  <2>1. Tidy(c.code \o insns, c.done)
    BY <1>2, <1>3, <1>4, TidyMore
  <2> QED BY <1>2, <2>1
<1>6. ASSUME NEW j \in r.done \ J PROVE Settled(d, r, K, j)
  <2>1. Settled(d, c, K, j)
    BY <1>2 DEF Partly
  <2> QED BY <1>2, <2>1, SettledGrows
<1>7. (\A x \in K : x[1] \in r.done) /\ (r.failed => LoadBoth(d))
  BY <1>2 DEF Partly
<1> QED BY <1>2, <1>5, <1>6, <1>7 DEF Partly, SavedPartly

LEMMA LoadsPartly ==
  ASSUME NEW d, NEW c, NEW K, Partly(d, c, K, {}), NEW r, NEW op, NEW arg, NEW pins, NEW failed,
         LoadsOne(d, c, r, Insn(op, arg), pins, failed), op \in Classes, failed => LoadBoth(d)
  PROVE  LoadedPartly(d, c, K, r, pins)
<1> DEFINE s == <<Insn(op, arg)>>
<1>1. /\ r \in Result(d) /\ r.code = c.code \o s
      /\ r.loaded = c.loaded \cup pins /\ r.done = c.done /\ r.failed = failed
      /\ r.stored = c.stored /\ r.temps = c.temps
  BY DEF LoadsOne
<1>2. c.code \in Seq(InsnsOf(d)) /\ Tidy(c.code, c.done)
  BY DEF Partly, Result
<1> DEFINE insn == Insn(op, arg)
<1>3. Tidy(s, {}) /\ s \in Seq({insn})
  <2>1. PlainCode(s)
    BY PlainOne, PlainOps
  <2> QED BY <2>1, PlainTidy
<1> DEFINE A == InsnsOf(d) \cup {insn}
<1>4. c.code \in Seq(A) /\ s \in Seq(A)
  <2>1. \A a \in Seq(InsnsOf(d)) : a \in Seq(A)
    OBVIOUS
  <2> QED BY <1>2, <2>1
<1> HIDE DEF s, A, insn
<1>5. Tidy(r.code, r.done)
  <2>1. Tidy(c.code \o s, c.done)
    BY <1>2, <1>3, <1>4, TidyMore
  <2> QED BY <1>1, <2>1
<1>6. ASSUME NEW j \in r.done PROVE Settled(d, r, K, j)
  <2>1. Settled(d, c, K, j)
    BY <1>1 DEF Partly
  <2> QED BY <1>1, <2>1, SettledGrows
<1>7. (\A x \in K : x[1] \in r.done) /\ (r.failed => LoadBoth(d))
  BY <1>1 DEF Partly
<1> QED BY <1>1, <1>5, <1>6, <1>7 DEF Partly, LoadedPartly

\* A node that is compiled from an entry point.
LEMMA NodePartly ==
  ASSUME NEW d, NEW rank, NEW N, Fits(d, rank, N), NEW c, NEW K, Partly(d, c, K, {}),
         NEW i \in DOMAIN d.nodes, i \notin c.done
  PROVE  NodeAdded(d, c, i, CompileNode(d, c, i))
<1> DEFINE h == Instructions(d)
           r == CompileNode(d, c, i)
           p == Prog(c)
           new == NewCode(h, c, i)
           q0 == Running(p, i)
           A == InsnsOf(d)
<1>1. h \in NodeCode(d) /\ NodeOK(d, rank, h, i)
  BY InstructionsDefined, NodesWalk
<1>2. c \in Result(d)
  BY DEF Partly
<1>3. p \in Progress(d) /\ p.done = c.done /\ p.code = <<>> /\ p.loaded = c.loaded /\ p.failed = c.failed
      /\ p.stored = c.stored /\ p.temps = c.temps /\ p \in Result(d)
  BY <1>2, ProgTyped, ProgressResult
<1>4. Ready(d, rank, p, K, i)
  <2>1. ASSUME NEW j \in c.done PROVE Settled(d, p, K, j)
    <3>1. Settled(d, c, K, j)
      BY DEF Partly
    <3> QED BY <1>3, <3>1, SettledGrows
  <2>2. \A x \in K : x[1] \in p.done
    BY <1>3 DEF Partly
  <2> HIDE DEF p
  <2> QED BY <1>3, <2>1, <2>2 DEF Ready
<1>5. Extends(d, c, new, r)
  <2>1. r = Compiled(h, c, i)
    BY DEF CompileNode
  <2> QED BY <1>1, <1>2, <2>1, CompiledExtends
<1>6. new = h[<<p, i>>]
  BY DEF NewCode
<1> HIDE DEF h, r, p, new
<1>7. PICK K2 : NodeWalk(d, rank, i, p, K, new, K2)
  BY <1>1, <1>3, <1>4, <1>6 DEF NodeOK
<1>8. /\ q0.code = <<>> /\ q0.done = c.done \cup {i} /\ q0.loaded = c.loaded /\ q0.failed = c.failed
      /\ q0.stored = c.stored /\ q0.temps = c.temps
  BY <1>3, RunningTyped
<1>9. Walks(d, rank, i, q0, K, new, K2, {i} \X Nat, {i}) /\ (Is(d, i, Boxes) => Settled(d, new, K2, i))
  BY <1>7 DEF NodeWalk
<1> HIDE DEF q0
<1>10. /\ new \in Result(d) /\ r \in Result(d)
       /\ r.code = c.code \o new.code
       /\ r.done = new.done /\ r.loaded = new.loaded /\ r.failed = new.failed
       /\ r.stored = new.stored /\ r.temps = new.temps
  BY <1>5 DEF Extends
<1>11. /\ c.done \cup {i} \subseteq r.done /\ c.temps \subseteq r.temps /\ c.stored \subseteq r.stored
       /\ r.failed = c.failed
       /\ K \subseteq K2 /\ \A x \in K2 : x \in K \/ x \in {i} \X Nat \/ x[1] \in r.done \ q0.done
       /\ \A k \in r.done \ q0.done : Settled(d, new, K2, k)
       /\ \A pin \in r.loaded : pin \in c.loaded \/ Readers(d, pin) # {}
       /\ \A s \in r.stored :
            \/ s \in c.stored
            \/ Is(d, d.stores[s][1], Boxes)
  BY <1>8, <1>9, <1>10 DEF Walks
<1>12. PICK w \in Seq(A) : new.code = q0.code \o w /\ Tidy(w, (new.done \ q0.done) \cup {i})
  BY <1>9 DEF Walks
<1>13. Tidy(r.code, r.done)
  <2>1. new.code = w
    <3>1. \A u \in Seq(A) : <<>> \o u = u
      BY EmptySeq, ConcatEmptySeq
    <3> QED BY <1>8, <1>12, <3>1, Zenon
  <2> DEFINE D == (new.done \ q0.done) \cup {i}
             cc == c.code
  <2>2. cc \in Seq(A) /\ Tidy(cc, c.done)
    BY <1>2 DEF Partly, Result
  <2>3. c.done \cap D = {} /\ c.done \cup D = r.done
    BY <1>8, <1>10, <1>11
  <2>4. Tidy(w, D)
    BY <1>12
  <2> HIDE DEF D, cc
  <2>5. Tidy(cc \o w, c.done \cup D)
    BY <2>2, <2>3, <2>4, TidyConcat
  <2> QED BY <1>10, <2>1, <2>3, <2>5 DEF cc
<1> DEFINE J == IF Is(d, i, Boxes) THEN {} ELSE {i}
<1>14. ASSUME NEW j \in r.done \ J PROVE Settled(d, r, K2, j)
  <2>1. Settled(d, new, K2, j)
    <3>1. CASE j \in c.done
      <4>1. Settled(d, c, K, j)
        BY <3>1 DEF Partly
      <4> QED BY <1>10, <1>11, <4>1, SettledGrows
    <3>2. CASE j = i
      BY <1>9, <1>14, <3>2
    <3>3. CASE j \notin c.done \cup {i}
      BY <1>8, <1>11, <3>3
    <3> QED BY <3>1, <3>2, <3>3
  <2> QED BY <1>10, <2>1, SettledGrows
<1>15. \A x \in K2 : x[1] \in r.done
  BY <1>11 DEF Partly
<1>16. r.failed => LoadBoth(d)
  BY <1>11 DEF Partly
<1>17. Partly(d, r, K2, J)
  BY <1>10, <1>13, <1>14, <1>15, <1>16 DEF Partly
<1>18. NodeAdded(d, c, i, r)
  BY <1>11, <1>17 DEF NodeAdded
<1> QED BY <1>18 DEF r

LEMMA NothingInv ==
  ASSUME NEW d
  PROVE  CompilationInv(d, Nothing)
<1>1. /\ Nothing.code = <<>> /\ Nothing.done = {} /\ Nothing.loaded = {} /\ Nothing.failed = FALSE
  BY DEF Nothing
<1>2. Tidy(<<>>, {})
  BY PlainNil, PlainTidy
<1>3. Partly(d, Nothing, {}, {})
  BY <1>1, <1>2, NothingTyped DEF Partly
<1> QED BY <1>1, <1>3 DEF CompilationInv, LoadedFor

\* The last steps of an entry point: its operands are stored.
LEMMA AssignEnds ==
  ASSUME NEW d, IsDiagram(d), NEW f, NEW K, NEW s \in DOMAIN d.stores, NEW pin, pin = d.stores[s],
         NEW J, J \subseteq {pin[1]}, \A j \in J : Is(d, j, Booleans) /\ pin = Out(j),
         Partly(d, f, K, J), LoadedFor(d, f, {pin}), s \notin f.stored,
         NEW kept, NEW last,
         kept = IF Is(d, pin[1], Booleans) /\ Fanout(d, pin) > 1
                THEN StoreToTemp(StoreAll(f, {s}), pin) ELSE StoreAll(f, {s}),
         last = StoreAll(kept, StoredTo(d, pin) \ {s})
  PROVE  CompilationInv(d, last)
<1> DEFINE one == StoreAll(f, {s})
           rest == StoredTo(d, pin) \ {s}
<1>1. f \in Result(d)
  BY DEF Partly
<1>2. {s} \in SUBSET DOMAIN d.stores /\ rest \in SUBSET DOMAIN d.stores /\ s \in StoredTo(d, pin)
  BY DEF StoredTo
<1>3. Saves(d, f, one, {s}, {})
  BY <1>1, <1>2, StoreAllSaves
<1> HIDE DEF one
<1>4. /\ Partly(d, one, K, J) /\ one.loaded = f.loaded
      /\ one.done = f.done /\ one.stored = f.stored \cup {s} /\ one.temps = f.temps \cup {}
  <2>1. SavedPartly(d, f, K, J, one, {s}, {})
    BY <1>3, SavesPartly
  <2> QED BY <2>1 DEF SavedPartly
<1> DEFINE P == IF Is(d, pin[1], Booleans) /\ Fanout(d, pin) > 1 THEN {pin} ELSE {}
<1>5. /\ Partly(d, kept, K, J) /\ kept.loaded = f.loaded
      /\ kept.done = f.done /\ kept.stored = f.stored \cup {s} /\ kept.temps = f.temps \cup P
  <2>1. CASE Is(d, pin[1], Booleans) /\ Fanout(d, pin) > 1
    <3>1. kept = StoreToTemp(one, pin)
      BY <2>1 DEF one
    <3>2. pin \in Wired(d) /\ one \in Result(d)
      BY <1>4, WiredPins DEF Partly
    <3>3. Saves(d, one, kept, {}, {pin})
      BY <3>1, <3>2, StoreToTempSaves
    <3>4. /\ Partly(d, kept, K, J) /\ kept.loaded = one.loaded
          /\ kept.done = one.done /\ kept.stored = one.stored \cup {} /\ kept.temps = one.temps \cup {pin}
      <4>1. SavedPartly(d, one, K, J, kept, {}, {pin})
        BY <1>4, <3>3, SavesPartly
      <4> QED BY <4>1 DEF SavedPartly
    <3> QED BY <1>4, <2>1, <3>4
  <2>2. CASE ~(Is(d, pin[1], Booleans) /\ Fanout(d, pin) > 1)
    <3>1. kept = one
      BY <2>2 DEF one
    <3> QED BY <1>4, <2>2, <3>1
  <2> QED BY <2>1, <2>2
<1>6. Saves(d, kept, last, rest, {})
  <2>1. kept \in Result(d)
    BY <1>5 DEF Partly
  <2> HIDE DEF rest
  <2>2. last = StoreAll(kept, rest)
    BY DEF rest
  <2> QED BY <1>2, <2>1, <2>2, StoreAllSaves
<1> HIDE DEF P, rest
<1>7. /\ Partly(d, last, K, J) /\ last.loaded = f.loaded
      /\ last.done = f.done /\ last.stored = (f.stored \cup {s}) \cup rest /\ last.temps = (f.temps \cup P) \cup {}
  <2>1. /\ Partly(d, last, K, J) /\ last.loaded = kept.loaded
        /\ last.done = kept.done /\ last.stored = kept.stored \cup rest /\ last.temps = kept.temps \cup {}
    <3>1. SavedPartly(d, kept, K, J, last, rest, {})
      BY <1>5, <1>6, SavesPartly
    <3> QED BY <3>1 DEF SavedPartly
  <2> QED BY <1>5, <2>1
<1>8. ASSUME NEW j \in J PROVE Settled(d, last, K, j)
  <2>1. Is(d, j, Booleans) /\ pin = Out(j) /\ ~Is(d, j, Boxes) /\ j = pin[1]
    <3>1. Is(d, j, Booleans) /\ pin = Out(j) /\ j = pin[1]
      OBVIOUS
    <3>2. j \in DOMAIN d.nodes
      BY <3>1 DEF Is
    <3> QED BY <3>1, <3>2, PinsOfKinds
  <2>2. CASE Fanout(d, pin) > 1
    <3>1. pin \in last.temps
      BY <1>7, <2>1, <2>2 DEF P
    <3> QED BY <2>1, <3>1 DEF Settled
  <2>3. CASE ~(Fanout(d, pin) > 1)
    <3>1. s \in StoredTo(d, pin) \cap last.stored
      BY <1>2, <1>7
    <3> QED BY <2>1, <2>3, <3>1 DEF Settled
  <2> QED BY <2>2, <2>3
<1>9. Partly(d, last, K, {})
  BY <1>7, <1>8 DEF Partly
<1>10. LoadedFor(d, last, {})
  <2>1. StoredTo(d, pin) \subseteq last.stored /\ f.stored \subseteq last.stored
    BY <1>7 DEF rest
  <2> QED BY <1>7, <2>1 DEF LoadedFor
<1> QED BY <1>9, <1>10 DEF CompilationInv

LEMMA NodeKeeps ==
  ASSUME NEW d, IsOrdered(d), NEW c, CompilationInv(d, c), NEW i \in DOMAIN d.nodes, i \notin c.done,
         Is(d, i, Boxes)
  PROVE  CompilationInv(d, CompileNode(d, c, i))
<1>1. PICK rank, N : Fits(d, rank, N)
  BY DEF IsOrdered
<1>2. PICK K : Partly(d, c, K, {})
  BY DEF CompilationInv
<1> DEFINE r == CompileNode(d, c, i)
<1>3. /\ \E K2 : Partly(d, r, K2, IF Is(d, i, Boxes) THEN {} ELSE {i})
      /\ c.stored \subseteq r.stored
      /\ \A pin \in r.loaded : pin \in c.loaded \/ Readers(d, pin) # {}
  <2>1. NodeAdded(d, c, i, CompileNode(d, c, i))
    BY <1>1, <1>2, NodePartly
  <2> QED BY <2>1 DEF NodeAdded
<1> HIDE DEF r
<1>4. \E K2 : Partly(d, r, K2, {})
  BY <1>3
<1>5. LoadedFor(d, r, {})
  BY <1>3 DEF CompilationInv, LoadedFor
<1> QED BY <1>4, <1>5 DEF CompilationInv, r

LEMMA AssignKeeps ==
  ASSUME NEW d, IsOrdered(d), NEW c, CompilationInv(d, c), NEW s \in DOMAIN d.stores, s \notin c.stored
  PROVE  CompilationInv(d, CompileAssign(d, c, s))
<1>1. PICK rank, N : Fits(d, rank, N)
  BY DEF IsOrdered
<1>2. PICK K : Partly(d, c, K, {})
  BY DEF CompilationInv
<1>3. IsDiagram(d) /\ c \in Result(d) /\ LoadedFor(d, c, {})
  BY <1>1, <1>2 DEF Fits, Partly, CompilationInv
<1> DEFINE pin == d.stores[s]
           j == pin[1]
           f == AssignFirst(d, c, s)
           r == CompileAssign(d, c, s)
           kept == AssignKept(d, c, s)
           last == AssignLast(d, c, s)
<1>4. pin \in Wired(d) /\ pin \in GridPins(d) /\ s \in StoredTo(d, pin)
  BY <1>3, WiredPins DEF StoredTo
<1>5. j # 0 => j \in DOMAIN d.nodes /\ pin \in PinsOf(d, j)
  BY <1>3, <1>4, KindsOfPins
<1>6. "U" \in Classes
  BY DEF Classes
<1>7. \A J, K2 : /\ J \subseteq {j} /\ (\A x \in J : Is(d, x, Booleans) /\ pin = Out(x))
                 /\ Partly(d, f, K2, J) /\ LoadedFor(d, f, {pin}) /\ s \notin f.stored
                 => CompilationInv(d, r)
  <2> SUFFICES ASSUME NEW J, NEW K2, J \subseteq {j}, \A x \in J : Is(d, x, Booleans) /\ pin = Out(x),
                      Partly(d, f, K2, J), LoadedFor(d, f, {pin}), s \notin f.stored
               PROVE  CompilationInv(d, r)
    OBVIOUS
  <2>1. r = last
    BY AssignCases
  <2>2. /\ kept = IF Is(d, pin[1], Booleans) /\ Fanout(d, pin) > 1
                  THEN StoreToTemp(StoreAll(f, {s}), pin) ELSE StoreAll(f, {s})
        /\ last = StoreAll(kept, StoredTo(d, pin) \ {s})
    BY Zenon DEF AssignKept, AssignLast
  <2> HIDE DEF f, r, kept, last, pin
  <2>3. pin = d.stores[s]
    BY DEF pin
  <2>4. CompilationInv(d, last)
    BY <1>3, <2>2, <2>3, AssignEnds
  <2> QED BY <2>1, <2>4
<1>8. CASE j = 0 /\ pin \notin c.loaded
  <2>1. f = CompileLoad(c, "U", pin)
    BY <1>8 DEF AssignFirst
  <2>2. LoadsOne(d, c, f, Insn("U", pin), {pin}, c.failed)
    BY <1>3, <1>4, <1>6, <2>1, LoadsAre
  <2>3. c.failed => LoadBoth(d)
    BY <1>2 DEF Partly
  <2> HIDE DEF f, pin
  <2>4. Partly(d, f, K, {}) /\ f.stored = c.stored /\ f.loaded = c.loaded \cup {pin}
    <3>1. LoadedPartly(d, c, K, f, {pin})
      BY <1>2, <1>6, <2>2, <2>3, LoadsPartly
    <3> QED BY <3>1 DEF LoadedPartly
  <2>5. LoadedFor(d, f, {pin})
    BY <1>3, <2>4 DEF LoadedFor
  <2> QED BY <1>7, <2>4, <2>5
<1>9. CASE j = 0 /\ pin \in c.loaded
  <2>1. f = LoadFromTemp(c, "U", pin)
    BY <1>9 DEF AssignFirst
  <2>2. LoadsOne(d, c, f, Insn("U", Temp(pin)), {}, c.failed \/ pin \notin c.temps)
    BY <1>3, <1>4, <1>6, <2>1, LoadsAre
  <2>3. LoadBoth(d)
    <3>1. pin = Load(pin[2]) /\ pin[2] \in Loads
      BY <1>3, <1>4, <1>9, KindsOfPins
    <3>2. Readers(d, pin) # {}
      BY <1>3, <1>4, <1>9 DEF LoadedFor
    <3> QED BY <1>4, <3>1, <3>2 DEF LoadBoth
  <2> HIDE DEF f, pin
  <2>4. Partly(d, f, K, {}) /\ f.stored = c.stored /\ f.loaded = c.loaded \cup {}
    <3>1. LoadedPartly(d, c, K, f, {})
      BY <1>2, <1>6, <2>2, <2>3, LoadsPartly
    <3> QED BY <3>1 DEF LoadedPartly
  <2>5. LoadedFor(d, f, {pin})
    BY <1>3, <2>4 DEF LoadedFor
  <2> QED BY <1>7, <2>4, <2>5
<1>10. CASE j # 0 /\ j \in c.done
  <2>1. f = LoadFromTemp(c, "U", pin)
    BY <1>10 DEF AssignFirst
  <2>2. LoadsOne(d, c, f, Insn("U", Temp(pin)), {}, c.failed \/ pin \notin c.temps)
    BY <1>3, <1>4, <1>6, <2>1, LoadsAre
  <2>3. Settled(d, c, K, j)
    BY <1>2, <1>10 DEF Partly
  <2>4. pin \in c.temps
    <3>1. CASE Is(d, j, Booleans)
      <4>1. pin = Out(j)
        BY <1>3, <1>5, <1>10, <3>1, PinsOfKinds
      <4>2. ASSUME pin \notin c.temps PROVE FALSE
        <5>1. /\ ~(Fanout(d, pin) > 1)
              /\ K \cap Readers(d, pin) # {} \/ StoredTo(d, pin) \cap c.stored # {}
          BY <2>3, <3>1, <4>1, <4>2 DEF Settled
        <5>2. CASE K \cap Readers(d, pin) # {}
          BY <1>3, <1>4, <5>1, <5>2, FanoutFacts
        <5>3. CASE StoredTo(d, pin) \cap c.stored # {}
          <6>1. PICK t : t \in StoredTo(d, pin) /\ t \in c.stored
            BY <5>3
          <6>2. t # s
            BY <6>1
          <6> QED BY <1>3, <1>4, <5>1, <6>1, <6>2, FanoutFacts
        <5> QED BY <5>1, <5>2, <5>3
      <4> QED BY <4>2
    <3>2. CASE Is(d, j, Boxes)
      BY <1>4, <1>5, <1>10, <2>3, <3>2 DEF Settled
    <3> QED BY <1>3, <1>5, <1>10, <3>1, <3>2, PinsOfKinds
  <2>5. c.failed \/ pin \notin c.temps => LoadBoth(d)
    BY <1>2, <2>4 DEF Partly
  <2> HIDE DEF f, pin
  <2>6. Partly(d, f, K, {}) /\ f.stored = c.stored /\ f.loaded = c.loaded \cup {}
    <3>1. LoadedPartly(d, c, K, f, {})
      BY <1>2, <1>6, <2>2, <2>5, LoadsPartly
    <3> QED BY <3>1 DEF LoadedPartly
  <2>7. LoadedFor(d, f, {pin})
    BY <1>3, <2>6 DEF LoadedFor
  <2> QED BY <1>7, <2>6, <2>7
<1>11. CASE j # 0 /\ j \notin c.done
  <2>1. f = CompileNode(d, c, j)
    BY <1>11 DEF AssignFirst
  <2>2. j \in DOMAIN d.nodes /\ pin \in PinsOf(d, j)
    BY <1>5, <1>11
  <2>5. NodeAdded(d, c, j, f)
    <3> HIDE DEF j, pin
    <3>1. NodeAdded(d, c, j, CompileNode(d, c, j))
      BY <1>1, <1>2, <1>11, <2>2, NodePartly
    <3> QED BY <2>1, <3>1
  <2>3. CASE Is(d, j, Boxes)
    <3>1. CompilationInv(d, f)
      BY <1>11, <2>1, <2>2, <2>3, NodeKeeps
    <3>2. s \in f.stored
      <4>1. j \in f.done
        BY <2>5 DEF NodeAdded
      <4>2. Settled(d, f, CHOOSE x : Partly(d, f, x, {}), j)
        <5>1. \E x : Partly(d, f, x, {})
          BY <3>1 DEF CompilationInv
        <5> DEFINE k == CHOOSE x : Partly(d, f, x, {})
        <5>2. Partly(d, f, k, {})
          BY <5>1
        <5> HIDE DEF k
        <5>3. Settled(d, f, k, j)
          BY <4>1, <5>2 DEF Partly
        <5> QED BY <5>3 DEF k
      <4>3. StoredTo(d, pin) \subseteq f.stored
        BY <2>2, <2>3, <4>2 DEF Settled
      <4> QED BY <1>4, <4>3
    <3>3. r = f
      BY <3>2, AssignCases
    <3> QED BY <3>1, <3>3
  <2>4. CASE Is(d, j, Booleans)
    <3>1. ~Is(d, j, Boxes) /\ pin = Out(j)
      BY <1>3, <2>2, <2>4, PinsOfKinds
    <3>2. /\ \E K2 : Partly(d, f, K2, IF Is(d, j, Boxes) THEN {} ELSE {j})
          /\ c.stored \subseteq f.stored
          /\ \A q0 \in f.loaded : q0 \in c.loaded \/ Readers(d, q0) # {}
          /\ \A t \in f.stored : t \in c.stored \/ Is(d, d.stores[t][1], Boxes)
      BY <2>5 DEF NodeAdded
    <3>3. PICK K2 : Partly(d, f, K2, {j})
      BY <3>1, <3>2
    <3>4. s \notin f.stored
      BY <3>1, <3>2
    <3>5. LoadedFor(d, f, {pin})
      BY <1>3, <3>2 DEF LoadedFor
    <3>6. \A x \in {j} : Is(d, x, Booleans) /\ pin = Out(x)
      BY <2>4, <3>1
    <3>7. CompilationInv(d, r)
      <4> HIDE DEF f, pin, r, j
      <4> QED BY <1>7, <3>3, <3>4, <3>5, <3>6
    <3> QED BY <3>7
  <2> QED BY <1>3, <2>2, <2>3, <2>4, PinsOfKinds
<1> QED BY <1>8, <1>9, <1>10, <1>11

\* What a compilation makes when every entry point has been compiled.
Finished(code0) ==
  \E last \in BOOLEAN : code0 = compiled.code \o (IF last THEN <<Plain("BE")>> ELSE <<>>)
AllCompiled ==
  DOMAIN diagram.stores \subseteq compiled.stored /\ Moves(diagram) \subseteq compiled.done

\* What holds of a grid and its code.
CodeInv ==
  /\ GridInv
  /\ phase # "draw" => CompilationInv(diagram, compiled)
  /\ Done => AllCompiled
  /\ phase = "compiled" => Finished(code)
  /\ phase = "optimized" =>
       \E code0, enabled : Finished(code0) /\ enabled \subseteq Passes /\ code = OptimizeInsns(code0, enabled)

LEMMA DrawingKeeps ==
  ASSUME CodeInv, GridInv', phase = "draw", phase' = "draw"
  PROVE  CodeInv'
BY DEF CodeInv, Done

LEMMA CodeInvInit ==
  GridInit => CodeInv
<1> SUFFICES ASSUME GridInit PROVE CodeInv
  OBVIOUS
<1>1. phase = "draw"
  BY DEF GridInit
<1> QED BY <1>1, GridInvInit DEF CodeInv, Done

LEMMA CodeInvStep ==
  ASSUME CodeInv, [GridNext]_gridVars, GridInv'
  PROVE  CodeInv'
<1>0. GridInv
  BY DEF CodeInv
<1>1. CASE \E node : Draw(node)
  BY <1>1, DrawingKeeps DEF Draw
<1>2. CASE \E s \in Stores, pin \in Pins : AssignOperand(s, pin)
  BY <1>2, DrawingKeeps DEF AssignOperand
<1>3. CASE Start
  <2>1. compiled' = Nothing /\ phase' = "compile"
    BY <1>0, <1>3 DEF Start, GridInv
  <2>2. CompilationInv(diagram', compiled')
    BY <2>1, NothingInv
  <2> QED BY <2>1, <2>2 DEF CodeInv, Done
<1>4. ASSUME NEW s \in Stores, CompileAssignment(s) PROVE CodeInv'
  <2>1. /\ phase = "compile" /\ phase' = "compile" /\ diagram' = diagram
        /\ s \in DOMAIN diagram.stores /\ s \notin compiled.stored
        /\ compiled' = CompileAssign(diagram, compiled, s)
    BY <1>4 DEF CompileAssignment
  <2>2. CompilationInv(diagram, compiled) /\ IsOrdered(diagram)
    BY <2>1 DEF CodeInv, GridInv
  <2>3. CompilationInv(diagram, CompileAssign(diagram, compiled, s))
    BY <2>1, <2>2, AssignKeeps
  <2>4. CompilationInv(diagram', compiled')
    BY <2>1, <2>3
  <2> QED BY <2>1, <2>4 DEF CodeInv, Done
<1>5. ASSUME NEW i \in Nodes, CompileTransfer(i) PROVE CodeInv'
  <2>1. /\ phase = "compile" /\ phase' = "compile" /\ diagram' = diagram
        /\ i \in DOMAIN diagram.nodes /\ i \notin compiled.done /\ Is(diagram, i, Boxes)
        /\ compiled' = CompileNode(diagram, compiled, i)
    BY <1>5 DEF CompileTransfer, Nodes, Moves, Is, Boxes
  <2>2. CompilationInv(diagram, compiled) /\ IsOrdered(diagram)
    BY <2>1 DEF CodeInv, GridInv
  <2>3. CompilationInv(diagram, CompileNode(diagram, compiled, i))
    BY <2>1, <2>2, NodeKeeps
  <2>4. CompilationInv(diagram', compiled')
    BY <2>1, <2>3
  <2> QED BY <2>1, <2>4 DEF CodeInv, Done
<1>6. ASSUME NEW last \in BOOLEAN, Finish(last) PROVE CodeInv'
  <2>1. /\ phase = "compile" /\ phase' = "compiled" /\ diagram' = diagram /\ compiled' = compiled
        /\ code' = compiled.code \o (IF last THEN <<Plain("BE")>> ELSE <<>>)
        /\ AllCompiled
    BY <1>6 DEF Finish, AllCompiled
  <2>2. AllCompiled' /\ Finished(code)'
    BY <2>1 DEF AllCompiled, Finished
  <2> QED BY <2>1, <2>2 DEF CodeInv, Done
<1>7. ASSUME NEW enabled \in SUBSET Passes, Optimize(enabled) PROVE CodeInv'
  <2>1. /\ phase = "compiled" /\ phase' = "optimized" /\ diagram' = diagram /\ compiled' = compiled
        /\ code' = OptimizeInsns(code, enabled) /\ enabled \subseteq Passes
    BY <1>7 DEF Optimize
  <2>2. AllCompiled /\ Finished(code)
    BY <2>1 DEF CodeInv, Done
  <2>3. AllCompiled' /\ \A code0 : Finished(code0) => Finished(code0)'
    BY <2>1, <2>2 DEF AllCompiled, Finished
  <2>4. (\E code0, on : Finished(code0) /\ on \subseteq Passes /\ code = OptimizeInsns(code0, on))'
    <3>1. PICK code0 : code0 = code
      OBVIOUS
    <3>2. Finished(code0)'
      BY <2>2, <2>3, <3>1
    <3>3. code' = OptimizeInsns(code0, enabled)
      BY <2>1, <3>1
    <3> QED BY <2>1, <3>2, <3>3
  <2>5. CompilationInv(diagram', compiled')
    BY <2>1 DEF CodeInv
  <2> QED BY <2>1, <2>3, <2>4, <2>5 DEF CodeInv, Done
<1>8. CASE UNCHANGED gridVars
  BY <1>0, <1>8 DEF CodeInv, gridVars, Done, AllCompiled, Finished
<1>9. (\E node : Draw(node)) \/ (\E s \in Stores, pin \in Pins : AssignOperand(s, pin)) \/ Start
      \/ (\E s \in Stores : CompileAssignment(s)) \/ (\E i \in Nodes : CompileTransfer(i))
      \/ (\E last \in BOOLEAN : Finish(last)) \/ (\E enabled \in SUBSET Passes : Optimize(enabled))
      \/ UNCHANGED gridVars
  BY DEF GridNext, DrawBoolean, DrawBox
<1> QED BY <1>1, <1>2, <1>3, <1>4, <1>5, <1>6, <1>7, <1>8, <1>9

THEOREM CodeInvCorrect == GridSpec => []CodeInv
<1>1. GridInit => CodeInv
  BY CodeInvInit
<1>2. CodeInv /\ [GridNext]_gridVars /\ GridInv' => CodeInv'
  BY CodeInvStep
<1> QED BY <1>1, <1>2, GridInvCorrect, PTL DEF GridSpec

(***************************************************************************)
(* The optimizer, on code whose jumps can be resolved.                     *)
(***************************************************************************)

\* Every label is there once, every jump has its label, and it is its own one
\* or there is a transfer behind it.
Laid(code0) ==
  /\ \A j, k \in DOMAIN code0 :
       code0[j].label = code0[k].label => j = k \/ code0[j].label = NoLabel
  /\ \A k \in DOMAIN code0 : Jumps(code0[k]) =>
       /\ code0[k].arg # NoLabel /\ HasLabel(code0, code0[k].arg)
       /\ \/ code0[k].label = code0[k].arg
          \/ k + 1 \in DOMAIN code0 /\ code0[k + 1].op = "T"

LEMMA TidyLaid ==
  ASSUME NEW code0, NEW D, Tidy(code0, D)
  PROVE  Laid(code0)
BY DEF Tidy, Laid

LEMMA LaidResolvable ==
  ASSUME NEW code0, Laid(code0)
  PROVE  Resolvable(code0)
BY DEF Laid, Resolvable, HasLabel

LEMMA LaidPlain ==
  ASSUME NEW A, NEW a \in Seq(A), NEW b \in Seq(A), Laid(a),
         \A k \in DOMAIN b : b[k].label = NoLabel /\ ~Jumps(b[k])
  PROVE  Laid(a \o b)
<1> DEFINE ab == a \o b
           m == Len(a)
<1>1. /\ m \in Nat /\ DOMAIN a = 1..m
      /\ \A k \in DOMAIN a : k \in DOMAIN ab /\ ab[k] = a[k]
      /\ \A k \in DOMAIN b : m + k \in DOMAIN ab /\ ab[m + k] = b[k]
      /\ \A k \in DOMAIN ab : k \in DOMAIN a \/ \E l \in DOMAIN b : k = m + l
  BY ConcatFacts
<1> HIDE DEF ab, m
<1>2. \A k \in DOMAIN ab : ab[k].label # NoLabel \/ Jumps(ab[k]) => k \in DOMAIN a /\ ab[k] = a[k]
  BY <1>1
<1>3. ASSUME NEW k \in DOMAIN ab, Jumps(ab[k])
      PROVE  /\ ab[k].arg # NoLabel /\ HasLabel(ab, ab[k].arg)
             /\ ab[k].label = ab[k].arg \/ (k + 1 \in DOMAIN ab /\ ab[k + 1].op = "T")
  <2>1. k \in DOMAIN a /\ ab[k] = a[k]
    BY <1>2, <1>3
  <2>2. /\ a[k].arg # NoLabel /\ HasLabel(a, a[k].arg)
        /\ a[k].label = a[k].arg \/ (k + 1 \in DOMAIN a /\ a[k + 1].op = "T")
    BY <1>3, <2>1 DEF Laid
  <2>3. HasLabel(ab, a[k].arg)
    BY <1>1, <2>2 DEF HasLabel
  <2> QED BY <1>1, <2>1, <2>2, <2>3
<1>4. \A j, k \in DOMAIN ab : ab[j].label = ab[k].label => j = k \/ ab[j].label = NoLabel
  BY <1>2 DEF Laid
<1>5. Laid(ab)
  BY <1>3, <1>4 DEF Laid
<1> QED BY <1>5 DEF ab

\* The walk of the pass over the code.
NopWalk(code0, w) ==
  /\ w[0] = [code |-> <<>>, label |-> NoLabel]
  /\ \A k \in 1..Len(code0) : w[k] = NopStep(code0, w[k - 1], k)

LEMMA NopWalkDefined ==
  ASSUME NEW code0, Len(code0) \in Nat
  PROVE  \E w : NopWalk(code0, w) /\ NopRemove(code0) = w[Len(code0)].code
<1> DEFINE n == Len(code0)
           start == [code |-> <<>>, label |-> NoLabel]
           Steps(m, g) == g = [k \in 0..m |-> g[k]] /\ g[0] = start /\ \A k \in 1..m : g[k] = NopStep(code0, g[k - 1], k)
           S == {m \in Nat : \E g : Steps(m, g)}
<1>1. n \in Nat
  OBVIOUS
<1> HIDE DEF start
<1>2. 0 \in S
  <2>1. Steps(0, [k \in 0..0 |-> start])
    OBVIOUS
  <2> QED BY <2>1
<1>3. ASSUME NEW m \in Nat, m \in S PROVE m + 1 \in S
  <2>1. PICK g : Steps(m, g)
    BY <1>3
  <2> DEFINE h == [k \in 0..(m + 1) |-> IF k <= m THEN g[k] ELSE NopStep(code0, g[m], m + 1)]
  <2>2. h = [k \in 0..(m + 1) |-> h[k]] /\ h[0] = start
    BY <2>1
  <2>3. ASSUME NEW k \in 1..(m + 1) PROVE h[k] = NopStep(code0, h[k - 1], k)
    <3>1. k - 1 \in 0..m /\ h[k - 1] = g[k - 1]
      OBVIOUS
    <3>2. CASE k <= m
      <4>1. k \in 1..m /\ h[k] = g[k]
        BY <3>2
      <4>2. g[k] = NopStep(code0, g[k - 1], k)
        BY <2>1, <4>1
      <4> QED BY <3>1, <4>1, <4>2
    <3>3. CASE k = m + 1
      BY <3>1, <3>3
    <3> QED BY <3>2, <3>3
  <2>4. Steps(m + 1, h)
    BY <2>2, <2>3
  <2> HIDE DEF h, Steps
  <2> QED BY <2>4
<1> HIDE DEF S
<1>4. n \in S
  BY <1>1, <1>2, <1>3, SetInduction
<1>5. PICK g : Steps(n, g)
  BY <1>4 DEF S
<1> HIDE DEF n
<1>6. g = [k \in 0..n |-> IF k = 0 THEN start ELSE NopStep(code0, g[k - 1], k)]
  <2>1. ASSUME NEW k \in 0..n PROVE g[k] = IF k = 0 THEN start ELSE NopStep(code0, g[k - 1], k)
    <3>1. k # 0 => k \in 1..n
      BY <1>1
    <3> QED BY <1>5, <3>1
  <2> QED BY <1>5, <2>1
<1> DEFINE j == CHOOSE f : f = [k \in 0..n |-> IF k = 0 THEN start ELSE NopStep(code0, f[k - 1], k)]
<1>7. j = [k \in 0..n |-> IF k = 0 THEN start ELSE NopStep(code0, j[k - 1], k)]
  BY <1>6, Zenon
<1>8. NopRemove(code0) = j[n].code
  BY Zenon DEF NopRemove, n, start
<1> HIDE DEF j
<1>9. PICK f : f = j
  OBVIOUS
<1>10. f = [k \in 0..n |-> IF k = 0 THEN start ELSE NopStep(code0, f[k - 1], k)]
  BY <1>7, <1>9, Zenon
<1>11. f[0] = start /\ \A k \in 1..n : f[k] = NopStep(code0, f[k - 1], k)
  BY <1>1, <1>10
<1>12. NopWalk(code0, f)
  BY <1>11 DEF NopWalk, start, n
<1> QED BY <1>8, <1>9, <1>12 DEF n

\* One step of it.
NopInsn(code0, s, k) == IF s.label = NoLabel THEN code0[k] ELSE Labelled(s.label, code0[k])
NopGoes(code0, s, k) ==
  LET insn == NopInsn(code0, s, k)
  IN insn.op = "NOP" /\ (insn.label = NoLabel \/ (k < Len(code0) /\ code0[k + 1].label = NoLabel))
NopStates(d) == [code : Seq(InsnsOf(d)), label : Args(d)]

LEMMA NopStepCases ==
  ASSUME NEW d, IsDiagram(d), NEW code0 \in Seq(InsnsOf(d)), NEW s \in NopStates(d), NEW k \in DOMAIN code0
  PROVE  LET insn == NopInsn(code0, s, k)
             r == NopStep(code0, s, k)
         IN /\ insn \in InsnsOf(d) /\ insn.op = code0[k].op /\ insn.arg = code0[k].arg
            /\ insn.label = IF s.label = NoLabel THEN code0[k].label ELSE s.label
            /\ r \in NopStates(d)
            /\ NopGoes(code0, s, k) => r.code = s.code /\ r.label = insn.label
            /\ ~NopGoes(code0, s, k) => r.code = Append(s.code, insn) /\ r.label = NoLabel
<1> DEFINE insn == NopInsn(code0, s, k)
           r == NopStep(code0, s, k)
<1>1. code0[k] \in InsnsOf(d) /\ s.label \in Args(d) /\ s.code \in Seq(InsnsOf(d)) /\ NoLabel \in Args(d)
  BY ArgsTyped DEF NopStates
<1>2. /\ insn \in InsnsOf(d) /\ insn.op = code0[k].op /\ insn.arg = code0[k].arg
      /\ insn.label = IF s.label = NoLabel THEN code0[k].label ELSE s.label
  BY <1>1 DEF NopInsn, Labelled, InsnsOf
<1>3. r = IF NopGoes(code0, s, k) THEN [s EXCEPT !.label = insn.label]
          ELSE [code |-> Append(s.code, insn), label |-> NoLabel]
  BY DEF NopStep, NopGoes, NopInsn
<1>4. insn.label \in Args(d) /\ Append(s.code, insn) \in Seq(InsnsOf(d))
  <2>1. insn.label \in Args(d)
    BY <1>2 DEF InsnsOf
  <2>2. Append(s.code, insn) \in Seq(InsnsOf(d))
    BY <1>1, <1>2, AppendProperties
  <2> QED BY <2>1, <2>2
<1> HIDE DEF insn, r
<1>5. NopGoes(code0, s, k) => r \in NopStates(d) /\ r.code = s.code /\ r.label = insn.label
  BY <1>3, <1>4 DEF NopStates
<1>6. ~NopGoes(code0, s, k) => r \in NopStates(d) /\ r.code = Append(s.code, insn) /\ r.label = NoLabel
  <2> DEFINE x == [code |-> Append(s.code, insn), label |-> NoLabel]
  <2>1. x \in NopStates(d) /\ x.code = Append(s.code, insn) /\ x.label = NoLabel
    BY <1>1, <1>4 DEF NopStates
  <2>2. ~NopGoes(code0, s, k) => r = x
    BY <1>3
  <2> HIDE DEF x, NopGoes
  <2> QED BY <2>1, <2>2
<1> QED BY <1>2, <1>5, <1>6 DEF insn, r

LabelledIn(code0, k, label) == \E j \in 1..k : code0[j].label = label

\* What the pass has made of the first k instructions.
NopWalked(d, code0, k, s) ==
  /\ s \in NopStates(d)
  /\ s.label # NoLabel => /\ k < Len(code0) /\ code0[k + 1].label = NoLabel
                          /\ LabelledIn(code0, k, s.label)
  /\ \A p \in DOMAIN s.code : s.code[p].label # NoLabel =>
       LabelledIn(code0, k, s.code[p].label) /\ s.code[p].label # s.label
  /\ \A p, q0 \in DOMAIN s.code :
       s.code[p].label = s.code[q0].label => p = q0 \/ s.code[p].label = NoLabel
  /\ \A j \in 1..k : code0[j].label # NoLabel => HasLabel(s.code, code0[j].label) \/ s.label = code0[j].label
  /\ \A p \in DOMAIN s.code : Jumps(s.code[p]) =>
       /\ s.code[p].arg # NoLabel /\ HasLabel(code0, s.code[p].arg)
       /\ \/ s.code[p].label = s.code[p].arg
          \/ p + 1 \in DOMAIN s.code /\ s.code[p + 1].op = "T"
          \/ p = Len(s.code) /\ s.label = NoLabel /\ k < Len(code0) /\ code0[k + 1].op = "T"

LEMMA AppendFacts ==
  ASSUME NEW A, NEW a \in Seq(A), NEW x \in A
  PROVE  /\ Append(a, x) \in Seq(A) /\ Len(a) \in Nat
         /\ DOMAIN a = 1..Len(a) /\ DOMAIN Append(a, x) = 1 .. Len(a) + 1
         /\ Len(Append(a, x)) = Len(a) + 1
         /\ \A k \in DOMAIN a : Append(a, x)[k] = a[k]
         /\ Append(a, x)[Len(a) + 1] = x
<1>1. /\ Append(a, x) \in Seq(A) /\ Len(Append(a, x)) = Len(a) + 1
      /\ \A k \in 1..Len(a) : Append(a, x)[k] = a[k]
      /\ Append(a, x)[Len(a) + 1] = x
  BY AppendProperties
<1> QED BY <1>1, LenProperties

LEMMA NopWalkedStep ==
  ASSUME NEW d, IsDiagram(d), NEW code0 \in Seq(InsnsOf(d)), Laid(code0), NEW k \in Nat, k + 1 \in DOMAIN code0,
         NEW s, NopWalked(d, code0, k, s)
  PROVE  NopWalked(d, code0, k + 1, NopStep(code0, s, k + 1))
<1> DEFINE insn == NopInsn(code0, s, k + 1)
           r == NopStep(code0, s, k + 1)
           x == code0[k + 1]
           n == Len(code0)
<1>1. s \in NopStates(d)
  BY DEF NopWalked
<1>2. /\ insn \in InsnsOf(d) /\ insn.op = x.op /\ insn.arg = x.arg
      /\ insn.label = (IF s.label = NoLabel THEN x.label ELSE s.label)
      /\ r \in NopStates(d)
      /\ NopGoes(code0, s, k + 1) => r.code = s.code /\ r.label = insn.label
      /\ ~NopGoes(code0, s, k + 1) => r.code = Append(s.code, insn) /\ r.label = NoLabel
  BY <1>1, NopStepCases
<1>3. n \in Nat /\ DOMAIN code0 = 1..n /\ k + 1 \in 1..n
  BY LenProperties
<1>4. NopGoes(code0, s, k + 1) <=>
        insn.op = "NOP" /\ (insn.label = NoLabel \/ (k + 1 < n /\ code0[(k + 1) + 1].label = NoLabel))
  BY DEF NopGoes
<1>5. /\ s.label # NoLabel => /\ k < n /\ x.label = NoLabel
                              /\ LabelledIn(code0, k, s.label)
      /\ \A p \in DOMAIN s.code : s.code[p].label # NoLabel =>
           LabelledIn(code0, k, s.code[p].label) /\ s.code[p].label # s.label
      /\ \A p, q0 \in DOMAIN s.code :
           s.code[p].label = s.code[q0].label => p = q0 \/ s.code[p].label = NoLabel
      /\ \A j \in 1..k : code0[j].label # NoLabel => HasLabel(s.code, code0[j].label) \/ s.label = code0[j].label
  BY DEF NopWalked
<1>6. \A p \in DOMAIN s.code : Jumps(s.code[p]) =>
       /\ s.code[p].arg # NoLabel /\ HasLabel(code0, s.code[p].arg)
       /\ \/ s.code[p].label = s.code[p].arg
          \/ p + 1 \in DOMAIN s.code /\ s.code[p + 1].op = "T"
          \/ p = Len(s.code) /\ s.label = NoLabel /\ x.op = "T"
  BY DEF NopWalked
<1>7. \A label : LabelledIn(code0, k, label) => LabelledIn(code0, k + 1, label)
  BY DEF LabelledIn
<1>8. x.label # NoLabel => ~LabelledIn(code0, k, x.label) /\ LabelledIn(code0, k + 1, x.label)
  <2>1. ASSUME x.label # NoLabel, NEW j \in 1..k, code0[j].label = x.label PROVE FALSE
    <3>1. j \in DOMAIN code0 /\ j # k + 1
      BY <1>3
    <3> QED BY <2>1, <3>1 DEF Laid
  <2> QED BY <2>1 DEF LabelledIn
<1>9. insn.label # NoLabel => /\ LabelledIn(code0, k + 1, insn.label)
                              /\ \A p \in DOMAIN s.code : s.code[p].label # insn.label
  <2>1. CASE s.label = NoLabel
    BY <1>2, <1>5, <1>8, <2>1
  <2>2. CASE s.label # NoLabel
    BY <1>2, <1>5, <1>7, <2>2
  <2> QED BY <2>1, <2>2
<1>10. \A j \in 1 .. k + 1 : code0[j].label # NoLabel =>
         HasLabel(s.code, code0[j].label) \/ insn.label = code0[j].label
  <2> TAKE j \in 1 .. k + 1
  <2>1. CASE j = k + 1
    BY <1>2, <1>5, <2>1
  <2>2. CASE j # k + 1
    <3>1. j \in 1..k
      BY <2>2
    <3>2. code0[j].label # NoLabel => HasLabel(s.code, code0[j].label) \/ s.label = code0[j].label
      BY <1>5, <3>1
    <3> QED BY <1>2, <3>2
  <2> QED BY <2>1, <2>2
<1>11. Jumps(insn) => /\ insn.arg # NoLabel /\ HasLabel(code0, insn.arg)
                      /\ \/ insn.label = insn.arg
                         \/ k + 1 < n /\ code0[(k + 1) + 1].op = "T"
  <2> SUFFICES ASSUME Jumps(insn)
               PROVE  /\ insn.arg # NoLabel /\ HasLabel(code0, insn.arg)
                      /\ insn.label = insn.arg \/ (k + 1 < n /\ code0[(k + 1) + 1].op = "T")
    OBVIOUS
  <2>1. Jumps(x)
    BY <1>2 DEF Jumps
  <2>2. /\ x.arg # NoLabel /\ HasLabel(code0, x.arg)
        /\ x.label = x.arg \/ ((k + 1) + 1 \in DOMAIN code0 /\ code0[(k + 1) + 1].op = "T")
    BY <2>1 DEF Laid
  <2>3. (k + 1) + 1 \in DOMAIN code0 => k + 1 < n
    BY <1>3
  <2>4. x.label = x.arg => insn.label = insn.arg
    BY <1>2, <1>5, <2>2
  <2> QED BY <1>2, <2>2, <2>3, <2>4
<1> HIDE DEF insn, r, x, n
<1>12. CASE NopGoes(code0, s, k + 1)
  <2>1. r.code = s.code /\ r.label = insn.label /\ x.op = "NOP"
    BY <1>2, <1>4, <1>12
  <2>2. r.label # NoLabel => /\ k + 1 < n /\ code0[(k + 1) + 1].label = NoLabel
                             /\ LabelledIn(code0, k + 1, r.label)
    BY <1>4, <1>9, <1>12, <2>1
  <2>3. \A p \in DOMAIN r.code : r.code[p].label # NoLabel =>
           LabelledIn(code0, k + 1, r.code[p].label) /\ r.code[p].label # r.label
    BY <1>5, <1>7, <1>9, <2>1
  <2>4. \A p \in DOMAIN r.code : Jumps(r.code[p]) =>
         /\ r.code[p].arg # NoLabel /\ HasLabel(code0, r.code[p].arg)
         /\ \/ r.code[p].label = r.code[p].arg
            \/ p + 1 \in DOMAIN r.code /\ r.code[p + 1].op = "T"
    BY <1>6, <2>1
  <2>5. \A j \in 1 .. k + 1 : code0[j].label # NoLabel =>
           HasLabel(r.code, code0[j].label) \/ r.label = code0[j].label
    BY <1>10, <2>1
  <2>6. \A p, q0 \in DOMAIN r.code :
           r.code[p].label = r.code[q0].label => p = q0 \/ r.code[p].label = NoLabel
    BY <1>5, <2>1
  <2>7. NopWalked(d, code0, k + 1, r)
    BY <1>2, <2>2, <2>3, <2>4, <2>5, <2>6 DEF NopWalked, n
  <2> QED BY <2>7 DEF r
<1>13. CASE ~NopGoes(code0, s, k + 1)
  <2> DEFINE m == Len(s.code)
             rc == r.code
  <2>1. rc = Append(s.code, insn) /\ r.label = NoLabel
    BY <1>2, <1>13
  <2>2. /\ m \in Nat /\ DOMAIN s.code = 1..m /\ DOMAIN rc = 1 .. m + 1 /\ Len(rc) = m + 1
        /\ \A p \in DOMAIN s.code : rc[p] = s.code[p]
        /\ rc[m + 1] = insn
    <3> DEFINE sc == s.code
    <3>1. sc \in Seq(InsnsOf(d))
      BY <1>1 DEF NopStates
    <3> HIDE DEF sc
    <3>2. /\ Len(sc) \in Nat
          /\ DOMAIN sc = 1..Len(sc) /\ DOMAIN Append(sc, insn) = 1 .. Len(sc) + 1
          /\ Len(Append(sc, insn)) = Len(sc) + 1
          /\ \A p \in DOMAIN sc : Append(sc, insn)[p] = sc[p]
          /\ Append(sc, insn)[Len(sc) + 1] = insn
      BY <1>2, <3>1, AppendFacts
    <3> QED BY <2>1, <3>2 DEF sc
  <2> HIDE DEF m, rc
  <2>3. \A p \in DOMAIN rc : p \in DOMAIN s.code \/ p = m + 1
    BY <2>2
  <2>4. \A p \in DOMAIN rc : rc[p].label # NoLabel => LabelledIn(code0, k + 1, rc[p].label) /\ rc[p].label # r.label
    <3> TAKE p \in DOMAIN rc
    <3>1. CASE p \in DOMAIN s.code
      BY <1>5, <1>7, <2>1, <2>2, <3>1
    <3>2. CASE p = m + 1
      BY <1>9, <2>1, <2>2, <3>2
    <3> QED BY <2>3, <3>1, <3>2
  <2>5. \A p, q0 \in DOMAIN rc : rc[p].label = rc[q0].label => p = q0 \/ rc[p].label = NoLabel
    <3> TAKE p, q0 \in DOMAIN rc
    <3>1. CASE p \in DOMAIN s.code /\ q0 \in DOMAIN s.code
      BY <1>5, <2>2, <3>1
    <3>2. CASE p \in DOMAIN s.code /\ q0 = m + 1
      BY <1>9, <2>2, <3>2
    <3>3. CASE p = m + 1 /\ q0 \in DOMAIN s.code
      BY <1>9, <2>2, <3>3
    <3> QED BY <2>3, <3>1, <3>2, <3>3
  <2>6. \A j \in 1 .. k + 1 : code0[j].label # NoLabel => HasLabel(rc, code0[j].label) \/ r.label = code0[j].label
    <3> TAKE j \in 1 .. k + 1
    <3>1. CASE HasLabel(s.code, code0[j].label)
      <4>1. HasLabel(rc, code0[j].label)
        BY <2>2, <3>1 DEF HasLabel
      <4> QED BY <4>1
    <3>2. CASE insn.label = code0[j].label
      <4>1. m + 1 \in DOMAIN rc
        BY <2>2
      <4>2. HasLabel(rc, code0[j].label)
        BY <2>2, <3>2, <4>1 DEF HasLabel
      <4> QED BY <4>2
    <3> QED BY <1>10, <3>1, <3>2
  <2>7. \A p \in DOMAIN rc : Jumps(rc[p]) =>
         /\ rc[p].arg # NoLabel /\ HasLabel(code0, rc[p].arg)
         /\ \/ rc[p].label = rc[p].arg
            \/ p + 1 \in DOMAIN rc /\ rc[p + 1].op = "T"
            \/ p = Len(rc) /\ r.label = NoLabel /\ k + 1 < n /\ code0[(k + 1) + 1].op = "T"
    <3> SUFFICES ASSUME NEW p \in DOMAIN rc, Jumps(rc[p])
                 PROVE  /\ rc[p].arg # NoLabel /\ HasLabel(code0, rc[p].arg)
                        /\ \/ rc[p].label = rc[p].arg
                           \/ p + 1 \in DOMAIN rc /\ rc[p + 1].op = "T"
                           \/ p = Len(rc) /\ r.label = NoLabel /\ k + 1 < n /\ code0[(k + 1) + 1].op = "T"
      OBVIOUS
    <3>1. CASE p \in DOMAIN s.code
      <4>1. rc[p] = s.code[p]
        BY <2>2, <3>1
      <4>2. /\ s.code[p].arg # NoLabel /\ HasLabel(code0, s.code[p].arg)
            /\ \/ s.code[p].label = s.code[p].arg
               \/ p + 1 \in DOMAIN s.code /\ s.code[p + 1].op = "T"
               \/ p = Len(s.code) /\ s.label = NoLabel /\ x.op = "T"
        BY <1>6, <3>1, <4>1
      <4>3. p + 1 \in DOMAIN s.code => p + 1 \in DOMAIN rc /\ rc[p + 1] = s.code[p + 1]
        BY <2>2
      <4>4. p = Len(s.code) /\ x.op = "T" => p + 1 \in DOMAIN rc /\ rc[p + 1].op = "T"
        BY <1>2, <2>2 DEF m
      <4> QED BY <4>1, <4>2, <4>3, <4>4
    <3>2. CASE p = m + 1
      BY <1>11, <2>1, <2>2, <3>2
    <3> QED BY <2>3, <3>1, <3>2
  <2>8. NopWalked(d, code0, k + 1, r)
    BY <1>2, <2>1, <2>4, <2>5, <2>6, <2>7 DEF NopWalked, n, rc
  <2> QED BY <2>8 DEF r
<1> QED BY <1>12, <1>13

LEMMA NopRemoveLaid ==
  ASSUME NEW d, IsDiagram(d), NEW code0 \in Seq(InsnsOf(d)), Laid(code0)
  PROVE  NopRemove(code0) \in Seq(InsnsOf(d)) /\ Laid(NopRemove(code0))
<1> DEFINE n == Len(code0)
<1>1. n \in Nat /\ DOMAIN code0 = 1..n
  BY LenProperties
<1>2. PICK w : NopWalk(code0, w) /\ NopRemove(code0) = w[Len(code0)].code
  BY <1>1, NopWalkDefined
<1> DEFINE S == {k \in Nat : k <= n => NopWalked(d, code0, k, w[k])}
<1>3. 0 \in S
  <2>1. NoLabel \in Args(d) /\ <<>> \in Seq(InsnsOf(d))
    BY ArgsTyped
  <2> DEFINE s == [code |-> <<>>, label |-> NoLabel]
  <2>2. s \in NopStates(d) /\ s.label = NoLabel /\ DOMAIN s.code = {}
    BY <2>1 DEF NopStates
  <2> HIDE DEF s
  <2>3. NopWalked(d, code0, 0, s)
    BY <2>2 DEF NopWalked
  <2>4. w[0] = s
    BY <1>2 DEF NopWalk, s
  <2> QED BY <2>3, <2>4
<1>4. ASSUME NEW k \in Nat, k \in S PROVE k + 1 \in S
  <2> SUFFICES ASSUME k + 1 <= n PROVE NopWalked(d, code0, k + 1, w[k + 1])
    OBVIOUS
  <2>1. k + 1 \in DOMAIN code0 /\ k + 1 \in 1..Len(code0) /\ (k + 1) - 1 = k /\ NopWalked(d, code0, k, w[k])
    BY <1>1, <1>4
  <2>2. w[k + 1] = NopStep(code0, w[k], k + 1)
    BY <1>2, <2>1 DEF NopWalk
  <2> DEFINE s == w[k]
  <2>3. NopWalked(d, code0, k, s)
    BY <2>1
  <2> HIDE DEF s
  <2>4. NopWalked(d, code0, k + 1, NopStep(code0, s, k + 1))
    BY <2>1, <2>3, NopWalkedStep
  <2> QED BY <2>2, <2>4 DEF s
<1> HIDE DEF S
<1>5. n \in S
  BY <1>1, <1>3, <1>4, SetInduction
<1> DEFINE s == w[n]
<1>6. NopWalked(d, code0, n, s) /\ NopRemove(code0) = s.code
  BY <1>1, <1>2, <1>5 DEF S
<1> HIDE DEF s, S
<1>7. s \in NopStates(d) /\ s.label = NoLabel /\ ~(n < Len(code0))
  BY <1>1, <1>6 DEF NopWalked, n
<1> DEFINE c == s.code
<1>8. c \in Seq(InsnsOf(d))
  BY <1>7 DEF NopStates
<1>9. \A p, q0 \in DOMAIN c : c[p].label = c[q0].label => p = q0 \/ c[p].label = NoLabel
  BY <1>6 DEF NopWalked
<1>10. ASSUME NEW p \in DOMAIN c, Jumps(c[p])
       PROVE  /\ c[p].arg # NoLabel /\ HasLabel(c, c[p].arg)
              /\ c[p].label = c[p].arg \/ (p + 1 \in DOMAIN c /\ c[p + 1].op = "T")
  <2>1. /\ c[p].arg # NoLabel /\ HasLabel(code0, c[p].arg)
        /\ c[p].label = c[p].arg \/ (p + 1 \in DOMAIN c /\ c[p + 1].op = "T")
    BY <1>6, <1>7, <1>10 DEF NopWalked
  <2>2. PICK j \in DOMAIN code0 : code0[j].label = c[p].arg
    BY <2>1 DEF HasLabel
  <2>3. HasLabel(c, code0[j].label)
    BY <1>1, <1>6, <1>7, <2>1, <2>2 DEF NopWalked
  <2> QED BY <2>1, <2>2, <2>3
<1>11. Laid(c)
  BY <1>9, <1>10 DEF Laid
<1> QED BY <1>6, <1>8, <1>11

\* No sequence that the second pass looks for: the jump of one has its own label.
LEMMA NeverForwards ==
  ASSUME NEW code0, Laid(code0), NEW k \in Int
  PROVE  ~Forwards(code0, k)
<1> SUFFICES ASSUME Forwards(code0, k) PROVE FALSE
  OBVIOUS
<1>1. /\ k \in DOMAIN code0 /\ k + 2 \in DOMAIN code0
      /\ Jumps(code0[k + 1]) /\ code0[k + 2].op = "U"
      /\ {j \in DOMAIN code0 : Jumps(code0[j]) /\ code0[j].arg = code0[k + 1].arg} = {k + 1}
      /\ {j \in DOMAIN code0 : code0[j].label = code0[k + 1].arg} = {k + 2}
  BY DEF Forwards
<1>2. k + 1 \in DOMAIN code0 /\ (k + 1) + 1 = k + 2 /\ k + 1 # k + 2
  BY <1>1
<1>3. code0[k + 1].label = code0[k + 1].arg \/ code0[(k + 1) + 1].op = "T"
  BY <1>1, <1>2 DEF Laid
<1>4. code0[k + 1].label = code0[k + 1].arg
  BY <1>1, <1>2, <1>3
<1> QED BY <1>1, <1>2, <1>4

LEMMA BieForwardSame ==
  ASSUME NEW A, NEW code0 \in Seq(A), Laid(code0)
  PROVE  BieForward(code0) = code0
<1> DEFINE n == Len(code0)
           V == Seq(A)
           kept == {k \in DOMAIN code0 : ~Forwards(code0, k - 1) /\ ~Forwards(code0, k - 2)}
           F == [x \in V \X (1..n) |-> Append(x[1], code0[x[2]])]
<1>1. n \in Nat /\ DOMAIN code0 = 1..n /\ \A k \in 1..n : code0[k] \in A
  BY LenProperties
<1>2. \A k \in 1..n : k \in kept
  BY <1>1, NeverForwards
<1> HIDE DEF n, kept
<1>3. F \in [V \X (1..n) -> V]
  BY <1>1, AppendProperties
<1>4. \A a \in V, k \in 1..n : F[<<a, k>>] = Append(a, code0[k])
  OBVIOUS
<1>5. <<>> \in V
  OBVIOUS
<1> HIDE DEF F, V
<1>6. PICK g : StepByStep(g, V, <<>>, n, F)
  BY <1>1, <1>3, <1>5, Recursion, Zenon
<1>7. g \in [0..n -> V] /\ g[0] = <<>> /\ \A k \in 1..n : g[k] = Append(g[k - 1], code0[k])
  <2>1. g \in [0..n -> V] /\ g[0] = <<>> /\ \A k \in 1..n : g[k] = F[<<g[k - 1], k>>]
    BY <1>6 DEF StepByStep
  <2>2. ASSUME NEW k \in 1..n PROVE g[k] = Append(g[k - 1], code0[k])
    <3>1. k - 1 \in 0..n
      BY <1>1
    <3>2. g[k - 1] \in V
      BY <2>1, <3>1
    <3> QED BY <1>4, <2>1, <3>2
  <2> QED BY <2>1, <2>2
<1>8. g = [k \in 0..n |-> IF k = 0 THEN <<>>
                          ELSE IF k \in kept THEN Append(g[k - 1], code0[k]) ELSE g[k - 1]]
  <2>1. ASSUME NEW k \in 0..n
        PROVE  g[k] = IF k = 0 THEN <<>> ELSE IF k \in kept THEN Append(g[k - 1], code0[k]) ELSE g[k - 1]
    <3>1. k # 0 => k \in 1..n
      BY <1>1
    <3> QED BY <1>2, <1>7, <3>1
  <2> QED BY <1>7, <2>1
<1> DEFINE j == CHOOSE f : f = [k \in 0..n |-> IF k = 0 THEN <<>>
                          ELSE IF k \in kept THEN Append(f[k - 1], code0[k]) ELSE f[k - 1]]
<1>9. j = [k \in 0..n |-> IF k = 0 THEN <<>>
                          ELSE IF k \in kept THEN Append(j[k - 1], code0[k]) ELSE j[k - 1]]
  BY <1>8, Zenon
<1>10. BieForward(code0) = j[n]
  BY Zenon DEF BieForward, n, kept
<1> HIDE DEF j
<1>11. PICK f : f = j
  OBVIOUS
<1>12. f = [k \in 0..n |-> IF k = 0 THEN <<>>
                           ELSE IF k \in kept THEN Append(f[k - 1], code0[k]) ELSE f[k - 1]]
  BY <1>9, <1>11, Zenon
<1>13. f[0] = <<>> /\ \A k \in 1..n : f[k] = Append(f[k - 1], code0[k])
  <2>1. \A k \in 0..n : f[k] = IF k = 0 THEN <<>>
                               ELSE IF k \in kept THEN Append(f[k - 1], code0[k]) ELSE f[k - 1]
    BY <1>12, Zenon
  <2>2. \A k \in 1..n : k \in 0..n /\ k # 0
    OBVIOUS
  <2>3. 0 \in 0..n
    BY <1>1
  <2> QED BY <1>2, <2>1, <2>2, <2>3, Zenon
<1> DEFINE S == {k \in Nat : k <= n => f[k] \in V /\ Len(f[k]) = k /\ \A i \in 1..k : f[k][i] = code0[i]}
<1>14. 0 \in S
  BY <1>5, <1>13
<1>15. ASSUME NEW k \in Nat, k \in S PROVE k + 1 \in S
  <2> SUFFICES ASSUME k + 1 <= n
               PROVE  f[k + 1] \in V /\ Len(f[k + 1]) = k + 1 /\ \A i \in 1 .. k + 1 : f[k + 1][i] = code0[i]
    OBVIOUS
  <2> DEFINE a == f[k]
             x == code0[k + 1]
             y == f[k + 1]
  <2>1. /\ k + 1 \in 1..n /\ (k + 1) - 1 = k
        /\ a \in Seq(A) /\ Len(a) = k /\ \A i \in 1..k : a[i] = code0[i]
    <3>1. k + 1 \in 1..n /\ (k + 1) - 1 = k /\ k <= n
      BY <1>1
    <3>2. f[k] \in V /\ Len(f[k]) = k /\ \A i \in 1..k : f[k][i] = code0[i]
      BY <1>15, <3>1
    <3> QED BY <3>1, <3>2 DEF V
  <2>2. y = Append(a, x) /\ x \in A
    BY <1>1, <1>13, <2>1
  <2>3. \A i \in 1 .. k + 1 : i \in 1..k \/ i = k + 1
    OBVIOUS
  <2>5. x = code0[k + 1]
    OBVIOUS
  <2> HIDE DEF a, x, y
  <2>4. y \in Seq(A) /\ Len(y) = k + 1 /\ (\A i \in 1..k : y[i] = a[i]) /\ y[k + 1] = x
    BY <2>1, <2>2, AppendProperties
  <2>6. y \in Seq(A) /\ Len(y) = k + 1 /\ \A i \in 1 .. k + 1 : y[i] = code0[i]
    BY <2>1, <2>3, <2>4, <2>5
  <2> QED BY <2>6 DEF y, V
<1> HIDE DEF S
<1>16. n \in S
  BY <1>1, <1>14, <1>15, SetInduction
<1>17. f[n] \in Seq(A) /\ Len(f[n]) = Len(code0) /\ \A i \in 1..Len(f[n]) : f[n][i] = code0[i]
  BY <1>1, <1>16 DEF S, V, n
<1>18. f[n] = code0
  <2> DEFINE y == f[n]
  <2>1. y \in Seq(A) /\ Len(y) = Len(code0) /\ \A i \in 1..Len(y) : y[i] = code0[i]
    BY <1>17
  <2> HIDE DEF y
  <2>2. y = code0
    BY <2>1, SeqEqual
  <2> QED BY <2>2 DEF y
<1> QED BY <1>10, <1>11, <1>18

LEMMA LabelRemoveResolvable ==
  ASSUME NEW d, IsDiagram(d), NEW code0 \in Seq(InsnsOf(d)), Laid(code0)
  PROVE  Resolvable(LabelRemove(code0))
<1> DEFINE used == {code0[k].arg : k \in {k \in DOMAIN code0 : Jumps(code0[k])}}
           r == LabelRemove(code0)
<1>1. r = [k \in DOMAIN code0 |-> IF code0[k].label \in used THEN code0[k] ELSE Labelled(NoLabel, code0[k])]
  BY DEF LabelRemove
<1>2. \A k \in DOMAIN code0 : code0[k] \in InsnsOf(d)
  OBVIOUS
<1> HIDE DEF used, r
<1>3. ASSUME NEW k \in DOMAIN code0
      PROVE  /\ k \in DOMAIN r /\ r[k].op = code0[k].op /\ r[k].arg = code0[k].arg
             /\ r[k].label = IF code0[k].label \in used THEN code0[k].label ELSE NoLabel
  BY <1>1, <1>2 DEF Labelled, InsnsOf
<1>4. DOMAIN r = DOMAIN code0
  BY <1>1
<1>5. \A j, k \in DOMAIN r : r[j].label = r[k].label => j = k \/ r[j].label = NoLabel
  BY <1>3, <1>4 DEF Laid
<1>6. ASSUME NEW j \in DOMAIN r, Jumps(r[j]) PROVE \E k \in DOMAIN r : r[k].label = r[j].arg
  <2>1. Jumps(code0[j]) /\ r[j].arg = code0[j].arg /\ j \in DOMAIN code0
    BY <1>3, <1>4, <1>6 DEF Jumps
  <2>2. code0[j].arg \in used
    BY <2>1 DEF used
  <2>3. PICK k \in DOMAIN code0 : code0[k].label = code0[j].arg
    BY <2>1 DEF Laid, HasLabel
  <2>4. r[k].label = r[j].arg
    BY <1>3, <2>1, <2>2, <2>3
  <2> QED BY <1>4, <2>3, <2>4
<1>7. Resolvable(r)
  BY <1>5, <1>6 DEF Resolvable
<1> QED BY <1>7 DEF r

LEMMA OptimizedCode ==
  ASSUME NEW d, IsDiagram(d), NEW code0 \in Seq(InsnsOf(d)), Laid(code0), NEW enabled
  PROVE  \E c : /\ c = (IF "noprem" \in enabled THEN NopRemove(code0) ELSE code0)
                /\ c \in Seq(InsnsOf(d)) /\ Laid(c)
                /\ OptimizeInsns(code0, enabled) = IF "lblrem" \in enabled THEN LabelRemove(c) ELSE c
<1> DEFINE c == IF "noprem" \in enabled THEN NopRemove(code0) ELSE code0
           b == IF "biefwd" \in enabled THEN BieForward(c) ELSE c
<1>1. c \in Seq(InsnsOf(d)) /\ Laid(c)
  BY NopRemoveLaid
<1>2. OptimizeInsns(code0, enabled) = IF "lblrem" \in enabled THEN LabelRemove(b) ELSE b
  BY DEF OptimizeInsns
<1> HIDE DEF c
<1>3. b = c
  BY <1>1, BieForwardSame
<1> QED BY <1>1, <1>2, <1>3 DEF c

LEMMA OptimizedResolvable ==
  ASSUME NEW d, IsDiagram(d), NEW code0 \in Seq(InsnsOf(d)), Laid(code0), NEW enabled
  PROVE  Resolvable(OptimizeInsns(code0, enabled))
<1>1. PICK c : /\ c \in Seq(InsnsOf(d)) /\ Laid(c)
               /\ OptimizeInsns(code0, enabled) = IF "lblrem" \in enabled THEN LabelRemove(c) ELSE c
  BY OptimizedCode
<1>2. Resolvable(LabelRemove(c)) /\ Resolvable(c)
  BY <1>1, LabelRemoveResolvable, LaidResolvable
<1> QED BY <1>1, <1>2

\* The code of a grid, before it is optimized.
LEMMA FinishedLaid ==
  ASSUME CodeInv, phase # "draw", NEW code0, Finished(code0)
  PROVE  IsDiagram(diagram) /\ code0 \in Seq(InsnsOf(diagram)) /\ Laid(code0)
<1> DEFINE c == compiled.code
<1>1. CompilationInv(diagram, compiled) /\ IsDiagram(diagram)
  BY DEF CodeInv, GridInv, IsOrdered, Fits
<1>2. c \in Seq(InsnsOf(diagram)) /\ Tidy(c, compiled.done)
  BY <1>1 DEF CompilationInv, Partly, Result
<1>3. Laid(c)
  BY <1>2, TidyLaid
<1>4. PICK last \in BOOLEAN : code0 = c \o (IF last THEN <<Plain("BE")>> ELSE <<>>)
  BY DEF Finished
<1> HIDE DEF c
<1>5. Plain("BE") \in InsnsOf(diagram) /\ Plain("BE").label = NoLabel /\ ~Jumps(Plain("BE"))
  <2>1. "BE" \in Ops
    BY DEF Ops
  <2>2. Plain("BE") \in InsnsOf(diagram)
    BY <1>1, <2>1, InsnsTyped
  <2> QED BY <2>2 DEF Plain, Insn, Jumps
<1> DEFINE x == Plain("BE")
           b == IF last THEN <<x>> ELSE <<>>
<1> HIDE DEF x
<1>6. b \in Seq(InsnsOf(diagram)) /\ \A k \in DOMAIN b : b[k].label = NoLabel /\ ~Jumps(b[k])
  BY <1>5 DEF x
<1>7. code0 = c \o b
  BY <1>4 DEF x
<1> HIDE DEF b
<1>8. c \o b \in Seq(InsnsOf(diagram)) /\ Laid(c \o b)
  BY <1>2, <1>3, <1>6, LaidPlain, ConcatProperties
<1> QED BY <1>1, <1>7, <1>8

LEMMA CodeInvLabels ==
  CodeInv => LabelsResolve
<1> SUFFICES ASSUME CodeInv, Done PROVE Resolvable(code)
  BY DEF LabelsResolve
<1>1. CASE phase = "compiled"
  <2>1. Finished(code) /\ phase # "draw"
    BY <1>1 DEF CodeInv
  <2>2. Laid(code)
    BY <2>1, FinishedLaid
  <2> QED BY <2>2, LaidResolvable
<1>2. CASE phase = "optimized"
  <2>1. PICK code0, enabled : Finished(code0) /\ code = OptimizeInsns(code0, enabled)
    BY <1>2 DEF CodeInv
  <2>2. IsDiagram(diagram) /\ code0 \in Seq(InsnsOf(diagram)) /\ Laid(code0)
    BY <1>2, <2>1, FinishedLaid
  <2>3. Resolvable(OptimizeInsns(code0, enabled))
    BY <2>2, OptimizedResolvable
  <2> QED BY <2>1, <2>3
<1> QED BY <1>1, <1>2 DEF Done

THEOREM LabelsAlwaysResolve == GridSpec => []LabelsResolve
BY CodeInvCorrect, CodeInvLabels, PTL
=============================================================================
