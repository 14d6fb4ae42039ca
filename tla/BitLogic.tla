------------------------------ MODULE BitLogic ------------------------------
(***************************************************************************)
(* Bit logic of the CPU (awlsim/core/instructions): the status word bits   *)
(* NER, VKE and OR, the parenthesis stack of each active block, and the    *)
(* Master Control Relay.  The program is any sequence of instructions;     *)
(* operands and edge memories that are read have any value, and q is the   *)
(* output that is written.  STA and BIE are left out: no instruction here  *)
(* depends on them, jumps by BIE aside, which may go either way.           *)
(***************************************************************************)
EXTENDS Naturals, Sequences, FiniteSets, StatusWord, Network

CONSTANTS ParenStackSize,   \* S7CPUSpecs.parenStackSize
          CallStackSize,    \* S7CPUSpecs.callStackSize
          McrStackSize,     \* 8
          MaxZones,         \* bound on the zones that pile up
          MaxOpen           \* bound on the parentheses open in all blocks

ASSUME BitLogicAssumption ==
  /\ ParenStackSize \in Nat /\ CallStackSize \in Nat \ {0} /\ McrStackSize \in Nat
  /\ MaxZones \in Nat /\ MaxOpen \in Nat

VARIABLES sw,         \* the status word
          stack,      \* the parenthesis stacks of the active blocks; <<>>
                      \* while no block is executing
          mcrActive, mcrStack,
          q,          \* the output
          expr        \* history: the network of the innermost parenthesis

vars == <<sw, stack, mcrActive, mcrStack, q, expr>>
mcr == <<mcrActive, mcrStack>>

\* A parenthesis stack element: the instruction, the saved bits, and (history)
\* the network in front of the parenthesis.
Elements == [insnType : Gates, bits : Bits, expr : Expressions]

TypeOK ==
  /\ sw \in Bits
  /\ stack \in Seq(Seq(Elements))
  /\ Len(stack) <= CallStackSize
  /\ \A i \in DOMAIN stack : Len(stack[i]) <= ParenStackSize
  /\ mcrActive \in BOOLEAN /\ mcrStack \in Seq(BOOLEAN) /\ Len(mcrStack) <= MaxZones
  /\ q \in BOOLEAN
  /\ expr \in Expressions

\* mcrIsOn.
McrIsOn == ~mcrActive \/ \A i \in DOMAIN mcrStack : mcrStack[i]

(***************************************************************************)
(* The state machine                                                       *)
(***************************************************************************)

Init ==
  /\ sw = ResetWord
  /\ stack = <<>>
  /\ mcrActive = FALSE /\ mcrStack = <<>>
  /\ q = FALSE
  /\ expr = Left(FALSE)

\* A cycle begins.
Begin ==
  /\ sw' = ResetWord
  /\ stack' = << <<>> >>
  /\ expr' = Left(FALSE)

\* __runOB, after a cycle that has ended or was abandoned by an error of any
\* of its instructions.  The Master Control Relay is left as it is.
RunOB ==
  /\ Begin
  /\ UNCHANGED <<mcr, q>>

\* S7CPU.reset, when a program is downloaded.
Reset ==
  /\ sw' = ResetWord
  /\ stack' = <<>>
  /\ mcrActive' = FALSE /\ mcrStack' = <<>>
  /\ q' = FALSE
  /\ expr' = Left(FALSE)

Instruction == stack # <<>>
OpenParens == {i \in (DOMAIN stack) \X (1 .. ParenStackSize) : i[2] <= Len(stack[i[1]])}
Parens == stack[Len(stack)]

\* The network ends with result vke, its value.
End(vke, value) ==
  /\ sw' = Ended(vke)
  /\ expr' = Left(value)

Gate(gate, sta) ==
  /\ Instruction
  /\ sw' = Operate(gate, sw, sta)
  /\ expr' = Joined(gate, expr, sta)
  /\ UNCHANGED <<stack, mcr, q>>

NextSum ==
  /\ Instruction
  /\ sw' = OrSum(sw)
  /\ expr' = NextProduct(expr)
  /\ UNCHANGED <<stack, mcr, q>>

Open(gate) ==
  /\ Instruction
  /\ Len(Parens) < ParenStackSize /\ Cardinality(OpenParens) < MaxOpen
  /\ stack' = [stack EXCEPT ![Len(stack)] =
                 Append(@, [insnType |-> gate, bits |-> sw, expr |-> expr])]
  /\ sw' = Opened(sw)
  /\ expr' = Left(Value(expr))
  /\ UNCHANGED <<mcr, q>>

Close ==
  /\ Instruction
  /\ Parens # <<>>
  /\ LET element == Parens[Len(Parens)]
     IN /\ sw' = Closed(element, sw)
        /\ expr' = Joined(element.insnType, element.expr, Value(expr))
  /\ stack' = [stack EXCEPT ![Len(stack)] = SubSeq(@, 1, Len(@) - 1)]
  /\ UNCHANGED <<mcr, q>>

Not ==
  /\ Instruction
  /\ sw' = [sw EXCEPT !.VKE = ~@]
  /\ expr' = Negated(expr)
  /\ UNCHANGED <<stack, mcr, q>>

\* FP and FN.  fm is what the edge memory has held.
Edge(rising, fm) ==
  /\ Instruction
  /\ LET edge(vke) == IF rising THEN vke /\ ~fm ELSE ~vke /\ fm
     IN sw' = [NER |-> TRUE, VKE |-> edge(sw.VKE), OR |-> FALSE] /\ expr' = Single(edge(Value(expr)))
  /\ UNCHANGED <<stack, mcr, q>>

\* A comparison begins a network with its result.
Compare(v) ==
  /\ Instruction
  /\ sw' = [NER |-> TRUE, VKE |-> v, OR |-> FALSE]
  /\ expr' = Single(v)
  /\ UNCHANGED <<stack, mcr, q>>

\* SET and CLR.
Constant(v) ==
  /\ Instruction
  /\ End(v, v)
  /\ UNCHANGED <<stack, mcr, q>>

\* SPB, SPBN, SPBB and SPBNB, wherever the program goes on.
ConditionalJump ==
  /\ Instruction
  /\ End(TRUE, TRUE)
  /\ UNCHANGED <<stack, mcr, q>>

\* SPBI and SPBIN, and the instructions that use VKE for a timer or counter.
Use ==
  /\ Instruction
  /\ End(sw.VKE, Value(expr))
  /\ UNCHANGED <<stack, mcr, q>>

Assign ==
  /\ Instruction
  /\ q' = (sw.VKE /\ McrIsOn)
  /\ End(sw.VKE, Value(expr))
  /\ UNCHANGED <<stack, mcr>>

\* Mutant: S writes VKE in a zone that is off.
SetInAnyZone ==
  /\ Instruction
  /\ q' = (q \/ sw.VKE)
  /\ End(sw.VKE, Value(expr))
  /\ UNCHANGED <<stack, mcr>>

SetOutput ==
  /\ Instruction
  /\ q' = (q \/ (sw.VKE /\ McrIsOn))
  /\ End(sw.VKE, Value(expr))
  /\ UNCHANGED <<stack, mcr>>

ResetOutput ==
  /\ Instruction
  /\ q' = (q /\ ~(sw.VKE /\ McrIsOn))
  /\ End(sw.VKE, Value(expr))
  /\ UNCHANGED <<stack, mcr>>

\* MCRA and MCRD.
SetMcrActive(active) ==
  /\ Instruction
  /\ mcrActive' = active
  /\ UNCHANGED <<sw, stack, mcrStack, q, expr>>

\* MCR( has put the zone on the stack when it finds that there are too many,
\* and the cycle is abandoned.
OpenZone ==
  /\ Instruction
  /\ Len(mcrStack) < MaxZones
  /\ mcrStack' = Append(mcrStack, sw.VKE)
  /\ IF Len(mcrStack) < McrStackSize
     THEN End(sw.VKE, Value(expr)) /\ UNCHANGED stack
     ELSE Begin
  /\ UNCHANGED <<mcrActive, q>>

CloseZone ==
  /\ Instruction
  /\ mcrStack # <<>>
  /\ mcrStack' = SubSeq(mcrStack, 1, Len(mcrStack) - 1)
  /\ End(sw.VKE, Value(expr))
  /\ UNCHANGED <<stack, mcrActive, q>>

\* CALL and UC; CC calls if VKE is set, and sets it.  The status word is
\* changed before the called block runs.
Call(vke, value) ==
  /\ Instruction
  /\ Len(stack) < CallStackSize
  /\ stack' = Append(stack, <<>>)
  /\ End(vke, value)
  /\ UNCHANGED <<mcr, q>>

CallBlock == Call(sw.VKE, Value(expr))

ConditionalCall ==
  IF sw.VKE THEN Call(TRUE, TRUE) ELSE ConditionalJump

Return ==
  /\ Instruction
  /\ stack' = SubSeq(stack, 1, Len(stack) - 1)
  /\ End(sw.VKE, Value(expr))
  /\ UNCHANGED <<mcr, q>>

\* BE, which every block ends with, and BEA; BEB ends the block if VKE is set.
BlockEnd == Return
ConditionalEnd == IF sw.VKE THEN Return ELSE ConditionalJump

Next ==
  \/ RunOB \/ Reset
  \/ \E gate \in Gates : Open(gate) \/ \E sta \in BOOLEAN : Gate(gate, sta)
  \/ NextSum \/ Close \/ Not
  \/ \E rising, fm \in BOOLEAN : Edge(rising, fm)
  \/ \E v \in BOOLEAN : Compare(v) \/ Constant(v) \/ SetMcrActive(v)
  \/ ConditionalJump \/ Use \/ Assign \/ SetOutput \/ ResetOutput
  \/ OpenZone \/ CloseZone
  \/ CallBlock \/ ConditionalCall \/ BlockEnd \/ ConditionalEnd

Spec == Init /\ [][Next]_vars

(***************************************************************************)
(* Properties                                                              *)
(***************************************************************************)

\* VKE is the value of the Boolean expression that the instructions of the
\* network spell out, at every instruction: AND before OR, parentheses nested
\* in sums and products, a network begun by a call, an output, an edge or a
\* comparison, whatever the bits NER and OR were left with.
ResultIsExpression == stack # <<>> => sw.VKE = Value(expr)

On == Value(expr) /\ (mcrActive => \A i \in DOMAIN mcrStack : mcrStack[i])

\* An output becomes what the expression in front of it says, unless a zone of
\* the Master Control Relay around it is off: then "=" clears it, and S and R
\* leave it alone, also in blocks called from the zone.
OutputsFollow ==
  [][/\ Assign => q' = On
     /\ SetOutput => q' = (q \/ On)
     /\ ResetOutput => q' = (q /\ ~On)]_vars
=============================================================================
