------------------------------- MODULE AwlRun -------------------------------
(***************************************************************************)
(* How the CPU runs the instructions that the FUP/FBD compiler makes: the  *)
(* machine m has the status word, the bit BIE, the parenthesis stack and   *)
(* the operands.  A transfer toggles the operand of its MOVE.              *)
(***************************************************************************)
EXTENDS AwlOptimizer, StatusWord

Branches == {Branch(gate) : gate \in Gates}

Machine(operands) ==
  [ip |-> 1, sw |-> ResetWord, bie |-> FALSE, parens |-> <<>>, operands |-> operands]

Fetch(m, arg) == IF arg = BIE THEN m.bie ELSE m.operands[arg]

\* An instruction but for where the program goes on.
Execute(insn, m) ==
  CASE insn.op \in Gates -> [m EXCEPT !.sw = Operate(insn.op, @, Fetch(m, insn.arg))]
    [] insn.op \in Branches ->
         [m EXCEPT !.sw = Opened(@),
                   !.parens = Append(@, [insnType |-> CHOOSE gate \in Gates : Branch(gate) = insn.op,
                                         bits |-> m.sw])]
    [] insn.op = ")" -> [m EXCEPT !.sw = Closed(Last(m.parens), @), !.parens = Front(@)]
    [] insn.op = "NOT" -> [m EXCEPT !.sw.VKE = ~@]
    [] insn.op = "SET" -> [m EXCEPT !.sw = Ended(TRUE)]
    [] insn.op = "SAVE" -> [m EXCEPT !.bie = m.sw.VKE]
    [] insn.op = "CMP" -> [m EXCEPT !.sw = [Ended(m.operands[insn.arg]) EXCEPT !.NER = TRUE]]
    [] insn.op = "=" -> [m EXCEPT !.operands[insn.arg] = m.sw.VKE, !.sw = Ended(m.sw.VKE)]
    [] insn.op = "T" -> [m EXCEPT !.operands[insn.arg] = ~@]
    [] insn.op = "SPBNB" -> [m EXCEPT !.bie = m.sw.VKE, !.sw = Ended(TRUE)]
    [] insn.op = "NOP" -> m

\* Nothing is executed behind the grid, or behind its block end.
Ends(code, m) == m.ip \notin DOMAIN code \/ code[m.ip].op = "BE"

\* A label stands for the instruction that has it.
Step(code, m) ==
  LET insn == code[m.ip]
      jump == Jumps(insn) /\ ~m.sw.VKE
      target == CHOOSE k \in DOMAIN code : code[k].label = insn.arg
  IN IF Ends(code, m) THEN m
     ELSE [Execute(insn, m) EXCEPT !.ip = IF jump THEN target ELSE m.ip + 1]

\* So many instructions as there are.
Run(code, operands) ==
  LET run[n \in 0 .. Len(code)] == IF n = 0 THEN Machine(operands) ELSE Step(code, run[n - 1])
  IN run[Len(code)]
=============================================================================
