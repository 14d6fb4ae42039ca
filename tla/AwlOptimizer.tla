---------------------------- MODULE AwlOptimizer ----------------------------
(***************************************************************************)
(* The optimizer of compiled AWL/STL code (awlsim/awloptimizer): passes    *)
(* over the list of instructions of a grid.                                *)
(***************************************************************************)
EXTENDS FupCompiler

Passes == {"noprem", "biefwd", "lblrem"}

Jumps(insn) == insn.op = "SPBNB"

\* Mutant: a NOP goes, and its label with it.
DropNops(code) == SelectSeq(code, LAMBDA insn : insn.op # "NOP")

\* AwlOptimizer_NopRemove.run: a NOP goes; a label of it moves to the
\* instruction behind it, and without one there, or with one that has a label
\* already, the NOP stays.  label is what has moved to the next instruction.
NopStep(code, s, k) ==
  LET insn == IF s.label = NoLabel THEN code[k] ELSE Labelled(s.label, code[k])
      movable == k < Len(code) /\ code[k + 1].label = NoLabel
  IN IF insn.op = "NOP" /\ (insn.label = NoLabel \/ movable)
     THEN [s EXCEPT !.label = insn.label]
     ELSE [code |-> Append(s.code, insn), label |-> NoLabel]
NopRemove(code) ==
  LET walked[k \in 0 .. Len(code)] ==
        IF k = 0 THEN [code |-> <<>>, label |-> NoLabel] ELSE NopStep(code, walked[k - 1], k)
  IN walked[Len(code)].code

\* AwlOptimizer_BIEForward.run: of  SET, SPBNB l, l: U BIE  only SET is left,
\* if there is no other jump to l.
Forwards(code, k) ==
  /\ k \in DOMAIN code /\ k + 2 \in DOMAIN code
  /\ code[k].op = "SET" /\ Jumps(code[k + 1])
  /\ code[k + 2].op = "U" /\ code[k + 2].arg = BIE
  /\ {j \in DOMAIN code : Jumps(code[j]) /\ code[j].arg = code[k + 1].arg} = {k + 1}
  /\ {j \in DOMAIN code : code[j].label = code[k + 1].arg} = {k + 2}
BieForward(code) ==
  LET kept == {k \in DOMAIN code : ~Forwards(code, k - 1) /\ ~Forwards(code, k - 2)}
      left[k \in 0 .. Len(code)] ==
        IF k = 0 THEN <<>> ELSE IF k \in kept THEN Append(left[k - 1], code[k]) ELSE left[k - 1]
  IN left[Len(code)]

\* AwlOptimizer_LabelRemove.run.
LabelRemove(code) ==
  LET used == {code[k].arg : k \in {k \in DOMAIN code : Jumps(code[k])}}
  IN [k \in DOMAIN code |->
        IF code[k].label \in used THEN code[k] ELSE Labelled(NoLabel, code[k])]

\* AwlOptimizer.optimizeInsns: stage 1, biefwd after noprem, and stage 3.
OptimizeInsns(code, enabled) ==
  LET nopsRemoved == IF "noprem" \in enabled THEN NopRemove(code) ELSE code
      bieForwarded == IF "biefwd" \in enabled THEN BieForward(nopsRemoved) ELSE nopsRemoved
  IN IF "lblrem" \in enabled THEN LabelRemove(bieForwarded) ELSE bieForwarded

\* AwlLabel.resolveLabels: no label is there twice, and every jump has its own.
Resolvable(code) ==
  /\ \A j, k \in DOMAIN code :
       code[j].label = code[k].label => j = k \/ code[j].label = NoLabel
  /\ \A j \in DOMAIN code : Jumps(code[j]) => \E k \in DOMAIN code : code[k].label = code[j].arg
=============================================================================
