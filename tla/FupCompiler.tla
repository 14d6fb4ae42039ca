---------------------------- MODULE FupCompiler -----------------------------
(***************************************************************************)
(* The FUP/FBD compiler (awlsim/fupcompiler): how the elements of a grid   *)
(* become instructions.  An element is compiled when the first element     *)
(* that needs its value is; what others will want of it is put into a TEMP *)
(* variable.  c is the state of one compilation: the instructions so far,  *)
(* the nodes and LOAD operands that have been compiled, the ASSIGN         *)
(* operands that have been stored, and the pins that are in TEMP, one      *)
(* variable per pin (one that is stored again gets a new variable in the   *)
(* code, with the same value).  Data instructions are left out, but for    *)
(* the transfer T of a MOVE and the comparison.                            *)
(***************************************************************************)
EXTENDS FupDiagram, SequencesExt

NoLabel == <<0, "">>
Insn(op, arg) == [op |-> op, arg |-> arg, label |-> NoLabel]
Plain(op) == Insn(op, NoLabel)
Labelled(label, insn) == [insn EXCEPT !.label = label]

BIE == <<0, "BIE">>
Temp(pin) == <<pin[1], IF pin[2] = "OUT" THEN "TEMP" ELSE "TEMP ENO">>
Stored(s) == <<0, s>>
Transferred(i) == <<i, "T">>

Inverted(class) ==
  CASE class = "U" -> "UN" [] class = "UN" -> "U" [] class = "O" -> "ON" [] class = "ON" -> "O"
Class(class, inverted) == IF inverted THEN Inverted(class) ELSE class
Branch(class) ==
  CASE class = "U" -> "U(" [] class = "UN" -> "UN(" [] class = "O" -> "O(" [] class = "ON" -> "ON("
    [] class = "X" -> "X(" [] class = "XN" -> "XN("

Nothing == [code |-> <<>>, done |-> {}, loaded |-> {}, stored |-> {}, temps |-> {},
            failed |-> FALSE]

Emit(c, insns) == [c EXCEPT !.code = @ \o insns]

\* _storeToTemp and _loadFromTemp.
StoreToTemp(c, pin) ==
  [Emit(c, <<Insn("=", Temp(pin))>>) EXCEPT !.temps = @ \cup {pin}]
LoadFromTemp(c, class, pin) ==
  [Emit(c, <<Insn(class, Temp(pin))>>) EXCEPT !.failed = @ \/ pin \notin c.temps]

\* A LOAD operand is compiled as any Boolean instruction, as often as needed.
CompileLoad(c, class, pin) ==
  [Emit(c, <<Insn(class, pin)>>) EXCEPT !.loaded = @ \cup {pin}]

StoreAll(c, operands) ==
  [Emit(c, [k \in 1 .. Cardinality(operands) |-> Insn("=", Stored(SetToSeq(operands)[k]))])
   EXCEPT !.stored = @ \cup operands]

\* The value of a box's output is in VKE: it goes to the ASSIGN operands, and
\* into TEMP for the inputs that are wired to it.
StoreBoxOutput(d, c, pin) ==
  LET assigned == StoreAll(c, StoredTo(d, pin))
  IN IF Readers(d, pin) # {} THEN StoreToTemp(assigned, pin) ELSE assigned

\* Mutant: nothing copies VKE to BIE.
SetVkeOnly(i) == <<Plain("SET")>>

\* newInsns_SET_BIE_CLR_ER: a jump to itself that is never taken sets BIE.
SetBieClearEr(i) ==
  <<Plain("SET"), Labelled(<<i, "set">>, Insn("SPBNB", <<i, "set">>))>>

\* compile() returns the instructions of an element, which are added to those
\* there are; of[p, i] has them, and what they bring about, for node i and the
\* progress p that has been made.
Compiled(of, c, i) ==
  LET new == of[<<[c EXCEPT !.code = <<>>], i>>] IN [new EXCEPT !.code = c.code \o @]

\* compileConn: the element behind a pin, with its value in VKE or combined
\* with it as class says.
CompileConn(d, of, c, class, pin) ==
  LET i == pin[1]
      first == i \notin c.done
  IN CASE i = 0 -> CompileLoad(c, class, pin)
       [] Is(d, i, Booleans) /\ first ->
            LET compiled == Compiled(of, Emit(c, <<Plain(Branch(class))>>), i)
            IN Emit(IF Fanout(d, pin) > 1 THEN StoreToTemp(compiled, pin) ELSE compiled,
                    <<Plain(")")>>)
       [] Is(d, i, Boxes) /\ first ->
            LET compiled == Compiled(of, c, i)
            IN IF class \in {"UN", "ON"} THEN Emit(compiled, <<Plain("NOT")>>) ELSE compiled
       [] OTHER -> LoadFromTemp(c, class, pin)

\* _doCompileBool: the inputs in order, a box in parentheses of its own.
CompileInput(d, of, c, kind, input) ==
  LET class == Class(kind, input.inverted)
  IN IF Is(d, input.pin[1], Boxes)
     THEN Emit(CompileConn(d, of, Emit(c, <<Plain(Branch(kind))>>), class, input.pin),
               <<Plain(")")>>)
     ELSE CompileConn(d, of, c, class, input.pin)
CompileBoolean(d, of, c, i) ==
  LET node == d.nodes[i]
      joined[k \in 0 .. Len(node.ins)] ==
        IF k = 0 THEN c ELSE CompileInput(d, of, joined[k - 1], node.kind, node.ins[k])
      all == joined[Len(node.ins)]
  IN IF node.inverted THEN Emit(all, <<Plain("NOT")>>) ELSE all

\* FupCompiler_ElemMove._doCompile.
CompileMove(d, of, c, i) ==
  LET node == d.nodes[i]
      end == <<i, "end">>
      enoUsed == Fanout(d, Eno(i)) > 0
      source == IF node.source \notin c.done \cup {0} THEN Compiled(of, c, node.source) ELSE c
      enabled == IF node.ins = <<>> THEN source
                 ELSE Emit(CompileConn(d, of, source, "U", node.ins[1].pin), <<Insn("SPBNB", end)>>)
      moved == Emit(enabled, <<Insn("T", Transferred(i))>>)
      bieSet == IF node.ins = <<>> /\ enoUsed THEN Emit(moved, SetBieClearEr(i)) ELSE moved
      ended == Emit(bieSet, <<Labelled(end, Plain("NOP"))>>)
  IN IF enoUsed THEN StoreBoxOutput(d, Emit(ended, <<Insn("U", BIE)>>), Eno(i)) ELSE ended

\* FupCompiler_ElemCmp._doCompile.
CompileCompare(d, of, c, i) ==
  LET node == d.nodes[i]
      enoUsed == Fanout(d, Eno(i)) > 0
      enUsed == node.ins # <<>>
      saved == IF enUsed /\ enoUsed
               THEN Emit(CompileConn(d, of, c, "U", node.ins[1].pin), <<Plain("SAVE")>>) ELSE c
      compared == Emit(saved, <<Insn("CMP", Out(i))>>)
      gated == CASE enUsed /\ enoUsed -> Emit(compared, <<Insn("U", BIE)>>)
                 [] enUsed /\ ~enoUsed -> CompileConn(d, of, compared, "U", node.ins[1].pin)
                 [] ~enUsed -> compared
      out == StoreBoxOutput(d, gated, Out(i))
  IN IF enoUsed
     THEN StoreBoxOutput(d, Emit(out, <<IF enUsed THEN Insn("U", BIE) ELSE Plain("SET")>>), Eno(i))
     ELSE out

CompileElem(d, of, c, i) ==
  LET running == [c EXCEPT !.done = @ \cup {i}]
  IN CASE Is(d, i, Booleans) -> CompileBoolean(d, of, running, i)
       [] Is(d, i, {"MOVE"}) -> CompileMove(d, of, running, i)
       [] Is(d, i, {"CMP"}) -> CompileCompare(d, of, running, i)

\* The pins that something is wired to, and the progress of a compilation.
Wired(d) ==
  {d.stores[s] : s \in DOMAIN d.stores}
    \cup UNION {{d.nodes[i].ins[k].pin : k \in DOMAIN d.nodes[i].ins} : i \in DOMAIN d.nodes}
Progress(d) ==
  [code : {<<>>}, done : SUBSET DOMAIN d.nodes, loaded : SUBSET Wired(d),
   stored : SUBSET DOMAIN d.stores, temps : SUBSET Wired(d), failed : BOOLEAN]

Instructions(d) ==
  LET of[x \in Progress(d) \X DOMAIN d.nodes] == CompileElem(d, of, x[1], x[2]) IN of
CompileNode(d, c, i) == Compiled(Instructions(d), c, i)

\* FupCompiler_ElemOperAssign._doCompile: an entry point of the compilation.
\* The operands wired to the same pin are stored with it.
CompileAssign(d, c, s) ==
  LET pin == d.stores[s]
      compiled ==
        CASE pin[1] = 0 /\ pin \notin c.loaded -> CompileLoad(c, "U", pin)
          [] pin[1] # 0 /\ pin[1] \notin c.done -> CompileNode(d, c, pin[1])
          [] OTHER -> LoadFromTemp(c, "U", pin)
      stored == StoreAll(compiled, {s})
      kept == IF Is(d, pin[1], Booleans) /\ Fanout(d, pin) > 1
              THEN StoreToTemp(stored, pin) ELSE stored
  IN CASE s \in c.stored -> c
       [] s \in compiled.stored \ c.stored -> compiled
       [] s \notin c.stored \cup compiled.stored -> StoreAll(kept, StoredTo(d, pin) \ {s})

\* Mutant: ENO becomes one more wire at EN.
AttachENO(d, i) ==
  LET source == d.nodes[i].source
  IN IF source = 0 THEN d
     ELSE [d EXCEPT !.nodes[i].ins = Append(@, Input(Eno(source), FALSE))]

\* FupCompiler_Helpers.genIntermediateBool: the ENO of the box that the data
\* of a MOVE come from is wired to its EN, through an AND if EN is connected.
TakeENO(d, i) ==
  LET node == d.nodes[i]
      eno == Input(Eno(node.source), FALSE)
      and == Node("U", <<eno>> \o node.ins, FALSE, 0)
      en == IF node.ins = <<>> THEN eno ELSE Input(Out(Len(d.nodes) + 1), FALSE)
      rewired == [d.nodes EXCEPT ![i].ins = <<en>>]
  IN CASE node.source = 0 -> d
       [] node.source # 0 /\ node.ins = <<>> -> Diagram(rewired, d.stores)
       [] node.source # 0 /\ node.ins # <<>> -> Diagram(Append(rewired, and), d.stores)
Preprocess(d) ==
  LET processed[i \in 0 .. Len(d.nodes)] ==
        IF i = 0 THEN d ELSE TakeENO(processed[i - 1], i)
  IN processed[Len(d.nodes)]
=============================================================================
