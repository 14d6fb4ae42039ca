-------------------------------- MODULE Fup ---------------------------------
(***************************************************************************)
(* A grid from the drawing to the code: its elements are drawn and wired   *)
(* up, the virtual elements are added, the entry points (what is assigned) *)
(* are compiled from the top of the drawing to its bottom, wherever each   *)
(* of them has been drawn, and the code is optimized.                      *)
(***************************************************************************)
EXTENDS AwlRun

CONSTANTS Loads,        \* names of LOAD operands
          Stores,       \* names of ASSIGN operands
          Shapes,       \* the Boolean elements drawn: kind, inverted inputs, inverted output
          Widths,       \* how many inputs they have
          MaxNodes,     \* bound on the nodes of a diagram
          MaxElements   \* bound on its nodes and ASSIGN operands

ASSUME FupAssumption ==
  /\ Loads \cap Stores = {}
  /\ {"", "BIE"} \cap (Loads \cup Stores) = {}
  /\ Shapes \subseteq Booleans \X (SUBSET Nat) \X BOOLEAN
  /\ Widths \subseteq Nat \ {0}
  /\ MaxNodes \in Nat /\ MaxElements \in Nat

VARIABLES diagram,      \* what has been drawn
          phase,
          compiled,     \* the state of the compilation
          code          \* what it has made

gridVars == <<diagram, phase, compiled, code>>

Nodes == DOMAIN diagram.nodes
Pins == {Load(name) : name \in Loads} \cup UNION {PinsOf(diagram, i) : i \in Nodes}

GridInit ==
  /\ diagram = Diagram(<<>>, <<>>)
  /\ phase = "draw"
  /\ compiled = Nothing
  /\ code = <<>>

ElementCount == Len(diagram.nodes) + Cardinality(DOMAIN diagram.stores)

\* The order in which elements are drawn makes no difference: nodes first.
Draw(node) ==
  /\ phase = "draw" /\ DOMAIN diagram.stores = {}
  /\ Len(diagram.nodes) < MaxNodes /\ ElementCount < MaxElements
  /\ diagram' = [diagram EXCEPT !.nodes = Append(@, node)]
  /\ UNCHANGED <<phase, compiled, code>>

DrawBoolean(shape, pins) ==
  Draw(Node(shape[1], [k \in DOMAIN pins |-> Input(pins[k], k \in shape[2])], shape[3], 0))

\* A box, with EN wired to a pin or not connected.
DrawBox(kind, en, source) ==
  Draw(Node(kind, IF en = NoLabel THEN <<>> ELSE <<Input(en, FALSE)>>, FALSE, source))

AssignOperand(s, pin) ==
  /\ phase = "draw"
  /\ s \notin DOMAIN diagram.stores /\ ElementCount < MaxElements
  /\ diagram' = Diagram(diagram.nodes,
                        [t \in DOMAIN diagram.stores \cup {s} |->
                           IF t = s THEN pin ELSE diagram.stores[t]])
  /\ UNCHANGED <<phase, compiled, code>>

\* FupCompiler_Grid.compile, up to the entry points.
Start ==
  /\ phase = "draw" /\ Connected(diagram)
  /\ diagram' = Preprocess(diagram)
  /\ phase' = "compile"
  /\ UNCHANGED <<compiled, code>>

CompileAssignment(s) ==
  /\ phase = "compile" /\ s \in DOMAIN diagram.stores \ compiled.stored
  /\ compiled' = CompileAssign(diagram, compiled, s)
  /\ UNCHANGED <<diagram, phase, code>>

\* The ASSIGN operand of the data that a MOVE transfers.
CompileTransfer(i) ==
  /\ phase = "compile" /\ i \in Moves(diagram) \ compiled.done
  /\ compiled' = CompileNode(diagram, compiled, i)
  /\ UNCHANGED <<diagram, phase, code>>

\* Every entry point has been compiled.  The last grid ends the block.
Finish(last) ==
  /\ phase = "compile"
  /\ DOMAIN diagram.stores \subseteq compiled.stored /\ Moves(diagram) \subseteq compiled.done
  /\ code' = compiled.code \o (IF last THEN <<Plain("BE")>> ELSE <<>>)
  /\ phase' = "compiled"
  /\ UNCHANGED <<diagram, compiled>>

Optimize(enabled) ==
  /\ phase = "compiled"
  /\ code' = OptimizeInsns(code, enabled)
  /\ phase' = "optimized"
  /\ UNCHANGED <<diagram, compiled>>

GridNext ==
  \/ \E shape \in Shapes, n \in Widths : \E pins \in [1 .. n -> Pins] : DrawBoolean(shape, pins)
  \/ \E kind \in Boxes, en \in Pins \cup {NoLabel}, source \in Moves(diagram) \cup {0} :
       (kind = "CMP" => source = 0) /\ DrawBox(kind, en, source)
  \/ \E s \in Stores, pin \in Pins : AssignOperand(s, pin)
  \/ Start
  \/ \E s \in Stores : CompileAssignment(s)
  \/ \E i \in Nodes : CompileTransfer(i)
  \/ \E last \in BOOLEAN : Finish(last)
  \/ \E enabled \in SUBSET Passes : Optimize(enabled)

GridSpec == GridInit /\ [][GridNext]_gridVars

(***************************************************************************)
(* Properties                                                              *)
(***************************************************************************)

Operands ==
  Pins \cup {Temp(pin) : pin \in Pins} \cup {Stored(s) : s \in Stores}
       \cup {Transferred(i) : i \in Nodes} \cup {Out(i) : i \in Nodes}

\* The type of every variable: one wire at most ends in an EN, at least one in a gate,
\* also when virtual elements have been added.
GridTypeOK ==
  /\ \A i \in Nodes : \/ Is(diagram, i, Booleans) /\ diagram.nodes[i].ins # <<>>
                      \/ Is(diagram, i, Boxes) /\ Len(diagram.nodes[i].ins) <= 1
  /\ DOMAIN diagram.stores \subseteq Stores
  /\ phase \in {"draw", "compile", "compiled", "optimized"}
  /\ compiled.done \subseteq Nodes /\ compiled.stored \subseteq DOMAIN diagram.stores
  /\ compiled.temps \subseteq Pins

Inputs == {Load(name) : name \in Loads} \cup {Out(i) : i \in Compares(diagram)}

\* The operands before the program runs: before is what those hold that are
\* not its inputs.
Initially(values, before) ==
  [x \in Operands |-> IF x \in Inputs THEN values[x] ELSE before]

\* What the program leaves in the operands is what the diagram means: each
\* ASSIGN operand has the value of its pin, and a MOVE has transferred its data
\* once if it is enabled and not at all if it is not.
Computed ==
  \A values \in [Inputs -> BOOLEAN], before \in BOOLEAN :
    LET end == Run(code, Initially(values, before))
        after == end.operands
    IN /\ Ends(code, end)
       /\ \A s \in DOMAIN diagram.stores :
            after[Stored(s)] = PinValue(diagram, values, diagram.stores[s])
       /\ \A i \in Moves(diagram) :
            after[Transferred(i)] = (before # Enabled(diagram, values, i))

Done == phase \in {"compiled", "optimized"}

\* Three shapes whose code depends on what is compiled first.
\* A compare box with ENO, whose result is the input of an element.
ResultBehindENO ==
  \E i \in Compares(diagram) : Readers(diagram, Out(i)) # {} /\ Fanout(diagram, Eno(i)) > 0
\* A compare box without ENO, enabled by a box.
EnabledByBox ==
  \E i \in Compares(diagram) :
    /\ Fanout(diagram, Eno(i)) = 0
    /\ \E k \in DOMAIN diagram.nodes[i].ins :
         Is(diagram, diagram.nodes[i].ins[k].pin[1], Boxes)
\* A LOAD operand that is the input of an element and assigned as well.
LoadAssigned ==
  \E name \in Loads : Readers(diagram, Load(name)) # {} /\ StoredTo(diagram, Load(name)) # {}

\* Whatever is drawn, and from whichever element it has been compiled: the
\* code, optimized or not, computes what the diagram means.
Computes ==
  Done /\ ~ResultBehindENO /\ ~EnabledByBox /\ ~LoadAssigned => ~compiled.failed /\ Computed

\* Every jump of the code finds its label, and no label is there twice: what
\* the passes of the optimizer, any of them, leave can be loaded.
LabelsResolve == Done => Resolvable(code)

\* "Compile this element and get the value corresponding to the given
\* connection" (elem.py:396): that holds of a compare box as well, with its ENO
\* connected or not.
ResultIsCompared == Done /\ ~EnabledByBox /\ ~LoadAssigned => ~compiled.failed /\ Computed
=============================================================================
