----------------------------- MODULE FupDiagram -----------------------------
(***************************************************************************)
(* A grid of a FUP/FBD diagram, and what it means.  Nodes 1, 2, ... are    *)
(* its Boolean elements (&, >=1), its MOVE boxes and its compare boxes; a  *)
(* pin is an output of a node, or of a LOAD operand, which counts as       *)
(* node 0.  A box takes EN and gives ENO, both optional; the transfer of a *)
(* MOVE and the result of a comparison are one bit each: whether it        *)
(* happened, and what it is.                                               *)
(***************************************************************************)
EXTENDS Naturals, Sequences, FiniteSets

Booleans == {"U", "O"}     \* AND and OR, by the instruction they compile to
Boxes == {"MOVE", "CMP"}

Load(name) == <<0, name>>
Out(i) == <<i, "OUT">>
Eno(i) == <<i, "ENO">>

\* An input: the pin it is wired to, and whether it is inverted.
Input(pin, inverted) == [pin |-> pin, inverted |-> inverted]

\* A node: its inputs in the order of their positions (of a box: EN, if it is
\* connected), whether its output is inverted, and for a MOVE the node whose
\* output is wired to IN (0: an operand).
Node(kind, ins, inverted, source) ==
  [kind |-> kind, ins |-> ins, inverted |-> inverted, source |-> source]

\* FupCompiler_Grid: the nodes, and the pin that each ASSIGN operand is wired to.
Diagram(nodes, stores) == [nodes |-> nodes, stores |-> stores]

Is(d, i, kinds) == i \in DOMAIN d.nodes /\ d.nodes[i].kind \in kinds
Moves(d) == {i \in DOMAIN d.nodes : Is(d, i, {"MOVE"})}
Compares(d) == {i \in DOMAIN d.nodes : Is(d, i, {"CMP"})}

\* The inputs wired to a pin, and the ASSIGN operands.
Readers(d, pin) ==
  UNION {{<<i, k>> : k \in {k \in DOMAIN d.nodes[i].ins : d.nodes[i].ins[k].pin = pin}} :
           i \in DOMAIN d.nodes}
StoredTo(d, pin) == {s \in DOMAIN d.stores : d.stores[s] = pin}
Fanout(d, pin) == Cardinality(Readers(d, pin)) + Cardinality(StoredTo(d, pin))

PinsOf(d, i) ==
  CASE Is(d, i, Booleans) -> {Out(i)}
    [] Is(d, i, {"MOVE"}) -> {Eno(i)}
    [] Is(d, i, {"CMP"}) -> {Out(i), Eno(i)}

\* No element dangles: all but ENO has to be connected.
Connected(d) ==
  /\ DOMAIN d.nodes # {}
  /\ \A i \in DOMAIN d.nodes : \A pin \in PinsOf(d, i) \ {Eno(i)} : Fanout(d, pin) > 0

(***************************************************************************)
(* What the diagram means.  values has the operands and the comparisons,   *)
(* value what is at each pin.                                              *)
(***************************************************************************)

Bit(value, input) == value[input.pin] # input.inverted

\* A box is enabled by EN, if it is connected, and a MOVE also by the box that
\* its data come from.
EnabledIn(d, value, i) ==
  /\ \A k \in DOMAIN d.nodes[i].ins : Bit(value, d.nodes[i].ins[k])
  /\ d.nodes[i].source # 0 => value[Eno(d.nodes[i].source)]

\* What is at a pin, from what is at the pins in front of it.
ValueAt(d, values, value, pin) ==
  LET node == d.nodes[pin[1]]
      on == {k \in DOMAIN node.ins : Bit(value, node.ins[k])}
  IN CASE pin[1] = 0 -> values[pin]
       [] Is(d, pin[1], {"U"}) -> (on = DOMAIN node.ins) # node.inverted
       [] Is(d, pin[1], {"O"}) -> (on # {}) # node.inverted
       [] Is(d, pin[1], Boxes) /\ pin[2] = "ENO" -> EnabledIn(d, value, pin[1])
       [] Is(d, pin[1], {"CMP"}) /\ pin[2] = "OUT" ->
            values[pin] /\ EnabledIn(d, value, pin[1])

Values(d, values) ==
  LET value[pin \in DOMAIN values \cup UNION {PinsOf(d, i) : i \in DOMAIN d.nodes}] ==
        ValueAt(d, values, value, pin)
  IN value
PinValue(d, values, pin) == Values(d, values)[pin]
Enabled(d, values, i) == EnabledIn(d, Values(d, values), i)
=============================================================================
