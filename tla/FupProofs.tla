----------------------------- MODULE FupProofs ------------------------------
(***************************************************************************)
(* The code of a grid does what the diagram means, whatever is drawn, from *)
(* whichever element it is compiled and whichever passes of the optimizer  *)
(* are enabled: what each piece of the code brings about in the operands,  *)
(* that the optimizer leaves this as it is, and that the CPU gets there.   *)
(***************************************************************************)
EXTENDS LogicProofs

(***************************************************************************)
(* What the code of a grid does.                                           *)
(***************************************************************************)

\* The instructions one after the other: a jump that is taken skips those in
\* front of its label.  st has the machine and the label that is looked for.
PlayStep(insn, st) ==
  IF st[2] # NoLabel /\ insn.label # st[2] THEN st
  ELSE IF insn.op = "BE" THEN <<st[1], NoLabel>>
  ELSE <<Execute(insn, st[1]), IF Jumps(insn) /\ ~st[1].sw.VKE THEN insn.arg ELSE NoLabel>>

Plays(code0, t) == \A k \in 1..Len(code0) : t[k] = PlayStep(code0[k], t[k - 1])
Leads(code0, st, st2) == \E t : t[0] = st /\ t[Len(code0)] = st2 /\ Plays(code0, t)

LEMMA LeadsNil ==
  ASSUME NEW st
  PROVE  Leads(<<>>, st, st)
<1> DEFINE t == [k \in {0} |-> st]
<1>1. t[0] = st /\ Len(<<>>) = 0 /\ Plays(<<>>, t)
  BY DEF Plays
<1> QED BY <1>1 DEF Leads

LEMMA LeadsOne ==
  ASSUME NEW insn, NEW st
  PROVE  Leads(<<insn>>, st, PlayStep(insn, st))
<1> DEFINE t == [k \in {0, 1} |-> IF k = 0 THEN st ELSE PlayStep(insn, st)]
           a == <<insn>>
<1>1. Len(a) = 1 /\ a[1] = insn
  OBVIOUS
<1>2. t[0] = st /\ t[1] = PlayStep(insn, st)
  OBVIOUS
<1> HIDE DEF t, a
<1>3. \A k \in 1..Len(a) : t[k] = PlayStep(a[k], t[k - 1])
  BY <1>1, <1>2
<1>4. Leads(a, st, PlayStep(insn, st))
  BY <1>1, <1>2, <1>3 DEF Leads, Plays
<1> QED BY <1>4 DEF a

LEMMA LeadsConcat ==
  ASSUME NEW A, NEW a \in Seq(A), NEW b \in Seq(A), NEW st, NEW st2, NEW st3,
         Leads(a, st, st2), Leads(b, st2, st3)
  PROVE  Leads(a \o b, st, st3)
<1> DEFINE ab == a \o b
           m == Len(a)
           n == Len(b)
<1>1. /\ Len(ab) = m + n /\ m \in Nat /\ n \in Nat
      /\ \A k \in 1 .. m + n : ab[k] = IF k <= m THEN a[k] ELSE b[k - m]
  BY ConcatProperties, LenProperties
<1>2. PICK t : t[0] = st /\ t[m] = st2 /\ \A k \in 1..m : t[k] = PlayStep(a[k], t[k - 1])
  BY DEF Leads, Plays
<1>3. PICK w : w[0] = st2 /\ w[n] = st3 /\ \A k \in 1..n : w[k] = PlayStep(b[k], w[k - 1])
  BY DEF Leads, Plays
<1> HIDE DEF ab, m, n
<1> DEFINE f == [k \in 0 .. m + n |-> IF k <= m THEN t[k] ELSE w[k - m]]
<1>4. \A k \in 0..m : f[k] = t[k]
  BY <1>1
<1>5. \A k \in 0..n : f[m + k] = w[k]
  <2> TAKE k \in 0..n
  <2>1. m + k \in 0 .. m + n /\ (m + k) - m = k
    BY <1>1
  <2>2. CASE k = 0
    BY <1>1, <1>2, <1>3, <2>2
  <2>3. CASE k # 0
    <3>1. ~(m + k <= m)
      BY <1>1, <2>3
    <3> QED BY <2>1, <3>1
  <2> QED BY <2>2, <2>3
<1> HIDE DEF f
<1>6. ASSUME NEW k \in 1 .. m + n PROVE f[k] = PlayStep(ab[k], f[k - 1])
  <2>1. CASE k <= m
    <3>1. k \in 1..m /\ k \in 0..m /\ k - 1 \in 0..m /\ ab[k] = a[k]
      BY <1>1, <2>1
    <3>2. t[k] = PlayStep(a[k], t[k - 1])
      BY <1>2, <3>1
    <3> QED BY <1>4, <3>1, <3>2
  <2>2. CASE ~(k <= m)
    <3> DEFINE l == k - m
    <3>1. /\ l \in 1..n /\ l \in 0..n /\ l - 1 \in 0..n /\ m + l = k /\ m + (l - 1) = k - 1
          /\ ab[k] = b[l]
      BY <1>1, <2>2
    <3> HIDE DEF l
    <3>2. w[l] = PlayStep(b[l], w[l - 1])
      BY <1>3, <3>1
    <3>3. f[k] = w[l] /\ f[k - 1] = w[l - 1]
      BY <1>5, <3>1
    <3> QED BY <3>1, <3>2, <3>3
  <2> QED BY <2>1, <2>2
<1>7. f[0] = st /\ f[m + n] = st3
  BY <1>1, <1>2, <1>3, <1>4, <1>5
<1>8. Leads(ab, st, st3)
  BY <1>1, <1>6, <1>7 DEF Leads, Plays
<1> QED BY <1>8 DEF ab

\* The machine, its parts, and the operands of a diagram.
OperandsOf(d) ==
  GridPins(d) \cup {Temp(pin) : pin \in GridPins(d)} \cup {Stored(s) : s \in Stores}
    \cup {Transferred(i) : i \in DOMAIN d.nodes} \cup {Out(i) : i \in DOMAIN d.nodes}
ParenElems == [insnType : Gates, bits : Bits]
Machines(d) ==
  [ip : Nat, sw : Bits, bie : BOOLEAN, parens : Seq(ParenElems), operands : [OperandsOf(d) -> BOOLEAN]]

\* m2 is m but for these parts.
Becomes(d, m, m2, word, bie, parens, operands) ==
  /\ m2 \in Machines(d) /\ m2.ip = m.ip
  /\ m2.sw = word /\ m2.bie = bie /\ m2.parens = parens /\ m2.operands = operands

LEMMA WordsTyped ==
  /\ \A class \in Classes : class \in Gates
  /\ \A gate \in Gates, s \in Bits, v \in BOOLEAN : Operate(gate, s, v) \in Bits
  /\ \A v \in BOOLEAN : Ended(v) \in Bits /\ Ended(v).VKE = v /\ ~Ended(v).NER /\ ~Ended(v).OR
<1>1. \A class \in Classes : class \in Gates
  BY DEF Classes, Gates
<1>2. ASSUME NEW s \in Bits, NEW v \in BOOLEAN
      PROVE  U(s, v) \in Bits /\ O(s, v) \in Bits /\ X(s, v) \in Bits
  BY DEF U, O, X, Bits
<1>3. ASSUME NEW gate \in Gates, NEW s \in Bits, NEW v \in BOOLEAN
      PROVE  Operate(gate, s, v) \in Bits
  <2>1. U(s, v) \in Bits /\ O(s, v) \in Bits /\ X(s, v) \in Bits
        /\ U(s, ~v) \in Bits /\ O(s, ~v) \in Bits /\ X(s, ~v) \in Bits
    BY <1>2
  <2> QED BY <2>1 DEF Operate, UN, ON, XN, Gates
<1>4. \A v \in BOOLEAN : Ended(v) \in Bits /\ Ended(v).VKE = v /\ ~Ended(v).NER /\ ~Ended(v).OR
  BY DEF Ended, Bits
<1> QED BY <1>1, <1>3, <1>4

(***************************************************************************)
(* What is at the pins of a diagram.                                       *)
(***************************************************************************)

InputsOf(d) == {Load(name) : name \in Loads} \cup {Out(i) : i \in Compares(d)}

AllOn(d, h, i) == \A k \in DOMAIN d.nodes[i].ins : Bit(h, d.nodes[i].ins[k])
AnyOn(d, h, i) == \E k \in DOMAIN d.nodes[i].ins : Bit(h, d.nodes[i].ins[k])

\* What h has at the pins is what the diagram says, at pin.
Meant(d, values, h, pin, v) ==
  LET i == pin[1]
  IN /\ i = 0 => v = values[pin]
     /\ i # 0 /\ Is(d, i, {"U"}) => v = (AllOn(d, h, i) # d.nodes[i].inverted)
     /\ i # 0 /\ Is(d, i, {"O"}) => v = (AnyOn(d, h, i) # d.nodes[i].inverted)
     /\ i # 0 /\ Is(d, i, Boxes) /\ pin = Eno(i) => v = EnabledIn(d, h, i)
     /\ i # 0 /\ Is(d, i, {"CMP"}) /\ pin = Out(i) => v = (values[pin] /\ EnabledIn(d, h, i))

LEMMA MeantCases ==
  ASSUME NEW d, IsDiagram(d), NEW values, NEW h, NEW pin \in GridPins(d)
  PROVE  Meant(d, values, h, pin, ValueAt(d, values, h, pin))
<1> DEFINE i == pin[1]
           node == d.nodes[i]
           on == {k \in DOMAIN node.ins : Bit(h, node.ins[k])}
           v == ValueAt(d, values, h, pin)
<1>1. pin = <<i, pin[2]>> /\ i \in Nat /\ (i # 0 => i \in DOMAIN d.nodes /\ pin \in PinsOf(d, i))
  BY KindsOfPins
<1>2. v = CASE i = 0 -> values[pin]
            [] Is(d, i, {"U"}) -> (on = DOMAIN node.ins) # node.inverted
            [] Is(d, i, {"O"}) -> (on # {}) # node.inverted
            [] Is(d, i, Boxes) /\ pin[2] = "ENO" -> EnabledIn(d, h, i)
            [] Is(d, i, {"CMP"}) /\ pin[2] = "OUT" -> values[pin] /\ EnabledIn(d, h, i)
  BY Zenon DEF ValueAt
<1>3. 0 \notin DOMAIN d.nodes
  BY PinsOfKinds
<1>4. (on = DOMAIN node.ins) = AllOn(d, h, i)
  <2>1. (on = DOMAIN node.ins) <=> AllOn(d, h, i)
    BY DEF AllOn
  <2>2. AllOn(d, h, i) \in BOOLEAN /\ (on = DOMAIN node.ins) \in BOOLEAN
    BY DEF AllOn
  <2> QED BY <2>1, <2>2
<1>5. (on # {}) = AnyOn(d, h, i)
  <2>1. (on # {}) <=> AnyOn(d, h, i)
    BY DEF AnyOn
  <2>2. AnyOn(d, h, i) \in BOOLEAN /\ (on # {}) \in BOOLEAN
    BY DEF AnyOn
  <2> QED BY <2>1, <2>2
<1>6. /\ Is(d, i, {"U"}) => d.nodes[i].kind = "U" /\ i # 0
      /\ Is(d, i, {"O"}) => d.nodes[i].kind = "O" /\ i # 0
      /\ Is(d, i, Boxes) => d.nodes[i].kind \in {"MOVE", "CMP"} /\ i # 0
      /\ Is(d, i, {"CMP"}) => d.nodes[i].kind = "CMP" /\ i # 0
  BY <1>3 DEF Is, Boxes
<1>7. /\ pin = Eno(i) => pin[2] = "ENO"
      /\ pin = Out(i) => pin[2] = "OUT"
  BY DEF Eno, Out
<1> HIDE DEF v, on, node, i
<1>8. CASE i = 0
  <2>1. v = values[pin]
    BY <1>2, <1>6, <1>8
  <2> QED BY <1>8, <2>1 DEF Meant, v, i
<1>9. CASE i # 0
  <2>1. Is(d, i, {"U"}) => v = ((on = DOMAIN node.ins) # node.inverted)
    BY <1>2, <1>6, <1>9
  <2>2. Is(d, i, {"O"}) => v = ((on # {}) # node.inverted)
    BY <1>2, <1>6, <1>9
  <2>3. Is(d, i, Boxes) /\ pin = Eno(i) => v = EnabledIn(d, h, i)
    BY <1>2, <1>6, <1>7, <1>9
  <2>4. Is(d, i, {"CMP"}) /\ pin = Out(i) => v = (values[pin] /\ EnabledIn(d, h, i))
    BY <1>2, <1>6, <1>7, <1>9
  <2>5. Is(d, i, {"U"}) => v = (AllOn(d, h, i) # node.inverted)
    BY <1>4, <2>1
  <2>6. Is(d, i, {"O"}) => v = (AnyOn(d, h, i) # node.inverted)
    BY <1>5, <2>2
  <2> QED BY <1>9, <2>3, <2>4, <2>5, <2>6 DEF Meant, v, i, node
<1> QED BY <1>8, <1>9

\* The pins of a diagram, as they are looked at from a node.
LEMMA PinCases ==
  ASSUME NEW d, IsDiagram(d), NEW pin \in GridPins(d)
  PROVE  /\ pin[1] = 0 => pin \in {Load(name) : name \in Loads}
         /\ pin[1] # 0 =>
              /\ pin[1] \in DOMAIN d.nodes
              /\ \/ Is(d, pin[1], {"U"}) /\ pin = Out(pin[1])
                 \/ Is(d, pin[1], {"O"}) /\ pin = Out(pin[1])
                 \/ Is(d, pin[1], Boxes) /\ pin = Eno(pin[1])
                 \/ Is(d, pin[1], {"CMP"}) /\ pin = Out(pin[1])
<1>1. /\ pin[1] = 0 => pin[2] \in Loads /\ pin = Load(pin[2])
      /\ pin[1] # 0 => pin[1] \in DOMAIN d.nodes /\ pin \in PinsOf(d, pin[1])
  BY KindsOfPins
<1>2. CASE pin[1] = 0
  BY <1>1, <1>2
<1>3. CASE pin[1] # 0
  <2> DEFINE i == pin[1]
  <2>1. i \in DOMAIN d.nodes /\ pin \in PinsOf(d, i)
    BY <1>1, <1>3
  <2> HIDE DEF i
  <2>2. /\ Is(d, i, Booleans) \/ Is(d, i, {"MOVE"}) \/ Is(d, i, {"CMP"})
        /\ Is(d, i, Booleans) => PinsOf(d, i) = {Out(i)}
        /\ Is(d, i, {"MOVE"}) => Is(d, i, Boxes) /\ PinsOf(d, i) = {Eno(i)}
        /\ Is(d, i, {"CMP"}) => Is(d, i, Boxes) /\ PinsOf(d, i) = {Out(i), Eno(i)}
    BY <2>1, PinsOfKinds
  <2>3. Is(d, i, Booleans) => Is(d, i, {"U"}) \/ Is(d, i, {"O"})
    BY DEF Is, Booleans
  <2>4. \/ Is(d, i, {"U"}) /\ pin = Out(i)
        \/ Is(d, i, {"O"}) /\ pin = Out(i)
        \/ Is(d, i, Boxes) /\ pin = Eno(i)
        \/ Is(d, i, {"CMP"}) /\ pin = Out(i)
    BY <2>1, <2>2, <2>3
  <2> QED BY <1>3, <2>1, <2>4 DEF i
<1> QED BY <1>2, <1>3

LEMMA ValueTyped ==
  ASSUME NEW d, IsDiagram(d), NEW values \in [InputsOf(d) -> BOOLEAN], NEW h, NEW pin \in GridPins(d)
  PROVE  ValueAt(d, values, h, pin) \in BOOLEAN
<1> DEFINE i == pin[1]
           v == ValueAt(d, values, h, pin)
<1>1. Meant(d, values, h, pin, v)
  BY MeantCases
<1>2. /\ i = 0 => pin \in {Load(name) : name \in Loads}
      /\ i # 0 =>
           /\ i \in DOMAIN d.nodes
           /\ \/ Is(d, i, {"U"}) /\ pin = Out(i)
              \/ Is(d, i, {"O"}) /\ pin = Out(i)
              \/ Is(d, i, Boxes) /\ pin = Eno(i)
              \/ Is(d, i, {"CMP"}) /\ pin = Out(i)
  BY PinCases
<1> HIDE DEF v
<1>3. i = 0 => v \in BOOLEAN
  BY <1>1, <1>2 DEF Meant, InputsOf
<1>4. ASSUME i # 0 PROVE v \in BOOLEAN
  <2>1. (AllOn(d, h, i) # d.nodes[i].inverted) \in BOOLEAN /\ (AnyOn(d, h, i) # d.nodes[i].inverted) \in BOOLEAN
    OBVIOUS
  <2>2. EnabledIn(d, h, i) \in BOOLEAN /\ (values[pin] /\ EnabledIn(d, h, i)) \in BOOLEAN
    BY DEF EnabledIn
  <2> QED BY <1>1, <1>2, <1>4, <2>1, <2>2 DEF Meant
<1> QED BY <1>3, <1>4 DEF v

\* The values of two functions that agree before a node are the same at its pins.
LEMMA ValueLocal ==
  ASSUME NEW d, NEW rank, NEW N, Fits(d, rank, N), NEW values, NEW h, NEW h2, NEW pin \in GridPins(d),
         \A p \in GridPins(d) : Before(rank, p, pin[1]) => h[p] = h2[p]
  PROVE  ValueAt(d, values, h, pin) = ValueAt(d, values, h2, pin)
<1> DEFINE i == pin[1]
           v == ValueAt(d, values, h, pin)
           v2 == ValueAt(d, values, h2, pin)
<1>1. IsDiagram(d) /\ (i # 0 => i \in DOMAIN d.nodes)
  BY KindsOfPins DEF Fits
<1>2. Meant(d, values, h, pin, v) /\ Meant(d, values, h2, pin, v2)
  BY <1>1, MeantCases
<1>3. /\ i # 0 =>
           \/ Is(d, i, {"U"}) /\ pin = Out(i)
           \/ Is(d, i, {"O"}) /\ pin = Out(i)
           \/ Is(d, i, Boxes) /\ pin = Eno(i)
           \/ Is(d, i, {"CMP"}) /\ pin = Out(i)
  BY <1>1, PinCases
<1> HIDE DEF v, v2
<1>4. i = 0 => v = v2
  BY <1>2 DEF Meant
<1>5. ASSUME i # 0 PROVE v = v2
  <2>1. NodeFits(d, rank, i) /\ i \in DOMAIN d.nodes
    BY <1>1, <1>5 DEF Fits
  <2>2. ASSUME NEW k \in DOMAIN d.nodes[i].ins
        PROVE  Bit(h, d.nodes[i].ins[k]) <=> Bit(h2, d.nodes[i].ins[k])
    <3>1. Before(rank, d.nodes[i].ins[k].pin, i)
      BY <2>1 DEF NodeFits
    <3>2. d.nodes[i].ins[k].pin \in GridPins(d)
      BY <1>1, <2>1, WiredPins
    <3> QED BY <3>1, <3>2 DEF Bit
  <2>3. /\ AllOn(d, h, i) <=> AllOn(d, h2, i)
        /\ AnyOn(d, h, i) <=> AnyOn(d, h2, i)
    BY <2>2 DEF AllOn, AnyOn
  <2>4. d.nodes[i].source # 0 => h[Eno(d.nodes[i].source)] = h2[Eno(d.nodes[i].source)]
    <3> DEFINE s == d.nodes[i].source
    <3> SUFFICES ASSUME s # 0 PROVE h[Eno(s)] = h2[Eno(s)]
      OBVIOUS
    <3>1. Is(d, s, {"MOVE"}) /\ rank[s] < rank[i] /\ s \in DOMAIN d.nodes
      BY <2>1 DEF NodeFits, Is
    <3> HIDE DEF s
    <3>2. Eno(s) \in PinsOf(d, s)
      BY <1>1, <3>1, PinsOfKinds
    <3>3. Eno(s) \in GridPins(d)
      BY <3>1, <3>2 DEF GridPins
    <3>4. Before(rank, Eno(s), i)
      BY <3>1 DEF Before, Eno
    <3> QED BY <3>3, <3>4
  <2>5. EnabledIn(d, h, i) <=> EnabledIn(d, h2, i)
    BY <2>2, <2>4 DEF EnabledIn
  <2>6. EnabledIn(d, h, i) = EnabledIn(d, h2, i) /\ AllOn(d, h, i) = AllOn(d, h2, i)
        /\ AnyOn(d, h, i) = AnyOn(d, h2, i)
    BY <2>3, <2>5 DEF EnabledIn, AllOn, AnyOn
  <2> QED BY <1>2, <1>3, <1>5, <2>6 DEF Meant
<1> QED BY <1>4, <1>5 DEF v, v2

\* V has what is at every pin.
Env(d, values, V) ==
  /\ V \in [GridPins(d) -> BOOLEAN]
  /\ \A pin \in GridPins(d) : V[pin] = ValueAt(d, values, V, pin)

LEMMA ValuesDomain ==
  ASSUME NEW d, IsDiagram(d), NEW values \in [InputsOf(d) -> BOOLEAN]
  PROVE  DOMAIN values \cup UNION {PinsOf(d, i) : i \in DOMAIN d.nodes} = GridPins(d)
<1>1. ASSUME NEW i \in Compares(d) PROVE Out(i) \in UNION {PinsOf(d, j) : j \in DOMAIN d.nodes}
  <2>1. i \in DOMAIN d.nodes /\ Is(d, i, {"CMP"})
    BY DEF Compares
  <2>2. Out(i) \in PinsOf(d, i)
    BY <2>1, PinsOfKinds
  <2> QED BY <2>1, <2>2
<1>2. DOMAIN values = InputsOf(d)
  OBVIOUS
<1> QED BY <1>1, <1>2 DEF InputsOf, GridPins

\* The recursion over the pins is well-founded: every pin has a value.
LEMMA ValuesMean ==
  ASSUME NEW d, NEW rank, NEW N, Fits(d, rank, N), NEW values \in [InputsOf(d) -> BOOLEAN]
  PROVE  Env(d, values, Values(d, values))
<1> DEFINE V == GridPins(d)
           Y == BOOLEAN
           E(x, f) == ValueAt(d, values, f, x)
           level == [x \in V |-> IF x[1] = 0 THEN 0 ELSE rank[x[1]] + 1]
           M == N + 1
           G == [x \in V \X [V -> Y] |-> E(x[1], x[2])]
<1>1. FALSE \in Y /\ M \in Nat /\ N \in Nat /\ IsDiagram(d)
  BY DEF Fits
<1>2. level \in [V -> 0..M]
  <2>1. \A x \in V : x[1] # 0 => rank[x[1]] \in 0..N
    BY <1>1, KindsOfPins DEF Fits
  <2> QED BY <1>1, <2>1
<1>3. ASSUME NEW x \in V, NEW f \in [V -> Y] PROVE E(x, f) \in Y
  BY <1>1, ValueTyped
<1>4. ASSUME NEW x \in V, NEW f, NEW f2, AgreeBelow(V, level, level[x], f, f2)
      PROVE  E(x, f) = E(x, f2)
  <2>1. CASE x[1] = 0
    <3>1. Meant(d, values, f, x, E(x, f)) /\ Meant(d, values, f2, x, E(x, f2))
      BY <1>1, MeantCases
    <3>2. E(x, f) = values[x] /\ E(x, f2) = values[x]
      BY <2>1, <3>1 DEF Meant
    <3> QED BY <3>2
  <2>2. CASE x[1] # 0
    <3>1. ASSUME NEW p \in GridPins(d), Before(rank, p, x[1]) PROVE f[p] = f2[p]
      <4>1. level[x] = rank[x[1]] + 1 /\ level[p] = (IF p[1] = 0 THEN 0 ELSE rank[p[1]] + 1)
        BY <2>2
      <4>2. rank[x[1]] \in Nat /\ (p[1] # 0 => rank[p[1]] \in Nat /\ rank[p[1]] < rank[x[1]])
        BY <1>1, <2>2, <3>1, KindsOfPins DEF Fits, Before
      <4>3. level[p] < level[x]
        BY <4>1, <4>2
      <4> QED BY <1>4, <4>3 DEF AgreeBelow
    <3> QED BY <3>1, ValueLocal
  <2> QED BY <2>1, <2>2
<1> HIDE DEF V, Y, E, level, M
<1>5. G \in [V \X [V -> Y] -> Y]
  BY <1>3
<1>6. \A x \in V, f \in [V -> Y] : G[<<x, f>>] = E(x, f)
  OBVIOUS
<1>7. IsLocal(V, Y, level, G)
  BY <1>4, <1>6 DEF IsLocal
<1> HIDE DEF G
<1>8. \E f : IsRecursive(f, V, Y, G)
  <2>1. /\ FALSE \in Y /\ M \in Nat /\ level \in [V -> 0..M] /\ G \in [V \X [V -> Y] -> Y]
        /\ IsLocal(V, Y, level, G)
    BY <1>1, <1>2, <1>5, <1>7
  <2> QED BY <2>1, RankedRecursion, Zenon
<1>9. PICK f \in [V -> Y] : \A x \in V : f[x] = G[<<x, f>>]
  BY <1>8 DEF IsRecursive
<1>10. f = [x \in V |-> E(x, f)]
  BY <1>6, <1>9
<1> DEFINE g == CHOOSE value : value = [x \in V |-> E(x, value)]
<1>11. g = [x \in V |-> E(x, g)]
  BY <1>10, Zenon
<1>12. Values(d, values) = g
  <2>1. Values(d, values) =
          CHOOSE value : value = [pin \in DOMAIN values \cup UNION {PinsOf(d, i) : i \in DOMAIN d.nodes} |->
                                    ValueAt(d, values, value, pin)]
    BY Zenon DEF Values
  <2>2. g = CHOOSE value : value = [pin \in GridPins(d) |-> ValueAt(d, values, value, pin)]
    BY Zenon DEF V, E
  <2>3. DOMAIN values \cup UNION {PinsOf(d, i) : i \in DOMAIN d.nodes} = GridPins(d)
    BY <1>1, ValuesDomain
  <2> QED BY <2>1, <2>2, <2>3, Zenon
<1> HIDE DEF g
<1>13. PICK of : of = g
  OBVIOUS
<1>14. of = [x \in V |-> E(x, of)]
  BY <1>11, <1>13, Zenon
<1>15. of = [x \in V |-> of[x]] /\ f = [x \in V |-> f[x]]
  BY <1>10, <1>14
<1>16. \A x \in V : of[x] = E(x, of) /\ f[x] = E(x, f) /\ level[x] \in 0..M
  BY <1>2, <1>10, <1>14
<1> DEFINE S == {n \in Nat : \A x \in V : level[x] < n => of[x] = f[x]}
<1>17. 0 \in S
  BY <1>16
<1>18. ASSUME NEW n \in Nat, n \in S PROVE n + 1 \in S
  <2>1. ASSUME NEW x \in V, level[x] < n + 1 PROVE of[x] = f[x]
    <3>1. ASSUME NEW y \in V, level[y] < level[x] PROVE f[y] = of[y]
      <4>1. level[y] < n
        BY <1>16, <2>1, <3>1, <1>1
      <4> QED BY <1>18, <4>1
    <3>2. AgreeBelow(V, level, level[x], f, of)
      BY <3>1 DEF AgreeBelow
    <3>3. E(x, f) = E(x, of)
      BY <1>4, <3>2
    <3> QED BY <1>16, <3>3
  <2> QED BY <2>1
<1> HIDE DEF S
<1>19. M + 1 \in Nat /\ M + 1 \in S
  BY <1>1, <1>17, <1>18, SetInduction
<1>20. \A x \in V : of[x] = f[x]
  BY <1>1, <1>16, <1>19 DEF S
<1>21. of = f
  BY <1>15, <1>20
<1>22. Values(d, values) = f
  BY <1>12, <1>13, <1>21
<1>23. f \in [GridPins(d) -> BOOLEAN]
  BY <1>9 DEF V, Y
<1>24. \A pin \in GridPins(d) : f[pin] = ValueAt(d, values, f, pin)
  BY <1>16 DEF V, E
<1> QED BY <1>22, <1>23, <1>24 DEF Env

\* A box is enabled if its EN is on, since the ENO of the node that the data
\* come from is there in front of it.
LEMMA BoxEnabled ==
  ASSUME NEW d, NEW rank, NEW N, Fits(d, rank, N), NEW values, NEW V, Env(d, values, V),
         NEW i \in DOMAIN d.nodes, Is(d, i, Boxes), TakesENO(d, i)
  PROVE  /\ d.nodes[i].ins = <<>> => EnabledIn(d, V, i)
         /\ d.nodes[i].ins # <<>> => EnabledIn(d, V, i) = V[d.nodes[i].ins[1].pin]
<1>1. IsDiagram(d) /\ NodeFits(d, rank, i)
  BY DEF Fits
<1> DEFINE node == d.nodes[i]
           src == node.source
           pin == node.ins[1].pin
<1>2. /\ node.ins # <<>> => /\ node.ins[1] \in Wires(GridPins(d)) /\ ~node.ins[1].inverted
                            /\ DOMAIN node.ins = {1}
                            /\ pin \in Wired(d)
      /\ node.ins = <<>> => DOMAIN node.ins = {}
      /\ src # 0 => src \in DOMAIN d.nodes
  BY <1>1, BoxFacts
<1>3. node.ins = <<>> => EnabledIn(d, V, i)
  BY <1>2 DEF TakesENO, EnabledIn
<1>4. ASSUME node.ins # <<>> PROVE EnabledIn(d, V, i) = V[pin]
  <2>1. pin \in GridPins(d) /\ V[pin] \in BOOLEAN
    BY <1>1, <1>2, <1>4, WiredPins DEF Env
  <2>2. (\A k \in DOMAIN node.ins : Bit(V, node.ins[k])) <=> V[pin]
    BY <1>2, <1>4, <2>1 DEF Bit, Wires
  <2>3. ASSUME src # 0, V[pin] PROVE V[Eno(src)]
    <3>1. CASE pin = Eno(src)
      BY <2>3, <3>1
    <3>2. CASE pin # Eno(src)
      <4> DEFINE j == pin[1]
      <4>1. /\ pin = Out(j) /\ Is(d, j, {"U"}) /\ ~d.nodes[j].inverted
            /\ \E k \in DOMAIN d.nodes[j].ins : d.nodes[j].ins[k] = Input(Eno(src), FALSE)
        BY <2>3, <3>2 DEF TakesENO
      <4>2. j # 0
        BY <1>1, <4>1, PinsOfKinds DEF Is
      <4>3. Meant(d, values, V, pin, V[pin])
        BY <1>1, <2>1, MeantCases DEF Env
      <4>4. V[pin] = (AllOn(d, V, j) # d.nodes[j].inverted)
        BY <4>1, <4>2, <4>3 DEF Meant
      <4>5. AllOn(d, V, j)
        <5>1. V[pin] = TRUE
          BY <2>1, <2>3
        <5>2. d.nodes[j].inverted = FALSE
          BY <1>1, <4>1, PinsOfKinds DEF Is, Elems
        <5>3. AllOn(d, V, j) \in BOOLEAN
          BY DEF AllOn
        <5> QED BY <4>4, <5>1, <5>2, <5>3
      <4>6. PICK k \in DOMAIN d.nodes[j].ins : d.nodes[j].ins[k] = Input(Eno(src), FALSE)
        BY <4>1
      <4>7. Bit(V, Input(Eno(src), FALSE))
        BY <4>5, <4>6 DEF AllOn
      <4>8. Eno(src) \in GridPins(d)
        <5>1. Is(d, src, {"MOVE"}) /\ src \in DOMAIN d.nodes
          BY <1>1, <1>2, <2>3 DEF NodeFits
        <5>2. Eno(src) \in PinsOf(d, src)
          BY <1>1, <5>1, PinsOfKinds
        <5> QED BY <5>1, <5>2 DEF GridPins
      <4>9. V[Eno(src)] \in BOOLEAN
        BY <4>8 DEF Env
      <4> QED BY <4>7, <4>9 DEF Bit, Input
    <3> QED BY <3>1, <3>2
  <2>4. EnabledIn(d, V, i) <=> V[pin]
    BY <2>2, <2>3 DEF EnabledIn
  <2> QED BY <2>1, <2>4 DEF EnabledIn
<1> QED BY <1>3, <1>4

\* The operands of a program are different ones.
LEMMA OperandsApart ==
  ASSUME NEW d, IsDiagram(d)
  PROVE  /\ \A pin \in GridPins(d) : pin[1] # 0 =>
              /\ Temp(pin) \notin InputsOf(d)
              /\ \A s : Temp(pin) # Stored(s)
              /\ \A i : Temp(pin) # Transferred(i)
              /\ \A p \in GridPins(d) : p[1] # 0 /\ Temp(p) = Temp(pin) => p = pin
         /\ \A s \in Stores :
              /\ Stored(s) \notin InputsOf(d)
              /\ \A t : Stored(t) = Stored(s) => t = s
         /\ \A i \in DOMAIN d.nodes :
              /\ Transferred(i) \notin InputsOf(d)
              /\ \A s : Transferred(i) # Stored(s)
              /\ \A j : Transferred(j) = Transferred(i) => j = i
<1>1. \A i \in DOMAIN d.nodes : i \in Nat \ {0}
  BY PinsOfKinds
<1>2. \A x \in InputsOf(d) : (\E name \in Loads : x = <<0, name>>) \/ (\E i \in DOMAIN d.nodes : x = <<i, "OUT">>)
  BY DEF InputsOf, Load, Out, Compares
<1>3. ASSUME NEW pin \in GridPins(d), pin[1] # 0
      PROVE  pin[1] \in DOMAIN d.nodes /\ pin \in {<<pin[1], "OUT">>, <<pin[1], "ENO">>}
  BY <1>3, PinCases DEF Out, Eno
<1>4. ASSUME NEW pin \in GridPins(d), pin[1] # 0
      PROVE  /\ Temp(pin) \notin InputsOf(d)
             /\ \A s : Temp(pin) # Stored(s)
             /\ \A i : Temp(pin) # Transferred(i)
             /\ \A p \in GridPins(d) : p[1] # 0 /\ Temp(p) = Temp(pin) => p = pin
  <2>1. Temp(pin)[1] = pin[1] /\ Temp(pin)[2] \in {"TEMP", "TEMP ENO"}
    BY DEF Temp
  <2>2. Temp(pin) \notin InputsOf(d)
    <3>1. \A x \in InputsOf(d) : x[1] = 0 \/ x[2] = "OUT"
      BY <1>2
    <3> QED BY <1>4, <2>1, <3>1
  <2>3. \A s : Temp(pin) # Stored(s)
    <3>1. \A s : Stored(s)[1] = 0
      BY DEF Stored
    <3> QED BY <1>4, <2>1, <3>1
  <2>4. \A i : Temp(pin) # Transferred(i)
    <3>1. \A i : Transferred(i)[2] = "T"
      BY DEF Transferred
    <3> QED BY <2>1, <3>1
  <2>5. ASSUME NEW p \in GridPins(d), p[1] # 0, Temp(p) = Temp(pin) PROVE p = pin
    <3>1. p \in {<<p[1], "OUT">>, <<p[1], "ENO">>} /\ pin \in {<<pin[1], "OUT">>, <<pin[1], "ENO">>}
      BY <1>3, <1>4, <2>5
    <3>2. p[1] = pin[1] /\ (p[2] = "OUT" <=> pin[2] = "OUT")
      BY <2>5 DEF Temp
    <3> QED BY <3>1, <3>2
  <2> QED BY <2>2, <2>3, <2>4, <2>5
<1>5. ASSUME NEW s \in Stores
      PROVE  Stored(s) \notin InputsOf(d) /\ \A t : Stored(t) = Stored(s) => t = s
  <2>1. s \notin Loads
    BY FupAssumption
  <2> QED BY <1>1, <1>2, <2>1 DEF Stored
<1>6. ASSUME NEW i \in DOMAIN d.nodes
      PROVE  /\ Transferred(i) \notin InputsOf(d)
             /\ \A s : Transferred(i) # Stored(s)
             /\ \A j : Transferred(j) = Transferred(i) => j = i
  BY <1>1, <1>2 DEF Transferred, Stored
<1> QED BY <1>4, <1>5, <1>6

(***************************************************************************)
(* What one instruction makes of a machine.                                *)
(***************************************************************************)

LEMMA BranchFacts ==
  /\ Branches = {"U(", "UN(", "O(", "ON(", "X(", "XN("}
  /\ \A class \in Classes : Branch(class) \in Branches /\ Branch(class) \notin Gates
  /\ \A class \in Classes : (CHOOSE gate \in Gates : Branch(gate) = Branch(class)) = class
<1>1. /\ Branch("U") = "U(" /\ Branch("UN") = "UN(" /\ Branch("O") = "O(" /\ Branch("ON") = "ON("
      /\ Branch("X") = "X(" /\ Branch("XN") = "XN("
  BY DEF Branch
<1>2. \A a, b \in Gates : Branch(a) = Branch(b) => a = b
  BY <1>1 DEF Gates
<1>3. \A class \in Classes : class \in Gates
  BY WordsTyped
<1>4. ASSUME NEW class \in Classes PROVE (CHOOSE gate \in Gates : Branch(gate) = Branch(class)) = class
  <2> DEFINE g == CHOOSE gate \in Gates : Branch(gate) = Branch(class)
  <2>1. \E gate \in Gates : Branch(gate) = Branch(class)
    BY <1>3
  <2>2. g \in Gates /\ Branch(g) = Branch(class)
    BY <2>1, Zenon
  <2> HIDE DEF g
  <2>3. g = class
    BY <1>2, <1>3, <2>2
  <2> QED BY <2>3 DEF g
<1>5. Branches = {"U(", "UN(", "O(", "ON(", "X(", "XN("}
  BY <1>1 DEF Branches, Gates
<1>6. \A class \in Classes : Branch(class) \in Branches /\ Branch(class) \notin Gates
  BY <1>1, <1>5 DEF Classes, Gates
<1> QED BY <1>4, <1>5, <1>6

LEMMA ExecCases ==
  ASSUME NEW insn, NEW m
  PROVE  /\ insn.op \in Gates =>
              Execute(insn, m) = [m EXCEPT !.sw = Operate(insn.op, m.sw, Fetch(m, insn.arg))]
         /\ insn.op \in Branches =>
              Execute(insn, m) =
                [m EXCEPT !.sw = Opened(m.sw),
                          !.parens = Append(m.parens, [insnType |-> CHOOSE gate \in Gates : Branch(gate) = insn.op,
                                                       bits |-> m.sw])]
         /\ insn.op = ")" =>
              Execute(insn, m) = [m EXCEPT !.sw = Closed(Last(m.parens), m.sw), !.parens = Front(m.parens)]
         /\ insn.op = "NOT" => Execute(insn, m) = [m EXCEPT !.sw = [m.sw EXCEPT !.VKE = ~m.sw.VKE]]
         /\ insn.op = "SET" => Execute(insn, m) = [m EXCEPT !.sw = Ended(TRUE)]
         /\ insn.op = "SAVE" => Execute(insn, m) = [m EXCEPT !.bie = m.sw.VKE]
         /\ insn.op = "CMP" =>
              Execute(insn, m) = [m EXCEPT !.sw = [Ended(m.operands[insn.arg]) EXCEPT !.NER = TRUE]]
         /\ insn.op = "=" =>
              Execute(insn, m) = [m EXCEPT !.operands = [m.operands EXCEPT ![insn.arg] = m.sw.VKE],
                                           !.sw = Ended(m.sw.VKE)]
         /\ insn.op = "T" =>
              Execute(insn, m) = [m EXCEPT !.operands = [m.operands EXCEPT ![insn.arg] = ~m.operands[insn.arg]]]
         /\ insn.op = "SPBNB" => Execute(insn, m) = [m EXCEPT !.bie = m.sw.VKE, !.sw = Ended(TRUE)]
         /\ insn.op = "NOP" => Execute(insn, m) = m
BY BranchFacts DEF Execute, Gates

\* A machine with other parts.
LEMMA BecomesIntro ==
  ASSUME NEW d, NEW m \in Machines(d), NEW m2, NEW s \in Bits, NEW b \in BOOLEAN,
         NEW ps \in Seq(ParenElems), NEW ops \in [OperandsOf(d) -> BOOLEAN],
         m2 = [m EXCEPT !.sw = s, !.bie = b, !.parens = ps, !.operands = ops]
  PROVE  Becomes(d, m, m2, s, b, ps, ops)
<1> DEFINE A == OperandsOf(d)
           W == [A -> BOOLEAN]
           L == Seq(ParenElems)
<1>1. m \in [ip : Nat, sw : Bits, bie : BOOLEAN, parens : L, operands : W] /\ ps \in L /\ ops \in W
  BY DEF Machines
<1> HIDE DEF W, L
<1>2. m2 \in [ip : Nat, sw : Bits, bie : BOOLEAN, parens : L, operands : W]
  BY <1>1
<1>3. m2.ip = m.ip /\ m2.sw = s /\ m2.bie = b /\ m2.parens = ps /\ m2.operands = ops
  BY <1>1
<1> QED BY <1>2, <1>3 DEF Becomes, Machines, W, L

LEMMA MachineParts ==
  ASSUME NEW d, NEW m \in Machines(d)
  PROVE  /\ m.sw \in Bits /\ m.bie \in BOOLEAN /\ m.parens \in Seq(ParenElems)
         /\ m.operands \in [OperandsOf(d) -> BOOLEAN] /\ m.ip \in Nat
         /\ m.sw.VKE \in BOOLEAN /\ m.sw.NER \in BOOLEAN /\ m.sw.OR \in BOOLEAN
         /\ m = [m EXCEPT !.ip = m.ip, !.sw = m.sw, !.bie = m.bie, !.parens = m.parens, !.operands = m.operands]
<1> DEFINE A == OperandsOf(d)
           W == [A -> BOOLEAN]
           L == Seq(ParenElems)
<1>1. m \in [ip : Nat, sw : Bits, bie : BOOLEAN, parens : L, operands : W]
  BY DEF Machines
<1> HIDE DEF W, L
<1>2. m.sw \in Bits /\ m.bie \in BOOLEAN /\ m.parens \in L /\ m.operands \in W /\ m.ip \in Nat
  BY <1>1
<1>3. m.sw.VKE \in BOOLEAN /\ m.sw.NER \in BOOLEAN /\ m.sw.OR \in BOOLEAN
  BY <1>2 DEF Bits
<1>4. m = [m EXCEPT !.ip = m.ip, !.sw = m.sw, !.bie = m.bie, !.parens = m.parens, !.operands = m.operands]
  BY <1>1
<1> QED BY <1>2, <1>3, <1>4 DEF W, L

\* The instructions of a grid, by what they make of the machine.
LEMMA ExecWord ==
  ASSUME NEW d, NEW m \in Machines(d), NEW insn
  PROVE  /\ \A class \in Classes, v \in BOOLEAN :
              insn.op = class /\ Fetch(m, insn.arg) = v =>
                Becomes(d, m, Execute(insn, m), Operate(class, m.sw, v), m.bie, m.parens, m.operands)
         /\ insn.op = "NOT" =>
              Becomes(d, m, Execute(insn, m), [m.sw EXCEPT !.VKE = ~m.sw.VKE], m.bie, m.parens, m.operands)
         /\ insn.op = "SET" => Becomes(d, m, Execute(insn, m), Ended(TRUE), m.bie, m.parens, m.operands)
         /\ insn.op = "SAVE" => Becomes(d, m, Execute(insn, m), m.sw, m.sw.VKE, m.parens, m.operands)
         /\ insn.op = "SPBNB" => Becomes(d, m, Execute(insn, m), Ended(TRUE), m.sw.VKE, m.parens, m.operands)
         /\ insn.op = "NOP" => Becomes(d, m, Execute(insn, m), m.sw, m.bie, m.parens, m.operands)
         /\ \A v \in BOOLEAN :
              insn.op = "CMP" /\ m.operands[insn.arg] = v =>
                Becomes(d, m, Execute(insn, m), [Ended(v) EXCEPT !.NER = TRUE], m.bie, m.parens, m.operands)
<1> DEFINE x == Execute(insn, m)
<1>1. /\ m.sw \in Bits /\ m.bie \in BOOLEAN /\ m.parens \in Seq(ParenElems)
      /\ m.operands \in [OperandsOf(d) -> BOOLEAN] /\ m.ip \in Nat
      /\ m.sw.VKE \in BOOLEAN /\ m.sw.NER \in BOOLEAN /\ m.sw.OR \in BOOLEAN
  BY MachineParts
<1>2. m = [ip |-> m.ip, sw |-> m.sw, bie |-> m.bie, parens |-> m.parens, operands |-> m.operands]
  BY DEF Machines
<1>3. ASSUME NEW class \in Classes, NEW v \in BOOLEAN, insn.op = class, Fetch(m, insn.arg) = v
      PROVE  Becomes(d, m, x, Operate(class, m.sw, v), m.bie, m.parens, m.operands)
  <2> DEFINE s == Operate(class, m.sw, v)
  <2>1. s \in Bits /\ class \in Gates
    BY <1>1, WordsTyped
  <2>2. x = [m EXCEPT !.sw = s]
    BY <1>3, <2>1, ExecCases
  <2> HIDE DEF s, x
  <2>3. x = [m EXCEPT !.sw = s, !.bie = m.bie, !.parens = m.parens, !.operands = m.operands]
    BY <1>2, <2>2
  <2>4. Becomes(d, m, x, s, m.bie, m.parens, m.operands)
    BY <1>1, <2>1, <2>3, BecomesIntro
  <2> QED BY <2>4 DEF s
<1>4. ASSUME NEW s \in Bits, x = [m EXCEPT !.sw = s]
      PROVE  Becomes(d, m, x, s, m.bie, m.parens, m.operands)
  <2> HIDE DEF x
  <2>1. x = [m EXCEPT !.sw = s, !.bie = m.bie, !.parens = m.parens, !.operands = m.operands]
    BY <1>2, <1>4
  <2> QED BY <1>1, <2>1, BecomesIntro
<1>5. ASSUME insn.op = "NOT"
      PROVE  Becomes(d, m, x, [m.sw EXCEPT !.VKE = ~m.sw.VKE], m.bie, m.parens, m.operands)
  <2> DEFINE s == [m.sw EXCEPT !.VKE = ~m.sw.VKE]
  <2>1. s \in Bits
    BY <1>1 DEF Bits
  <2>2. x = [m EXCEPT !.sw = s]
    <3>1. insn.op \notin Gates /\ insn.op \notin Branches
      BY <1>5, BranchFacts DEF Gates
    <3> QED BY <1>5, <3>1 DEF Execute
  <2> HIDE DEF s, x
  <2>3. Becomes(d, m, x, s, m.bie, m.parens, m.operands)
    BY <1>4, <2>1, <2>2
  <2> QED BY <2>3 DEF s
<1>6. ASSUME insn.op = "SET"
      PROVE  Becomes(d, m, x, Ended(TRUE), m.bie, m.parens, m.operands)
  <2> DEFINE s == Ended(TRUE)
  <2>1. s \in Bits
    BY WordsTyped
  <2>2. x = [m EXCEPT !.sw = s]
    <3>1. insn.op \notin Gates /\ insn.op \notin Branches
      BY <1>6, BranchFacts DEF Gates
    <3> QED BY <1>6, <3>1 DEF Execute
  <2> HIDE DEF s, x
  <2>3. Becomes(d, m, x, s, m.bie, m.parens, m.operands)
    BY <1>4, <2>1, <2>2
  <2> QED BY <2>3 DEF s
<1>7. \A v \in BOOLEAN : insn.op = "CMP" /\ m.operands[insn.arg] = v =>
        Becomes(d, m, x, [Ended(v) EXCEPT !.NER = TRUE], m.bie, m.parens, m.operands)
  <2> TAKE v \in BOOLEAN
  <2>1. insn.op = "CMP" => x = [m EXCEPT !.sw = [Ended(m.operands[insn.arg]) EXCEPT !.NER = TRUE]]
    BY ExecCases
  <2>2. [Ended(v) EXCEPT !.NER = TRUE] \in Bits
    BY DEF Ended, Bits
  <2> QED BY <1>4, <2>1, <2>2
<1>8. insn.op = "SAVE" => Becomes(d, m, x, m.sw, m.sw.VKE, m.parens, m.operands)
  <2> SUFFICES ASSUME insn.op = "SAVE" PROVE Becomes(d, m, x, m.sw, m.sw.VKE, m.parens, m.operands)
    OBVIOUS
  <2>1. x = [m EXCEPT !.bie = m.sw.VKE]
    BY ExecCases
  <2> HIDE DEF x
  <2>2. x = [m EXCEPT !.sw = m.sw, !.bie = m.sw.VKE, !.parens = m.parens, !.operands = m.operands]
    BY <1>2, <2>1
  <2> QED BY <1>1, <2>2, BecomesIntro
<1>9. insn.op = "SPBNB" => Becomes(d, m, x, Ended(TRUE), m.sw.VKE, m.parens, m.operands)
  <2> SUFFICES ASSUME insn.op = "SPBNB" PROVE Becomes(d, m, x, Ended(TRUE), m.sw.VKE, m.parens, m.operands)
    OBVIOUS
  <2> DEFINE s == Ended(TRUE)
  <2>1. x = [m EXCEPT !.bie = m.sw.VKE, !.sw = s]
    BY ExecCases
  <2>2. s \in Bits
    BY WordsTyped
  <2> HIDE DEF x, s
  <2>3. x = [m EXCEPT !.sw = s, !.bie = m.sw.VKE, !.parens = m.parens, !.operands = m.operands]
    BY <1>2, <2>1
  <2>4. Becomes(d, m, x, s, m.sw.VKE, m.parens, m.operands)
    BY <1>1, <2>2, <2>3, BecomesIntro
  <2> QED BY <2>4 DEF s
<1>10. insn.op = "NOP" => Becomes(d, m, x, m.sw, m.bie, m.parens, m.operands)
  <2>1. insn.op = "NOP" => x = m
    BY ExecCases
  <2>2. m = [m EXCEPT !.sw = m.sw, !.bie = m.bie, !.parens = m.parens, !.operands = m.operands]
    BY <1>2
  <2>3. Becomes(d, m, m, m.sw, m.bie, m.parens, m.operands)
    BY DEF Becomes
  <2> QED BY <2>1, <2>3
<1> QED BY <1>3, <1>5, <1>6, <1>7, <1>8, <1>9, <1>10

LEMMA ParensFacts ==
  ASSUME NEW d, NEW ps \in Seq(ParenElems), NEW el \in ParenElems
  PROVE  /\ Append(ps, el) \in Seq(ParenElems)
         /\ Last(Append(ps, el)) = el /\ Front(Append(ps, el)) = ps
<1> DEFINE x == Append(ps, el)
           n == Len(ps)
<1>1. /\ x \in Seq(ParenElems) /\ Len(x) = n + 1 /\ n \in Nat /\ x[n + 1] = el
      /\ \A k \in 1..n : x[k] = ps[k]
  BY AppendFacts, LenProperties
<1>2. Last(x) = el
  BY <1>1 DEF Last
<1>3. Front(x) = SubSeq(x, 1, n)
  BY <1>1 DEF Front
<1>4. SubSeq(x, 1, n) = ps
  <2>1. ps = [k \in 1..n |-> ps[k]]
    BY LenProperties
  <2>2. SubSeq(x, 1, n) = [k \in 1..n |-> x[k]]
    BY <1>1
  <2> HIDE DEF x, n
  <2> QED BY <1>1, <2>1, <2>2
<1> QED BY <1>1, <1>2, <1>3, <1>4

LEMMA ClosedTyped ==
  ASSUME NEW el \in ParenElems, NEW s \in Bits
  PROVE  Closed(el, s) \in Bits /\ Opened(s) \in Bits /\ Opened(s) = Ended(s.VKE)
<1>1. el.insnType \in Gates /\ el.bits \in Bits /\ s.VKE \in BOOLEAN
  BY DEF ParenElems, Bits
<1>2. Closed(el, s) = Operate(el.insnType, el.bits, s.VKE)
  BY DEF Closed
<1>3. Opened(s) = Ended(s.VKE)
  BY DEF Opened
<1> QED BY <1>1, <1>2, <1>3, WordsTyped

LEMMA ExecOpens ==
  ASSUME NEW insn, NEW m, NEW class \in Classes, insn.op = Branch(class)
  PROVE  Execute(insn, m) =
           [m EXCEPT !.sw = Opened(m.sw),
                     !.parens = Append(m.parens, [insnType |-> class, bits |-> m.sw])]
<1>1. insn.op \in Branches /\ insn.op \notin Gates
  BY BranchFacts
<1>2. Execute(insn, m) =
        [m EXCEPT !.sw = Opened(m.sw),
                  !.parens = Append(m.parens, [insnType |-> CHOOSE gate \in Gates : Branch(gate) = insn.op,
                                               bits |-> m.sw])]
  BY BranchFacts DEF Execute, Gates
<1>3. (CHOOSE gate \in Gates : Branch(gate) = Branch(class)) = class
  BY BranchFacts
<1>4. (CHOOSE gate \in Gates : Branch(gate) = insn.op) = class
  BY <1>3, Zenon
<1> QED BY <1>2, <1>4, Zenon

LEMMA ExecParens ==
  ASSUME NEW d, NEW m \in Machines(d)
  PROVE  /\ \A class \in Classes :
              Becomes(d, m, Execute(Plain(Branch(class)), m), Opened(m.sw), m.bie,
                      Append(m.parens, [insnType |-> class, bits |-> m.sw]), m.operands)
         /\ \A ps \in Seq(ParenElems), el \in ParenElems :
              m.parens = Append(ps, el) =>
                Becomes(d, m, Execute(Plain(")"), m), Closed(el, m.sw), m.bie, ps, m.operands)
<1>1. /\ m.sw \in Bits /\ m.bie \in BOOLEAN /\ m.parens \in Seq(ParenElems)
      /\ m.operands \in [OperandsOf(d) -> BOOLEAN] /\ m.ip \in Nat /\ m.sw.VKE \in BOOLEAN
  BY MachineParts
<1>2. m = [ip |-> m.ip, sw |-> m.sw, bie |-> m.bie, parens |-> m.parens, operands |-> m.operands]
  BY DEF Machines
<1>3. ASSUME NEW class \in Classes
      PROVE  Becomes(d, m, Execute(Plain(Branch(class)), m), Opened(m.sw), m.bie,
                     Append(m.parens, [insnType |-> class, bits |-> m.sw]), m.operands)
  <2> DEFINE insn == Plain(Branch(class))
             x == Execute(insn, m)
             el == [insnType |-> class, bits |-> m.sw]
             ps == Append(m.parens, el)
             s == Opened(m.sw)
  <2>1. insn.op = Branch(class)
    BY DEF Plain, Insn
  <2>4. x = [m EXCEPT !.sw = s, !.parens = ps]
    BY <2>1, ExecOpens
  <2>5. el \in ParenElems /\ s \in Bits
    BY <1>1, WordsTyped DEF ParenElems, Opened
  <2> HIDE DEF x, s
  <2>7. ps \in Seq(ParenElems)
    BY <1>1, <2>5, AppendFacts
  <2> HIDE DEF ps
  <2>8. x = [m EXCEPT !.sw = s, !.bie = m.bie, !.parens = ps, !.operands = m.operands]
    BY <1>2, <2>4
  <2>9. Becomes(d, m, x, s, m.bie, ps, m.operands)
    BY <1>1, <2>5, <2>7, <2>8, BecomesIntro
  <2> QED BY <2>9 DEF x, s, ps
<1>4. ASSUME NEW ps \in Seq(ParenElems), NEW el \in ParenElems, m.parens = Append(ps, el)
      PROVE  Becomes(d, m, Execute(Plain(")"), m), Closed(el, m.sw), m.bie, ps, m.operands)
  <2> DEFINE insn == Plain(")")
             x == Execute(insn, m)
             s == Closed(el, m.sw)
  <2>1. insn.op = ")"
    BY DEF Plain, Insn
  <2>2. insn.op \notin Gates /\ insn.op \notin Branches
    BY <2>1, BranchFacts DEF Gates
  <2>3. x = [m EXCEPT !.sw = Closed(Last(m.parens), m.sw), !.parens = Front(m.parens)]
    BY <2>1, <2>2 DEF Execute
  <2>4. Last(m.parens) = el /\ Front(m.parens) = ps
    BY <1>4, ParensFacts
  <2>5. s \in Bits
    BY <1>1, ClosedTyped
  <2>6. x = [m EXCEPT !.sw = s, !.parens = ps]
    BY <2>3, <2>4
  <2> HIDE DEF x, s
  <2>8. x = [m EXCEPT !.sw = s, !.bie = m.bie, !.parens = ps, !.operands = m.operands]
    BY <1>2, <2>6
  <2>9. Becomes(d, m, x, s, m.bie, ps, m.operands)
    BY <1>1, <2>5, <2>8, BecomesIntro
  <2> QED BY <2>9 DEF x, s
<1> QED BY <1>3, <1>4

LEMMA ExecOperand ==
  ASSUME NEW d, NEW m \in Machines(d), NEW arg \in OperandsOf(d)
  PROVE  /\ Becomes(d, m, Execute(Insn("=", arg), m), Ended(m.sw.VKE), m.bie, m.parens,
                    [m.operands EXCEPT ![arg] = m.sw.VKE])
         /\ Becomes(d, m, Execute(Insn("T", arg), m), m.sw, m.bie, m.parens,
                    [m.operands EXCEPT ![arg] = ~m.operands[arg]])
<1>1. /\ m.sw \in Bits /\ m.bie \in BOOLEAN /\ m.parens \in Seq(ParenElems)
      /\ m.operands \in [OperandsOf(d) -> BOOLEAN] /\ m.ip \in Nat /\ m.sw.VKE \in BOOLEAN
  BY MachineParts
<1>2. m = [ip |-> m.ip, sw |-> m.sw, bie |-> m.bie, parens |-> m.parens, operands |-> m.operands]
  BY DEF Machines
<1>3. Becomes(d, m, Execute(Insn("=", arg), m), Ended(m.sw.VKE), m.bie, m.parens,
              [m.operands EXCEPT ![arg] = m.sw.VKE])
  <2> DEFINE insn == Insn("=", arg)
             x == Execute(insn, m)
             ops == [m.operands EXCEPT ![arg] = m.sw.VKE]
             s == Ended(m.sw.VKE)
  <2>1. insn.op = "=" /\ insn.arg = arg
    BY DEF Insn
  <2>2. insn.op \notin Gates /\ insn.op \notin Branches
    BY <2>1, BranchFacts DEF Gates
  <2>3. x = [m EXCEPT !.operands = [m.operands EXCEPT ![insn.arg] = m.sw.VKE], !.sw = Ended(m.sw.VKE)]
    BY <2>1, ExecCases
  <2>4. ops \in [OperandsOf(d) -> BOOLEAN] /\ s \in Bits
    BY <1>1, WordsTyped
  <2>5. x = [m EXCEPT !.operands = ops, !.sw = s]
    BY <2>1, <2>3
  <2> HIDE DEF x, s, ops
  <2>6. x = [m EXCEPT !.sw = s, !.bie = m.bie, !.parens = m.parens, !.operands = ops]
    BY <1>2, <2>5
  <2>7. Becomes(d, m, x, s, m.bie, m.parens, ops)
    BY <1>1, <2>4, <2>6, BecomesIntro
  <2> QED BY <2>7 DEF x, s, ops
<1>4. Becomes(d, m, Execute(Insn("T", arg), m), m.sw, m.bie, m.parens,
              [m.operands EXCEPT ![arg] = ~m.operands[arg]])
  <2> DEFINE insn == Insn("T", arg)
             x == Execute(insn, m)
             ops == [m.operands EXCEPT ![arg] = ~m.operands[arg]]
  <2>1. insn.op = "T" /\ insn.arg = arg
    BY DEF Insn
  <2>3. x = [m EXCEPT !.operands = [m.operands EXCEPT ![insn.arg] = ~m.operands[insn.arg]]]
    <3>1. insn.op \notin Gates /\ insn.op \notin Branches
      BY <2>1, BranchFacts DEF Gates
    <3> QED BY <2>1, <3>1 DEF Execute
  <2>4. ops \in [OperandsOf(d) -> BOOLEAN]
    BY <1>1
  <2>5. x = [m EXCEPT !.operands = ops]
    BY <2>1, <2>3
  <2> HIDE DEF x, ops
  <2>6. x = [m EXCEPT !.sw = m.sw, !.bie = m.bie, !.parens = m.parens, !.operands = ops]
    BY <1>2, <2>5
  <2>7. Becomes(d, m, x, m.sw, m.bie, m.parens, ops)
    BY <1>1, <2>4, <2>6, BecomesIntro
  <2> QED BY <2>7 DEF x, ops
<1> QED BY <1>3, <1>4

(***************************************************************************)
(* What a piece of the code brings about, whatever has been compiled before: *)
(* the operands it stores, the pins it keeps in TEMP variables, the MOVEs  *)
(* that have had their turn, and the bits of the machine in front and behind. *)
(***************************************************************************)

\* A diagram with operands and what is at its pins.
IsEnv(d, e) ==
  e.values \in [InputsOf(d) -> BOOLEAN] /\ e.before \in BOOLEAN /\ Env(d, e.values, e.at)

\* What a compilation has brought about in the operands, when the MOVEs in T
\* have had their turn.
Holds(d, e, c, T, m) ==
  /\ m \in Machines(d)
  /\ \A x \in InputsOf(d) : m.operands[x] = e.values[x]
  /\ \A pin \in c.temps : pin \in GridPins(d) /\ pin[1] # 0 /\ m.operands[Temp(pin)] = e.at[pin]
  /\ \A s \in c.stored : m.operands[Stored(s)] = e.at[d.stores[s]]
  /\ \A i \in Moves(d) :
       m.operands[Transferred(i)] = IF i \in T THEN e.before # EnabledIn(d, e.at, i) ELSE e.before

\* The bits of a machine and its parentheses.
Ctl(m) == [sw |-> m.sw, bie |-> m.bie, parens |-> m.parens]
Words == [sw : Bits, bie : BOOLEAN, parens : Seq(ParenElems)]

\* The instructions new, from bits in P: they take the operands from what c has
\* brought about to what r has, and the bits to others that are related by R.
Does(d, e, c, r, new, Y, P, R) ==
  \A m \in Machines(d) : \A T :
    T \cap Y = {} /\ Holds(d, e, c, T, m) /\ Ctl(m) \in P =>
      \E m2 \in Machines(d) :
        /\ Leads(new, <<m, NoLabel>>, <<m2, NoLabel>>)
        /\ Holds(d, e, r, T \cup Y, m2)
        /\ <<Ctl(m), Ctl(m2)>> \in R
Brings(d, e, c, r, Y, P, R) ==
  /\ c \in Result(d) /\ r \in Result(d) /\ c.done \subseteq r.done
  /\ c.failed => r.failed
  /\ ~r.failed => \E new \in Seq(InsnsOf(d)) : r.code = c.code \o new /\ Does(d, e, c, r, new, Y, P, R)
Chains(P1, R1, P2, R2, R3) ==
  \A w, w2, w3 \in Words :
    w \in P1 /\ <<w, w2>> \in R1 => w2 \in P2 /\ (<<w2, w3>> \in R2 => <<w, w3>> \in R3)

LEMMA CtlTyped ==
  ASSUME NEW d, NEW m \in Machines(d)
  PROVE  Ctl(m) \in Words /\ Ctl(m).sw = m.sw /\ Ctl(m).bie = m.bie /\ Ctl(m).parens = m.parens
<1>1. m.sw \in Bits /\ m.bie \in BOOLEAN /\ m.parens \in Seq(ParenElems)
  BY MachineParts
<1> QED BY <1>1 DEF Ctl, Words

LEMMA DoesThen ==
  ASSUME NEW d, NEW e, NEW c, NEW r, NEW t, NEW a \in Seq(InsnsOf(d)), NEW b \in Seq(InsnsOf(d)),
         NEW Y1, NEW P1, NEW R1, NEW Y2, NEW P2, NEW R2, NEW R3,
         Does(d, e, c, r, a, Y1, P1, R1), Does(d, e, r, t, b, Y2, P2, R2),
         Y1 \cap Y2 = {}, Chains(P1, R1, P2, R2, R3)
  PROVE  Does(d, e, c, t, a \o b, Y1 \cup Y2, P1, R3)
<1> SUFFICES ASSUME NEW m \in Machines(d), NEW T, T \cap (Y1 \cup Y2) = {}, Holds(d, e, c, T, m), Ctl(m) \in P1
             PROVE  \E m2 \in Machines(d) :
                      /\ Leads(a \o b, <<m, NoLabel>>, <<m2, NoLabel>>)
                      /\ Holds(d, e, t, T \cup (Y1 \cup Y2), m2)
                      /\ <<Ctl(m), Ctl(m2)>> \in R3
  BY DEF Does
<1>1. T \cap Y1 = {} /\ (T \cup Y1) \cap Y2 = {} /\ (T \cup Y1) \cup Y2 = T \cup (Y1 \cup Y2)
  OBVIOUS
<1>2. PICK m2 \in Machines(d) :
        /\ Leads(a, <<m, NoLabel>>, <<m2, NoLabel>>)
        /\ Holds(d, e, r, T \cup Y1, m2)
        /\ <<Ctl(m), Ctl(m2)>> \in R1
  BY <1>1 DEF Does
<1>3. Ctl(m) \in Words /\ Ctl(m2) \in Words
  BY CtlTyped
<1>4. Ctl(m2) \in P2
  BY <1>2, <1>3 DEF Chains
<1>5. PICK m3 \in Machines(d) :
        /\ Leads(b, <<m2, NoLabel>>, <<m3, NoLabel>>)
        /\ Holds(d, e, t, (T \cup Y1) \cup Y2, m3)
        /\ <<Ctl(m2), Ctl(m3)>> \in R2
  BY <1>1, <1>2, <1>4 DEF Does
<1>6. Ctl(m3) \in Words
  BY CtlTyped
<1>7. <<Ctl(m), Ctl(m3)>> \in R3
  BY <1>2, <1>3, <1>5, <1>6 DEF Chains
<1>8. Leads(a \o b, <<m, NoLabel>>, <<m3, NoLabel>>)
  BY <1>2, <1>5, LeadsConcat
<1>9. Holds(d, e, t, T \cup (Y1 \cup Y2), m3)
  BY <1>1, <1>5
<1> QED BY <1>7, <1>8, <1>9

LEMMA BringsThen ==
  ASSUME NEW d, NEW e, NEW c, NEW r, NEW t, NEW Y1, NEW P1, NEW R1, NEW Y2, NEW P2, NEW R2, NEW R3,
         Brings(d, e, c, r, Y1, P1, R1), Brings(d, e, r, t, Y2, P2, R2),
         Y1 \cap Y2 = {}, Chains(P1, R1, P2, R2, R3)
  PROVE  Brings(d, e, c, t, Y1 \cup Y2, P1, R3)
<1>1. c \in Result(d) /\ t \in Result(d) /\ c.done \subseteq t.done /\ (c.failed => t.failed)
      /\ (r.failed => t.failed)
  BY DEF Brings
<1>2. ASSUME ~t.failed
      PROVE  \E new \in Seq(InsnsOf(d)) : t.code = c.code \o new /\ Does(d, e, c, t, new, Y1 \cup Y2, P1, R3)
  <2>1. PICK a \in Seq(InsnsOf(d)) : r.code = c.code \o a /\ Does(d, e, c, r, a, Y1, P1, R1)
    BY <1>1, <1>2 DEF Brings
  <2>2. PICK b \in Seq(InsnsOf(d)) : t.code = r.code \o b /\ Does(d, e, r, t, b, Y2, P2, R2)
    BY <1>2 DEF Brings
  <2> DEFINE cc == c.code
             I == InsnsOf(d)
  <2>3. cc \in Seq(I) /\ a \in Seq(I) /\ b \in Seq(I)
    BY <1>1 DEF Result
  <2>0. r.code = cc \o a
    BY <2>1
  <2> HIDE DEF cc, I
  <2>4. a \o b \in Seq(I)
    BY <2>3, ConcatFacts
  <2>5. (cc \o a) \o b = cc \o (a \o b)
    BY <2>3, Concat3
  <2>6. Does(d, e, c, t, a \o b, Y1 \cup Y2, P1, R3)
    BY <2>1, <2>2, DoesThen
  <2>7. t.code = cc \o (a \o b)
    BY <2>0, <2>2, <2>5, Zenon
  <2> QED BY <2>4, <2>6, <2>7 DEF I, cc
<1> QED BY <1>1, <1>2 DEF Brings

LEMMA BringsWeaken ==
  ASSUME NEW d, NEW e, NEW c, NEW r, NEW Y, NEW Y2, NEW P, NEW P2, NEW R, NEW R2,
         Brings(d, e, c, r, Y, P, R), P2 \subseteq P, Y \subseteq Y2, Y \cap Moves(d) = Y2 \cap Moves(d),
         \A w, w2 \in Words : w \in P2 /\ <<w, w2>> \in R => <<w, w2>> \in R2
  PROVE  Brings(d, e, c, r, Y2, P2, R2)
<1>1. ASSUME NEW new, Does(d, e, c, r, new, Y, P, R) PROVE Does(d, e, c, r, new, Y2, P2, R2)
  <2> SUFFICES ASSUME NEW m \in Machines(d), NEW T, T \cap Y2 = {}, Holds(d, e, c, T, m), Ctl(m) \in P2
               PROVE  \E m2 \in Machines(d) :
                        /\ Leads(new, <<m, NoLabel>>, <<m2, NoLabel>>)
                        /\ Holds(d, e, r, T \cup Y2, m2)
                        /\ <<Ctl(m), Ctl(m2)>> \in R2
    BY DEF Does
  <2>1. T \cap Y = {} /\ Ctl(m) \in P
    OBVIOUS
  <2>2. PICK m2 \in Machines(d) :
          /\ Leads(new, <<m, NoLabel>>, <<m2, NoLabel>>)
          /\ Holds(d, e, r, T \cup Y, m2)
          /\ <<Ctl(m), Ctl(m2)>> \in R
    BY <1>1, <2>1 DEF Does
  <2>3. Ctl(m) \in Words /\ Ctl(m2) \in Words
    BY CtlTyped
  <2>4. \A i \in Moves(d) : i \in T \cup Y <=> i \in T \cup Y2
    OBVIOUS
  <2>5. Holds(d, e, r, T \cup Y2, m2)
    BY <2>2, <2>4 DEF Holds
  <2> QED BY <2>2, <2>3, <2>5
<1> QED BY <1>1 DEF Brings

\* r goes on from c with one instruction.
OneMore(d, c, r, insn) ==
  /\ c \in Result(d) /\ r \in Result(d) /\ insn \in InsnsOf(d) /\ r.code = c.code \o <<insn>>
  /\ r.done = c.done /\ r.stored = c.stored /\ r.temps = c.temps /\ (c.failed => r.failed)
\* An instruction that leaves the operands as they are.
Acts(d, e, c, insn, P, R) ==
  \A m \in Machines(d) : \A T :
    Holds(d, e, c, T, m) /\ Ctl(m) \in P =>
      LET m2 == Execute(insn, m)
      IN m2 \in Machines(d) /\ m2.operands = m.operands /\ <<Ctl(m), Ctl(m2)>> \in R
\* What the instructions do to the bits.
Operated(class, v) ==
  {x \in Words \X Words : x[2].sw = Operate(class, x[1].sw, v) /\ x[2].parens = x[1].parens}
OpenedFor(class) ==
  {x \in Words \X Words :
     /\ x[2].sw = Opened(x[1].sw)
     /\ x[2].parens = Append(x[1].parens, [insnType |-> class, bits |-> x[1].sw])}
WithParens == {w \in Words : \E ps \in Seq(ParenElems), el \in ParenElems : w.parens = Append(ps, el)}
ClosedBy ==
  {x \in Words \X Words :
     \A ps \in Seq(ParenElems), el \in ParenElems :
       x[1].parens = Append(ps, el) => x[2].sw = Closed(el, x[1].sw) /\ x[2].parens = ps}
Negates ==
  {x \in Words \X Words :
     x[2].sw = [x[1].sw EXCEPT !.VKE = ~x[1].sw.VKE] /\ x[2].parens = x[1].parens}
SavesBie ==
  {x \in Words \X Words :
     x[2].sw = x[1].sw /\ x[2].bie = x[1].sw.VKE /\ x[2].parens = x[1].parens}
ComparedTo(v) ==
  {x \in Words \X Words :
     /\ x[2].sw = [Ended(v) EXCEPT !.NER = TRUE]
     /\ x[2].bie = x[1].bie /\ x[2].parens = x[1].parens}
LoadsBie ==
  {x \in Words \X Words :
     /\ x[2].sw = Operate("U", x[1].sw, x[1].bie)
     /\ x[2].bie = x[1].bie /\ x[2].parens = x[1].parens}
SetsVke ==
  {x \in Words \X Words :
     x[2].sw = Ended(TRUE) /\ x[2].bie = x[1].bie /\ x[2].parens = x[1].parens}

LEMMA HoldsMoves ==
  ASSUME NEW d, NEW e, NEW c, NEW r, NEW T, NEW m, NEW m2 \in Machines(d),
         Holds(d, e, c, T, m), m2.operands = m.operands, r.stored = c.stored, r.temps = c.temps
  PROVE  Holds(d, e, r, T, m2)
BY DEF Holds

LEMMA PlayOne ==
  ASSUME NEW insn, insn.label = NoLabel, insn.op \notin {"BE", "SPBNB"}, NEW m
  PROVE  Leads(<<insn>>, <<m, NoLabel>>, <<Execute(insn, m), NoLabel>>)
<1>1. PlayStep(insn, <<m, NoLabel>>) = <<Execute(insn, m), NoLabel>>
  BY DEF PlayStep, Jumps
<1> QED BY <1>1, LeadsOne, Zenon

LEMMA ActsBrings ==
  ASSUME NEW d, NEW e, NEW c, NEW r, NEW insn, OneMore(d, c, r, insn),
         insn.label = NoLabel, insn.op \notin {"BE", "SPBNB"}, NEW P, NEW R,
         ~r.failed => Acts(d, e, c, insn, P, R)
  PROVE  Brings(d, e, c, r, {}, P, R)
<1>1. ASSUME ~r.failed PROVE Does(d, e, c, r, <<insn>>, {}, P, R)
  <2> SUFFICES ASSUME NEW m \in Machines(d), NEW T, Holds(d, e, c, T, m), Ctl(m) \in P
               PROVE  \E m2 \in Machines(d) :
                        /\ Leads(<<insn>>, <<m, NoLabel>>, <<m2, NoLabel>>)
                        /\ Holds(d, e, r, T \cup {}, m2)
                        /\ <<Ctl(m), Ctl(m2)>> \in R
    BY DEF Does
  <2> DEFINE m2 == Execute(insn, m)
  <2>1. m2 \in Machines(d) /\ m2.operands = m.operands /\ <<Ctl(m), Ctl(m2)>> \in R
    BY <1>1 DEF Acts
  <2>2. Leads(<<insn>>, <<m, NoLabel>>, <<m2, NoLabel>>)
    BY PlayOne
  <2> HIDE DEF m2
  <2>3. Holds(d, e, r, T, m2) /\ T \cup {} = T
    BY <2>1, HoldsMoves DEF OneMore
  <2> QED BY <2>1, <2>2, <2>3
<1>2. <<insn>> \in Seq(InsnsOf(d))
  BY DEF OneMore
<1> QED BY <1>1, <1>2 DEF Brings, OneMore

LEMMA BecomesCtl ==
  ASSUME NEW d, NEW m \in Machines(d), NEW m2, NEW s, NEW b, NEW ps, NEW ops, Becomes(d, m, m2, s, b, ps, ops)
  PROVE  /\ m2 \in Machines(d) /\ m2.operands = ops
         /\ <<Ctl(m), Ctl(m2)>> \in Words \X Words
         /\ Ctl(m2).sw = s /\ Ctl(m2).bie = b /\ Ctl(m2).parens = ps
         /\ Ctl(m).sw = m.sw /\ Ctl(m).bie = m.bie /\ Ctl(m).parens = m.parens
<1>1. m2 \in Machines(d) /\ m2.sw = s /\ m2.bie = b /\ m2.parens = ps /\ m2.operands = ops
  BY DEF Becomes
<1>2. Ctl(m) \in Words /\ Ctl(m2) \in Words
  BY <1>1, CtlTyped
<1> QED BY <1>1, <1>2, CtlTyped

LEMMA InsnFacts ==
  /\ \A op, arg : Insn(op, arg).op = op /\ Insn(op, arg).arg = arg /\ Insn(op, arg).label = NoLabel
  /\ \A op : Plain(op).op = op /\ Plain(op).label = NoLabel
BY DEF Plain, Insn

LEMMA EmitOneMore ==
  ASSUME NEW d, NEW c \in Result(d), NEW insn \in InsnsOf(d)
  PROVE  OneMore(d, c, Emit(c, <<insn>>), insn)
<1> DEFINE r == Emit(c, <<insn>>)
<1>1. /\ r \in Result(d) /\ r.code = c.code \o <<insn>> /\ r.done = c.done
      /\ r.stored = c.stored /\ r.temps = c.temps /\ r.failed = c.failed
  BY EmitOne
<1> HIDE DEF r
<1>2. OneMore(d, c, r, insn)
  BY <1>1 DEF OneMore
<1> QED BY <1>2 DEF r

LEMMA OperatesBrings ==
  ASSUME NEW d, NEW e, NEW c, NEW r, NEW class \in Classes, NEW arg, OneMore(d, c, r, Insn(class, arg)),
         NEW v \in BOOLEAN,
         \A m \in Machines(d) : \A T : ~r.failed /\ Holds(d, e, c, T, m) => Fetch(m, arg) = v
  PROVE  Brings(d, e, c, r, {}, Words, Operated(class, v))
<1> DEFINE insn == Insn(class, arg)
<1>1. insn.op = class /\ insn.arg = arg /\ insn.label = NoLabel
  BY InsnFacts
<1>2. insn.op \notin {"BE", "SPBNB"}
  BY <1>1 DEF Classes
<1> HIDE DEF insn
<1>3. ASSUME NEW m \in Machines(d), NEW T, Holds(d, e, c, T, m), ~r.failed
      PROVE  LET m2 == Execute(insn, m)
             IN m2 \in Machines(d) /\ m2.operands = m.operands /\ <<Ctl(m), Ctl(m2)>> \in Operated(class, v)
  <2>1. Fetch(m, insn.arg) = v
    BY <1>1, <1>3
  <2>2. Becomes(d, m, Execute(insn, m), Operate(class, m.sw, v), m.bie, m.parens, m.operands)
    BY <1>1, <2>1, ExecWord
  <2> QED BY <2>2, BecomesCtl DEF Operated
<1>4. ~r.failed => Acts(d, e, c, insn, Words, Operated(class, v))
  BY <1>3 DEF Acts
<1>5. OneMore(d, c, r, insn)
  BY DEF insn
<1> QED BY <1>1, <1>2, <1>4, <1>5, ActsBrings

LEMMA LoadBrings ==
  ASSUME NEW d, IsDiagram(d), NEW e, IsEnv(d, e), NEW c \in Result(d), NEW class \in Classes,
         NEW pin \in Wired(d), pin[1] = 0
  PROVE  Brings(d, e, c, CompileLoad(c, class, pin), {}, Words, Operated(class, e.at[pin]))
<1> DEFINE r == CompileLoad(c, class, pin)
           v == e.at[pin]
<1>1. pin \in GridPins(d)
  BY WiredPins
<1>2. pin \in {Load(name) : name \in Loads} /\ pin \in InputsOf(d) /\ pin # BIE
  <2>1. pin \in {Load(name) : name \in Loads}
    BY <1>1, PinCases
  <2>2. PICK name \in Loads : pin = Load(name)
    BY <2>1
  <2>3. pin[2] = name /\ BIE[2] = "BIE" /\ "BIE" \notin Loads
    BY <2>2, FupAssumption DEF Load, BIE
  <2>4. pin # BIE
    BY <2>3
  <2> QED BY <2>1, <2>4 DEF InputsOf
<1>3. v \in BOOLEAN /\ v = e.values[pin]
  <2>1. Meant(d, e.values, e.at, pin, ValueAt(d, e.values, e.at, pin))
    BY <1>1, MeantCases
  <2> QED BY <1>1, <2>1 DEF Meant, IsEnv, Env
<1>4. LoadsOne(d, c, r, Insn(class, pin), {pin}, c.failed)
  BY LoadsAre
<1>5. class \in Ops /\ pin \in Args(d)
  BY <1>1, ArgsTyped DEF Ops, Classes
<1>6. Insn(class, pin) \in InsnsOf(d)
  BY <1>5, InsnsTyped
<1> HIDE DEF r, v
<1>7. OneMore(d, c, r, Insn(class, pin))
  BY <1>4, <1>6 DEF OneMore, LoadsOne
<1>8. \A m \in Machines(d) : \A T : ~r.failed /\ Holds(d, e, c, T, m) => Fetch(m, pin) = v
  BY <1>2, <1>3 DEF Holds, Fetch
<1>9. Brings(d, e, c, r, {}, Words, Operated(class, v))
  BY <1>3, <1>7, <1>8, OperatesBrings
<1> QED BY <1>9 DEF r, v

LEMMA TempBrings ==
  ASSUME NEW d, IsDiagram(d), NEW e, IsEnv(d, e), NEW c \in Result(d), NEW class \in Classes,
         NEW pin \in Wired(d), pin[1] # 0
  PROVE  Brings(d, e, c, LoadFromTemp(c, class, pin), {}, Words, Operated(class, e.at[pin]))
<1> DEFINE r == LoadFromTemp(c, class, pin)
           v == e.at[pin]
<1>1. pin \in GridPins(d)
  BY WiredPins
<1>2. Temp(pin) # BIE
  BY DEF Temp, BIE
<1>3. v \in BOOLEAN
  BY <1>1 DEF IsEnv, Env
<1>4. LoadsOne(d, c, r, Insn(class, Temp(pin)), {}, c.failed \/ pin \notin c.temps)
  BY LoadsAre
<1>5. class \in Ops /\ Temp(pin) \in Args(d)
  BY <1>1, ArgsTyped DEF Ops, Classes
<1>6. Insn(class, Temp(pin)) \in InsnsOf(d)
  BY <1>5, InsnsTyped
<1> HIDE DEF r, v
<1>7. OneMore(d, c, r, Insn(class, Temp(pin))) /\ (~r.failed => pin \in c.temps)
  BY <1>4, <1>6 DEF OneMore, LoadsOne
<1>8. \A m \in Machines(d) : \A T : ~r.failed /\ Holds(d, e, c, T, m) => Fetch(m, Temp(pin)) = v
  BY <1>2, <1>7 DEF Holds, Fetch, v
<1>9. Brings(d, e, c, r, {}, Words, Operated(class, v))
  BY <1>3, <1>7, <1>8, OperatesBrings
<1> QED BY <1>9 DEF r, v

LEMMA BranchBrings ==
  ASSUME NEW d, IsDiagram(d), NEW e, NEW c \in Result(d), NEW class \in Classes
  PROVE  Brings(d, e, c, Emit(c, <<Plain(Branch(class))>>), {}, Words, OpenedFor(class))
<1> DEFINE insn == Plain(Branch(class))
           r == Emit(c, <<insn>>)
<1>1. insn \in InsnsOf(d)
  BY BranchTyped, InsnsTyped
<1>2. insn.label = NoLabel /\ insn.op \notin {"BE", "SPBNB"}
  BY InsnFacts, PlainOps
<1>3. OneMore(d, c, r, insn)
  BY <1>1, EmitOneMore
<1>4. ASSUME NEW m \in Machines(d)
      PROVE  LET m2 == Execute(insn, m)
             IN m2 \in Machines(d) /\ m2.operands = m.operands /\ <<Ctl(m), Ctl(m2)>> \in OpenedFor(class)
  <2>1. Becomes(d, m, Execute(insn, m), Opened(m.sw), m.bie,
                Append(m.parens, [insnType |-> class, bits |-> m.sw]), m.operands)
    BY ExecParens
  <2> DEFINE x == Execute(insn, m)
             ps == Append(m.parens, [insnType |-> class, bits |-> m.sw])
             s == Opened(m.sw)
  <2>2. Becomes(d, m, x, s, m.bie, ps, m.operands)
    BY <2>1
  <2> HIDE DEF x, ps, s, insn
  <2>3. /\ x \in Machines(d) /\ x.operands = m.operands
        /\ <<Ctl(m), Ctl(x)>> \in Words \X Words
        /\ Ctl(x).sw = s /\ Ctl(x).bie = m.bie /\ Ctl(x).parens = ps
        /\ Ctl(m).sw = m.sw /\ Ctl(m).bie = m.bie /\ Ctl(m).parens = m.parens
    BY <2>2, BecomesCtl
  <2>4. Ctl(x).sw = Opened(Ctl(m).sw)
        /\ Ctl(x).parens = Append(Ctl(m).parens, [insnType |-> class, bits |-> Ctl(m).sw])
    BY <2>3 DEF ps, s
  <2>5. <<Ctl(m), Ctl(x)>> \in OpenedFor(class)
    BY <2>3, <2>4 DEF OpenedFor
  <2> QED BY <2>3, <2>5 DEF x
<1> HIDE DEF insn, r
<1>5. Acts(d, e, c, insn, Words, OpenedFor(class))
  BY <1>4 DEF Acts
<1>6. Brings(d, e, c, r, {}, Words, OpenedFor(class))
  BY <1>2, <1>3, <1>5, ActsBrings
<1> QED BY <1>6 DEF r, insn

LEMMA CloseBrings ==
  ASSUME NEW d, IsDiagram(d), NEW e, NEW c \in Result(d)
  PROVE  Brings(d, e, c, Emit(c, <<Plain(")")>>), {}, WithParens, ClosedBy)
<1> DEFINE insn == Plain(")")
           r == Emit(c, <<insn>>)
<1>1. insn \in InsnsOf(d)
  <2>1. ")" \in Ops
    BY DEF Ops
  <2> QED BY <2>1, InsnsTyped
<1>2. insn.label = NoLabel /\ insn.op \notin {"BE", "SPBNB"}
  BY InsnFacts
<1>3. OneMore(d, c, r, insn)
  BY <1>1, EmitOneMore
<1>4. ASSUME NEW m \in Machines(d), Ctl(m) \in WithParens
      PROVE  LET m2 == Execute(insn, m)
             IN m2 \in Machines(d) /\ m2.operands = m.operands /\ <<Ctl(m), Ctl(m2)>> \in ClosedBy
  <2>1. \A ps \in Seq(ParenElems), el \in ParenElems :
          m.parens = Append(ps, el) =>
            Becomes(d, m, Execute(insn, m), Closed(el, m.sw), m.bie, ps, m.operands)
    BY ExecParens
  <2>2. Ctl(m).parens = m.parens /\ Ctl(m).sw = m.sw
    BY CtlTyped
  <2> HIDE DEF insn
  <2>3. PICK ps0 \in Seq(ParenElems), el0 \in ParenElems : m.parens = Append(ps0, el0)
    BY <1>4, <2>2 DEF WithParens
  <2>4. Becomes(d, m, Execute(insn, m), Closed(el0, m.sw), m.bie, ps0, m.operands)
    BY <2>1, <2>3
  <2>5. /\ Execute(insn, m) \in Machines(d) /\ Execute(insn, m).operands = m.operands
        /\ <<Ctl(m), Ctl(Execute(insn, m))>> \in Words \X Words
    BY <2>4, BecomesCtl
  <2>6. ASSUME NEW ps \in Seq(ParenElems), NEW el \in ParenElems, m.parens = Append(ps, el)
        PROVE  Ctl(Execute(insn, m)).sw = Closed(el, m.sw) /\ Ctl(Execute(insn, m)).parens = ps
    <3> DEFINE x == Execute(insn, m)
               s == Closed(el, m.sw)
    <3>1. Becomes(d, m, x, s, m.bie, ps, m.operands)
      BY <2>1, <2>6
    <3> HIDE DEF x, s
    <3>2. Ctl(x).sw = s /\ Ctl(x).parens = ps
      BY <3>1 DEF Becomes, Ctl
    <3> QED BY <3>2 DEF x, s
  <2> QED BY <2>2, <2>5, <2>6 DEF ClosedBy
<1> HIDE DEF insn, r
<1>5. Acts(d, e, c, insn, WithParens, ClosedBy)
  BY <1>4 DEF Acts
<1>6. Brings(d, e, c, r, {}, WithParens, ClosedBy)
  BY <1>2, <1>3, <1>5, ActsBrings
<1> QED BY <1>6 DEF r, insn

\* An instruction makes s and b of the bits of a machine.
Makes(d, insn, m, s, b) == Becomes(d, m, Execute(insn, m), s, b, m.parens, m.operands)
Related(m, s, b, R) ==
  \A w2 \in Words : w2.sw = s /\ w2.bie = b /\ w2.parens = m.parens => <<Ctl(m), w2>> \in R

LEMMA WordBrings ==
  ASSUME NEW d, NEW e, NEW c \in Result(d), NEW insn \in InsnsOf(d),
         insn.label = NoLabel, insn.op \notin {"BE", "SPBNB"}, NEW R,
         \A m \in Machines(d) : \A T :
           Holds(d, e, c, T, m) => \E s, b : Makes(d, insn, m, s, b) /\ Related(m, s, b, R)
  PROVE  Brings(d, e, c, Emit(c, <<insn>>), {}, Words, R)
<1> DEFINE r == Emit(c, <<insn>>)
<1>1. OneMore(d, c, r, insn)
  BY EmitOneMore
<1>2. ASSUME NEW m \in Machines(d), NEW T, Holds(d, e, c, T, m)
      PROVE  LET m2 == Execute(insn, m)
             IN m2 \in Machines(d) /\ m2.operands = m.operands /\ <<Ctl(m), Ctl(m2)>> \in R
  <2> DEFINE x == Execute(insn, m)
  <2>1. PICK s, b : Makes(d, insn, m, s, b) /\ Related(m, s, b, R)
    BY <1>2
  <2>2. Becomes(d, m, x, s, b, m.parens, m.operands)
    BY <2>1 DEF Makes
  <2> HIDE DEF x
  <2>3. x \in Machines(d) /\ x.operands = m.operands
    BY <2>2 DEF Becomes
  <2>4. Ctl(x) \in Words /\ Ctl(x).sw = s /\ Ctl(x).bie = b /\ Ctl(x).parens = m.parens
    BY <2>2, <2>3, CtlTyped DEF Becomes
  <2>5. <<Ctl(m), Ctl(x)>> \in R
    BY <2>1, <2>4 DEF Related
  <2> QED BY <2>3, <2>5 DEF x
<1> HIDE DEF r
<1>3. Acts(d, e, c, insn, Words, R)
  BY <1>2 DEF Acts
<1>4. Brings(d, e, c, r, {}, Words, R)
  BY <1>1, <1>3, ActsBrings
<1> QED BY <1>4 DEF r

LEMMA NotBrings ==
  ASSUME NEW d, IsDiagram(d), NEW e, NEW c \in Result(d)
  PROVE  Brings(d, e, c, Emit(c, <<Plain("NOT")>>), {}, Words, Negates)
<1> DEFINE insn == Plain("NOT")
<1>1. insn.op = "NOT" /\ insn.label = NoLabel
  BY InsnFacts
<1>2. insn \in InsnsOf(d)
  BY InsnsTyped DEF Ops
<1> HIDE DEF insn
<1>3. ASSUME NEW m \in Machines(d)
      PROVE  \E s, b : Makes(d, insn, m, s, b) /\ Related(m, s, b, Negates)
  <2> DEFINE s0 == [m.sw EXCEPT !.VKE = ~m.sw.VKE]
  <2>1. Makes(d, insn, m, s0, m.bie)
    BY <1>1, ExecWord DEF Makes
  <2>2. Related(m, s0, m.bie, Negates)
    BY CtlTyped DEF Related, Negates
  <2> QED BY <2>1, <2>2
<1>4. Brings(d, e, c, Emit(c, <<insn>>), {}, Words, Negates)
  BY <1>1, <1>2, <1>3, WordBrings
<1> QED BY <1>4 DEF insn

LEMMA SetBrings ==
  ASSUME NEW d, IsDiagram(d), NEW e, NEW c \in Result(d)
  PROVE  Brings(d, e, c, Emit(c, <<Plain("SET")>>), {}, Words, SetsVke)
<1> DEFINE insn == Plain("SET")
<1>1. insn.op = "SET" /\ insn.label = NoLabel
  BY InsnFacts
<1>2. insn \in InsnsOf(d)
  BY InsnsTyped DEF Ops
<1> HIDE DEF insn
<1>3. ASSUME NEW m \in Machines(d)
      PROVE  \E s, b : Makes(d, insn, m, s, b) /\ Related(m, s, b, SetsVke)
  <2> DEFINE s0 == Ended(TRUE)
  <2>1. Makes(d, insn, m, s0, m.bie)
    BY <1>1, ExecWord DEF Makes
  <2>2. Related(m, s0, m.bie, SetsVke)
    BY CtlTyped DEF Related, SetsVke
  <2> QED BY <2>1, <2>2
<1>4. Brings(d, e, c, Emit(c, <<insn>>), {}, Words, SetsVke)
  BY <1>1, <1>2, <1>3, WordBrings
<1> QED BY <1>4 DEF insn

LEMMA SaveBrings ==
  ASSUME NEW d, IsDiagram(d), NEW e, NEW c \in Result(d)
  PROVE  Brings(d, e, c, Emit(c, <<Plain("SAVE")>>), {}, Words, SavesBie)
<1> DEFINE insn == Plain("SAVE")
<1>1. insn.op = "SAVE" /\ insn.label = NoLabel
  BY InsnFacts
<1>2. insn \in InsnsOf(d)
  BY InsnsTyped DEF Ops
<1> HIDE DEF insn
<1>3. ASSUME NEW m \in Machines(d)
      PROVE  \E s, b : Makes(d, insn, m, s, b) /\ Related(m, s, b, SavesBie)
  <2>1. Makes(d, insn, m, m.sw, m.sw.VKE)
    BY <1>1, ExecWord DEF Makes
  <2>2. Related(m, m.sw, m.sw.VKE, SavesBie)
    BY CtlTyped DEF Related, SavesBie
  <2> QED BY <2>1, <2>2
<1>4. Brings(d, e, c, Emit(c, <<insn>>), {}, Words, SavesBie)
  BY <1>1, <1>2, <1>3, WordBrings
<1> QED BY <1>4 DEF insn

LEMMA BieBrings ==
  ASSUME NEW d, IsDiagram(d), NEW e, NEW c \in Result(d)
  PROVE  Brings(d, e, c, Emit(c, <<Insn("U", BIE)>>), {}, Words, LoadsBie)
<1> DEFINE insn == Insn("U", BIE)
<1>1. insn.op = "U" /\ insn.arg = BIE /\ insn.label = NoLabel
  BY InsnFacts
<1>2. insn \in InsnsOf(d)
  BY InsnsTyped, ArgsTyped DEF Ops
<1> HIDE DEF insn
<1>3. ASSUME NEW m \in Machines(d)
      PROVE  \E s, b : Makes(d, insn, m, s, b) /\ Related(m, s, b, LoadsBie)
  <2> DEFINE s0 == Operate("U", m.sw, m.bie)
  <2>1. Fetch(m, insn.arg) = m.bie /\ m.bie \in BOOLEAN /\ "U" \in Classes
    BY <1>1, MachineParts DEF Fetch, Classes
  <2>2. Makes(d, insn, m, s0, m.bie)
    BY <1>1, <2>1, ExecWord DEF Makes
  <2>3. Related(m, s0, m.bie, LoadsBie)
    BY CtlTyped DEF Related, LoadsBie
  <2> QED BY <2>2, <2>3
<1>4. Brings(d, e, c, Emit(c, <<insn>>), {}, Words, LoadsBie)
  BY <1>1, <1>2, <1>3, WordBrings
<1> QED BY <1>4 DEF insn

LEMMA CmpBrings ==
  ASSUME NEW d, IsDiagram(d), NEW e, IsEnv(d, e), NEW c \in Result(d), NEW i \in DOMAIN d.nodes, Is(d, i, {"CMP"})
  PROVE  Brings(d, e, c, Emit(c, <<Insn("CMP", Out(i))>>), {}, Words, ComparedTo(e.values[Out(i)]))
<1> DEFINE insn == Insn("CMP", Out(i))
           v == e.values[Out(i)]
<1>1. insn.op = "CMP" /\ insn.arg = Out(i) /\ insn.label = NoLabel
  BY InsnFacts
<1>2. insn \in InsnsOf(d)
  BY InsnsTyped, ArgsTyped DEF Ops
<1>3. Out(i) \in InputsOf(d)
  BY DEF InputsOf, Compares
<1>4. v \in BOOLEAN
  BY <1>3 DEF IsEnv
<1> HIDE DEF insn, v
<1>5. ASSUME NEW m \in Machines(d), NEW T, Holds(d, e, c, T, m)
      PROVE  \E s, b : Makes(d, insn, m, s, b) /\ Related(m, s, b, ComparedTo(v))
  <2> DEFINE s0 == [Ended(v) EXCEPT !.NER = TRUE]
  <2>1. m.operands[insn.arg] = v
    BY <1>1, <1>3, <1>5 DEF Holds, v
  <2>2. Makes(d, insn, m, s0, m.bie)
    BY <1>1, <1>4, <2>1, ExecWord DEF Makes
  <2>3. Related(m, s0, m.bie, ComparedTo(v))
    BY CtlTyped DEF Related, ComparedTo
  <2> QED BY <2>2, <2>3
<1>6. Brings(d, e, c, Emit(c, <<insn>>), {}, Words, ComparedTo(v))
  BY <1>1, <1>2, <1>5, WordBrings
<1> QED BY <1>6 DEF insn, v

Quiet(s) == ~s.NER /\ ~s.OR
\* A machine m2 in which the operands A have what is in VKE of m.
Assigned(d, m, m2, A) ==
  /\ m2 \in Machines(d)
  /\ m2.sw.VKE = m.sw.VKE /\ m2.bie = m.bie /\ m2.parens = m.parens
  /\ A # {} => Quiet(m2.sw)
  /\ Quiet(m.sw) => Quiet(m2.sw)
  /\ \A x \in OperandsOf(d) : m2.operands[x] = IF x \in A THEN m.sw.VKE ELSE m.operands[x]
ArgsOf(insns, k) == {insns[j].arg : j \in 1..k}

LEMMA AssignedOne ==
  ASSUME NEW d, NEW m \in Machines(d), NEW m1, NEW A, Assigned(d, m, m1, A), NEW arg \in OperandsOf(d)
  PROVE  Assigned(d, m, Execute(Insn("=", arg), m1), A \cup {arg})
<1> DEFINE m2 == Execute(Insn("=", arg), m1)
           s == Ended(m1.sw.VKE)
           ops == [m1.operands EXCEPT ![arg] = m1.sw.VKE]
<1>1. m1 \in Machines(d)
  BY DEF Assigned
<1>2. Becomes(d, m1, m2, s, m1.bie, m1.parens, ops)
  BY <1>1, ExecOperand
<1>3. s.VKE = m1.sw.VKE /\ Quiet(s)
  BY <1>1, MachineParts, WordsTyped DEF Quiet
<1>4. \A x \in OperandsOf(d) : ops[x] = IF x = arg THEN m1.sw.VKE ELSE m1.operands[x]
  BY <1>1, MachineParts
<1> HIDE DEF m2, s, ops
<1>5. m2 \in Machines(d) /\ m2.sw = s /\ m2.bie = m1.bie /\ m2.parens = m1.parens /\ m2.operands = ops
  BY <1>2 DEF Becomes
<1>6. m2.sw.VKE = m.sw.VKE /\ m2.bie = m.bie /\ m2.parens = m.parens /\ Quiet(m2.sw)
  BY <1>3, <1>5 DEF Assigned
<1>7. ASSUME NEW x \in OperandsOf(d)
      PROVE  m2.operands[x] = IF x \in A \cup {arg} THEN m.sw.VKE ELSE m.operands[x]
  BY <1>4, <1>5 DEF Assigned
<1>8. Assigned(d, m, m2, A \cup {arg})
  BY <1>5, <1>6, <1>7 DEF Assigned
<1> QED BY <1>8 DEF m2

LEMMA AssignsPlay ==
  ASSUME NEW d, NEW m \in Machines(d), NEW insns \in Seq(InsnsOf(d)), NEW A, A \subseteq OperandsOf(d),
         Assigns(insns, A)
  PROVE  \E m2 : Leads(insns, <<m, NoLabel>>, <<m2, NoLabel>>) /\ Assigned(d, m, m2, A)
<1> DEFINE V == Machines(d)
           n == Len(insns)
           F == [x \in V \X (1..n) |-> Execute(insns[x[2]], x[1])]
<1>1. n \in Nat /\ DOMAIN insns = 1..n
  BY LenProperties
<1>2. \A k \in 1..n : insns[k] = Insn("=", insns[k].arg) /\ insns[k].arg \in OperandsOf(d)
  BY <1>1 DEF Assigns
<1>3. ASSUME NEW x \in V, NEW k \in 1..n PROVE Execute(insns[k], x) \in V
  <2> DEFINE arg == insns[k].arg
             y == Execute(Insn("=", arg), x)
  <2>1. Becomes(d, x, y, Ended(x.sw.VKE), x.bie, x.parens, [x.operands EXCEPT ![arg] = x.sw.VKE])
    BY <1>2, ExecOperand
  <2>2. y \in Machines(d)
    BY <2>1 DEF Becomes
  <2>3. insns[k] = Insn("=", arg)
    BY <1>2
  <2> HIDE DEF arg
  <2> QED BY <2>2, <2>3
<1> HIDE DEF V, n
<1>4. F \in [V \X (1..n) -> V]
  BY <1>3
<1>5. \A x \in V, k \in 1..n : F[<<x, k>>] = Execute(insns[k], x)
  OBVIOUS
<1> HIDE DEF F
<1>6. m \in V
  BY DEF V
<1>7. PICK g : StepByStep(g, V, m, n, F)
  BY <1>1, <1>4, <1>6, Recursion
<1>8. g[0] = m /\ \A k \in 1..n : g[k - 1] \in V /\ g[k] = Execute(insns[k], g[k - 1])
  <2>1. g \in [0..n -> V] /\ g[0] = m /\ \A k \in 1..n : g[k] = F[<<g[k - 1], k>>]
    BY <1>7 DEF StepByStep
  <2>2. \A k \in 1..n : k - 1 \in 0..n
    BY <1>1
  <2> QED BY <1>5, <2>1, <2>2
<1> DEFINE t == [k \in 0..n |-> <<g[k], NoLabel>>]
<1>9. ASSUME NEW k \in 1..n PROVE t[k] = PlayStep(insns[k], t[k - 1])
  <2>1. insns[k].label = NoLabel /\ insns[k].op = "="
    <3> DEFINE arg == insns[k].arg
    <3>1. insns[k] = Insn("=", arg)
      BY <1>2
    <3> HIDE DEF arg
    <3> QED BY <3>1, InsnFacts
  <2>2. t[k - 1] = <<g[k - 1], NoLabel>> /\ t[k] = <<g[k], NoLabel>>
    BY <1>1
  <2>3. PlayStep(insns[k], <<g[k - 1], NoLabel>>) = <<Execute(insns[k], g[k - 1]), NoLabel>>
    BY <2>1 DEF PlayStep, Jumps
  <2> HIDE DEF t
  <2> QED BY <1>8, <2>2, <2>3
<1>10. t[0] = <<m, NoLabel>> /\ t[n] = <<g[n], NoLabel>>
  BY <1>1, <1>8
<1> HIDE DEF t
<1>11. Leads(insns, <<m, NoLabel>>, <<g[n], NoLabel>>)
  BY <1>9, <1>10 DEF Leads, Plays, n
<1> DEFINE S == {k \in Nat : k <= n => Assigned(d, m, g[k], ArgsOf(insns, k))}
<1>12. 0 \in S
  <2>1. ArgsOf(insns, 0) = {}
    BY DEF ArgsOf
  <2>2. Assigned(d, m, m, {})
    BY DEF Assigned
  <2> QED BY <1>8, <2>1, <2>2
<1>13. ASSUME NEW k \in Nat, k \in S PROVE k + 1 \in S
  <2> SUFFICES ASSUME k + 1 <= n PROVE Assigned(d, m, g[k + 1], ArgsOf(insns, k + 1))
    OBVIOUS
  <2> DEFINE arg == insns[k + 1].arg
             m1 == g[k]
             B == ArgsOf(insns, k)
  <2>1. Assigned(d, m, m1, B)
    BY <1>1, <1>13
  <2>2. k + 1 \in 1..n /\ (k + 1) - 1 = k
    BY <1>1
  <2>3. g[k + 1] = Execute(insns[k + 1], m1) /\ insns[k + 1] = Insn("=", arg) /\ arg \in OperandsOf(d)
    BY <1>2, <1>8, <2>2
  <2>4. ArgsOf(insns, k + 1) = B \cup {arg}
    <3>1. 1 .. k + 1 = (1..k) \cup {k + 1}
      OBVIOUS
    <3> QED BY <3>1 DEF ArgsOf
  <2> HIDE DEF arg, m1, B
  <2>5. Assigned(d, m, Execute(Insn("=", arg), m1), B \cup {arg})
    BY <2>1, <2>3, AssignedOne
  <2> QED BY <2>3, <2>4, <2>5, Zenon
<1> HIDE DEF S
<1>14. n \in S
  BY <1>1, <1>12, <1>13, SetInduction
<1>15. Assigned(d, m, g[n], ArgsOf(insns, n))
  BY <1>1, <1>14 DEF S
<1>16. ArgsOf(insns, n) = A
  BY <1>1 DEF ArgsOf, Assigns
<1> QED BY <1>11, <1>15, <1>16

Valued(v) == {w \in Words : w.sw.VKE = v}
\* VKE is left as it is; what is behind a saving is the first instruction of a
\* network.
Keeps(saved) ==
  {x \in Words \X Words :
     /\ x[2].sw.VKE = x[1].sw.VKE /\ x[2].bie = x[1].bie /\ x[2].parens = x[1].parens
     /\ saved => Quiet(x[2].sw)
     /\ Quiet(x[1].sw) => Quiet(x[2].sw)}

LEMMA OperandsThere ==
  ASSUME NEW d, IsDiagram(d)
  PROVE  /\ InputsOf(d) \subseteq OperandsOf(d)
         /\ \A pin \in GridPins(d) : Temp(pin) \in OperandsOf(d)
         /\ \A s \in Stores : Stored(s) \in OperandsOf(d)
         /\ \A i \in DOMAIN d.nodes : Transferred(i) \in OperandsOf(d)
         /\ Moves(d) \subseteq DOMAIN d.nodes /\ DOMAIN d.stores \subseteq Stores
<1>1. InputsOf(d) \subseteq OperandsOf(d)
  BY DEF InputsOf, OperandsOf, Compares, GridPins
<1> QED BY <1>1 DEF OperandsOf, Moves, IsDiagram

\* The value of a pin, in VKE of m, is saved in the operands A.
PinSaved(d, e, c, r, stored, temps, pin, T, m, m2, A) ==
  /\ c \in Result(d) /\ r.stored = c.stored \cup stored /\ r.temps = c.temps \cup temps
  /\ pin \in GridPins(d)
  /\ \A s \in stored : s \in DOMAIN d.stores /\ d.stores[s] = pin
  /\ \A p \in temps : p = pin /\ pin[1] # 0
  /\ Holds(d, e, c, T, m) /\ m.sw.VKE = e.at[pin]
  /\ A = {Stored(s) : s \in stored} \cup {Temp(p) : p \in temps} /\ Assigned(d, m, m2, A)

LEMMA SavedHolds ==
  ASSUME NEW d, IsDiagram(d), NEW e, NEW c, NEW r, NEW stored, NEW temps, NEW pin, NEW T, NEW m, NEW m2, NEW A,
         PinSaved(d, e, c, r, stored, temps, pin, T, m, m2, A)
  PROVE  Holds(d, e, r, T, m2)
<1> USE DEF PinSaved
<1>0. m \in Machines(d) /\ m2 \in Machines(d)
  BY DEF Holds, Assigned
<1>1. ASSUME NEW x \in InputsOf(d) PROVE m2.operands[x] = e.values[x]
  <2>1. x \notin A
    BY OperandsApart, OperandsThere
  <2>2. x \in OperandsOf(d)
    BY OperandsThere
  <2> QED BY <2>1, <2>2 DEF Holds, Assigned
<1>2. ASSUME NEW p \in r.temps PROVE p \in GridPins(d) /\ p[1] # 0 /\ m2.operands[Temp(p)] = e.at[p]
  <2>1. p \in GridPins(d) /\ p[1] # 0
    BY <1>2 DEF Holds
  <2>2. Temp(p) \in OperandsOf(d)
    BY <2>1, OperandsThere
  <2>3. CASE Temp(p) \in A
    <3>1. PICK q1 \in temps : Temp(p) = Temp(q1)
      BY <2>1, <2>3, OperandsApart
    <3>2. p = pin
      BY <2>1, <3>1, OperandsApart
    <3> QED BY <2>2, <2>3, <3>2, <2>1 DEF Assigned
  <2>4. CASE Temp(p) \notin A
    <3>1. p \in c.temps
      BY <1>2, <2>4
    <3> QED BY <2>1, <2>2, <2>4, <3>1 DEF Assigned, Holds
  <2> QED BY <2>3, <2>4
<1>3. ASSUME NEW s \in r.stored PROVE m2.operands[Stored(s)] = e.at[d.stores[s]]
  <2>1. s \in Stores
    BY <1>3, OperandsThere DEF Result
  <2>2. Stored(s) \in OperandsOf(d)
    BY <2>1, OperandsThere
  <2>3. CASE Stored(s) \in A
    <3>1. PICK s1 \in stored : Stored(s) = Stored(s1)
      BY <2>3, OperandsApart
    <3>2. s = s1
      BY <2>1, <3>1, OperandsApart
    <3> QED BY <2>2, <2>3, <3>2, <3>1 DEF Assigned
  <2>4. CASE Stored(s) \notin A
    <3>1. s \in c.stored
      BY <1>3, <2>4
    <3> QED BY <2>2, <2>4, <3>1 DEF Assigned, Holds
  <2> QED BY <2>3, <2>4
<1>4. ASSUME NEW i \in Moves(d)
      PROVE  m2.operands[Transferred(i)] = IF i \in T THEN e.before # EnabledIn(d, e.at, i) ELSE e.before
  <2>1. i \in DOMAIN d.nodes
    BY OperandsThere
  <2>2. Transferred(i) \in OperandsOf(d)
    BY <2>1, OperandsThere
  <2>3. Transferred(i) \notin A
    BY <2>1, OperandsApart
  <2> QED BY <2>2, <2>3 DEF Assigned, Holds
<1> QED BY <1>0, <1>1, <1>2, <1>3, <1>4 DEF Holds

LEMMA SavesBrings ==
  ASSUME NEW d, IsDiagram(d), NEW e, NEW c \in Result(d), NEW r, NEW stored, NEW temps,
         Saves(d, c, r, stored, temps), NEW pin \in GridPins(d),
         \A s \in stored : s \in DOMAIN d.stores /\ d.stores[s] = pin,
         \A p \in temps : p = pin /\ pin[1] # 0
  PROVE  Brings(d, e, c, r, {}, Valued(e.at[pin]), Keeps(stored # {} \/ temps # {}))
<1> DEFINE A == {Stored(s) : s \in stored} \cup {Temp(p) : p \in temps}
           saved == stored # {} \/ temps # {}
           v == e.at[pin]
<1>1. PICK insns : Adds(d, c, r, insns, stored, temps) /\ Assigns(insns, A)
  BY DEF Saves
<1>2. /\ r \in Result(d) /\ insns \in Seq(InsnsOf(d)) /\ r.code = c.code \o insns
      /\ r.done = c.done /\ r.failed = c.failed
      /\ r.stored = c.stored \cup stored /\ r.temps = c.temps \cup temps
  BY <1>1 DEF Adds
<1>3. A \subseteq OperandsOf(d)
  BY OperandsThere
<1>4. saved => A # {}
  OBVIOUS
<1>8. A = {Stored(s) : s \in stored} \cup {Temp(p) : p \in temps}
  OBVIOUS
<1> HIDE DEF saved, A
<1>5. ASSUME NEW m \in Machines(d), NEW T, Holds(d, e, c, T, m), Ctl(m) \in Valued(v)
      PROVE  \E m2 \in Machines(d) :
               /\ Leads(insns, <<m, NoLabel>>, <<m2, NoLabel>>)
               /\ Holds(d, e, r, T \cup {}, m2)
               /\ <<Ctl(m), Ctl(m2)>> \in Keeps(saved)
  <2>1. m.sw.VKE = v
    BY <1>5, CtlTyped DEF Valued
  <2>2. PICK m2 : Leads(insns, <<m, NoLabel>>, <<m2, NoLabel>>) /\ Assigned(d, m, m2, A)
    BY <1>1, <1>2, <1>3, AssignsPlay
  <2>3. m2 \in Machines(d)
    BY <2>2 DEF Assigned
  <2>4. Holds(d, e, r, T, m2)
    <3>1. /\ r.stored = c.stored \cup stored /\ r.temps = c.temps \cup temps
          /\ Holds(d, e, c, T, m) /\ m.sw.VKE = e.at[pin]
          /\ A = {Stored(s) : s \in stored} \cup {Temp(p) : p \in temps} /\ Assigned(d, m, m2, A)
      BY <1>2, <1>5, <1>8, <2>1, <2>2
    <3>2. PinSaved(d, e, c, r, stored, temps, pin, T, m, m2, A)
      BY <3>1 DEF PinSaved
    <3> QED BY <3>2, SavedHolds
  <2>5. T \cup {} = T
    OBVIOUS
  <2>6. Ctl(m) \in Words /\ Ctl(m2) \in Words /\ Ctl(m).sw = m.sw /\ Ctl(m2).sw = m2.sw
        /\ Ctl(m).bie = m.bie /\ Ctl(m2).bie = m2.bie /\ Ctl(m).parens = m.parens /\ Ctl(m2).parens = m2.parens
    BY <2>3, CtlTyped
  <2>7. <<Ctl(m), Ctl(m2)>> \in Keeps(saved)
    BY <1>4, <2>2, <2>6 DEF Keeps, Assigned
  <2> QED BY <2>2, <2>3, <2>4, <2>5, <2>7
<1>6. Does(d, e, c, r, insns, {}, Valued(v), Keeps(saved))
  BY <1>5 DEF Does
<1>7. Brings(d, e, c, r, {}, Valued(v), Keeps(saved))
  BY <1>2, <1>6 DEF Brings
<1> QED BY <1>7 DEF saved

(***************************************************************************)
(* What is wired to a pin comes into VKE.                                  *)
(***************************************************************************)

QuietWords == {w \in Words : Quiet(w.sw)}
Yields(v) == {x \in Words \X Words : x[2].sw.VKE = v /\ x[2].parens = x[1].parens}
\* A gate leaves its value in VKE, a box that of its outputs that are wired to
\* the inputs of elements.
NodeYields(d, V, i) ==
  {x \in Words \X Words :
     /\ x[2].parens = x[1].parens
     /\ Is(d, i, Booleans) => x[2].sw.VKE = V[Out(i)]
     /\ Is(d, i, Boxes) =>
          /\ Quiet(x[2].sw)
          /\ \A pin \in PinsOf(d, i) : Readers(d, pin) # {} => x[2].sw.VKE = V[pin]}
\* What the instructions of a node do, from any progress without it.
NodeBrings(d, e, h, i) ==
  \A p \in Progress(d) :
    i \notin p.done =>
      Brings(d, e, Running(p, i), h[<<p, i>>], h[<<p, i>>].done \ p.done, QuietWords, NodeYields(d, e.at, i))
NodesBring(d, e, rank, h, i) == \A j \in DOMAIN d.nodes : rank[j] < rank[i] => NodeBrings(d, e, h, j)

LEMMA HoldsSame ==
  ASSUME NEW d, NEW e, NEW c, NEW r, NEW T, NEW m, r.stored = c.stored, r.temps = c.temps, Holds(d, e, c, T, m)
  PROVE  Holds(d, e, r, T, m)
BY DEF Holds

LEMMA EmptyConcat ==
  ASSUME NEW A, NEW a \in Seq(A)
  PROVE  <<>> \o a = a /\ a \o <<>> = a
OBVIOUS

LEMMA CompiledBrings ==
  ASSUME NEW d, NEW e, NEW h \in NodeCode(d), NEW c \in Result(d), NEW j \in DOMAIN d.nodes, j \notin c.done,
         NodeBrings(d, e, h, j)
  PROVE  LET r == Compiled(h, c, j)
         IN Brings(d, e, c, r, r.done \ c.done, QuietWords, NodeYields(d, e.at, j))
<1> DEFINE r == Compiled(h, c, j)
           p == Prog(c)
           new == NewCode(h, c, j)
           run == Running(p, j)
           Y == new.done \ p.done
           R == NodeYields(d, e.at, j)
<1>1. p \in Progress(d) /\ p.code = <<>> /\ p.done = c.done /\ p.failed = c.failed /\ p.stored = c.stored /\ p.temps = c.temps
  BY ProgTyped
<1>2. Extends(d, c, new, r)
  BY CompiledExtends
<1>3. new = h[<<p, j>>]
  BY DEF NewCode
<1>4. Brings(d, e, run, new, Y, QuietWords, R)
  BY <1>1, <1>3 DEF NodeBrings
<1> HIDE DEF r, p, new, R
<1>5. p \in Result(d)
  BY <1>1, ProgressResult
<1>6. /\ run \in Result(d) /\ run.code = <<>> /\ run.done = c.done \cup {j} /\ run.failed = c.failed
      /\ run.stored = c.stored /\ run.temps = c.temps
  BY <1>1, <1>5, RunningTyped
<1> HIDE DEF run
<1>7. /\ new \in Result(d) /\ r \in Result(d) /\ r.code = c.code \o new.code /\ r.done = new.done
      /\ r.failed = new.failed /\ r.stored = new.stored /\ r.temps = new.temps
  BY <1>2 DEF Extends
<1>8. Y = r.done \ c.done
  BY <1>1, <1>7
<1> HIDE DEF Y
<1>9. c.done \subseteq r.done /\ (c.failed => r.failed)
  BY <1>4, <1>6, <1>7 DEF Brings
<1>10. ASSUME ~r.failed
       PROVE  \E a \in Seq(InsnsOf(d)) : r.code = c.code \o a /\ Does(d, e, c, r, a, Y, QuietWords, R)
  <2>1. PICK a \in Seq(InsnsOf(d)) : new.code = run.code \o a /\ Does(d, e, run, new, a, Y, QuietWords, R)
    BY <1>4, <1>7, <1>10 DEF Brings
  <2>2. new.code = a
    BY <1>6, <2>1, EmptyConcat
  <2>3. Does(d, e, c, r, a, Y, QuietWords, R)
    <3> SUFFICES ASSUME NEW m \in Machines(d), NEW T, T \cap Y = {}, Holds(d, e, c, T, m), Ctl(m) \in QuietWords
                 PROVE  \E m2 \in Machines(d) :
                          /\ Leads(a, <<m, NoLabel>>, <<m2, NoLabel>>)
                          /\ Holds(d, e, r, T \cup Y, m2)
                          /\ <<Ctl(m), Ctl(m2)>> \in R
      BY DEF Does
    <3>1. Holds(d, e, run, T, m)
      BY <1>6, HoldsSame
    <3>2. PICK m2 \in Machines(d) :
            /\ Leads(a, <<m, NoLabel>>, <<m2, NoLabel>>)
            /\ Holds(d, e, new, T \cup Y, m2)
            /\ <<Ctl(m), Ctl(m2)>> \in R
      BY <2>1, <3>1 DEF Does
    <3>3. Holds(d, e, r, T \cup Y, m2)
      BY <1>7, <3>2, HoldsSame
    <3> QED BY <3>2, <3>3
  <2> QED BY <1>7, <2>2, <2>3
<1>11. Brings(d, e, c, r, Y, QuietWords, R)
  BY <1>7, <1>9, <1>10 DEF Brings
<1> QED BY <1>8, <1>11 DEF r, R

\* What is between parentheses.
LEMMA ParenBrings ==
  ASSUME NEW d, IsDiagram(d), NEW e, NEW c \in Result(d), NEW class \in Classes, NEW v \in BOOLEAN, NEW r, NEW Y,
         Brings(d, e, Emit(c, <<Plain(Branch(class))>>), r, Y, QuietWords, Yields(v))
  PROVE  Brings(d, e, c, Emit(r, <<Plain(")")>>), Y, Words, Operated(class, v))
<1> DEFINE a == Emit(c, <<Plain(Branch(class))>>)
           z == Emit(r, <<Plain(")")>>)
           M == {x \in Words \X Words :
                   /\ x[2].sw.VKE = v
                   /\ x[2].parens = Append(x[1].parens, [insnType |-> class, bits |-> x[1].sw])}
<1>1. Brings(d, e, c, a, {}, Words, OpenedFor(class))
  BY BranchBrings
<1>2. r \in Result(d)
  BY DEF Brings
<1>3. Brings(d, e, r, z, {}, WithParens, ClosedBy)
  BY <1>2, CloseBrings
<1>4. \A w \in Words : w.sw \in Bits /\ w.parens \in Seq(ParenElems) /\ w.sw.VKE \in BOOLEAN
  BY DEF Words, Bits
<1>5. Chains(Words, OpenedFor(class), QuietWords, Yields(v), M)
  <2> SUFFICES ASSUME NEW w \in Words, NEW w2 \in Words, NEW w3 \in Words, <<w, w2>> \in OpenedFor(class)
               PROVE  w2 \in QuietWords /\ (<<w2, w3>> \in Yields(v) => <<w, w3>> \in M)
    BY DEF Chains
  <2>1. w2.sw = Opened(w.sw) /\ w2.parens = Append(w.parens, [insnType |-> class, bits |-> w.sw])
    BY DEF OpenedFor
  <2>2. Quiet(w2.sw)
    BY <1>4, <2>1, WordsTyped DEF Opened, Quiet
  <2> QED BY <2>1, <2>2 DEF QuietWords, Yields
<1>6. Chains(Words, M, WithParens, ClosedBy, Operated(class, v))
  <2> SUFFICES ASSUME NEW w \in Words, NEW w2 \in Words, NEW w3 \in Words, <<w, w2>> \in M
               PROVE  w2 \in WithParens /\ (<<w2, w3>> \in ClosedBy => <<w, w3>> \in Operated(class, v))
    BY DEF Chains
  <2> DEFINE el == [insnType |-> class, bits |-> w.sw]
             ps == w.parens
  <2>1. w2.sw.VKE = v /\ w2.parens = Append(ps, el)
    OBVIOUS
  <2>2. el \in ParenElems /\ el.insnType = class /\ el.bits = w.sw /\ ps \in Seq(ParenElems)
    BY <1>4, WordsTyped DEF ParenElems
  <2> HIDE DEF el
  <2>3. w2 \in WithParens
    BY <2>1, <2>2 DEF WithParens
  <2>4. ASSUME <<w2, w3>> \in ClosedBy PROVE <<w, w3>> \in Operated(class, v)
    <3>1. w3.sw = Closed(el, w2.sw) /\ w3.parens = ps
      BY <2>1, <2>2, <2>4 DEF ClosedBy
    <3>2. w3.sw = Operate(class, w.sw, v)
      BY <2>1, <2>2, <3>1 DEF Closed
    <3> QED BY <3>1, <3>2 DEF Operated
  <2> QED BY <2>3, <2>4
<1> HIDE DEF a, z, M
<1>7. Brings(d, e, a, r, Y, QuietWords, Yields(v))
  BY DEF a
<1>8. {} \cap Y = {} /\ {} \cup Y = Y /\ Y \cap {} = {} /\ Y \cup {} = Y
  OBVIOUS
<1>9. Brings(d, e, c, r, {} \cup Y, Words, M)
  BY <1>1, <1>5, <1>7, <1>8, BringsThen
<1>10. Brings(d, e, c, z, Y \cup {}, Words, Operated(class, v))
  BY <1>3, <1>6, <1>8, <1>9, BringsThen
<1> QED BY <1>8, <1>10 DEF z

Inverts(class) == class \in {"UN", "ON"}
\* What the instructions for a connection do: a box gives its value in VKE.
ConnDoes(d, e, c, r, class, pin) ==
  /\ c \in Result(d) /\ r \in Result(d) /\ c.done \subseteq r.done
  /\ Is(d, pin[1], Boxes) =>
       Brings(d, e, c, r, r.done \ c.done, QuietWords, Yields(e.at[pin] # Inverts(class)))
  /\ ~Is(d, pin[1], Boxes) =>
       Brings(d, e, c, r, r.done \ c.done, Words, Operated(class, e.at[pin]))

LEMMA GateConn ==
  ASSUME NEW d, IsDiagram(d), NEW e, IsEnv(d, e), NEW h \in NodeCode(d), NEW c \in Result(d),
         NEW class \in Classes, NEW pin \in Wired(d), pin[1] \in DOMAIN d.nodes, Is(d, pin[1], Booleans),
         pin = Out(pin[1]), pin[1] \notin c.done, NodeBrings(d, e, h, pin[1])
  PROVE  LET r == FirstGate(d, h, c, class, pin)
         IN Brings(d, e, c, r, r.done \ c.done, Words, Operated(class, e.at[pin]))
<1> DEFINE j == pin[1]
           v == e.at[pin]
           a == Emit(c, <<Plain(Branch(class))>>)
           g == Compiled(h, a, j)
           t == IF Fanout(d, pin) > 1 THEN StoreToTemp(g, pin) ELSE g
           z == Emit(t, <<Plain(")")>>)
           Y == g.done \ a.done
<1>1. FirstGate(d, h, c, class, pin) = z
  BY DEF FirstGate
<1>2. Plain(Branch(class)) \in InsnsOf(d) /\ Plain(")") \in InsnsOf(d)
  BY BranchTyped, InsnsTyped
<1>3. a \in Result(d) /\ a.done = c.done
  BY <1>2, EmitOne
<1>4. pin \in GridPins(d) /\ v \in BOOLEAN /\ j # 0
  BY WiredPins, PinsOfKinds DEF IsEnv, Env
<1>5. Brings(d, e, a, g, Y, QuietWords, NodeYields(d, e.at, j))
  <2> HIDE DEF a
  <2>1. j \in DOMAIN d.nodes /\ j \notin a.done /\ NodeBrings(d, e, h, j)
    BY <1>3
  <2> HIDE DEF j
  <2> QED BY <1>3, <2>1, CompiledBrings
<1>6. \A w, w2 \in Words : w \in QuietWords /\ <<w, w2>> \in NodeYields(d, e.at, j) => <<w, w2>> \in Yields(v)
  BY DEF NodeYields, Yields
<1> HIDE DEF a, g, v, j
<1>7. Brings(d, e, a, g, Y, QuietWords, Yields(v))
  <2>1. QuietWords \subseteq QuietWords /\ Y \subseteq Y /\ Y \cap Moves(d) = Y \cap Moves(d)
    OBVIOUS
  <2> HIDE DEF Y
  <2> QED BY <1>5, <1>6, <2>1, BringsWeaken
<1>8. g \in Result(d) /\ a.done \subseteq g.done
  BY <1>7 DEF Brings
<1> HIDE DEF Y
<1>9. Brings(d, e, a, t, Y, QuietWords, Yields(v)) /\ t.done = g.done
  <2>1. CASE Fanout(d, pin) > 1
    <3> DEFINE t1 == StoreToTemp(g, pin)
    <3>1. Saves(d, g, t1, {}, {pin})
      BY <1>8, StoreToTempSaves
    <3>2. t1.done = g.done
      BY <3>1 DEF Saves, Adds
    <3> HIDE DEF t1
    <3>3. Brings(d, e, g, t1, {}, Valued(v), Keeps({} # {} \/ {pin} # {}))
      <4>1. \A p \in {pin} : p = pin /\ pin[1] # 0
        BY <1>4 DEF j
      <4>2. \A s \in {} : s \in DOMAIN d.stores /\ d.stores[s] = pin
        OBVIOUS
      <4> QED BY <1>4, <1>8, <3>1, <4>1, <4>2, SavesBrings DEF v
    <3> DEFINE K == Keeps({} # {} \/ {pin} # {})
    <3>4. Chains(QuietWords, Yields(v), Valued(v), K, Yields(v))
      BY DEF Chains, Yields, Valued, Keeps
    <3> HIDE DEF K
    <3>5. Y \cap {} = {} /\ Y \cup {} = Y
      OBVIOUS
    <3>6. Brings(d, e, g, t1, {}, Valued(v), K)
      BY <3>3 DEF K
    <3>7. Brings(d, e, a, t1, Y \cup {}, QuietWords, Yields(v))
      BY <1>7, <3>4, <3>5, <3>6, BringsThen
    <3>8. t = t1
      BY <2>1 DEF t1
    <3> QED BY <3>2, <3>5, <3>7, <3>8
  <2>2. CASE ~(Fanout(d, pin) > 1)
    BY <1>7, <2>2
  <2> QED BY <2>1, <2>2
<1> HIDE DEF t
<1>10. Brings(d, e, c, z, Y, Words, Operated(class, v))
  BY <1>4, <1>9, ParenBrings DEF a
<1>11. z.done = t.done
  <2>1. t \in Result(d)
    BY <1>9 DEF Brings
  <2> QED BY <1>2, <2>1, EmitOne
<1>12. Y = z.done \ c.done
  BY <1>3, <1>9, <1>11 DEF Y
<1> HIDE DEF z
<1> QED BY <1>1, <1>10, <1>12 DEF v

LEMMA BoxConn ==
  ASSUME NEW d, IsDiagram(d), NEW e, IsEnv(d, e), NEW h \in NodeCode(d), NEW c \in Result(d),
         NEW class \in Classes, NEW pin \in Wired(d), pin[1] \in DOMAIN d.nodes, Is(d, pin[1], Boxes),
         pin \in PinsOf(d, pin[1]), Readers(d, pin) # {}, pin[1] \notin c.done, NodeBrings(d, e, h, pin[1])
  PROVE  LET r == FirstBox(h, c, class, pin)
         IN Brings(d, e, c, r, r.done \ c.done, QuietWords, Yields(e.at[pin] # Inverts(class)))
<1> DEFINE j == pin[1]
           v == e.at[pin]
           g == Compiled(h, c, j)
           z == IF class \in {"UN", "ON"} THEN Emit(g, <<Plain("NOT")>>) ELSE g
           Y == g.done \ c.done
           u == v # Inverts(class)
<1>1. FirstBox(h, c, class, pin) = z
  BY DEF FirstBox
<1>2. Plain("NOT") \in InsnsOf(d)
  BY BranchTyped, InsnsTyped DEF Classes
<1>3. v \in BOOLEAN
  BY WiredPins DEF IsEnv, Env
<1>4. Brings(d, e, c, g, Y, QuietWords, NodeYields(d, e.at, j))
  BY CompiledBrings
<1>5. \A w, w2 \in Words : w \in QuietWords /\ <<w, w2>> \in NodeYields(d, e.at, j) => <<w, w2>> \in Yields(v)
  BY DEF NodeYields, Yields
<1> HIDE DEF g, v, j
<1>6. Brings(d, e, c, g, Y, QuietWords, Yields(v))
  <2>1. QuietWords \subseteq QuietWords /\ Y \subseteq Y /\ Y \cap Moves(d) = Y \cap Moves(d)
    OBVIOUS
  <2> HIDE DEF Y
  <2> QED BY <1>4, <1>5, <2>1, BringsWeaken
<1>7. g \in Result(d)
  BY <1>6 DEF Brings
<1>8. CASE class \in {"UN", "ON"}
  <2> DEFINE n == Emit(g, <<Plain("NOT")>>)
  <2>1. n \in Result(d) /\ n.done = g.done
    BY <1>2, <1>7, EmitOne
  <2>2. Brings(d, e, g, n, {}, Words, Negates)
    BY <1>7, NotBrings
  <2>3. u = ~v /\ u \in BOOLEAN
    BY <1>3, <1>8 DEF Inverts
  <2> HIDE DEF u
  <2>4. Chains(QuietWords, Yields(v), Words, Negates, Yields(u))
    <3> SUFFICES ASSUME NEW w \in Words, NEW w2 \in Words, NEW w3 \in Words, <<w, w2>> \in Yields(v)
                 PROVE  <<w2, w3>> \in Negates => <<w, w3>> \in Yields(u)
      BY DEF Chains
    <3>1. w2.sw \in Bits /\ w2.sw.VKE = v /\ w2.parens = w.parens
      BY DEF Yields, Words
    <3>2. [w2.sw EXCEPT !.VKE = ~w2.sw.VKE].VKE = u
      BY <2>3, <3>1 DEF Bits
    <3> QED BY <3>1, <3>2 DEF Negates, Yields
  <2> HIDE DEF n
  <2>5. Y \cap {} = {} /\ Y \cup {} = Y
    OBVIOUS
  <2> HIDE DEF Y
  <2>6. Brings(d, e, c, n, Y \cup {}, QuietWords, Yields(u))
    BY <1>6, <2>2, <2>4, <2>5, BringsThen
  <2>7. z = n /\ Y = z.done \ c.done
    BY <1>8, <2>1 DEF n, Y
  <2> HIDE DEF z
  <2>8. Brings(d, e, c, z, z.done \ c.done, QuietWords, Yields(u))
    BY <2>5, <2>6, <2>7
  <2> QED BY <1>1, <2>8 DEF u, v
<1>9. CASE class \notin {"UN", "ON"}
  <2>1. z = g /\ u = v
    BY <1>3, <1>9 DEF Inverts
  <2> HIDE DEF z, u
  <2>2. Brings(d, e, c, z, z.done \ c.done, QuietWords, Yields(u))
    BY <1>6, <2>1
  <2> QED BY <1>1, <2>2 DEF u, v
<1> QED BY <1>8, <1>9

LEMMA QuietOperate ==
  /\ \A class \in Classes, s \in Bits, v \in BOOLEAN :
       Quiet(s) => Operate(class, s, v).VKE = (v # Inverts(class))
  /\ \A kind \in Booleans, inverted \in BOOLEAN, s \in Bits, v \in BOOLEAN :
       /\ Operate(Class(kind, inverted), s, v) = Operate(kind, s, v # inverted)
       /\ (v # Inverts(Class(kind, inverted))) = (v # inverted)
<1>1. ASSUME NEW class \in Classes, NEW s \in Bits, NEW v \in BOOLEAN, Quiet(s)
      PROVE  Operate(class, s, v).VKE = (v # Inverts(class))
  <2>0. s.NER = FALSE /\ s.OR = FALSE /\ s.VKE \in BOOLEAN
    BY <1>1 DEF Quiet, Bits
  <2>1. \A b \in BOOLEAN : U(s, b).VKE = b /\ O(s, b).VKE = b
    BY <2>0 DEF U, O
  <2>2. U(s, v).VKE = v /\ O(s, v).VKE = v /\ U(s, ~v).VKE = ~v /\ O(s, ~v).VKE = ~v
    BY <2>1
  <2>3. class = "U" \/ class = "UN" \/ class = "O" \/ class = "ON"
    BY DEF Classes
  <2> QED BY <2>2, <2>3 DEF Operate, UN, ON, Inverts
<1>2. ASSUME NEW kind \in Booleans, NEW inverted \in BOOLEAN, NEW s \in Bits, NEW v \in BOOLEAN
      PROVE  /\ Operate(Class(kind, inverted), s, v) = Operate(kind, s, v # inverted)
             /\ (v # Inverts(Class(kind, inverted))) = (v # inverted)
  <2>1. kind = "U" \/ kind = "O"
    BY DEF Booleans
  <2>2. CASE inverted = TRUE
    <3>1. Class(kind, inverted) = IF kind = "U" THEN "UN" ELSE "ON"
      BY <2>1, <2>2 DEF Class, Inverted
    <3>2. (v # inverted) = ~v
      BY <2>2
    <3> QED BY <2>1, <3>1, <3>2 DEF Operate, UN, ON, Inverts
  <2>3. CASE inverted = FALSE
    <3>1. Class(kind, inverted) = kind
      BY <2>3 DEF Class
    <3>2. (v # inverted) = v
      BY <2>3
    <3> QED BY <2>1, <3>1, <3>2 DEF Inverts
  <2> QED BY <2>2, <2>3
<1> QED BY <1>1, <1>2

\* Node i of a diagram, and what the instructions of the nodes in front of it do.
Sem(d, rank, N, e, h, i) ==
  /\ Fits(d, rank, N) /\ IsEnv(d, e) /\ h \in NodeCode(d) /\ i \in DOMAIN d.nodes
  /\ NodesBring(d, e, rank, h, i)

\* The value of a pin is loaded from an operand.
LoadedFrom(d, e, c, r, class, pin) ==
  /\ e.at[pin] \in BOOLEAN /\ r.done = c.done
  /\ Brings(d, e, c, r, {}, Words, Operated(class, e.at[pin]))

LEMMA LoadedConn ==
  ASSUME NEW d, NEW e, NEW c \in Result(d), NEW r, NEW class \in Classes, NEW pin,
         LoadedFrom(d, e, c, r, class, pin)
  PROVE  ConnDoes(d, e, c, r, class, pin)
<1> USE DEF LoadedFrom
<1> DEFINE v == e.at[pin]
           u == v # Inverts(class)
<1>1. r \in Result(d) /\ r.done \ c.done = {}
  BY DEF Brings
<1>2. \A w, w2 \in Words : w \in QuietWords /\ <<w, w2>> \in Operated(class, v) => <<w, w2>> \in Yields(u)
  <2> SUFFICES ASSUME NEW w \in Words, NEW w2 \in Words, w \in QuietWords, <<w, w2>> \in Operated(class, v)
               PROVE  <<w, w2>> \in Yields(u)
    OBVIOUS
  <2>1. w.sw \in Bits /\ Quiet(w.sw) /\ w2.sw = Operate(class, w.sw, v) /\ w2.parens = w.parens
    BY DEF Operated, QuietWords, Words
  <2>2. w2.sw.VKE = u
    BY <2>1, QuietOperate
  <2> HIDE DEF u
  <2> QED BY <2>1, <2>2 DEF Yields
<1> HIDE DEF u
<1>3. Brings(d, e, c, r, {}, QuietWords, Yields(u))
  <2>1. QuietWords \subseteq Words /\ {} \subseteq {} /\ {} \cap Moves(d) = {} \cap Moves(d)
    BY DEF QuietWords
  <2> QED BY <1>2, <2>1, BringsWeaken
<1>4. ConnDoes(d, e, c, r, class, pin)
  BY <1>1, <1>3 DEF ConnDoes, u
<1> QED BY <1>4

LEMMA ConnBrings ==
  ASSUME NEW d, NEW rank, NEW N, NEW e, NEW h, NEW i, Sem(d, rank, N, e, h, i),
         NEW c \in Result(d), NEW class \in Classes,
         NEW k \in DOMAIN d.nodes[i].ins, NEW pin, pin = d.nodes[i].ins[k].pin
  PROVE  ConnDoes(d, e, c, CompileConn(d, h, c, class, pin), class, pin)
<1> DEFINE r == CompileConn(d, h, c, class, pin)
<1>1. IsDiagram(d) /\ IsEnv(d, e) /\ h \in NodeCode(d) /\ i \in DOMAIN d.nodes
  BY DEF Sem, Fits
<1>2. pin \in Wired(d) /\ pin \in GridPins(d)
  BY <1>1, WiredPins
<1>3. e.at[pin] \in BOOLEAN
  BY <1>1, <1>2 DEF IsEnv, Env
<1>4. Readers(d, pin) # {}
  <2> DEFINE E == {k1 \in DOMAIN d.nodes[i].ins : d.nodes[i].ins[k1].pin = pin}
  <2>1. <<i, k>> \in {<<i, k1>> : k1 \in E}
    OBVIOUS
  <2>2. {<<i, k1>> : k1 \in E} \in
          {{<<i1, k1>> : k1 \in {k1 \in DOMAIN d.nodes[i1].ins : d.nodes[i1].ins[k1].pin = pin}} :
             i1 \in DOMAIN d.nodes}
    BY <1>1
  <2> HIDE DEF E
  <2> QED BY <2>1, <2>2 DEF Readers
<1>5. Before(rank, pin, i)
  BY <1>1 DEF Sem, Fits, NodeFits
<1>6. r \in Result(d)
  BY <1>1, <1>2, ConnTyped
<1>7. pin[1] = 0 => pin[1] \notin DOMAIN d.nodes
  BY <1>1, PinsOfKinds
<1>8. CASE pin[1] = 0
  <2>1. r = CompileLoad(c, class, pin)
    BY <1>1, <1>2, <1>8, ConnCases
  <2>2. Brings(d, e, c, r, {}, Words, Operated(class, e.at[pin]))
    BY <1>1, <1>2, <1>8, <2>1, LoadBrings
  <2>3. LoadsOne(d, c, CompileLoad(c, class, pin), Insn(class, pin), {pin}, c.failed)
    BY <1>1, <1>2, LoadsAre
  <2> HIDE DEF r
  <2>4. r.done = c.done
    BY <2>1, <2>3 DEF LoadsOne
  <2>5. ConnDoes(d, e, c, r, class, pin)
    <3>1. LoadedFrom(d, e, c, r, class, pin)
      BY <1>3, <2>2, <2>4 DEF LoadedFrom
    <3> QED BY <3>1, LoadedConn
  <2> QED BY <2>5 DEF r
<1>9. CASE pin[1] # 0 /\ pin[1] \in c.done
  <2>1. r = LoadFromTemp(c, class, pin)
    BY <1>1, <1>2, <1>9, ConnCases
  <2>2. Brings(d, e, c, r, {}, Words, Operated(class, e.at[pin]))
    BY <1>1, <1>2, <1>9, <2>1, TempBrings
  <2>3. LoadsOne(d, c, LoadFromTemp(c, class, pin), Insn(class, Temp(pin)), {}, c.failed \/ pin \notin c.temps)
    BY <1>1, <1>2, LoadsAre
  <2> HIDE DEF r
  <2>4. r.done = c.done
    BY <2>1, <2>3 DEF LoadsOne
  <2>5. ConnDoes(d, e, c, r, class, pin)
    <3>1. LoadedFrom(d, e, c, r, class, pin)
      BY <1>3, <2>2, <2>4 DEF LoadedFrom
    <3> QED BY <3>1, LoadedConn
  <2> QED BY <2>5 DEF r
<1>10. CASE pin[1] # 0 /\ pin[1] \notin c.done
  <2> DEFINE j == pin[1]
  <2>1. j \in DOMAIN d.nodes /\ pin \in PinsOf(d, j)
    BY <1>1, <1>2, <1>10, ConnCases
  <2>2. NodeBrings(d, e, h, j)
    BY <1>5, <1>10, <2>1 DEF Sem, NodesBring, Before
  <2>3. CASE Is(d, j, Booleans)
    <3>1. r = FirstGate(d, h, c, class, pin) /\ pin = Out(j) /\ ~Is(d, j, Boxes)
      BY <1>1, <1>2, <1>10, <2>1, <2>3, ConnCases, PinsOfKinds
    <3>2. Brings(d, e, c, r, r.done \ c.done, Words, Operated(class, e.at[pin]))
      BY <1>1, <1>2, <1>10, <2>1, <2>2, <2>3, <3>1, GateConn
    <3> HIDE DEF r
    <3>3. ConnDoes(d, e, c, r, class, pin)
      BY <1>6, <3>1, <3>2 DEF ConnDoes, Brings
    <3> QED BY <3>3 DEF r
  <2>4. CASE Is(d, j, Boxes)
    <3>1. r = FirstBox(h, c, class, pin)
      BY <1>1, <1>2, <1>10, <2>1, <2>4, ConnCases
    <3>2. Brings(d, e, c, r, r.done \ c.done, QuietWords, Yields(e.at[pin] # Inverts(class)))
      BY <1>1, <1>2, <1>4, <1>10, <2>1, <2>2, <2>4, <3>1, BoxConn
    <3>4. ~Is(d, j, Booleans)
      BY <1>1, <2>1, <2>4, PinsOfKinds
    <3> HIDE DEF r
    <3>3. ConnDoes(d, e, c, r, class, pin)
      BY <1>6, <2>4, <3>2 DEF ConnDoes, Brings
    <3> QED BY <3>3 DEF r
  <2> QED BY <1>1, <2>1, <2>3, <2>4, PinsOfKinds
<1> QED BY <1>8, <1>9, <1>10

\* What is brought about along with the nodes that are compiled.
Effects(d, e, c, r, P, R) == Brings(d, e, c, r, r.done \ c.done, P, R)

LEMMA DoesNext ==
  ASSUME NEW d, NEW e, NEW c, NEW r, NEW t, NEW P1, NEW R1, NEW P2, NEW R2, NEW R3,
         Effects(d, e, c, r, P1, R1), Effects(d, e, r, t, P2, R2), Chains(P1, R1, P2, R2, R3)
  PROVE  Effects(d, e, c, t, P1, R3)
<1> DEFINE Y1 == r.done \ c.done
           Y2 == t.done \ r.done
           Y == t.done \ c.done
<1>1. c.done \subseteq r.done /\ r.done \subseteq t.done
  BY DEF Effects, Brings
<1>2. Y1 \cap Y2 = {} /\ Y1 \cup Y2 = Y
  BY <1>1
<1>3. Brings(d, e, c, r, Y1, P1, R1) /\ Brings(d, e, r, t, Y2, P2, R2)
  BY DEF Effects
<1> HIDE DEF Y1, Y2, Y
<1>4. Brings(d, e, c, t, Y, P1, R3)
  BY <1>2, <1>3, BringsThen
<1> QED BY <1>4 DEF Effects, Y

LEMMA DoesOne ==
  ASSUME NEW d, NEW e, NEW c, NEW r, NEW P, NEW R, Brings(d, e, c, r, {}, P, R), r.done = c.done
  PROVE  Effects(d, e, c, r, P, R)
<1>1. r.done \ c.done = {}
  OBVIOUS
<1> QED BY <1>1 DEF Effects

LEMMA DoesEmit ==
  ASSUME NEW d, NEW e, NEW c \in Result(d), NEW insn \in InsnsOf(d), NEW P, NEW R,
         Brings(d, e, c, Emit(c, <<insn>>), {}, P, R)
  PROVE  Effects(d, e, c, Emit(c, <<insn>>), P, R)
<1> DEFINE r == Emit(c, <<insn>>)
<1>1. r.done = c.done
  BY EmitOne
<1> HIDE DEF r
<1>2. Effects(d, e, c, r, P, R)
  BY <1>1, DoesOne DEF r
<1> QED BY <1>2 DEF r

LEMMA DoesWeaken ==
  ASSUME NEW d, NEW e, NEW c, NEW r, NEW P, NEW P2, NEW R, NEW R2, Effects(d, e, c, r, P, R), P2 \subseteq P,
         \A w, w2 \in Words : w \in P2 /\ <<w, w2>> \in R => <<w, w2>> \in R2
  PROVE  Effects(d, e, c, r, P2, R2)
<1> DEFINE Y == r.done \ c.done
<1>1. Brings(d, e, c, r, Y, P, R)
  BY DEF Effects
<1>2. Y \subseteq Y /\ Y \cap Moves(d) = Y \cap Moves(d)
  OBVIOUS
<1> HIDE DEF Y
<1>3. Brings(d, e, c, r, Y, P2, R2)
  BY <1>1, <1>2, BringsWeaken
<1> QED BY <1>3 DEF Effects, Y

\* Nothing is done.
LEMMA DoesNothing ==
  ASSUME NEW d, NEW e, NEW c \in Result(d), NEW P, NEW R, \A w \in Words : w \in P => <<w, w>> \in R
  PROVE  Effects(d, e, c, c, P, R)
<1> DEFINE none == <<>>
<1>1. none \in Seq(InsnsOf(d)) /\ c.code = c.code \o none
  BY EmptyConcat DEF Result
<1>2. ASSUME NEW m \in Machines(d), NEW T, Holds(d, e, c, T, m), Ctl(m) \in P
      PROVE  /\ Leads(none, <<m, NoLabel>>, <<m, NoLabel>>) /\ Holds(d, e, c, T \cup {}, m)
             /\ <<Ctl(m), Ctl(m)>> \in R
  <2>1. T \cup {} = T
    OBVIOUS
  <2>2. <<Ctl(m), Ctl(m)>> \in R
    BY <1>2, CtlTyped
  <2> QED BY <1>2, <2>1, <2>2, LeadsNil
<1> HIDE DEF none
<1>3. Does(d, e, c, c, none, {}, P, R)
  BY <1>2 DEF Does
<1>4. Brings(d, e, c, c, {}, P, R)
  BY <1>1, <1>3 DEF Brings
<1> QED BY <1>4, DoesOne

LEMMA InputBrings ==
  ASSUME NEW d, NEW rank, NEW N, NEW e, NEW h, NEW i, Sem(d, rank, N, e, h, i), Is(d, i, Booleans),
         NEW c \in Result(d), NEW k \in DOMAIN d.nodes[i].ins
  PROVE  Effects(d, e, c, CompileInput(d, h, c, d.nodes[i].kind, d.nodes[i].ins[k]), Words,
               Operated(d.nodes[i].kind, Bit(e.at, d.nodes[i].ins[k])))
<1> DEFINE kind == d.nodes[i].kind
           input == d.nodes[i].ins[k]
           pin == input.pin
           class == Class(kind, input.inverted)
           v == e.at[pin]
           b == v # input.inverted
           r == CompileInput(d, h, c, kind, input)
<1>1. IsDiagram(d) /\ i \in DOMAIN d.nodes /\ IsEnv(d, e)
  BY DEF Sem, Fits
<1>2. kind \in Booleans /\ input.inverted \in BOOLEAN /\ pin \in GridPins(d)
  BY <1>1, GateFacts DEF Wires
<1>3. class \in Classes /\ kind \in Classes
  BY <1>2, ConnClasses
<1>4. v \in BOOLEAN /\ b = Bit(e.at, input)
  BY <1>1, <1>2 DEF IsEnv, Env, Bit
<1>5. CASE Is(d, pin[1], Boxes)
  <2> DEFINE a == Emit(c, <<Plain(Branch(kind))>>)
             g == CompileConn(d, h, a, class, pin)
             z == Emit(g, <<Plain(")")>>)
  <2>1. r = z
    BY <1>5 DEF CompileInput
  <2>2. Plain(Branch(kind)) \in InsnsOf(d) /\ Plain(")") \in InsnsOf(d)
    BY <1>1, <1>3, BranchTyped, InsnsTyped
  <2>3. a \in Result(d) /\ a.done = c.done
    BY <2>2, EmitOne
  <2>4. ConnDoes(d, e, a, g, class, pin)
    <3> HIDE DEF a, class
    <3> QED BY <1>3, <2>3, ConnBrings
  <2> HIDE DEF g
  <2>5. Brings(d, e, a, g, g.done \ a.done, QuietWords, Yields(v # Inverts(class)))
    BY <1>5, <2>4 DEF ConnDoes
  <2>6. (v # Inverts(class)) = b
    <3>0. \E s : s \in Bits
      BY WordsTyped
    <3> QED BY <1>2, <1>4, <3>0, QuietOperate
  <2> HIDE DEF b, class
  <2>7. b \in BOOLEAN
    BY <1>4 DEF Bit, b
  <2>8. Brings(d, e, a, g, g.done \ a.done, QuietWords, Yields(b))
    BY <2>5, <2>6
  <2> DEFINE Y == g.done \ a.done
  <2>9. Brings(d, e, a, g, Y, QuietWords, Yields(b))
    BY <2>8
  <2> HIDE DEF Y, kind
  <2>10. Brings(d, e, c, z, Y, Words, Operated(kind, b))
    BY <1>1, <1>3, <2>7, <2>9, ParenBrings DEF a
  <2>11. z.done = g.done
    <3>1. g \in Result(d)
      BY <2>4 DEF ConnDoes
    <3> QED BY <2>2, <3>1, EmitOne
  <2> HIDE DEF z
  <2>12. Y = z.done \ c.done
    BY <2>3, <2>11 DEF Y
  <2>13. Effects(d, e, c, z, Words, Operated(kind, b))
    BY <2>10, <2>12 DEF Effects
  <2> QED BY <1>4, <2>1, <2>13 DEF r, kind
<1>6. CASE ~Is(d, pin[1], Boxes)
  <2>1. r = CompileConn(d, h, c, class, pin)
    BY <1>6 DEF CompileInput
  <2>2. ConnDoes(d, e, c, r, class, pin)
    <3> HIDE DEF class
    <3> QED BY <1>3, <2>1, ConnBrings
  <2> HIDE DEF r
  <2>3. Effects(d, e, c, r, Words, Operated(class, v))
    BY <1>6, <2>2 DEF ConnDoes, Effects
  <2>4. \A w, w2 \in Words : w \in Words /\ <<w, w2>> \in Operated(class, v) => <<w, w2>> \in Operated(kind, b)
    <3> SUFFICES ASSUME NEW w \in Words, NEW w2 \in Words, <<w, w2>> \in Operated(class, v)
                 PROVE  <<w, w2>> \in Operated(kind, b)
      OBVIOUS
    <3>1. w.sw \in Bits
      BY DEF Words
    <3>2. Operate(class, w.sw, v) = Operate(kind, w.sw, b)
      BY <1>2, <1>4, <3>1, QuietOperate
    <3> HIDE DEF class, kind, b, v
    <3> QED BY <3>2 DEF Operated
  <2>5. Words \subseteq Words
    OBVIOUS
  <2> HIDE DEF class, kind, b, v
  <2>6. Effects(d, e, c, r, Words, Operated(kind, b))
    BY <2>3, <2>4, <2>5, DoesWeaken
  <2> QED BY <1>4, <2>6 DEF r, kind
<1> QED BY <1>5, <1>6

(***************************************************************************)
(* Gates: the inputs are joined one after the other.                       *)
(***************************************************************************)

\* The value of the first k inputs of a gate.
JoinedValue(d, V, i, k) ==
  IF d.nodes[i].kind = "U" THEN \A m \in 1..k : Bit(V, d.nodes[i].ins[m])
  ELSE \E m \in 1..k : Bit(V, d.nodes[i].ins[m])
\* They have been joined: with the first one a network begins.
InputJoined(d, V, i, k) ==
  {x \in Words \X Words :
     /\ x[2].parens = x[1].parens
     /\ k = 0 => x[2].sw = x[1].sw
     /\ k # 0 => x[2].sw.NER /\ ~x[2].sw.OR /\ x[2].sw.VKE = JoinedValue(d, V, i, k)}

LEMMA OperateJoins ==
  ASSUME NEW kind \in Booleans, NEW s \in Bits, NEW v \in BOOLEAN
  PROVE  LET t == Operate(kind, s, v)
         IN /\ t \in Bits
            /\ Quiet(s) => t.NER /\ ~t.OR /\ t.VKE = v
            /\ s.NER /\ ~s.OR => t.NER /\ ~t.OR /\ t.VKE = IF kind = "U" THEN s.VKE /\ v ELSE s.VKE \/ v
<1>1. s.NER \in BOOLEAN /\ s.OR \in BOOLEAN /\ s.VKE \in BOOLEAN
  BY DEF Bits
<1>2. CASE kind = "U"
  BY <1>1, <1>2 DEF Operate, U, Quiet, Bits
<1>3. CASE kind = "O"
  BY <1>1, <1>3 DEF Operate, O, Quiet, Bits
<1> QED BY <1>2, <1>3 DEF Booleans

LEMMA JoinedNext ==
  ASSUME NEW d, NEW V, NEW i, NEW k \in Nat, NEW b \in BOOLEAN, b = Bit(V, d.nodes[i].ins[k + 1]),
         \A m \in 1..k : Bit(V, d.nodes[i].ins[m]) \in BOOLEAN
  PROVE  /\ JoinedValue(d, V, i, k) \in BOOLEAN
         /\ JoinedValue(d, V, i, k + 1) =
              IF d.nodes[i].kind = "U" THEN JoinedValue(d, V, i, k) /\ b ELSE JoinedValue(d, V, i, k) \/ b
         /\ k = 0 => JoinedValue(d, V, i, k + 1) = b
<1>1. 1 .. k + 1 = (1..k) \cup {k + 1}
  OBVIOUS
<1>2. (\A m \in 1 .. k + 1 : Bit(V, d.nodes[i].ins[m])) <=> (\A m \in 1..k : Bit(V, d.nodes[i].ins[m])) /\ b
  BY <1>1
<1>3. (\E m \in 1 .. k + 1 : Bit(V, d.nodes[i].ins[m])) <=> (\E m \in 1..k : Bit(V, d.nodes[i].ins[m])) \/ b
  BY <1>1
<1>4. k = 0 => 1..k = {}
  OBVIOUS
<1>5. CASE d.nodes[i].kind = "U"
  BY <1>2, <1>4, <1>5 DEF JoinedValue
<1>6. CASE d.nodes[i].kind # "U"
  BY <1>3, <1>4, <1>6 DEF JoinedValue
<1> QED BY <1>5, <1>6

LEMMA JoinsChain ==
  ASSUME NEW d, NEW V, NEW i, NEW k \in Nat, NEW b \in BOOLEAN, b = Bit(V, d.nodes[i].ins[k + 1]),
         \A m \in 1..k : Bit(V, d.nodes[i].ins[m]) \in BOOLEAN, d.nodes[i].kind \in Booleans
  PROVE  Chains(QuietWords, InputJoined(d, V, i, k), Words, Operated(d.nodes[i].kind, b), InputJoined(d, V, i, k + 1))
<1> DEFINE kind == d.nodes[i].kind
           v1 == JoinedValue(d, V, i, k)
           v2 == JoinedValue(d, V, i, k + 1)
<1> SUFFICES ASSUME NEW w \in Words, NEW w2 \in Words, NEW w3 \in Words, w \in QuietWords,
                    <<w, w2>> \in InputJoined(d, V, i, k), <<w2, w3>> \in Operated(kind, b)
             PROVE  <<w, w3>> \in InputJoined(d, V, i, k + 1)
  BY DEF Chains
<1>1. /\ v1 \in BOOLEAN /\ v2 = (IF kind = "U" THEN v1 /\ b ELSE v1 \/ b)
      /\ k = 0 => v2 = b
  BY JoinedNext
<1>2. Quiet(w.sw) /\ w2.sw \in Bits /\ w.sw \in Bits
  BY DEF QuietWords, Words
<1>3. /\ w2.parens = w.parens /\ k = 0 => w2.sw = w.sw
      /\ k # 0 => w2.sw.NER /\ ~w2.sw.OR /\ w2.sw.VKE = v1
  BY DEF InputJoined
<1>4. w3.sw = Operate(kind, w2.sw, b) /\ w3.parens = w2.parens
  BY DEF Operated
<1>5. w2.parens = w.parens
  BY DEF InputJoined
<1> DEFINE t == Operate(kind, w2.sw, b)
<1>6. /\ Quiet(w2.sw) => t.NER /\ ~t.OR /\ t.VKE = b
      /\ w2.sw.NER /\ ~w2.sw.OR => t.NER /\ ~t.OR /\ t.VKE = IF kind = "U" THEN w2.sw.VKE /\ b ELSE w2.sw.VKE \/ b
  BY <1>2, OperateJoins
<1> HIDE DEF t, v1, v2, kind
<1>7. CASE k = 0
  <2>1. t.NER /\ ~t.OR /\ t.VKE = b
    BY <1>2, <1>3, <1>5, <1>6, <1>7
  <2> QED BY <1>1, <1>4, <1>5, <1>7, <2>1 DEF t, v2, InputJoined
<1>8. CASE k # 0
  <2>1. t.NER /\ ~t.OR /\ t.VKE = v2
    BY <1>1, <1>3, <1>5, <1>6, <1>8
  <2> QED BY <1>4, <1>5, <1>8, <2>1 DEF t, v2, InputJoined
<1> QED BY <1>7, <1>8

LEMMA JoinedBrings ==
  ASSUME NEW d, NEW rank, NEW N, NEW e, NEW h, NEW i, Sem(d, rank, N, e, h, i), Is(d, i, Booleans),
         NEW c \in Result(d), NEW g, Joining(d, h, c, i, g)
  PROVE  \A k \in 0..Len(d.nodes[i].ins) : Effects(d, e, c, g[k], QuietWords, InputJoined(d, e.at, i, k))
<1> DEFINE n == Len(d.nodes[i].ins)
           Thus(k) == Effects(d, e, c, g[k], QuietWords, InputJoined(d, e.at, i, k))
           S == {k \in Nat : k <= n => Thus(k)}
<1>1. /\ IsDiagram(d) /\ i \in DOMAIN d.nodes /\ e.at \in [GridPins(d) -> BOOLEAN]
  BY DEF Sem, Fits, IsEnv, Env
<1>2. /\ n \in Nat /\ d.nodes[i].kind \in Booleans /\ DOMAIN d.nodes[i].ins = 1..n
      /\ \A k \in 1..n : d.nodes[i].ins[k] \in Wires(GridPins(d))
  BY <1>1, GateFacts
<1>3. \A k \in 1..n : Bit(e.at, d.nodes[i].ins[k]) \in BOOLEAN
  BY <1>1, <1>2 DEF Bit, Wires
<1>4. 0 \in S
  <2>1. g[0] = c
    BY DEF Joining
  <2>2. \A w \in Words : w \in QuietWords => <<w, w>> \in InputJoined(d, e.at, i, 0)
    BY DEF InputJoined
  <2>3. Effects(d, e, c, c, QuietWords, InputJoined(d, e.at, i, 0))
    BY <2>2, DoesNothing
  <2> QED BY <2>1, <2>3
<1>5. ASSUME NEW k \in Nat, k \in S PROVE k + 1 \in S
  <2>1. CASE ~(k + 1 <= n)
    BY <2>1
  <2>2. CASE k + 1 <= n
    <3> DEFINE b == Bit(e.at, d.nodes[i].ins[k + 1])
               j == k + 1
    <3>1. j \in 1..n /\ j - 1 = k /\ k <= n /\ k \in 0..n
      BY <1>2, <2>2
    <3>2. Thus(k)
      BY <1>5, <3>1
    <3>3. g[j] = CompileInput(d, h, g[k], d.nodes[i].kind, d.nodes[i].ins[j]) /\ g[k] \in Result(d)
      <4>1. g[j] = CompileInput(d, h, g[j - 1], d.nodes[i].kind, d.nodes[i].ins[j])
        BY <3>1 DEF Joining
      <4>2. g[k] \in Result(d)
        BY <3>1 DEF Joining
      <4> QED BY <3>1, <4>1, <4>2
    <3>4. j \in DOMAIN d.nodes[i].ins /\ b \in BOOLEAN /\ \A m \in 1..k : Bit(e.at, d.nodes[i].ins[m]) \in BOOLEAN
      BY <1>2, <1>3, <3>1
    <3>5. Effects(d, e, g[k], g[j], Words, Operated(d.nodes[i].kind, b))
      <4> HIDE DEF j
      <4> QED BY <3>3, <3>4, InputBrings DEF b, j
    <3>6. Chains(QuietWords, InputJoined(d, e.at, i, k), Words, Operated(d.nodes[i].kind, b), InputJoined(d, e.at, i, j))
      BY <1>2, <3>4, JoinsChain
    <3> HIDE DEF b, j
    <3>7. Effects(d, e, c, g[j], QuietWords, InputJoined(d, e.at, i, j))
      BY <3>2, <3>5, <3>6, DoesNext
    <3> QED BY <3>7 DEF j
  <2> QED BY <2>1, <2>2
<1> HIDE DEF Thus
<1>6. Nat \subseteq S
  <2> HIDE DEF S
  <2> QED BY <1>4, <1>5, SetInduction
<1> QED BY <1>2, <1>6 DEF Thus

\* What is brought about from a node that is running counts it as well.
LEMMA RunningDoes ==
  ASSUME NEW d, NEW e, NEW p \in Progress(d), NEW i \in DOMAIN d.nodes, i \notin p.done, i \notin Moves(d),
         NEW r, NEW P, NEW R, Effects(d, e, Running(p, i), r, P, R)
  PROVE  Brings(d, e, Running(p, i), r, r.done \ p.done, P, R)
<1> DEFINE c == Running(p, i)
           Y1 == r.done \ c.done
           Y2 == r.done \ p.done
<1>1. c.done = p.done \cup {i}
  BY ProgressResult, RunningTyped
<1>2. Brings(d, e, c, r, Y1, P, R)
  BY DEF Effects
<1>3. Y1 \subseteq Y2 /\ Y1 \cap Moves(d) = Y2 \cap Moves(d)
  BY <1>1
<1>4. P \subseteq P /\ \A w, w2 \in Words : w \in P /\ <<w, w2>> \in R => <<w, w2>> \in R
  OBVIOUS
<1> HIDE DEF Y1, Y2, c
<1>5. Brings(d, e, c, r, Y2, P, R)
  BY <1>2, <1>3, <1>4, BringsWeaken
<1> QED BY <1>5 DEF Y2, c

\* All the inputs of a gate give its value, if it is not inverted.
LEMMA GateValue ==
  ASSUME NEW d, IsDiagram(d), NEW e, IsEnv(d, e), NEW i \in DOMAIN d.nodes, Is(d, i, Booleans),
         d.nodes[i].ins # <<>>
  PROVE  /\ Len(d.nodes[i].ins) \in Nat \ {0}
         /\ JoinedValue(d, e.at, i, Len(d.nodes[i].ins)) \in BOOLEAN
         /\ e.at[Out(i)] = (JoinedValue(d, e.at, i, Len(d.nodes[i].ins)) # d.nodes[i].inverted)
<1> DEFINE n == Len(d.nodes[i].ins)
           V == e.at
           jv == JoinedValue(d, V, i, n)
<1>1. /\ n \in Nat /\ d.nodes[i].kind \in Booleans /\ DOMAIN d.nodes[i].ins = 1..n
      /\ \A k \in 1..n : d.nodes[i].ins[k] \in Wires(GridPins(d))
      /\ d.nodes[i].inverted \in BOOLEAN
  BY GateFacts
<1>2. n # 0
  <2>1. d.nodes[i].ins \in Seq(Wires(GridPins(d)))
    BY PinsOfKinds DEF Elems
  <2> QED BY <2>1, EmptySeq
<1>3. V \in [GridPins(d) -> BOOLEAN] /\ \A pin \in GridPins(d) : V[pin] = ValueAt(d, e.values, V, pin)
  BY DEF IsEnv, Env
<1>4. jv \in BOOLEAN
  BY DEF JoinedValue
<1>5. Out(i) \in GridPins(d) /\ Out(i)[1] = i /\ i # 0
  <2>1. PinsOf(d, i) = {Out(i)} /\ i \in Nat \ {0}
    BY PinsOfKinds
  <2> QED BY <2>1 DEF GridPins, Out
<1>6. Meant(d, e.values, V, Out(i), V[Out(i)])
  BY <1>3, <1>5, MeantCases
<1>7. Is(d, i, {"U"}) => V[Out(i)] = (AllOn(d, V, i) # d.nodes[i].inverted)
  BY <1>5, <1>6 DEF Meant
<1>8. Is(d, i, {"O"}) => V[Out(i)] = (AnyOn(d, V, i) # d.nodes[i].inverted)
  BY <1>5, <1>6 DEF Meant
<1>9. CASE d.nodes[i].kind = "U"
  <2>1. Is(d, i, {"U"})
    BY <1>9 DEF Is
  <2>2. jv <=> AllOn(d, V, i)
    BY <1>1, <1>9 DEF JoinedValue, AllOn
  <2>3. AllOn(d, V, i) \in BOOLEAN
    BY DEF AllOn
  <2> QED BY <1>1, <1>2, <1>4, <1>7, <2>1, <2>2, <2>3
<1>10. CASE d.nodes[i].kind # "U"
  <2>1. Is(d, i, {"O"})
    BY <1>1, <1>10 DEF Is, Booleans
  <2>2. jv <=> AnyOn(d, V, i)
    BY <1>1, <1>10 DEF JoinedValue, AnyOn
  <2>3. AnyOn(d, V, i) \in BOOLEAN
    BY DEF AnyOn
  <2> QED BY <1>1, <1>2, <1>4, <1>8, <2>1, <2>2, <2>3
<1> QED BY <1>9, <1>10

LEMMA GateEnds ==
  ASSUME NEW d, NEW rank, NEW N, NEW e, NEW h, NEW i, Sem(d, rank, N, e, h, i), Is(d, i, Booleans),
         NEW c \in Result(d), NEW g, Joining(d, h, c, i, g)
  PROVE  Effects(d, e, c, JoinedEnd(d, i, g), QuietWords, NodeYields(d, e.at, i))
<1> DEFINE n == Len(d.nodes[i].ins)
           jv == JoinedValue(d, e.at, i, n)
           all == g[n]
           P == QuietWords
           J == InputJoined(d, e.at, i, n)
           R == NodeYields(d, e.at, i)
<1>1. IsDiagram(d) /\ i \in DOMAIN d.nodes /\ IsEnv(d, e) /\ d.nodes[i].ins # <<>>
  BY DEF Sem, Fits, NodeFits
<1>2. n \in Nat \ {0} /\ jv \in BOOLEAN /\ e.at[Out(i)] = (jv # d.nodes[i].inverted)
  BY <1>1, GateValue
<1>3. d.nodes[i].inverted \in BOOLEAN /\ ~Is(d, i, Boxes)
  BY <1>1, GateFacts, PinsOfKinds
<1>4. all \in Result(d) /\ Effects(d, e, c, all, P, J)
  <2>1. n \in 0..n
    BY <1>2
  <2>2. \A k \in 0..n : Effects(d, e, c, g[k], QuietWords, InputJoined(d, e.at, i, k))
    BY JoinedBrings
  <2>3. all \in Result(d)
    BY <2>1 DEF Joining
  <2> QED BY <2>1, <2>2, <2>3
<1>5. CASE d.nodes[i].inverted
  <2>1. JoinedEnd(d, i, g) = Emit(all, <<Plain("NOT")>>)
    BY <1>5 DEF JoinedEnd
  <2>2. Plain("NOT") \in InsnsOf(d)
    BY <1>1, InsnsTyped DEF Ops
  <2>3. Effects(d, e, all, Emit(all, <<Plain("NOT")>>), Words, Negates)
    <3> HIDE DEF all
    <3> QED BY <1>1, <1>4, <2>2, NotBrings, DoesEmit
  <2>4. Chains(P, J, Words, Negates, R)
    <3> SUFFICES ASSUME NEW w \in Words, NEW w2 \in Words, NEW w3 \in Words, <<w, w2>> \in J, <<w2, w3>> \in Negates
                 PROVE  <<w, w3>> \in R
      BY DEF Chains
    <3>1. w2.sw.VKE = jv /\ w2.parens = w.parens
      BY <1>2 DEF InputJoined
    <3>2. w3.sw = [w2.sw EXCEPT !.VKE = ~w2.sw.VKE] /\ w3.parens = w2.parens /\ w2.sw \in Bits
      BY DEF Negates, Words
    <3>3. w3.sw.VKE = ~w2.sw.VKE
      BY <3>2 DEF Bits
    <3>4. w3.sw.VKE = e.at[Out(i)]
      BY <1>2, <1>5, <3>1, <3>3
    <3> HIDE DEF jv
    <3> QED BY <1>3, <3>1, <3>2, <3>4 DEF NodeYields
  <2> HIDE DEF all, J, P, R
  <2>5. Effects(d, e, c, Emit(all, <<Plain("NOT")>>), P, R)
    BY <1>4, <2>3, <2>4, DoesNext
  <2> QED BY <2>1, <2>5 DEF P, R
<1>6. CASE ~d.nodes[i].inverted
  <2>1. JoinedEnd(d, i, g) = all
    BY <1>6 DEF JoinedEnd
  <2>2. ASSUME NEW w \in Words, NEW w2 \in Words, <<w, w2>> \in J
        PROVE  <<w, w2>> \in R
    <3>1. w2.sw.VKE = jv /\ w2.parens = w.parens
      BY <1>2, <2>2 DEF InputJoined
    <3>2. w2.sw.VKE = e.at[Out(i)]
      BY <1>2, <1>3, <1>6, <3>1
    <3> QED BY <1>3, <3>1, <3>2 DEF NodeYields
  <2>3. P \subseteq P
    OBVIOUS
  <2> HIDE DEF all, J, P, R
  <2>4. Effects(d, e, c, all, P, R)
    BY <1>4, <2>2, <2>3, DoesWeaken
  <2> QED BY <2>1, <2>4 DEF P, R
<1> QED BY <1>3, <1>5, <1>6

LEMMA GateBrings ==
  ASSUME NEW d, NEW rank, NEW N, NEW e, NEW h, NEW i, Sem(d, rank, N, e, h, i), Is(d, i, Booleans),
         NEW p \in Progress(d), i \notin p.done
  PROVE  LET r == CompileElem(d, h, p, i)
         IN Brings(d, e, Running(p, i), r, r.done \ p.done, QuietWords, NodeYields(d, e.at, i))
<1> DEFINE c == Running(p, i)
           r == CompileElem(d, h, p, i)
<1>1. IsDiagram(d) /\ i \in DOMAIN d.nodes /\ h \in NodeCode(d)
  BY DEF Sem, Fits
<1>2. c \in Result(d) /\ i \notin Moves(d)
  BY <1>1, ProgressResult, RunningTyped, PinsOfKinds DEF Moves
<1>3. r = CompileBoolean(d, h, c, i)
  BY <1>1, ElemCases
<1>4. PICK g : Joining(d, h, c, i, g) /\ CompileBoolean(d, h, c, i) = JoinedEnd(d, i, g)
  <2> HIDE DEF c
  <2>1. InputsTyped(d, h, i)
    BY <1>1, GateInputsTyped
  <2> QED BY <1>1, <1>2, <2>1, GateJoins
<1> HIDE DEF r
<1>5. Effects(d, e, c, r, QuietWords, NodeYields(d, e.at, i))
  <2> HIDE DEF c
  <2> QED BY <1>2, <1>3, <1>4, GateEnds
<1>6. Brings(d, e, c, r, r.done \ p.done, QuietWords, NodeYields(d, e.at, i))
  BY <1>1, <1>2, <1>5, RunningDoes
<1> QED BY <1>6 DEF r

LEMMA LeadsTwo ==
  ASSUME NEW a, NEW b, NEW st
  PROVE  Leads(<<a, b>>, st, PlayStep(b, PlayStep(a, st)))
<1> DEFINE A == {a, b}
           st1 == PlayStep(a, st)
           st2 == PlayStep(b, st1)
           s1 == <<a>>
           s2 == <<b>>
<1>1. s1 \in Seq(A) /\ s2 \in Seq(A)
  OBVIOUS
<1>2. Leads(s1, st, st1) /\ Leads(s2, st1, st2)
  BY LeadsOne
<1>3. s1 \o s2 = <<a, b>>
  BY Tuple11
<1> HIDE DEF A, st1, st2, s1, s2
<1>4. Leads(s1 \o s2, st, st2)
  BY <1>1, <1>2, LeadsConcat
<1> QED BY <1>3, <1>4 DEF st2, st1

LEMMA LeadsThree ==
  ASSUME NEW a, NEW b, NEW x, NEW st
  PROVE  Leads(<<a, b, x>>, st, PlayStep(x, PlayStep(b, PlayStep(a, st))))
<1> DEFINE A == {a, b, x}
           st2 == PlayStep(b, PlayStep(a, st))
           st3 == PlayStep(x, st2)
           s1 == <<a, b>>
           s2 == <<x>>
<1>1. s1 \in Seq(A) /\ s2 \in Seq(A)
  OBVIOUS
<1>2. Leads(s1, st, st2) /\ Leads(s2, st2, st3)
  BY LeadsOne, LeadsTwo
<1>3. s1 \o s2 = <<a, b, x>>
  BY Tuple21
<1> HIDE DEF A, st2, st3, s1, s2
<1>4. Leads(s1 \o s2, st, st3)
  BY <1>1, <1>2, LeadsConcat
<1> QED BY <1>3, <1>4 DEF st3, st2

LEMMA LeadsFour ==
  ASSUME NEW a, NEW b, NEW x, NEW y, NEW st
  PROVE  Leads(<<a, b, x, y>>, st, PlayStep(y, PlayStep(x, PlayStep(b, PlayStep(a, st)))))
<1> DEFINE A == {a, b, x, y}
           st3 == PlayStep(x, PlayStep(b, PlayStep(a, st)))
           st4 == PlayStep(y, st3)
           s1 == <<a, b, x>>
           s2 == <<y>>
<1>1. s1 \in Seq(A) /\ s2 \in Seq(A)
  OBVIOUS
<1>2. Leads(s1, st, st3) /\ Leads(s2, st3, st4)
  BY LeadsOne, LeadsThree
<1>3. s1 \o s2 = <<a, b, x, y>>
  BY Tuple31
<1> HIDE DEF A, st3, st4, s1, s2
<1>4. Leads(s1 \o s2, st, st4)
  BY <1>1, <1>2, LeadsConcat
<1> QED BY <1>3, <1>4 DEF st4, st3

\* One instruction, from where no label is looked for, and from where one is.
LEMMA PlaySteps ==
  ASSUME NEW insn, NEW m, insn.op # "BE"
  PROVE  /\ ~Jumps(insn) => PlayStep(insn, <<m, NoLabel>>) = <<Execute(insn, m), NoLabel>>
         /\ Jumps(insn) /\ m.sw.VKE => PlayStep(insn, <<m, NoLabel>>) = <<Execute(insn, m), NoLabel>>
         /\ Jumps(insn) /\ ~m.sw.VKE => PlayStep(insn, <<m, NoLabel>>) = <<Execute(insn, m), insn.arg>>
         /\ \A label : label # NoLabel =>
              /\ insn.label # label => PlayStep(insn, <<m, label>>) = <<m, label>>
              /\ insn.label = label /\ ~Jumps(insn) => PlayStep(insn, <<m, label>>) = <<Execute(insn, m), NoLabel>>
BY DEF PlayStep

\* A transfer has been executed, if the box is enabled.
Moved(d, m, m2, i, on) ==
  /\ m2 \in Machines(d) /\ m2.parens = m.parens
  /\ m2.operands = IF on THEN [m.operands EXCEPT ![Transferred(i)] = ~m.operands[Transferred(i)]] ELSE m.operands
MovedHolding(d, e, c, r, T, m, m2, i) ==
  /\ Holds(d, e, c, T, m) /\ i \in Moves(d) /\ i \notin T
  /\ Moved(d, m, m2, i, EnabledIn(d, e.at, i))
  /\ r.stored = c.stored /\ r.temps = c.temps /\ c \in Result(d)

LEMMA MovedHolds ==
  ASSUME NEW d, IsDiagram(d), NEW e, IsEnv(d, e), NEW c, NEW r, NEW T, NEW m, NEW m2, NEW i,
         MovedHolding(d, e, c, r, T, m, m2, i)
  PROVE  Holds(d, e, r, T \cup {i}, m2)
<1> DEFINE x == Transferred(i)
           on == EnabledIn(d, e.at, i)
<1> USE DEF MovedHolding
<1>1. i \in DOMAIN d.nodes /\ x \in OperandsOf(d) /\ Moves(d) \subseteq DOMAIN d.nodes
  BY OperandsThere
<1>2. m2 \in Machines(d) /\ m \in Machines(d) /\ m.operands \in [OperandsOf(d) -> BOOLEAN]
  BY MachineParts DEF Moved, Holds
<1>3. on \in BOOLEAN /\ e.before \in BOOLEAN
  BY DEF EnabledIn, IsEnv
<1>4. \A y : y # x => m2.operands[y] = m.operands[y]
  BY <1>2 DEF Moved
<1>5. m2.operands[x] = (e.before # on)
  <2>1. m.operands[x] = e.before
    BY DEF Holds
  <2>2. m2.operands[x] = IF on THEN ~m.operands[x] ELSE m.operands[x]
    BY <1>1, <1>2 DEF Moved
  <2> HIDE DEF x, on
  <2> QED BY <1>3, <2>1, <2>2
<1>6. /\ x \notin InputsOf(d)
      /\ \A j \in DOMAIN d.nodes : j # i => Transferred(j) # x
      /\ \A s : Stored(s) # x
  BY <1>1, OperandsApart
<1>7. \A pin \in GridPins(d) : pin[1] # 0 => Temp(pin) # x
  BY OperandsApart
<1> HIDE DEF x, on
<1>8. \A y \in InputsOf(d) : m2.operands[y] = e.values[y]
  BY <1>4, <1>6 DEF Holds
<1>9. \A pin \in r.temps : pin \in GridPins(d) /\ pin[1] # 0 /\ m2.operands[Temp(pin)] = e.at[pin]
  BY <1>4, <1>7 DEF Holds
<1>10. \A s \in r.stored : m2.operands[Stored(s)] = e.at[d.stores[s]]
  BY <1>4, <1>6 DEF Holds
<1>11. ASSUME NEW j \in Moves(d)
       PROVE  m2.operands[Transferred(j)] = IF j \in T \cup {i} THEN e.before # EnabledIn(d, e.at, j) ELSE e.before
  <2>1. CASE j = i
    BY <1>5, <2>1 DEF x, on
  <2>2. CASE j # i
    <3>1. m2.operands[Transferred(j)] = m.operands[Transferred(j)]
      BY <1>1, <1>4, <1>6, <2>2
    <3> QED BY <2>2, <3>1 DEF Holds
  <2> QED BY <2>1, <2>2
<1> QED BY <1>2, <1>8, <1>9, <1>10, <1>11 DEF Holds

(***************************************************************************)
(* MOVE boxes.                                                             *)
(***************************************************************************)

\* The instructions of a MOVE.
LEMMA MoveInsns ==
  ASSUME NEW i \in Nat \ {0}
  PROVE  /\ Insn("SPBNB", End0(i)).op = "SPBNB" /\ Insn("SPBNB", End0(i)).arg = End0(i)
         /\ Insn("SPBNB", End0(i)).label = NoLabel
         /\ Insn("T", Transferred(i)).op = "T" /\ Insn("T", Transferred(i)).label = NoLabel
         /\ Labelled(End0(i), Plain("NOP")).op = "NOP" /\ Labelled(End0(i), Plain("NOP")).label = End0(i)
         /\ Plain("SET").op = "SET" /\ Plain("SET").label = NoLabel
         /\ Labelled(<<i, "set">>, Insn("SPBNB", <<i, "set">>)).op = "SPBNB"
         /\ End0(i) # NoLabel
<1>1. End0(i)[1] = i /\ NoLabel[1] = 0
  BY DEF End0, NoLabel
<1>2. End0(i) # NoLabel
  BY <1>1
<1> QED BY <1>2 DEF Insn, Plain, Labelled

\* What a MOVE leaves: its data are transferred if it is enabled, and BIE says so
\* if its ENO is wanted.
MoveLeaves(d, m, m2, i, on) ==
  Moved(d, m, m2, i, on) /\ Quiet(m2.sw) /\ (Fanout(d, Eno(i)) > 0 => m2.bie = on)
MoveStarts(d, m, i, on) ==
  /\ m \in Machines(d) /\ on \in BOOLEAN
  /\ d.nodes[i].ins # <<>> => m.sw.VKE = on
  /\ d.nodes[i].ins = <<>> => Quiet(m.sw) /\ on = TRUE

LEMMA MoveGated ==
  ASSUME NEW d, IsDiagram(d), NEW i \in Moves(d), NEW m, NEW on, MoveStarts(d, m, i, on), d.nodes[i].ins # <<>>
  PROVE  \E m2 : Leads(MoveBody(d, i), <<m, NoLabel>>, <<m2, NoLabel>>) /\ MoveLeaves(d, m, m2, i, on)
<1> DEFINE jmp == Insn("SPBNB", End0(i))
           tr == Insn("T", Transferred(i))
           nop == Labelled(End0(i), Plain("NOP"))
           m1 == Execute(jmp, m)
           ops == [m.operands EXCEPT ![Transferred(i)] = ~m.operands[Transferred(i)]]
<1>1. i \in DOMAIN d.nodes /\ i \in Nat \ {0} /\ Transferred(i) \in OperandsOf(d)
  BY PinsOfKinds, OperandsThere DEF Moves
<1>2. /\ jmp.op = "SPBNB" /\ jmp.arg = End0(i) /\ jmp.label = NoLabel
      /\ tr.op = "T" /\ tr.label = NoLabel
      /\ nop.op = "NOP" /\ nop.label = End0(i) /\ End0(i) # NoLabel
  BY <1>1, MoveInsns
<1>3. MoveBody(d, i) = <<jmp, tr, nop>>
  BY DEF MoveBody
<1>4. m \in Machines(d) /\ on \in BOOLEAN /\ m.sw.VKE = on
  BY DEF MoveStarts
<1>5. Becomes(d, m, m1, Ended(TRUE), m.sw.VKE, m.parens, m.operands)
  BY <1>2, <1>4, ExecWord
<1>6. m1 \in Machines(d) /\ m1.sw = Ended(TRUE) /\ m1.bie = on /\ m1.parens = m.parens /\ m1.operands = m.operands
  BY <1>4, <1>5 DEF Becomes
<1>7. Quiet(Ended(TRUE))
  BY DEF Quiet, Ended
<1>8. ~Jumps(tr) /\ ~Jumps(nop) /\ Jumps(jmp)
  BY <1>2 DEF Jumps
<1> HIDE DEF jmp, nop, m1
<1>9. CASE on = TRUE
  <2> DEFINE m2 == Execute(tr, m1)
             m3 == Execute(nop, m2)
  <2>1. Becomes(d, m1, m2, m1.sw, m1.bie, m1.parens, [m1.operands EXCEPT ![Transferred(i)] = ~m1.operands[Transferred(i)]])
    BY <1>1, <1>6, ExecOperand
  <2>2. m2 \in Machines(d) /\ m2.sw = m1.sw /\ m2.bie = on /\ m2.parens = m.parens /\ m2.operands = ops
    BY <1>6, <2>1 DEF Becomes
  <2> HIDE DEF tr, m2
  <2>3. Becomes(d, m2, m3, m2.sw, m2.bie, m2.parens, m2.operands)
    BY <1>2, <2>2, ExecWord
  <2>4. m3 \in Machines(d) /\ m3.sw = m1.sw /\ m3.bie = on /\ m3.parens = m.parens /\ m3.operands = ops
    BY <2>2, <2>3 DEF Becomes
  <2> HIDE DEF m3
  <2>5. PlayStep(jmp, <<m, NoLabel>>) = <<m1, NoLabel>>
    BY <1>2, <1>4, <1>8, <1>9, PlaySteps DEF m1
  <2>6. PlayStep(tr, <<m1, NoLabel>>) = <<m2, NoLabel>>
    BY <1>2, <1>8, PlaySteps DEF m2
  <2>7. PlayStep(nop, <<m2, NoLabel>>) = <<m3, NoLabel>>
    BY <1>2, <1>8, PlaySteps DEF m3
  <2>8. Leads(<<jmp, tr, nop>>, <<m, NoLabel>>, <<m3, NoLabel>>)
    BY <2>5, <2>6, <2>7, LeadsThree
  <2>9. MoveLeaves(d, m, m3, i, on)
    BY <1>6, <1>7, <1>9, <2>4 DEF MoveLeaves, Moved
  <2> QED BY <1>3, <2>8, <2>9
<1>10. CASE on = FALSE
  <2> DEFINE m3 == Execute(nop, m1)
  <2>1. Becomes(d, m1, m3, m1.sw, m1.bie, m1.parens, m1.operands)
    BY <1>2, <1>6, ExecWord
  <2>2. m3 \in Machines(d) /\ m3.sw = m1.sw /\ m3.bie = on /\ m3.parens = m.parens /\ m3.operands = m.operands
    BY <1>6, <2>1 DEF Becomes
  <2> HIDE DEF m3, tr
  <2>3. PlayStep(jmp, <<m, NoLabel>>) = <<m1, End0(i)>>
    BY <1>2, <1>4, <1>8, <1>10, PlaySteps DEF m1
  <2>4. PlayStep(tr, <<m1, End0(i)>>) = <<m1, End0(i)>>
    <3> DEFINE l == End0(i)
    <3>1. tr.op # "BE" /\ l # NoLabel /\ tr.label # l
      BY <1>2
    <3> HIDE DEF l
    <3>2. PlayStep(tr, <<m1, l>>) = <<m1, l>>
      BY <3>1 DEF PlayStep
    <3> QED BY <3>2 DEF l
  <2>5. PlayStep(nop, <<m1, End0(i)>>) = <<m3, NoLabel>>
    BY <1>2, <1>8, PlaySteps DEF m3
  <2>6. Leads(<<jmp, tr, nop>>, <<m, NoLabel>>, <<m3, NoLabel>>)
    BY <2>3, <2>4, <2>5, LeadsThree
  <2>7. MoveLeaves(d, m, m3, i, on)
    BY <1>6, <1>7, <1>10, <2>2 DEF MoveLeaves, Moved
  <2> QED BY <1>3, <2>6, <2>7
<1> QED BY <1>4, <1>9, <1>10

LEMMA MoveUngated ==
  ASSUME NEW d, IsDiagram(d), NEW i \in Moves(d), NEW m, NEW on, MoveStarts(d, m, i, on), d.nodes[i].ins = <<>>
  PROVE  \E m2 : Leads(MoveBody(d, i), <<m, NoLabel>>, <<m2, NoLabel>>) /\ MoveLeaves(d, m, m2, i, on)
<1> DEFINE tr == Insn("T", Transferred(i))
           nop == Labelled(End0(i), Plain("NOP"))
           set == Plain("SET")
           jmp == Labelled(<<i, "set">>, Insn("SPBNB", <<i, "set">>))
           m1 == Execute(tr, m)
           ops == [m.operands EXCEPT ![Transferred(i)] = ~m.operands[Transferred(i)]]
<1>1. i \in DOMAIN d.nodes /\ i \in Nat \ {0} /\ Transferred(i) \in OperandsOf(d)
  BY PinsOfKinds, OperandsThere DEF Moves
<1>2. /\ jmp.op = "SPBNB" /\ set.op = "SET" /\ set.label = NoLabel
      /\ tr.op = "T" /\ tr.label = NoLabel
      /\ nop.op = "NOP" /\ nop.label = End0(i) /\ End0(i) # NoLabel
  BY <1>1, MoveInsns
<1>4. m \in Machines(d) /\ on = TRUE /\ Quiet(m.sw)
  BY DEF MoveStarts
<1>5. Becomes(d, m, m1, m.sw, m.bie, m.parens, ops)
  BY <1>1, <1>4, ExecOperand
<1>6. m1 \in Machines(d) /\ m1.sw = m.sw /\ m1.parens = m.parens /\ m1.operands = ops
  BY <1>4, <1>5 DEF Becomes
<1>7. Quiet(Ended(TRUE)) /\ Ended(TRUE).VKE = TRUE
  BY DEF Quiet, Ended
<1>8. ~Jumps(tr) /\ ~Jumps(nop) /\ ~Jumps(set) /\ Jumps(jmp)
  BY <1>2 DEF Jumps
<1> HIDE DEF m1
<1>9. CASE Fanout(d, Eno(i)) > 0
  <2> DEFINE m2 == Execute(set, m1)
             m3 == Execute(jmp, m2)
             m4 == Execute(nop, m3)
  <2>1. MoveBody(d, i) = <<tr, set, jmp, nop>>
    BY <1>9 DEF MoveBody
  <2> HIDE DEF tr, set, jmp, nop
  <2>2. Becomes(d, m1, m2, Ended(TRUE), m1.bie, m1.parens, m1.operands)
    BY <1>2, <1>6, ExecWord
  <2>3. m2 \in Machines(d) /\ m2.sw = Ended(TRUE) /\ m2.parens = m.parens /\ m2.operands = ops
    BY <1>6, <2>2 DEF Becomes
  <2> HIDE DEF m2
  <2>4. Becomes(d, m2, m3, Ended(TRUE), m2.sw.VKE, m2.parens, m2.operands)
    BY <1>2, <2>3, ExecWord
  <2>5. m3 \in Machines(d) /\ m3.sw = Ended(TRUE) /\ m3.bie = TRUE /\ m3.parens = m.parens /\ m3.operands = ops
    BY <1>7, <2>3, <2>4 DEF Becomes
  <2> HIDE DEF m3
  <2>6. Becomes(d, m3, m4, m3.sw, m3.bie, m3.parens, m3.operands)
    BY <1>2, <2>5, ExecWord
  <2>7. m4 \in Machines(d) /\ m4.sw = Ended(TRUE) /\ m4.bie = TRUE /\ m4.parens = m.parens /\ m4.operands = ops
    BY <2>5, <2>6 DEF Becomes
  <2> HIDE DEF m4
  <2>8. PlayStep(tr, <<m, NoLabel>>) = <<m1, NoLabel>>
    BY <1>2, <1>8, PlaySteps DEF m1, tr
  <2>9. PlayStep(set, <<m1, NoLabel>>) = <<m2, NoLabel>>
    BY <1>2, <1>8, PlaySteps DEF m2
  <2>10. PlayStep(jmp, <<m2, NoLabel>>) = <<m3, NoLabel>>
    <3>1. m2.sw.VKE = TRUE
      BY <1>7, <2>3
    <3>2. m2.sw.VKE
      BY <3>1
    <3>3. jmp.op # "BE"
      BY <1>2
    <3> QED BY <1>8, <3>2, <3>3, PlaySteps DEF m3
  <2>11. PlayStep(nop, <<m3, NoLabel>>) = <<m4, NoLabel>>
    BY <1>2, <1>8, PlaySteps DEF m4
  <2>12. Leads(<<tr, set, jmp, nop>>, <<m, NoLabel>>, <<m4, NoLabel>>)
    BY <2>8, <2>9, <2>10, <2>11, LeadsFour
  <2>13. MoveLeaves(d, m, m4, i, on)
    BY <1>4, <1>7, <2>7 DEF MoveLeaves, Moved
  <2> QED BY <2>1, <2>12, <2>13
<1>10. CASE ~(Fanout(d, Eno(i)) > 0)
  <2> DEFINE m2 == Execute(nop, m1)
  <2>1. MoveBody(d, i) = <<tr, nop>>
    BY <1>10 DEF MoveBody
  <2> HIDE DEF tr, nop
  <2>2. Becomes(d, m1, m2, m1.sw, m1.bie, m1.parens, m1.operands)
    BY <1>2, <1>6, ExecWord
  <2>3. m2 \in Machines(d) /\ m2.sw = m.sw /\ m2.parens = m.parens /\ m2.operands = ops
    BY <1>6, <2>2 DEF Becomes
  <2> HIDE DEF m2
  <2>4. PlayStep(tr, <<m, NoLabel>>) = <<m1, NoLabel>>
    BY <1>2, <1>8, PlaySteps DEF m1, tr
  <2>5. PlayStep(nop, <<m1, NoLabel>>) = <<m2, NoLabel>>
    BY <1>2, <1>8, PlaySteps DEF m2
  <2>6. Leads(<<tr, nop>>, <<m, NoLabel>>, <<m2, NoLabel>>)
    BY <2>4, <2>5, LeadsTwo
  <2>7. MoveLeaves(d, m, m2, i, on)
    BY <1>4, <1>10, <2>3 DEF MoveLeaves, Moved
  <2> QED BY <2>1, <2>6, <2>7
<1> QED BY <1>9, <1>10

\* The bits before and behind the instructions of a MOVE.
StartWords(d, i, on) ==
  {w \in Words : /\ d.nodes[i].ins # <<>> => w.sw.VKE = on
                 /\ d.nodes[i].ins = <<>> => Quiet(w.sw)}
BodyLeaves(d, i, on) ==
  {x \in Words \X Words :
     x[2].parens = x[1].parens /\ Quiet(x[2].sw) /\ (Fanout(d, Eno(i)) > 0 => x[2].bie = on)}

LEMMA MoveBodyBrings ==
  ASSUME NEW d, IsDiagram(d), NEW e, IsEnv(d, e), NEW i \in Moves(d), NEW c \in Result(d), NEW on,
         on = EnabledIn(d, e.at, i), d.nodes[i].ins = <<>> => on
  PROVE  Brings(d, e, c, Emit(c, MoveBody(d, i)), {i}, StartWords(d, i, on), BodyLeaves(d, i, on))
<1> DEFINE new == MoveBody(d, i)
           r == Emit(c, new)
<1>1. i \in DOMAIN d.nodes
  BY DEF Moves
<1>2. new \in Seq(InsnsOf(d)) /\ on \in BOOLEAN
  BY <1>1, MoveBodyTyped DEF EnabledIn
<1> HIDE DEF new
<1>3. /\ r \in Result(d) /\ r.code = c.code \o new /\ r.done = c.done /\ r.failed = c.failed
      /\ r.stored = c.stored /\ r.temps = c.temps
  BY <1>2, EmitTyped
<1> HIDE DEF r
<1>4. ASSUME NEW m \in Machines(d), NEW T, T \cap {i} = {}, Holds(d, e, c, T, m), Ctl(m) \in StartWords(d, i, on)
      PROVE  \E m2 \in Machines(d) :
               /\ Leads(new, <<m, NoLabel>>, <<m2, NoLabel>>)
               /\ Holds(d, e, r, T \cup {i}, m2)
               /\ <<Ctl(m), Ctl(m2)>> \in BodyLeaves(d, i, on)
  <2>1. Ctl(m) \in Words /\ Ctl(m).sw = m.sw /\ Ctl(m).parens = m.parens
    BY CtlTyped
  <2>2. MoveStarts(d, m, i, on)
    BY <1>2, <1>4, <2>1 DEF StartWords, MoveStarts
  <2>3. PICK m2 : Leads(new, <<m, NoLabel>>, <<m2, NoLabel>>) /\ MoveLeaves(d, m, m2, i, on)
    BY <2>2, MoveGated, MoveUngated DEF new
  <2>4. m2 \in Machines(d) /\ i \notin T
    BY <1>4, <2>3 DEF MoveLeaves, Moved
  <2>5. MovedHolding(d, e, c, r, T, m, m2, i)
    BY <1>3, <1>4, <2>3, <2>4 DEF MovedHolding, MoveLeaves
  <2>6. Holds(d, e, r, T \cup {i}, m2)
    BY <2>5, MovedHolds
  <2>7. Ctl(m2) \in Words /\ Ctl(m2).sw = m2.sw /\ Ctl(m2).bie = m2.bie /\ Ctl(m2).parens = m2.parens
    BY <2>4, CtlTyped
  <2>8. <<Ctl(m), Ctl(m2)>> \in BodyLeaves(d, i, on)
    BY <2>1, <2>3, <2>7 DEF BodyLeaves, MoveLeaves, Moved
  <2> QED BY <2>3, <2>4, <2>6, <2>8
<1>5. Does(d, e, c, r, new, {i}, StartWords(d, i, on), BodyLeaves(d, i, on))
  BY <1>4 DEF Does
<1>6. Brings(d, e, c, r, {i}, StartWords(d, i, on), BodyLeaves(d, i, on))
  BY <1>2, <1>3, <1>5 DEF Brings
<1> QED BY <1>6 DEF r, new

\* What is wired to EN of a box comes into VKE.
LEMMA EnBrings ==
  ASSUME NEW d, NEW rank, NEW N, NEW e, NEW h, NEW i, Sem(d, rank, N, e, h, i), Is(d, i, Boxes),
         NEW c \in Result(d), d.nodes[i].ins # <<>>
  PROVE  LET pin == d.nodes[i].ins[1].pin
             r == CompileConn(d, h, c, "U", pin)
         IN r \in Result(d) /\ e.at[pin] \in BOOLEAN /\ Effects(d, e, c, r, QuietWords, Yields(e.at[pin]))
<1> DEFINE pin == d.nodes[i].ins[1].pin
           r == CompileConn(d, h, c, "U", pin)
           v == e.at[pin]
<1>1. IsDiagram(d) /\ i \in DOMAIN d.nodes /\ IsEnv(d, e) /\ NodeFits(d, rank, i)
  BY DEF Sem, Fits
<1>2. 1 \in DOMAIN d.nodes[i].ins /\ pin \in GridPins(d)
  BY <1>1, BoxFacts DEF Wires
<1>3. v \in BOOLEAN
  BY <1>1, <1>2 DEF IsEnv, Env
<1>4. "U" \in Classes /\ Inverts("U") = FALSE
  BY DEF Classes, Inverts
<1>5. (v # Inverts("U")) = v
  BY <1>3, <1>4
<1>6. ConnDoes(d, e, c, r, "U", pin)
  BY <1>2, <1>4, ConnBrings
<1>7. r \in Result(d)
  BY <1>6 DEF ConnDoes
<1> HIDE DEF r, v
<1>8. CASE Is(d, pin[1], Boxes)
  <2>1. Effects(d, e, c, r, QuietWords, Yields(v # Inverts("U")))
    BY <1>6, <1>8 DEF ConnDoes, Effects, v
  <2>2. Effects(d, e, c, r, QuietWords, Yields(v))
    BY <1>5, <2>1
  <2> QED BY <1>3, <1>7, <2>2 DEF r, v
<1>9. CASE ~Is(d, pin[1], Boxes)
  <2>1. Effects(d, e, c, r, Words, Operated("U", v))
    BY <1>6, <1>9 DEF ConnDoes, Effects, v
  <2>2. ASSUME NEW w \in Words, NEW w2 \in Words, w \in QuietWords, <<w, w2>> \in Operated("U", v)
        PROVE  <<w, w2>> \in Yields(v)
    <3>1. w.sw \in Bits /\ Quiet(w.sw) /\ w2.sw = Operate("U", w.sw, v) /\ w2.parens = w.parens
      BY <2>2 DEF Words, QuietWords, Operated
    <3>2. Operate("U", w.sw, v).VKE = v
      BY <1>3, <1>4, <1>5, <3>1, QuietOperate
    <3> QED BY <3>1, <3>2 DEF Yields
  <2>3. QuietWords \subseteq Words
    BY DEF QuietWords
  <2>4. Effects(d, e, c, r, QuietWords, Yields(v))
    BY <2>1, <2>2, <2>3, DoesWeaken
  <2> QED BY <1>3, <1>7, <2>4 DEF r, v
<1> QED BY <1>8, <1>9

\* A network has ended.
QuietRel == {x \in Words \X Words : x[2].parens = x[1].parens /\ Quiet(x[2].sw)}

LEMMA SourceBrings ==
  ASSUME NEW d, NEW rank, NEW N, NEW e, NEW h, NEW i, Sem(d, rank, N, e, h, i), Is(d, i, {"MOVE"}),
         NEW c \in Result(d)
  PROVE  MoveSource(d, h, c, i) \in Result(d) /\ Effects(d, e, c, MoveSource(d, h, c, i), QuietWords, QuietRel)
<1> DEFINE j == d.nodes[i].source
           s == MoveSource(d, h, c, i)
<1>1. IsDiagram(d) /\ i \in DOMAIN d.nodes /\ h \in NodeCode(d) /\ NodeFits(d, rank, i) /\ Is(d, i, Boxes)
  BY PinsOfKinds DEF Sem, Fits
<1>2. s \in Result(d)
  BY <1>1, MoveTyped
<1>3. CASE j \in c.done \cup {0}
  <2>1. s = c
    BY <1>3 DEF MoveSource
  <2>2. \A w \in Words : w \in QuietWords => <<w, w>> \in QuietRel
    BY DEF QuietWords, QuietRel
  <2>3. Effects(d, e, c, c, QuietWords, QuietRel)
    BY <2>2, DoesNothing
  <2> QED BY <1>2, <2>1, <2>3
<1>4. CASE j \notin c.done \cup {0}
  <2>1. s = Compiled(h, c, j)
    BY <1>4 DEF MoveSource
  <2>2. j \in DOMAIN d.nodes /\ Is(d, j, Boxes) /\ j \notin c.done /\ rank[j] < rank[i]
    BY <1>1, <1>4, BoxFacts, PinsOfKinds
  <2>3. NodeBrings(d, e, h, j)
    BY <2>2 DEF Sem, NodesBring
  <2> HIDE DEF s, j
  <2>4. Effects(d, e, c, s, QuietWords, NodeYields(d, e.at, j))
    BY <1>1, <2>1, <2>2, <2>3, CompiledBrings DEF Effects
  <2>5. \A w, w2 \in Words : w \in QuietWords /\ <<w, w2>> \in NodeYields(d, e.at, j) => <<w, w2>> \in QuietRel
    BY <2>2 DEF NodeYields, QuietRel
  <2>6. QuietWords \subseteq QuietWords
    OBVIOUS
  <2>7. Effects(d, e, c, s, QuietWords, QuietRel)
    BY <2>4, <2>5, <2>6, DoesWeaken
  <2> QED BY <1>2, <2>7 DEF s
<1> QED BY <1>3, <1>4

\* The outputs of a box: ENO says whether it is enabled.
LEMMA BoxPins ==
  ASSUME NEW d, IsDiagram(d), NEW e, IsEnv(d, e), NEW i \in DOMAIN d.nodes, Is(d, i, Boxes)
  PROVE  /\ \A pin \in PinsOf(d, i) : pin \in GridPins(d) /\ pin[1] = i /\ i # 0
         /\ Eno(i) \in PinsOf(d, i) /\ e.at[Eno(i)] = EnabledIn(d, e.at, i)
         /\ Is(d, i, {"CMP"}) =>
              Out(i) \in PinsOf(d, i) /\ e.at[Out(i)] = (e.values[Out(i)] /\ EnabledIn(d, e.at, i))
<1>1. /\ i \in Nat \ {0} /\ (Is(d, i, {"MOVE"}) \/ Is(d, i, {"CMP"}))
      /\ Is(d, i, {"MOVE"}) => PinsOf(d, i) = {Eno(i)}
      /\ Is(d, i, {"CMP"}) => PinsOf(d, i) = {Out(i), Eno(i)}
  BY PinsOfKinds
<1>2. Out(i)[1] = i /\ Eno(i)[1] = i
  BY DEF Out, Eno
<1>3. \A pin \in PinsOf(d, i) : pin \in GridPins(d) /\ pin[1] = i /\ i # 0
  BY <1>1, <1>2 DEF GridPins
<1>4. \A pin \in PinsOf(d, i) : Meant(d, e.values, e.at, pin, e.at[pin])
  BY <1>3, MeantCases DEF IsEnv, Env
<1>5. Eno(i) \in PinsOf(d, i) /\ e.at[Eno(i)] = EnabledIn(d, e.at, i)
  <2>1. Eno(i) \in PinsOf(d, i)
    BY <1>1
  <2> QED BY <1>2, <1>3, <1>4, <2>1 DEF Meant
<1>6. Is(d, i, {"CMP"}) => Out(i) \in PinsOf(d, i) /\ e.at[Out(i)] = (e.values[Out(i)] /\ EnabledIn(d, e.at, i))
  BY <1>1, <1>2, <1>3, <1>4 DEF Meant
<1> QED BY <1>3, <1>5, <1>6

\* The value of a box's output, that is in VKE, goes to all who want it.
LEMMA OutputBrings ==
  ASSUME NEW d, IsDiagram(d), NEW e, IsEnv(d, e), NEW i \in DOMAIN d.nodes, Is(d, i, Boxes),
         NEW pin \in PinsOf(d, i), NEW c \in Result(d)
  PROVE  LET r == StoreBoxOutput(d, c, pin)
         IN /\ r \in Result(d) /\ r.done = c.done
            /\ Brings(d, e, c, r, {}, Valued(e.at[pin]), Keeps(Fanout(d, pin) > 0))
<1> DEFINE r == StoreBoxOutput(d, c, pin)
           stored == StoredTo(d, pin)
           temps == TempsOf(d, pin)
<1>1. pin \in GridPins(d) /\ pin[1] # 0
  BY BoxPins
<1>2. Saves(d, c, r, stored, temps)
  BY <1>1, StoreBoxOutputSaves
<1>3. r \in Result(d) /\ r.done = c.done
  BY <1>2 DEF Saves, Adds
<1>4. (Fanout(d, pin) > 0) = (stored # {} \/ temps # {})
  <2>1. Fanout(d, pin) > 0 <=> Readers(d, pin) # {} \/ StoredTo(d, pin) # {}
    BY FanoutFacts
  <2> QED BY <2>1 DEF TempsOf
<1>5. /\ \A s \in stored : s \in DOMAIN d.stores /\ d.stores[s] = pin
      /\ \A p \in temps : p = pin /\ pin[1] # 0
  BY <1>1 DEF StoredTo, TempsOf
<1> HIDE DEF r, stored, temps
<1>6. Brings(d, e, c, r, {}, Valued(e.at[pin]), Keeps(stored # {} \/ temps # {}))
  BY <1>1, <1>2, <1>5, SavesBrings
<1> QED BY <1>3, <1>4, <1>6 DEF r

StartRel(d, i, on) == {x \in Words \X Words : x[2].parens = x[1].parens /\ x[2] \in StartWords(d, i, on)}

LEMMA StartBrings ==
  ASSUME NEW d, NEW rank, NEW N, NEW e, NEW h, NEW i, Sem(d, rank, N, e, h, i), Is(d, i, {"MOVE"}), TakesENO(d, i),
         NEW c \in Result(d), NEW on, on = EnabledIn(d, e.at, i)
  PROVE  LET s == MoveSource(d, h, c, i)
             x == MoveEnabled(d, h, s, i)
         IN x \in Result(d) /\ Effects(d, e, c, x, QuietWords, StartRel(d, i, on))
            /\ (d.nodes[i].ins = <<>> => on)
<1> DEFINE s == MoveSource(d, h, c, i)
           x == MoveEnabled(d, h, s, i)
           pin == d.nodes[i].ins[1].pin
<1>1. IsDiagram(d) /\ i \in DOMAIN d.nodes /\ h \in NodeCode(d) /\ NodeFits(d, rank, i) /\ Is(d, i, Boxes)
      /\ IsEnv(d, e) /\ Fits(d, rank, N) /\ Env(d, e.values, e.at)
  BY PinsOfKinds DEF Sem, Fits, IsEnv
<1>2. s \in Result(d) /\ Effects(d, e, c, s, QuietWords, QuietRel)
  BY SourceBrings
<1>3. on \in BOOLEAN /\ (d.nodes[i].ins = <<>> => on) /\ (d.nodes[i].ins # <<>> => on = e.at[pin])
  <2>1. EnabledIn(d, e.at, i) \in BOOLEAN
    BY DEF EnabledIn
  <2>2. /\ d.nodes[i].ins = <<>> => EnabledIn(d, e.at, i)
        /\ d.nodes[i].ins # <<>> => EnabledIn(d, e.at, i) = e.at[pin]
    BY <1>1, BoxEnabled
  <2> QED BY <2>1, <2>2
<1> HIDE DEF s
<1>4. CASE d.nodes[i].ins = <<>>
  <2>1. x = s
    BY <1>4 DEF MoveEnabled
  <2>2. \A w, w2 \in Words : w \in QuietWords /\ <<w, w2>> \in QuietRel => <<w, w2>> \in StartRel(d, i, on)
    BY <1>4 DEF QuietRel, StartRel, StartWords
  <2>3. QuietWords \subseteq QuietWords
    OBVIOUS
  <2>4. Effects(d, e, c, s, QuietWords, StartRel(d, i, on))
    BY <1>2, <2>2, <2>3, DoesWeaken
  <2> QED BY <1>2, <1>3, <2>1, <2>4 DEF s
<1>5. CASE d.nodes[i].ins # <<>>
  <2>1. x = CompileConn(d, h, s, "U", pin)
    BY <1>5 DEF MoveEnabled
  <2>2. x \in Result(d) /\ Effects(d, e, s, x, QuietWords, Yields(e.at[pin]))
    BY <1>1, <1>2, <1>5, <2>1, EnBrings
  <2>3. Effects(d, e, s, x, QuietWords, Yields(on))
    BY <1>3, <1>5, <2>2
  <2>4. Chains(QuietWords, QuietRel, QuietWords, Yields(on), StartRel(d, i, on))
    BY <1>5 DEF Chains, QuietWords, QuietRel, Yields, StartRel, StartWords
  <2> HIDE DEF x
  <2>5. Effects(d, e, c, x, QuietWords, StartRel(d, i, on))
    BY <1>2, <2>3, <2>4, DoesNext
  <2> QED BY <1>3, <2>2, <2>5 DEF x, s
<1> QED BY <1>4, <1>5

\* BIE, that says whether the box is enabled, comes into VKE and to all who want
\* it.
BieWords(on) == {w \in Words : Quiet(w.sw) /\ w.bie = on}

LEMMA EnoBrings ==
  ASSUME NEW d, IsDiagram(d), NEW e, IsEnv(d, e), NEW i \in Moves(d), NEW b \in Result(d), NEW on,
         on = EnabledIn(d, e.at, i), Fanout(d, Eno(i)) > 0
  PROVE  LET r == StoreBoxOutput(d, Emit(b, <<Insn("U", BIE)>>), Eno(i))
         IN /\ r \in Result(d) /\ r.done = b.done
            /\ Brings(d, e, b, r, {}, BieWords(on), NodeYields(d, e.at, i))
<1> DEFINE u == Emit(b, <<Insn("U", BIE)>>)
           r == StoreBoxOutput(d, u, Eno(i))
           P == BieWords(on)
           R == NodeYields(d, e.at, i)
           K == Keeps(Fanout(d, Eno(i)) > 0)
           W == Valued(on)
<1>1. i \in DOMAIN d.nodes /\ Is(d, i, Boxes) /\ Is(d, i, {"MOVE"}) /\ ~Is(d, i, Booleans) /\ PinsOf(d, i) = {Eno(i)}
  BY PinsOfKinds DEF Moves
<1>2. Insn("U", BIE) \in InsnsOf(d)
  BY <1>1, MoveBodyTyped
<1>3. u \in Result(d) /\ u.done = b.done
  BY <1>2, EmitOne
<1>4. Brings(d, e, b, u, {}, Words, LoadsBie)
  BY BieBrings
<1>5. e.at[Eno(i)] = on /\ Eno(i) \in PinsOf(d, i) /\ on \in BOOLEAN
  <2>1. EnabledIn(d, e.at, i) \in BOOLEAN
    BY DEF EnabledIn
  <2> QED BY <1>1, <2>1, BoxPins
<1> HIDE DEF u
<1>6. r \in Result(d) /\ r.done = b.done /\ Brings(d, e, u, r, {}, W, K)
  BY <1>1, <1>3, <1>5, OutputBrings
<1> HIDE DEF r
<1>8. Chains(P, LoadsBie, W, K, R)
  <2> SUFFICES ASSUME NEW w \in Words, NEW w2 \in Words, NEW w3 \in Words, w \in P, <<w, w2>> \in LoadsBie
               PROVE  w2 \in W /\ (<<w2, w3>> \in K => <<w, w3>> \in R)
    BY DEF Chains
  <2>1. w.sw \in Bits /\ Quiet(w.sw) /\ w.bie = on
    BY DEF Words, BieWords
  <2>2. w2.sw = Operate("U", w.sw, on) /\ w2.parens = w.parens
    BY <2>1 DEF LoadsBie
  <2>3. w2.sw.VKE = on
    BY <1>5, <2>1, <2>2, OperateJoins DEF Booleans
  <2>4. w2 \in W
    BY <2>3 DEF Valued
  <2>5. ASSUME <<w2, w3>> \in K PROVE <<w, w3>> \in R
    <3>1. w3.sw.VKE = on /\ w3.parens = w.parens /\ Quiet(w3.sw)
      BY <2>2, <2>3, <2>5 DEF Keeps
    <3> QED BY <1>1, <1>5, <3>1 DEF NodeYields
  <2> QED BY <2>4, <2>5
<1>9. {} \cap {} = {} /\ {} \cup {} = {} /\ P \subseteq Words
  BY DEF BieWords
<1>10. \A w, w2 \in Words : w \in P /\ <<w, w2>> \in LoadsBie => <<w, w2>> \in LoadsBie
  OBVIOUS
<1> HIDE DEF P, R, K, W
<1>11. Brings(d, e, b, u, {}, P, LoadsBie)
  <2>1. {} \subseteq {} /\ {} \cap Moves(d) = {} \cap Moves(d)
    OBVIOUS
  <2> QED BY <1>4, <1>9, <1>10, <2>1, BringsWeaken
<1>12. Brings(d, e, b, r, {} \cup {}, P, R)
  BY <1>6, <1>8, <1>9, <1>11, BringsThen
<1> QED BY <1>6, <1>9, <1>12 DEF P, R, r, u

LEMMA MoveEndBrings ==
  ASSUME NEW d, IsDiagram(d), NEW e, IsEnv(d, e), NEW i \in Moves(d), NEW c, NEW on,
         on = EnabledIn(d, e.at, i), d.nodes[i].ins = <<>> => on, i \in c.done,
         NEW x \in Result(d), Effects(d, e, c, x, QuietWords, StartRel(d, i, on))
  PROVE  LET r == MoveEnd(d, x, i)
         IN Brings(d, e, c, r, (r.done \ c.done) \cup {i}, QuietWords, NodeYields(d, e.at, i))
<1> DEFINE Y1 == x.done \ c.done
           Y2 == {i}
           Y == Y1 \cup Y2
           b == Emit(x, MoveBody(d, i))
           r == MoveEnd(d, x, i)
           P == QuietWords
           S == StartWords(d, i, on)
           L == BodyLeaves(d, i, on)
           R == NodeYields(d, e.at, i)
           SR == StartRel(d, i, on)
<1>1. i \in DOMAIN d.nodes /\ Is(d, i, Boxes) /\ Is(d, i, {"MOVE"}) /\ ~Is(d, i, Booleans) /\ PinsOf(d, i) = {Eno(i)}
  BY PinsOfKinds DEF Moves
<1>2. MoveBody(d, i) \in Seq(InsnsOf(d))
  BY <1>1, MoveBodyTyped
<1>3. b \in Result(d) /\ b.done = x.done
  BY <1>2, EmitTyped
<1>4. Brings(d, e, x, b, Y2, S, L)
  BY MoveBodyBrings
<1>5. Brings(d, e, c, x, Y1, P, SR)
  BY DEF Effects
<1>6. Y1 \cap Y2 = {}
  OBVIOUS
<1>7. Chains(P, SR, S, L, L)
  BY DEF Chains, StartRel, BodyLeaves
<1> HIDE DEF Y1, Y2, b, P, S, L, R, SR
<1>8. Brings(d, e, c, b, Y1 \cup Y2, P, L)
  BY <1>4, <1>5, <1>6, <1>7, BringsThen
<1>9. CASE Fanout(d, Eno(i)) > 0
  <2> DEFINE z == StoreBoxOutput(d, Emit(b, <<Insn("U", BIE)>>), Eno(i))
             Q == BieWords(on)
  <2>1. r = z
    BY <1>9 DEF MoveEnd, b
  <2>2. z \in Result(d) /\ z.done = b.done /\ Brings(d, e, b, z, {}, Q, R)
    BY <1>3, <1>9, EnoBrings DEF R
  <2>3. Chains(P, L, Q, R, R)
    <3> SUFFICES ASSUME NEW w \in Words, NEW w2 \in Words, NEW w3 \in Words, <<w, w2>> \in L
                 PROVE  w2 \in Q /\ (<<w2, w3>> \in R => <<w, w3>> \in R)
      BY DEF Chains
    <3>1. w2 \in Q /\ w2.parens = w.parens
      BY <1>9 DEF L, BodyLeaves, BieWords
    <3>2. <<w2, w3>> \in R => <<w, w3>> \in R
      <4>1. ASSUME <<w2, w3>> \in R PROVE <<w, w3>> \in R
        <5>1. /\ w3.parens = w2.parens /\ Quiet(w3.sw)
              /\ \A pin \in PinsOf(d, i) : Readers(d, pin) # {} => w3.sw.VKE = e.at[pin]
          BY <1>1, <4>1 DEF R, NodeYields
        <5> QED BY <1>1, <3>1, <5>1 DEF R, NodeYields
      <4> QED BY <4>1
    <3> QED BY <3>1, <3>2
  <2>4. Y \cap {} = {} /\ Y \cup {} = Y
    OBVIOUS
  <2> HIDE DEF z, Q
  <2>5. Brings(d, e, c, z, Y \cup {}, P, R)
    <3> HIDE DEF Y
    <3>1. Brings(d, e, c, b, Y, P, L)
      BY <1>8 DEF Y
    <3> QED BY <2>2, <2>3, <2>4, <3>1, BringsThen
  <2>6. Y = (z.done \ c.done) \cup {i}
    BY <1>3, <2>2 DEF Y1, Y2
  <2>7. Brings(d, e, c, z, (z.done \ c.done) \cup {i}, P, R)
    <3> HIDE DEF Y
    <3> QED BY <2>4, <2>5, <2>6
  <2> QED BY <2>1, <2>7 DEF P, R
<1>10. CASE ~(Fanout(d, Eno(i)) > 0)
  <2>1. r = b
    BY <1>10 DEF MoveEnd, b
  <2>2. Readers(d, Eno(i)) = {}
    BY <1>10, FanoutFacts
  <2>3. \A w, w2 \in Words : w \in P /\ <<w, w2>> \in L => <<w, w2>> \in R
    BY <1>1, <2>2 DEF L, R, BodyLeaves, NodeYields
  <2>4. P \subseteq P /\ Y \subseteq Y /\ Y \cap Moves(d) = Y \cap Moves(d)
    OBVIOUS
  <2>5. Y = (b.done \ c.done) \cup {i}
    BY <1>3 DEF Y1, Y2
  <2>6. Brings(d, e, c, b, Y, P, L)
    BY <1>8
  <2> HIDE DEF Y
  <2>7. Brings(d, e, c, b, Y, P, R)
    BY <2>3, <2>4, <2>6, BringsWeaken
  <2> QED BY <2>1, <2>5, <2>7 DEF P, R
<1> QED BY <1>9, <1>10

LEMMA MoveBrings ==
  ASSUME NEW d, NEW rank, NEW N, NEW e, NEW h, NEW i, Sem(d, rank, N, e, h, i), Is(d, i, {"MOVE"}), TakesENO(d, i),
         NEW p \in Progress(d), i \notin p.done
  PROVE  LET r == CompileElem(d, h, p, i)
         IN Brings(d, e, Running(p, i), r, r.done \ p.done, QuietWords, NodeYields(d, e.at, i))
<1> DEFINE c == Running(p, i)
           r == CompileElem(d, h, p, i)
           s == MoveSource(d, h, c, i)
           x == MoveEnabled(d, h, s, i)
           on == EnabledIn(d, e.at, i)
<1>1. IsDiagram(d) /\ i \in DOMAIN d.nodes /\ h \in NodeCode(d) /\ IsEnv(d, e) /\ i \in Moves(d) /\ NodeFits(d, rank, i)
  BY DEF Sem, Fits, Moves
<1>2. c \in Result(d) /\ c.done = p.done \cup {i}
  BY <1>1, ProgressResult, RunningTyped
<1> HIDE DEF c
<1>3. CompileMove(d, h, c, i) = MoveEnd(d, x, i)
  BY <1>1, <1>2, MoveTyped
<1>4. r = MoveEnd(d, x, i)
  BY <1>1, <1>3, ElemCases DEF c
<1>5. x \in Result(d) /\ Effects(d, e, c, x, QuietWords, StartRel(d, i, on)) /\ (d.nodes[i].ins = <<>> => on)
  BY <1>1, <1>2, StartBrings
<1> HIDE DEF x, r, on
<1>6. Brings(d, e, c, r, (r.done \ c.done) \cup {i}, QuietWords, NodeYields(d, e.at, i))
  BY <1>1, <1>2, <1>4, <1>5, MoveEndBrings DEF on
<1>7. (r.done \ c.done) \cup {i} = r.done \ p.done
  <2>1. c.done \subseteq r.done
    BY <1>6 DEF Brings
  <2> QED BY <1>2, <2>1
<1> QED BY <1>6, <1>7 DEF c, r

(***************************************************************************)
(* Compare boxes.                                                          *)
(***************************************************************************)

\* A compare box whose code does not depend on what is compiled first.
CmpPlain(d, i) ==
  /\ Readers(d, Out(i)) = {} \/ ~(Fanout(d, Eno(i)) > 0)
  /\ ~(Fanout(d, Eno(i)) > 0) => \A k \in DOMAIN d.nodes[i].ins : ~Is(d, d.nodes[i].ins[k].pin[1], Boxes)
  /\ Fanout(d, Out(i)) > 0
\* The result is in VKE, and BIE says whether the box is enabled.
GatedRel(d, V, i) ==
  {x \in Words \X Words :
     /\ x[2].parens = x[1].parens /\ x[2].sw.VKE = V[Out(i)]
     /\ Fanout(d, Eno(i)) > 0 /\ d.nodes[i].ins # <<>> => x[2].bie = V[Eno(i)]}
\* Node i is a compare box; its result is v and its EN is on.
CmpAt(d, rank, N, e, h, i, v, on) ==
  /\ Sem(d, rank, N, e, h, i) /\ Is(d, i, {"CMP"}) /\ TakesENO(d, i) /\ CmpPlain(d, i)
  /\ v = e.values[Out(i)] /\ on = EnabledIn(d, e.at, i)

LEMMA CmpFacts ==
  ASSUME NEW d, NEW rank, NEW N, NEW e, NEW h, NEW i, NEW v, NEW on, CmpAt(d, rank, N, e, h, i, v, on)
  PROVE  /\ IsDiagram(d) /\ i \in DOMAIN d.nodes /\ h \in NodeCode(d) /\ NodeFits(d, rank, i) /\ Is(d, i, Boxes)
         /\ IsEnv(d, e) /\ v \in BOOLEAN /\ on \in BOOLEAN
         /\ e.at[Out(i)] = (v /\ on) /\ e.at[Eno(i)] = on
         /\ d.nodes[i].ins = <<>> => on
         /\ d.nodes[i].ins # <<>> => on = e.at[d.nodes[i].ins[1].pin]
         /\ PinsOf(d, i) = {Out(i), Eno(i)} /\ ~Is(d, i, Booleans)
         /\ Out(i) \in PinsOf(d, i) /\ Eno(i) \in PinsOf(d, i)
         /\ Insn("CMP", Out(i)) \in InsnsOf(d) /\ Plain("SAVE") \in InsnsOf(d)
         /\ Insn("U", BIE) \in InsnsOf(d) /\ Plain("SET") \in InsnsOf(d)
<1>1. /\ IsDiagram(d) /\ i \in DOMAIN d.nodes /\ h \in NodeCode(d) /\ NodeFits(d, rank, i)
      /\ IsEnv(d, e) /\ Fits(d, rank, N) /\ Is(d, i, {"CMP"}) /\ TakesENO(d, i)
  BY DEF CmpAt, Sem, Fits
<1>2. Is(d, i, Boxes) /\ PinsOf(d, i) = {Out(i), Eno(i)} /\ ~Is(d, i, Booleans)
  BY <1>1, PinsOfKinds
<1>3. v = e.values[Out(i)] /\ on = EnabledIn(d, e.at, i)
  BY DEF CmpAt
<1>4. v \in BOOLEAN
  <2>1. Out(i) \in InputsOf(d)
    BY <1>1 DEF InputsOf, Compares
  <2> QED BY <1>1, <1>3, <2>1 DEF IsEnv
<1>5. on \in BOOLEAN
  <2>1. EnabledIn(d, e.at, i) \in BOOLEAN
    BY DEF EnabledIn
  <2> QED BY <1>3, <2>1
<1>6. e.at[Out(i)] = (v /\ on) /\ e.at[Eno(i)] = on
  BY <1>1, <1>2, <1>3, BoxPins
<1>7. /\ d.nodes[i].ins = <<>> => on
      /\ d.nodes[i].ins # <<>> => on = e.at[d.nodes[i].ins[1].pin]
  <2>1. Env(d, e.values, e.at)
    BY <1>1 DEF IsEnv
  <2>2. /\ d.nodes[i].ins = <<>> => EnabledIn(d, e.at, i)
        /\ d.nodes[i].ins # <<>> => EnabledIn(d, e.at, i) = e.at[d.nodes[i].ins[1].pin]
    BY <1>1, <1>2, <2>1, BoxEnabled
  <2> QED BY <1>3, <2>2
<1>8. /\ Insn("CMP", Out(i)) \in InsnsOf(d) /\ Plain("SAVE") \in InsnsOf(d)
      /\ Insn("U", BIE) \in InsnsOf(d) /\ Plain("SET") \in InsnsOf(d)
  BY <1>1, CmpBodyTyped
<1> QED BY <1>1, <1>2, <1>4, <1>5, <1>6, <1>7, <1>8

\* The bits behind a comparison.
Compared(v) ==
  {x \in Words \X Words : x[2].sw.VKE = v /\ x[2].sw.NER /\ ~x[2].sw.OR /\ x[2].parens = x[1].parens}
LEMMA ComparedWords ==
  ASSUME NEW v \in BOOLEAN, NEW w \in Words, NEW w2 \in Words, <<w, w2>> \in ComparedTo(v)
  PROVE  <<w, w2>> \in Compared(v) /\ w2.bie = w.bie /\ w2.parens = w.parens
<1>1. w2.sw = [Ended(v) EXCEPT !.NER = TRUE] /\ w2.bie = w.bie /\ w2.parens = w.parens
  BY DEF ComparedTo
<1>2. w2.sw.VKE = v /\ w2.sw.NER /\ ~w2.sw.OR
  BY <1>1 DEF Ended
<1> QED BY <1>1, <1>2 DEF Compared
LEMMA UntilAnd ==
  ASSUME NEW s \in Bits, NEW v \in BOOLEAN, NEW b \in BOOLEAN, s.VKE = v, s.NER, ~s.OR
  PROVE  Operate("U", s, b).VKE = (v /\ b)
BY OperateJoins DEF Booleans

SavedRel(on) ==
  {x \in Words \X Words : x[2].sw.VKE = on /\ x[2].bie = on /\ x[2].parens = x[1].parens}
ComparedSaved(v, on) == {x \in Words \X Words : x \in Compared(v) /\ x[2].bie = on}

LEMMA EmitThree ==
  ASSUME NEW d, NEW c \in Result(d), NEW s1 \in InsnsOf(d), NEW s2 \in InsnsOf(d), NEW s3 \in InsnsOf(d)
  PROVE  Emit(c, <<s1, s2, s3>>) = Emit(Emit(Emit(c, <<s1>>), <<s2>>), <<s3>>)
<1> DEFINE a1 == <<s1>>
           a2 == <<s2>>
           a3 == <<s3>>
           a12 == <<s1, s2>>
           a123 == <<s1, s2, s3>>
<1>1. a1 \in Seq(InsnsOf(d)) /\ a2 \in Seq(InsnsOf(d)) /\ a3 \in Seq(InsnsOf(d)) /\ a12 \in Seq(InsnsOf(d))
  OBVIOUS
<1>2. a1 \o a2 = a12 /\ a12 \o a3 = a123
  BY Tuple11, Tuple21
<1> HIDE DEF a1, a2, a3, a12, a123
<1>3. Emit(Emit(c, a1), a2) = Emit(c, a1 \o a2)
  BY <1>1, EmitTwice
<1>4. Emit(Emit(c, a12), a3) = Emit(c, a12 \o a3)
  BY <1>1, EmitTwice
<1>5. Emit(Emit(Emit(c, a1), a2), a3) = Emit(c, a123)
  BY <1>2, <1>3, <1>4
<1> QED BY <1>5 DEF a1, a2, a3, a123

\* EN and ENO are connected: BIE keeps what is at EN.
LEMMA GatedSaved ==
  ASSUME NEW d, NEW rank, NEW N, NEW e, NEW h, NEW i, NEW v, NEW on, CmpAt(d, rank, N, e, h, i, v, on),
         NEW c \in Result(d), d.nodes[i].ins # <<>>, Fanout(d, Eno(i)) > 0
  PROVE  LET r == CmpGated(d, h, c, i)
         IN r \in Result(d) /\ Effects(d, e, c, r, QuietWords, GatedRel(d, e.at, i))
<1> DEFINE k == CompileConn(d, h, c, "U", d.nodes[i].ins[1].pin)
           s1 == Plain("SAVE")
           s2 == Insn("CMP", Out(i))
           s3 == Insn("U", BIE)
           z1 == Emit(k, <<s1>>)
           z2 == Emit(z1, <<s2>>)
           z3 == Emit(z2, <<s3>>)
           G == GatedRel(d, e.at, i)
           P == QuietWords
           B == ComparedSaved(v, on)
<1>1. /\ IsDiagram(d) /\ i \in DOMAIN d.nodes /\ Is(d, i, Boxes) /\ IsEnv(d, e)
      /\ v \in BOOLEAN /\ on \in BOOLEAN /\ e.at[Out(i)] = (v /\ on) /\ e.at[Eno(i)] = on
      /\ on = e.at[d.nodes[i].ins[1].pin]
      /\ s1 \in InsnsOf(d) /\ s2 \in InsnsOf(d) /\ s3 \in InsnsOf(d)
  BY CmpFacts
<1>2. Sem(d, rank, N, e, h, i) /\ v = e.values[Out(i)] /\ Is(d, i, {"CMP"})
  BY DEF CmpAt
<1>3. k \in Result(d) /\ Effects(d, e, c, k, P, Yields(on))
  <2>1. k \in Result(d) /\ Effects(d, e, c, k, QuietWords, Yields(e.at[d.nodes[i].ins[1].pin]))
    BY <1>1, <1>2, EnBrings
  <2> QED BY <1>1, <2>1
<1>4. CmpGated(d, h, c, i) = Emit(k, <<s1, s2, s3>>)
  BY DEF CmpGated
<1> HIDE DEF k, s1, s3
<1>5. z1 \in Result(d) /\ Effects(d, e, k, z1, Words, SavesBie)
  BY <1>1, <1>3, EmitOne, SaveBrings, DoesEmit DEF s1
<1> HIDE DEF z1
<1>6. z2 \in Result(d) /\ Effects(d, e, z1, z2, Words, ComparedTo(v))
  <2>1. Brings(d, e, z1, z2, {}, Words, ComparedTo(e.values[Out(i)]))
    BY <1>1, <1>2, <1>5, CmpBrings
  <2> HIDE DEF s2
  <2> QED BY <1>1, <1>2, <1>5, <2>1, EmitOne, DoesEmit
<1> HIDE DEF z2, s2
<1>7. z3 \in Result(d) /\ Effects(d, e, z2, z3, Words, LoadsBie)
  BY <1>1, <1>6, EmitOne, BieBrings, DoesEmit DEF s3
<1>8. Emit(k, <<s1, s2, s3>>) = z3
  <2>1. k \in Result(d) /\ s1 \in InsnsOf(d) /\ s2 \in InsnsOf(d) /\ s3 \in InsnsOf(d)
    BY <1>1, <1>3
  <2>2. Emit(k, <<s1, s2, s3>>) = Emit(Emit(Emit(k, <<s1>>), <<s2>>), <<s3>>)
    BY <2>1, EmitThree
  <2> QED BY <2>2 DEF z2, z1
<1> HIDE DEF z3
<1>9. Chains(P, Yields(on), Words, SavesBie, SavedRel(on))
  BY DEF Chains, Yields, SavesBie, SavedRel
<1>10. Effects(d, e, c, z1, P, SavedRel(on))
  BY <1>3, <1>5, <1>9, DoesNext
<1>11. Chains(P, SavedRel(on), Words, ComparedTo(v), B)
  <2> SUFFICES ASSUME NEW w \in Words, NEW w2 \in Words, NEW w3 \in Words, <<w, w2>> \in SavedRel(on),
                      <<w2, w3>> \in ComparedTo(v)
               PROVE  <<w, w3>> \in B
    BY DEF Chains
  <2>1. <<w2, w3>> \in Compared(v) /\ w3.bie = w2.bie /\ w3.parens = w2.parens
    BY <1>1, ComparedWords
  <2>2. w2.bie = on /\ w2.parens = w.parens
    BY DEF SavedRel
  <2> QED BY <2>1, <2>2 DEF ComparedSaved, Compared
<1>12. Effects(d, e, c, z2, P, B)
  <2> HIDE DEF B
  <2> QED BY <1>6, <1>10, <1>11, DoesNext
<1>13. Chains(P, B, Words, LoadsBie, G)
  <2> SUFFICES ASSUME NEW w \in Words, NEW w2 \in Words, NEW w3 \in Words, <<w, w2>> \in B,
                      <<w2, w3>> \in LoadsBie
               PROVE  <<w, w3>> \in G
    BY DEF Chains
  <2>1. w2.sw.VKE = v /\ w2.sw.NER /\ ~w2.sw.OR /\ w2.parens = w.parens /\ w2.bie = on /\ w2.sw \in Bits
    BY DEF ComparedSaved, Compared, Words
  <2>2. w3.sw = Operate("U", w2.sw, on) /\ w3.bie = on /\ w3.parens = w.parens
    BY <2>1 DEF LoadsBie
  <2>3. w3.sw.VKE = (v /\ on)
    BY <1>1, <2>1, <2>2, UntilAnd
  <2> QED BY <1>1, <2>2, <2>3 DEF GatedRel
<1> HIDE DEF B, G, P
<1>14. Effects(d, e, c, z3, P, G)
  BY <1>7, <1>12, <1>13, DoesNext
<1> QED BY <1>4, <1>7, <1>8, <1>14 DEF P, G

\* There is no EN, or nothing wants ENO.
LEMMA GatedOther ==
  ASSUME NEW d, NEW rank, NEW N, NEW e, NEW h, NEW i, NEW v, NEW on, CmpAt(d, rank, N, e, h, i, v, on),
         NEW c \in Result(d), d.nodes[i].ins = <<>> \/ ~(Fanout(d, Eno(i)) > 0)
  PROVE  LET r == CmpGated(d, h, c, i)
         IN r \in Result(d) /\ Effects(d, e, c, r, QuietWords, GatedRel(d, e.at, i))
<1> DEFINE s2 == Insn("CMP", Out(i))
           z == Emit(c, <<s2>>)
           pin == d.nodes[i].ins[1].pin
           k == CompileConn(d, h, z, "U", pin)
           G == GatedRel(d, e.at, i)
           P == QuietWords
<1>1. /\ IsDiagram(d) /\ i \in DOMAIN d.nodes /\ Is(d, i, Boxes) /\ IsEnv(d, e) /\ NodeFits(d, rank, i)
      /\ v \in BOOLEAN /\ on \in BOOLEAN /\ e.at[Out(i)] = (v /\ on) /\ e.at[Eno(i)] = on
      /\ (d.nodes[i].ins = <<>> => on) /\ (d.nodes[i].ins # <<>> => on = e.at[pin])
      /\ s2 \in InsnsOf(d)
  BY CmpFacts
<1>2. Sem(d, rank, N, e, h, i) /\ v = e.values[Out(i)] /\ Is(d, i, {"CMP"}) /\ CmpPlain(d, i)
  BY DEF CmpAt
<1>3. z \in Result(d) /\ Effects(d, e, c, z, Words, ComparedTo(v))
  <2>1. Brings(d, e, c, z, {}, Words, ComparedTo(e.values[Out(i)]))
    BY <1>1, <1>2, CmpBrings
  <2> HIDE DEF s2
  <2> QED BY <1>1, <1>2, <2>1, EmitOne, DoesEmit
<1>4. P \subseteq Words
  BY DEF QuietWords
<1>5. CASE d.nodes[i].ins = <<>>
  <2>1. CmpGated(d, h, c, i) = z
    BY <1>5 DEF CmpGated
  <2>2. ASSUME NEW w \in Words, NEW w2 \in Words, <<w, w2>> \in ComparedTo(v) PROVE <<w, w2>> \in G
    <3>1. w2.sw.VKE = v /\ w2.parens = w.parens
      BY <1>1, <2>2, ComparedWords DEF Compared
    <3>2. v = e.at[Out(i)]
      BY <1>1, <1>5
    <3> QED BY <1>5, <3>1, <3>2 DEF GatedRel
  <2> HIDE DEF z, G, P
  <2>3. Effects(d, e, c, z, P, G)
    BY <1>3, <1>4, <2>2, DoesWeaken
  <2> QED BY <1>3, <2>1, <2>3 DEF P, G
<1>6. CASE d.nodes[i].ins # <<>>
  <2>0. ~(Fanout(d, Eno(i)) > 0)
    BY <1>6
  <2>1. CmpGated(d, h, c, i) = k
    BY <1>6, <2>0 DEF CmpGated
  <2>2. 1 \in DOMAIN d.nodes[i].ins
    BY <1>1, <1>6, BoxFacts
  <2>3. ~Is(d, pin[1], Boxes)
    BY <1>2, <2>0, <2>2 DEF CmpPlain
  <2>4. "U" \in Classes
    BY DEF Classes
  <2> HIDE DEF z
  <2>5. ConnDoes(d, e, z, k, "U", pin)
    BY <1>2, <1>3, <2>2, <2>4, ConnBrings
  <2> HIDE DEF k
  <2>6. k \in Result(d) /\ Effects(d, e, z, k, Words, Operated("U", e.at[pin]))
    BY <2>3, <2>5 DEF ConnDoes, Effects
  <2>7. Effects(d, e, z, k, Words, Operated("U", on))
    BY <1>1, <1>6, <2>6
  <2>8. Chains(P, ComparedTo(v), Words, Operated("U", on), G)
    <3> SUFFICES ASSUME NEW w \in Words, NEW w2 \in Words, NEW w3 \in Words, <<w, w2>> \in ComparedTo(v),
                        <<w2, w3>> \in Operated("U", on)
                 PROVE  <<w, w3>> \in G
      BY DEF Chains
    <3>1. w2.sw.VKE = v /\ w2.sw.NER /\ ~w2.sw.OR /\ w2.parens = w.parens /\ w2.sw \in Bits
      BY <1>1, ComparedWords DEF Compared, Words
    <3>2. w3.sw = Operate("U", w2.sw, on) /\ w3.parens = w.parens
      BY <3>1 DEF Operated
    <3>3. w3.sw.VKE = (v /\ on)
      BY <1>1, <3>1, <3>2, UntilAnd
    <3> QED BY <1>1, <2>0, <3>2, <3>3 DEF GatedRel
  <2>9. Effects(d, e, c, z, P, ComparedTo(v))
    <3>1. \A w, w2 \in Words : w \in P /\ <<w, w2>> \in ComparedTo(v) => <<w, w2>> \in ComparedTo(v)
      OBVIOUS
    <3> HIDE DEF P
    <3> QED BY <1>3, <1>4, <3>1, DoesWeaken
  <2> HIDE DEF P, G
  <2>10. Effects(d, e, c, k, P, G)
    BY <2>7, <2>8, <2>9, DoesNext
  <2> QED BY <2>1, <2>6, <2>10 DEF P, G
<1> QED BY <1>5, <1>6

\* The result has been saved.
OutRel(d, V, i) ==
  {x \in Words \X Words :
     /\ x[2].parens = x[1].parens /\ Quiet(x[2].sw) /\ x[2].sw.VKE = V[Out(i)]
     /\ Fanout(d, Eno(i)) > 0 /\ d.nodes[i].ins # <<>> => x[2].bie = V[Eno(i)]}
LEMMA OutSaved ==
  ASSUME NEW d, NEW rank, NEW N, NEW e, NEW h, NEW i, NEW v, NEW on, CmpAt(d, rank, N, e, h, i, v, on),
         NEW c, NEW g \in Result(d), Effects(d, e, c, g, QuietWords, GatedRel(d, e.at, i))
  PROVE  LET r == StoreBoxOutput(d, g, Out(i))
         IN r \in Result(d) /\ Effects(d, e, c, r, QuietWords, OutRel(d, e.at, i))
<1> DEFINE r == StoreBoxOutput(d, g, Out(i))
           G == GatedRel(d, e.at, i)
           R == OutRel(d, e.at, i)
           W == Valued(e.at[Out(i)])
           K == Keeps(Fanout(d, Out(i)) > 0)
           P == QuietWords
<1>1. IsDiagram(d) /\ i \in DOMAIN d.nodes /\ Is(d, i, Boxes) /\ IsEnv(d, e) /\ Out(i) \in PinsOf(d, i)
  BY CmpFacts
<1>2. Fanout(d, Out(i)) > 0
  BY DEF CmpAt, CmpPlain
<1>3. r \in Result(d) /\ r.done = g.done /\ Brings(d, e, g, r, {}, W, K)
  BY <1>1, OutputBrings
<1>4. Chains(P, G, W, K, R)
  <2> SUFFICES ASSUME NEW w \in Words, NEW w2 \in Words, NEW w3 \in Words, <<w, w2>> \in G
               PROVE  w2 \in W /\ (<<w2, w3>> \in K => <<w, w3>> \in R)
    BY DEF Chains
  <2>1. /\ w2.parens = w.parens /\ w2.sw.VKE = e.at[Out(i)]
        /\ Fanout(d, Eno(i)) > 0 /\ d.nodes[i].ins # <<>> => w2.bie = e.at[Eno(i)]
    BY DEF GatedRel
  <2>2. w2 \in W
    BY <2>1 DEF Valued
  <2>3. ASSUME <<w2, w3>> \in K PROVE <<w, w3>> \in R
    <3>1. w3.sw.VKE = w2.sw.VKE /\ w3.bie = w2.bie /\ w3.parens = w2.parens /\ Quiet(w3.sw)
      BY <1>2, <2>3 DEF Keeps
    <3> QED BY <2>1, <3>1 DEF OutRel
  <2> QED BY <2>2, <2>3
<1> HIDE DEF G, R, W, K, P, r
<1>5. Effects(d, e, g, r, W, K)
  BY <1>3, DoesOne
<1>6. Effects(d, e, c, g, P, G)
  BY DEF P, G
<1>7. Effects(d, e, c, r, P, R)
  BY <1>4, <1>5, <1>6, DoesNext
<1> QED BY <1>3, <1>7 DEF P, R, r

EnoRel(d, V, i) == {x \in Words \X Words : x[2].parens = x[1].parens /\ x[2].sw.VKE = V[Eno(i)]}
LEMMA EnoLoaded ==
  ASSUME NEW d, NEW rank, NEW N, NEW e, NEW h, NEW i, NEW v, NEW on, CmpAt(d, rank, N, e, h, i, v, on),
         NEW c, NEW g \in Result(d), Effects(d, e, c, g, QuietWords, OutRel(d, e.at, i)), Fanout(d, Eno(i)) > 0
  PROVE  LET r == Emit(g, <<IF d.nodes[i].ins # <<>> THEN Insn("U", BIE) ELSE Plain("SET")>>)
         IN r \in Result(d) /\ Effects(d, e, c, r, QuietWords, EnoRel(d, e.at, i))
<1> DEFINE R == OutRel(d, e.at, i)
           E2 == EnoRel(d, e.at, i)
           P == QuietWords
           u == Emit(g, <<Insn("U", BIE)>>)
           t == Emit(g, <<Plain("SET")>>)
<1>1. /\ IsDiagram(d) /\ Insn("U", BIE) \in InsnsOf(d) /\ Plain("SET") \in InsnsOf(d)
      /\ on \in BOOLEAN /\ e.at[Eno(i)] = on /\ (d.nodes[i].ins = <<>> => on)
  BY CmpFacts
<1>2. Effects(d, e, c, g, P, R)
  OBVIOUS
<1>3. CASE d.nodes[i].ins # <<>>
  <2>1. u \in Result(d) /\ Effects(d, e, g, u, Words, LoadsBie)
    BY <1>1, EmitOne, BieBrings, DoesEmit
  <2>2. Chains(P, R, Words, LoadsBie, E2)
    <3> SUFFICES ASSUME NEW w \in Words, NEW w2 \in Words, NEW w3 \in Words, <<w, w2>> \in R,
                        <<w2, w3>> \in LoadsBie
                 PROVE  <<w, w3>> \in E2
      BY DEF Chains
    <3>1. w2.parens = w.parens /\ Quiet(w2.sw) /\ w2.bie = on /\ w2.sw \in Bits
      BY <1>1, <1>3 DEF OutRel, Words
    <3>2. w3.sw = Operate("U", w2.sw, on) /\ w3.parens = w.parens
      BY <3>1 DEF LoadsBie
    <3>3. w3.sw.VKE = on
      BY <1>1, <3>1, <3>2, OperateJoins DEF Booleans
    <3> QED BY <1>1, <3>2, <3>3 DEF EnoRel
  <2> HIDE DEF u, P, R, E2
  <2>3. Effects(d, e, c, u, P, E2)
    BY <1>2, <2>1, <2>2, DoesNext
  <2> QED BY <1>3, <2>1, <2>3 DEF u, P, E2
<1>4. CASE d.nodes[i].ins = <<>>
  <2>1. t \in Result(d) /\ Effects(d, e, g, t, Words, SetsVke)
    BY <1>1, EmitOne, SetBrings, DoesEmit
  <2>2. Chains(P, R, Words, SetsVke, E2)
    <3> SUFFICES ASSUME NEW w \in Words, NEW w2 \in Words, NEW w3 \in Words, <<w, w2>> \in R,
                        <<w2, w3>> \in SetsVke
                 PROVE  <<w, w3>> \in E2
      BY DEF Chains
    <3>1. w2.parens = w.parens
      BY DEF OutRel
    <3>2. w3.sw = Ended(TRUE) /\ w3.parens = w.parens
      BY <3>1 DEF SetsVke
    <3>3. w3.sw.VKE = TRUE
      BY <3>2 DEF Ended
    <3>4. e.at[Eno(i)] = TRUE
      BY <1>1, <1>4
    <3> QED BY <3>2, <3>3, <3>4 DEF EnoRel
  <2> HIDE DEF t, P, R, E2
  <2>3. Effects(d, e, c, t, P, E2)
    BY <1>2, <2>1, <2>2, DoesNext
  <2> QED BY <1>4, <2>1, <2>3 DEF t, P, E2
<1> QED BY <1>3, <1>4

LEMMA CmpEndBrings ==
  ASSUME NEW d, NEW rank, NEW N, NEW e, NEW h, NEW i, NEW v, NEW on, CmpAt(d, rank, N, e, h, i, v, on),
         NEW c, NEW g \in Result(d), Effects(d, e, c, g, QuietWords, GatedRel(d, e.at, i))
  PROVE  Effects(d, e, c, CmpEnd(d, g, i), QuietWords, NodeYields(d, e.at, i))
<1> DEFINE a == StoreBoxOutput(d, g, Out(i))
           b == Emit(a, <<IF d.nodes[i].ins # <<>> THEN Insn("U", BIE) ELSE Plain("SET")>>)
           r == StoreBoxOutput(d, b, Eno(i))
           E2 == EnoRel(d, e.at, i)
           R == NodeYields(d, e.at, i)
           A == OutRel(d, e.at, i)
           P == QuietWords
<1>1. /\ IsDiagram(d) /\ i \in DOMAIN d.nodes /\ Is(d, i, Boxes) /\ IsEnv(d, e) /\ Eno(i) \in PinsOf(d, i)
      /\ PinsOf(d, i) = {Out(i), Eno(i)} /\ ~Is(d, i, Booleans)
  BY CmpFacts
<1>2. a \in Result(d) /\ Effects(d, e, c, a, P, A)
  BY OutSaved
<1>3. CASE ~(Fanout(d, Eno(i)) > 0)
  <2>1. CmpEnd(d, g, i) = a
    BY <1>3 DEF CmpEnd
  <2>2. Readers(d, Eno(i)) = {}
    BY <1>1, <1>3, FanoutFacts
  <2>3. \A w, w2 \in Words : w \in P /\ <<w, w2>> \in A => <<w, w2>> \in R
    BY <1>1, <2>2 DEF OutRel, NodeYields
  <2>4. P \subseteq P
    OBVIOUS
  <2> HIDE DEF a, P, A, R
  <2>5. Effects(d, e, c, a, P, R)
    BY <1>2, <2>3, <2>4, DoesWeaken
  <2> QED BY <2>1, <2>5 DEF P, R
<1>4. CASE Fanout(d, Eno(i)) > 0
  <2> DEFINE W == Valued(e.at[Eno(i)])
             K == Keeps(Fanout(d, Eno(i)) > 0)
  <2>1. CmpEnd(d, g, i) = r
    BY <1>4 DEF CmpEnd
  <2> HIDE DEF a
  <2>2. b \in Result(d) /\ Effects(d, e, c, b, P, E2)
    BY <1>2, <1>4, EnoLoaded
  <2> HIDE DEF b
  <2>3. r.done = b.done /\ Brings(d, e, b, r, {}, W, K)
    BY <1>1, <2>2, OutputBrings
  <2>4. Readers(d, Out(i)) = {}
    BY <1>4 DEF CmpAt, CmpPlain
  <2>5. Chains(P, E2, W, K, R)
    <3> SUFFICES ASSUME NEW w \in Words, NEW w2 \in Words, NEW w3 \in Words, <<w, w2>> \in E2
                 PROVE  w2 \in W /\ (<<w2, w3>> \in K => <<w, w3>> \in R)
      BY DEF Chains
    <3>1. w2.parens = w.parens /\ w2.sw.VKE = e.at[Eno(i)]
      BY DEF EnoRel
    <3>2. w2 \in W
      BY <3>1 DEF Valued
    <3>3. ASSUME <<w2, w3>> \in K PROVE <<w, w3>> \in R
      <4>1. w3.sw.VKE = w2.sw.VKE /\ w3.parens = w2.parens /\ Quiet(w3.sw)
        BY <1>4, <3>3 DEF Keeps
      <4> QED BY <1>1, <2>4, <3>1, <4>1 DEF NodeYields
    <3> QED BY <3>2, <3>3
  <2> HIDE DEF r, P, E2, W, K, R
  <2>6. Effects(d, e, b, r, W, K)
    BY <2>3, DoesOne
  <2>7. Effects(d, e, c, r, P, R)
    BY <2>2, <2>5, <2>6, DoesNext
  <2> QED BY <2>1, <2>7 DEF P, R
<1> QED BY <1>3, <1>4

LEMMA CompareBrings ==
  ASSUME NEW d, NEW rank, NEW N, NEW e, NEW h, NEW i, Sem(d, rank, N, e, h, i), Is(d, i, {"CMP"}), TakesENO(d, i),
         CmpPlain(d, i), NEW p \in Progress(d), i \notin p.done
  PROVE  LET r == CompileElem(d, h, p, i)
         IN Brings(d, e, Running(p, i), r, r.done \ p.done, QuietWords, NodeYields(d, e.at, i))
<1> DEFINE c == Running(p, i)
           r == CompileElem(d, h, p, i)
           g == CmpGated(d, h, c, i)
           v == e.values[Out(i)]
           on == EnabledIn(d, e.at, i)
<1>1. CmpAt(d, rank, N, e, h, i, v, on)
  BY DEF CmpAt
<1>2. IsDiagram(d) /\ i \in DOMAIN d.nodes /\ h \in NodeCode(d) /\ NodeFits(d, rank, i)
  BY DEF Sem, Fits
<1>3. c \in Result(d) /\ i \notin Moves(d)
  BY <1>2, ProgressResult, RunningTyped, PinsOfKinds DEF Moves
<1>4. r = CompileCompare(d, h, c, i)
  BY <1>2, ElemCases
<1> HIDE DEF c, v, on
<1>5. r = CmpEnd(d, g, i)
  BY <1>2, <1>3, <1>4, CompareTyped
<1>6. g \in Result(d) /\ Effects(d, e, c, g, QuietWords, GatedRel(d, e.at, i))
  <2>1. CASE d.nodes[i].ins # <<>> /\ Fanout(d, Eno(i)) > 0
    BY <1>1, <1>3, <2>1, GatedSaved
  <2>2. CASE d.nodes[i].ins = <<>> \/ ~(Fanout(d, Eno(i)) > 0)
    BY <1>1, <1>3, <2>2, GatedOther
  <2> QED BY <2>1, <2>2
<1> HIDE DEF g, r
<1>7. Effects(d, e, c, r, QuietWords, NodeYields(d, e.at, i))
  BY <1>1, <1>5, <1>6, CmpEndBrings
<1>8. Brings(d, e, c, r, r.done \ p.done, QuietWords, NodeYields(d, e.at, i))
  BY <1>2, <1>3, <1>7, RunningDoes DEF c
<1> QED BY <1>8 DEF c, r

(***************************************************************************)
(* The entry points, one after the other, hence all that is compiled.      *)
(***************************************************************************)

\* The nodes of a diagram whose code does not depend on what is compiled first.
PlainNodes(d) ==
  (\A i \in DOMAIN d.nodes : TakesENO(d, i)) /\ (\A i \in Compares(d) : CmpPlain(d, i))

\* Whatever node is compiled, from whatever progress: what its instructions do.
LEMMA NodesPlay ==
  ASSUME NEW d, NEW rank, NEW N, Fits(d, rank, N), PlainNodes(d), NEW e, IsEnv(d, e)
  PROVE  \A i \in DOMAIN d.nodes : NodeBrings(d, e, Instructions(d), i)
<1> DEFINE h == Instructions(d)
           S == {n \in Nat : \A i \in DOMAIN d.nodes : rank[i] < n => NodeBrings(d, e, h, i)}
<1>1. /\ h \in NodeCode(d)
      /\ \A p \in Progress(d), i \in DOMAIN d.nodes : h[<<p, i>>] = CompileElem(d, h, p, i)
  BY InstructionsDefined
<1>2. N \in Nat /\ rank \in [DOMAIN d.nodes -> 0..N] /\ IsDiagram(d)
  BY DEF Fits
<1> HIDE DEF h
<1>3. 0 \in S
  BY <1>2
<1>4. ASSUME NEW n \in Nat, n \in S PROVE n + 1 \in S
  <2> SUFFICES ASSUME NEW i \in DOMAIN d.nodes, rank[i] < n + 1 PROVE NodeBrings(d, e, h, i)
    OBVIOUS
  <2>1. NodesBring(d, e, rank, h, i)
    <3> SUFFICES ASSUME NEW j \in DOMAIN d.nodes, rank[j] < rank[i] PROVE NodeBrings(d, e, h, j)
      BY DEF NodesBring
    <3>1. rank[j] \in Nat /\ rank[i] \in Nat
      BY <1>2
    <3>2. rank[j] < n
      BY <3>1
    <3> QED BY <1>4, <3>2
  <2>2. Sem(d, rank, N, e, h, i)
    BY <1>1, <2>1 DEF Sem
  <2>3. TakesENO(d, i) /\ (Is(d, i, {"CMP"}) => CmpPlain(d, i))
    BY DEF PlainNodes, Compares
  <2> SUFFICES ASSUME NEW p \in Progress(d), i \notin p.done
               PROVE  Brings(d, e, Running(p, i), h[<<p, i>>], h[<<p, i>>].done \ p.done, QuietWords, NodeYields(d, e.at, i))
    BY DEF NodeBrings
  <2> DEFINE r == CompileElem(d, h, p, i)
  <2>4. Brings(d, e, Running(p, i), r, r.done \ p.done, QuietWords, NodeYields(d, e.at, i))
    <3>1. CASE Is(d, i, Booleans)
      BY <2>2, <3>1, GateBrings
    <3>2. CASE Is(d, i, {"MOVE"})
      BY <2>2, <2>3, <3>2, MoveBrings
    <3>3. CASE Is(d, i, {"CMP"})
      BY <2>2, <2>3, <3>3, CompareBrings
    <3> QED BY <1>2, <3>1, <3>2, <3>3, PinsOfKinds
  <2>5. h[<<p, i>>] = r
    BY <1>1
  <2> HIDE DEF r
  <2> QED BY <2>4, <2>5
<1>5. Nat \subseteq S
  <2> HIDE DEF S
  <2> QED BY <1>3, <1>4, SetInduction
<1> SUFFICES ASSUME NEW i \in DOMAIN d.nodes PROVE NodeBrings(d, e, h, i)
  BY DEF h
<1>6. rank[i] + 1 \in Nat /\ rank[i] < rank[i] + 1
  BY <1>2
<1>7. rank[i] + 1 \in S
  BY <1>5, <1>6
<1> QED BY <1>6, <1>7

\* An entry point: a diagram, a compilation of it, and what is at its pins.
Entry(d, c, e) ==
  IsOrdered(d) /\ CompilationInv(d, c) /\ ~LoadBoth(d) /\ PlainNodes(d) /\ IsEnv(d, e)

LEMMA NodeEntry ==
  ASSUME NEW d, NEW c, NEW e, Entry(d, c, e), NEW i \in DOMAIN d.nodes, i \notin c.done
  PROVE  /\ CompileNode(d, c, i) \in Result(d) /\ NodeAdded(d, c, i, CompileNode(d, c, i))
         /\ Effects(d, e, c, CompileNode(d, c, i), QuietWords, NodeYields(d, e.at, i))
<1> DEFINE h == Instructions(d)
           r == CompileNode(d, c, i)
<1>1. PICK rank, N : Fits(d, rank, N)
  BY DEF Entry, IsOrdered
<1>2. PICK K : Partly(d, c, K, {})
  BY DEF Entry, CompilationInv
<1>3. c \in Result(d) /\ PlainNodes(d) /\ IsEnv(d, e) /\ IsOrdered(d)
  BY <1>2 DEF Partly, Entry
<1>4. NodeAdded(d, c, i, r)
  BY <1>1, <1>2, NodePartly
<1>5. r \in Result(d)
  BY <1>3, NodeTyped
<1>6. h \in NodeCode(d) /\ NodeBrings(d, e, h, i)
  BY <1>1, <1>3, InstructionsDefined, NodesPlay
<1>7. r = Compiled(h, c, i)
  BY DEF CompileNode
<1> HIDE DEF h, r
<1>8. Effects(d, e, c, r, QuietWords, NodeYields(d, e.at, i))
  BY <1>3, <1>6, <1>7, CompiledBrings DEF Effects
<1> QED BY <1>4, <1>5, <1>8 DEF r

\* The data of a MOVE.
LEMMA TransferBrings ==
  ASSUME NEW d, NEW c, NEW e, Entry(d, c, e), NEW i \in Moves(d), i \notin c.done
  PROVE  Effects(d, e, c, CompileNode(d, c, i), QuietWords, QuietRel)
<1> DEFINE r == CompileNode(d, c, i)
<1>1. IsDiagram(d)
  BY DEF Entry, IsOrdered, Fits
<1>2. i \in DOMAIN d.nodes /\ Is(d, i, Boxes)
  BY <1>1, PinsOfKinds DEF Moves
<1>3. Effects(d, e, c, r, QuietWords, NodeYields(d, e.at, i))
  BY <1>2, NodeEntry
<1>4. \A w, w2 \in Words : w \in QuietWords /\ <<w, w2>> \in NodeYields(d, e.at, i) => <<w, w2>> \in QuietRel
  BY <1>2 DEF NodeYields, QuietRel
<1>5. QuietWords \subseteq QuietWords
  OBVIOUS
<1> HIDE DEF r
<1>6. Effects(d, e, c, r, QuietWords, QuietRel)
  BY <1>3, <1>4, <1>5, DoesWeaken
<1> QED BY <1>6 DEF r

\* What the first step of an entry point leaves: the value of the pin, if the
\* operand has not been stored yet.
FirstRel(there, v) ==
  {x \in Words \X Words :
     /\ x[2].parens = x[1].parens
     /\ there => Quiet(x[2].sw)
     /\ ~there => x[2].sw.VKE = v}
\* It has been done from c, and the result is f.
FirstDone(d, e, c, f, s) ==
  /\ f \in Result(d) /\ (s \in f.stored => Is(d, d.stores[s][1], Boxes))
  /\ Effects(d, e, c, f, QuietWords, FirstRel(s \in f.stored, e.at[d.stores[s]]))
LoadsValue(d, e, c, f, s) ==
  /\ c \in Result(d) /\ f \in Result(d) /\ f.stored = c.stored /\ f.done = c.done /\ s \notin c.stored
  /\ e.at[d.stores[s]] \in BOOLEAN
  /\ Brings(d, e, c, f, {}, Words, Operated("U", e.at[d.stores[s]]))

Loading(d, c, f) == f \in Result(d) /\ f.stored = c.stored /\ f.done = c.done

LEMMA FirstLoads ==
  ASSUME NEW d, NEW e, NEW c, NEW f, NEW s, LoadsValue(d, e, c, f, s)
  PROVE  FirstDone(d, e, c, f, s)
<1> DEFINE v == e.at[d.stores[s]]
<1> USE DEF LoadsValue
<1>1. "U" \in Classes /\ Inverts("U") = FALSE /\ v \in BOOLEAN
  BY DEF Classes, Inverts
<1>2. (v # Inverts("U")) = v
  BY <1>1
<1>3. Effects(d, e, c, f, Words, Operated("U", v))
  BY DoesOne
<1>4. s \notin f.stored
  OBVIOUS
<1> HIDE DEF v, LoadsValue
<1>5. ASSUME NEW w \in Words, NEW w2 \in Words, w \in QuietWords, <<w, w2>> \in Operated("U", v)
      PROVE  <<w, w2>> \in FirstRel(s \in f.stored, v)
  <2>1. w.sw \in Bits /\ Quiet(w.sw) /\ w2.sw = Operate("U", w.sw, v) /\ w2.parens = w.parens
    BY <1>5 DEF Words, QuietWords, Operated
  <2>2. Operate("U", w.sw, v).VKE = v
    BY <1>1, <1>2, <2>1, QuietOperate
  <2> QED BY <1>4, <2>1, <2>2 DEF FirstRel
<1>6. QuietWords \subseteq Words
  BY DEF QuietWords
<1>7. Effects(d, e, c, f, QuietWords, FirstRel(s \in f.stored, v))
  BY <1>3, <1>5, <1>6, DoesWeaken
<1> QED BY <1>4, <1>7 DEF FirstDone, LoadsValue, v

LEMMA FirstNode ==
  ASSUME NEW d, NEW c, NEW e, Entry(d, c, e), NEW s \in DOMAIN d.stores, s \notin c.stored,
         d.stores[s][1] # 0, d.stores[s][1] \notin c.done
  PROVE  FirstDone(d, e, c, CompileNode(d, c, d.stores[s][1]), s)
<1> DEFINE pin == d.stores[s]
           j == pin[1]
           f == CompileNode(d, c, j)
           v == e.at[pin]
<1>1. IsDiagram(d)
  BY DEF Entry, IsOrdered, Fits
<1>2. pin \in GridPins(d) /\ s \in StoredTo(d, pin)
  BY <1>1, WiredPins DEF StoredTo
<1>3. j \in DOMAIN d.nodes /\ pin \in PinsOf(d, j)
  BY <1>1, <1>2, KindsOfPins
<1>4. f \in Result(d) /\ NodeAdded(d, c, j, f) /\ Effects(d, e, c, f, QuietWords, NodeYields(d, e.at, j))
  BY <1>3, NodeEntry
<1>5. CASE Is(d, j, Booleans)
  <2>1. ~Is(d, j, Boxes) /\ pin = Out(j)
    BY <1>1, <1>3, <1>5, PinsOfKinds
  <2>2. s \notin f.stored
    BY <1>4, <2>1 DEF NodeAdded
  <2> HIDE DEF f, j
  <2>3. \A w, w2 \in Words : w \in QuietWords /\ <<w, w2>> \in NodeYields(d, e.at, j)
          => <<w, w2>> \in FirstRel(s \in f.stored, v)
    BY <1>5, <2>1, <2>2 DEF NodeYields, FirstRel
  <2>4. QuietWords \subseteq QuietWords
    OBVIOUS
  <2> HIDE DEF v
  <2>5. Effects(d, e, c, f, QuietWords, FirstRel(s \in f.stored, v))
    BY <1>4, <2>3, <2>4, DoesWeaken
  <2> QED BY <1>4, <2>2, <2>5 DEF FirstDone, v, f, j
<1>6. CASE Is(d, j, Boxes)
  <2>1. s \in f.stored
    <3>1. PICK K2 : Partly(d, f, K2, {}) /\ j \in f.done
      BY <1>4, <1>6 DEF NodeAdded
    <3>2. Settled(d, f, K2, j)
      BY <3>1 DEF Partly
    <3>3. StoredTo(d, pin) \subseteq f.stored
      BY <1>3, <1>6, <3>2 DEF Settled
    <3> QED BY <1>2, <3>3
  <2> HIDE DEF f, j
  <2>2. \A w, w2 \in Words : w \in QuietWords /\ <<w, w2>> \in NodeYields(d, e.at, j)
          => <<w, w2>> \in FirstRel(s \in f.stored, v)
    BY <1>6, <2>1 DEF NodeYields, FirstRel
  <2>3. QuietWords \subseteq QuietWords
    OBVIOUS
  <2> HIDE DEF v
  <2>4. Effects(d, e, c, f, QuietWords, FirstRel(s \in f.stored, v))
    BY <1>4, <2>2, <2>3, DoesWeaken
  <2> QED BY <1>4, <1>6, <2>1, <2>4 DEF FirstDone, v, f, j
<1> QED BY <1>1, <1>3, <1>5, <1>6, PinsOfKinds

LEMMA LoadKeeps ==
  ASSUME NEW d, IsDiagram(d), NEW c \in Result(d), NEW class \in Classes, NEW pin \in Wired(d)
  PROVE  Loading(d, c, CompileLoad(c, class, pin)) /\ Loading(d, c, LoadFromTemp(c, class, pin))
<1>1. /\ LoadsOne(d, c, CompileLoad(c, class, pin), Insn(class, pin), {pin}, c.failed)
      /\ LoadsOne(d, c, LoadFromTemp(c, class, pin), Insn(class, Temp(pin)), {},
                  c.failed \/ pin \notin c.temps)
  BY LoadsAre
<1>2. ASSUME NEW r, NEW insn, NEW pins, NEW failed, LoadsOne(d, c, r, insn, pins, failed) PROVE Loading(d, c, r)
  BY <1>2 DEF LoadsOne, Loading
<1> QED BY <1>1, <1>2

LEMMA FirstBrings ==
  ASSUME NEW d, NEW c, NEW e, Entry(d, c, e), NEW s \in DOMAIN d.stores, s \notin c.stored
  PROVE  FirstDone(d, e, c, AssignFirst(d, c, s), s)
<1> DEFINE pin == d.stores[s]
           j == pin[1]
           f == AssignFirst(d, c, s)
<1>1. IsDiagram(d) /\ c \in Result(d) /\ IsEnv(d, e) /\ LoadedFor(d, c, {}) /\ ~LoadBoth(d)
  BY DEF Entry, IsOrdered, Fits, CompilationInv, Partly
<1>2. pin \in GridPins(d) /\ pin \in Wired(d) /\ s \in StoredTo(d, pin)
  BY <1>1, WiredPins DEF StoredTo
<1>3. "U" \in Classes /\ e.at[pin] \in BOOLEAN
  BY <1>1, <1>2 DEF Classes, IsEnv, Env
<1>4. CASE j = 0
  <2>1. pin \notin c.loaded
    <3> SUFFICES ASSUME pin \in c.loaded PROVE FALSE
      OBVIOUS
    <3>1. pin = Load(pin[2]) /\ pin[2] \in Loads
      BY <1>1, <1>2, <1>4, KindsOfPins
    <3>2. Readers(d, pin) # {}
      BY <1>1, <1>2 DEF LoadedFor
    <3> QED BY <1>1, <1>2, <3>1, <3>2 DEF LoadBoth
  <2>2. f = CompileLoad(c, "U", pin)
    BY <1>4, <2>1 DEF AssignFirst
  <2>5. Loading(d, c, CompileLoad(c, "U", pin)) /\ Loading(d, c, LoadFromTemp(c, "U", pin))
    <3> HIDE DEF pin
    <3> QED BY <1>1, <1>2, <1>3, LoadKeeps
  <2>3. f \in Result(d) /\ f.stored = c.stored /\ f.done = c.done
    <3> HIDE DEF pin, f
    <3> QED BY <2>2, <2>5 DEF Loading
  <2>4. Brings(d, e, c, f, {}, Words, Operated("U", e.at[pin]))
    BY <1>1, <1>2, <1>3, <1>4, <2>2, LoadBrings
  <2> HIDE DEF f
  <2>6. LoadsValue(d, e, c, f, s)
    BY <1>1, <1>3, <2>3, <2>4 DEF LoadsValue
  <2> QED BY <2>6, FirstLoads DEF f
<1>5. CASE j # 0 /\ j \notin c.done
  <2>1. f = CompileNode(d, c, j)
    BY <1>5 DEF AssignFirst
  <2> QED BY <1>5, <2>1, FirstNode
<1>6. CASE j # 0 /\ j \in c.done
  <2>2. f = LoadFromTemp(c, "U", pin)
    BY <1>6 DEF AssignFirst
  <2>5. Loading(d, c, CompileLoad(c, "U", pin)) /\ Loading(d, c, LoadFromTemp(c, "U", pin))
    <3> HIDE DEF pin
    <3> QED BY <1>1, <1>2, <1>3, LoadKeeps
  <2>3. f \in Result(d) /\ f.stored = c.stored /\ f.done = c.done
    <3> HIDE DEF pin, f
    <3> QED BY <2>2, <2>5 DEF Loading
  <2>4. Brings(d, e, c, f, {}, Words, Operated("U", e.at[pin]))
    BY <1>1, <1>2, <1>3, <1>6, <2>2, TempBrings
  <2> HIDE DEF f
  <2>6. LoadsValue(d, e, c, f, s)
    BY <1>1, <1>3, <2>3, <2>4 DEF LoadsValue
  <2> QED BY <2>6, FirstLoads DEF f
<1> QED BY <1>4, <1>5, <1>6

Storing(d, f, s, pin, kept, last) ==
  /\ IsDiagram(d) /\ f \in Result(d) /\ s \in DOMAIN d.stores /\ pin = d.stores[s]
  /\ kept = IF Is(d, pin[1], Booleans) /\ Fanout(d, pin) > 1
            THEN StoreToTemp(StoreAll(f, {s}), pin) ELSE StoreAll(f, {s})
  /\ last = StoreAll(kept, StoredTo(d, pin) \ {s})

LEMMA StoredBrings ==
  ASSUME NEW d, NEW e, NEW f, NEW s, NEW pin, NEW kept, NEW last, Storing(d, f, s, pin, kept, last)
  PROVE  last.done = f.done /\ Brings(d, e, f, last, {}, Valued(e.at[pin]), Keeps(TRUE))
<1> DEFINE one == {s}
           more == StoredTo(d, pin) \ {s}
           a == StoreAll(f, one)
           keep == Is(d, pin[1], Booleans) /\ Fanout(d, pin) > 1
           T1 == one \cup {}
           T2 == T1 \cup more
           Q1 == IF keep THEN {pin} ELSE {}
           Q2 == ({} \cup Q1) \cup {}
<1> USE DEF Storing
<1>1. pin \in GridPins(d) /\ pin \in Wired(d)
  BY WiredPins
<1>2. Is(d, pin[1], Booleans) => pin[1] # 0
  BY PinsOfKinds DEF Is
<1>3. Saves(d, f, a, one, {}) /\ a \in Result(d)
  <2>1. Saves(d, f, a, one, {})
    BY StoreAllSaves
  <2> QED BY <2>1 DEF Saves, Adds
<1> HIDE DEF a
<1>4. kept \in Result(d) /\ Saves(d, f, kept, T1, {} \cup Q1)
  <2>1. CASE keep
    <3>1. Saves(d, a, kept, {}, {pin})
      BY <1>1, <1>3, <2>1, StoreToTempSaves DEF a
    <3>2. Saves(d, f, kept, one \cup {}, {} \cup {pin})
      <4> HIDE DEF one
      <4> QED BY <1>3, <3>1, SavesTwice
    <3> QED BY <2>1, <3>1, <3>2 DEF Saves, Adds
  <2>2. CASE ~keep
    <3>1. kept = a
      BY <2>2 DEF a
    <3>2. T1 = one /\ {} \cup Q1 = {}
      BY <2>2
    <3> HIDE DEF T1, Q1, one
    <3> QED BY <1>3, <3>1, <3>2
  <2> QED BY <2>1, <2>2
<1>5. Saves(d, f, last, T2, Q2)
  <2>1. more \in SUBSET DOMAIN d.stores
    BY DEF StoredTo
  <2>2. Saves(d, kept, last, more, {})
    <3> HIDE DEF more
    <3>1. last = StoreAll(kept, more)
      BY DEF more
    <3> QED BY <1>4, <2>1, <3>1, StoreAllSaves
  <2> HIDE DEF T1, more, Q1
  <2> QED BY <1>4, <2>2, SavesTwice
<1>6. /\ \A t \in T2 : t \in DOMAIN d.stores /\ d.stores[t] = pin
      /\ \A p \in Q2 : p = pin /\ pin[1] # 0
      /\ (T2 # {} \/ Q2 # {}) = TRUE
  BY <1>2 DEF StoredTo
<1> HIDE DEF T2, Q2
<1>7. last.done = f.done
  BY <1>5 DEF Saves, Adds
<1>8. Brings(d, e, f, last, {}, Valued(e.at[pin]), Keeps(T2 # {} \/ Q2 # {}))
  BY <1>1, <1>5, <1>6, SavesBrings
<1> QED BY <1>6, <1>7, <1>8

LEMMA AssignBrings ==
  ASSUME NEW d, NEW c, NEW e, Entry(d, c, e), NEW s \in DOMAIN d.stores, s \notin c.stored
  PROVE  Effects(d, e, c, CompileAssign(d, c, s), QuietWords, QuietRel)
<1> DEFINE pin == d.stores[s]
           f == AssignFirst(d, c, s)
           kept == AssignKept(d, c, s)
           last == AssignLast(d, c, s)
           r == CompileAssign(d, c, s)
           v == e.at[pin]
           P == QuietWords
           F == FirstRel(s \in f.stored, v)
<1>1. IsDiagram(d)
  BY DEF Entry, IsOrdered, Fits
<1>2. FirstDone(d, e, c, f, s)
  BY FirstBrings
<1>3. f \in Result(d) /\ Effects(d, e, c, f, P, F)
  BY <1>2 DEF FirstDone
<1>4. CASE s \in f.stored
  <2>1. r = f
    BY <1>4, AssignCases
  <2>2. \A w, w2 \in Words : w \in P /\ <<w, w2>> \in F => <<w, w2>> \in QuietRel
    BY <1>4 DEF FirstRel, QuietRel
  <2>3. P \subseteq P
    OBVIOUS
  <2> HIDE DEF f, P, F
  <2>4. Effects(d, e, c, f, P, QuietRel)
    BY <1>3, <2>2, <2>3, DoesWeaken
  <2> QED BY <2>1, <2>4 DEF P
<1>5. CASE s \notin f.stored
  <2>1. r = last
    BY <1>5, AssignCases
  <2>2. /\ kept = IF Is(d, pin[1], Booleans) /\ Fanout(d, pin) > 1
                  THEN StoreToTemp(StoreAll(f, {s}), pin) ELSE StoreAll(f, {s})
        /\ last = StoreAll(kept, StoredTo(d, pin) \ {s})
    BY Zenon DEF AssignKept, AssignLast
  <2>3. Chains(P, F, Valued(v), Keeps(TRUE), QuietRel)
    <3> SUFFICES ASSUME NEW w \in Words, NEW w2 \in Words, NEW w3 \in Words, <<w, w2>> \in F
                 PROVE  w2 \in Valued(v) /\ (<<w2, w3>> \in Keeps(TRUE) => <<w, w3>> \in QuietRel)
      BY DEF Chains
    <3>1. w2.parens = w.parens /\ w2.sw.VKE = v
      BY <1>5 DEF FirstRel
    <3>2. w2 \in Valued(v)
      BY <3>1 DEF Valued
    <3>3. ASSUME <<w2, w3>> \in Keeps(TRUE) PROVE <<w, w3>> \in QuietRel
      BY <3>1, <3>3 DEF Keeps, QuietRel
    <3> QED BY <3>2, <3>3
  <2> HIDE DEF f, P, F, kept, last, pin
  <2>4. pin = d.stores[s]
    BY DEF pin
  <2>5. last.done = f.done /\ Brings(d, e, f, last, {}, Valued(v), Keeps(TRUE))
    <3>1. Storing(d, f, s, pin, kept, last)
      BY <1>1, <1>3, <2>2, <2>4 DEF Storing
    <3>2. last.done = f.done /\ Brings(d, e, f, last, {}, Valued(e.at[pin]), Keeps(TRUE))
      BY <3>1, StoredBrings
    <3> QED BY <3>2 DEF v
  <2> HIDE DEF v
  <2>6. Effects(d, e, f, last, Valued(v), Keeps(TRUE))
    BY <2>5, DoesOne
  <2>7. Effects(d, e, c, last, P, QuietRel)
    BY <1>3, <2>3, <2>6, DoesNext
  <2> QED BY <2>1, <2>7 DEF P
<1> QED BY <1>4, <1>5

\* What has been compiled does what it stands for, whatever the operands are.
CompiledDoes(d, c) ==
  ~LoadBoth(d) /\ PlainNodes(d) =>
    \A e : IsEnv(d, e) => Effects(d, e, Nothing, c, QuietWords, QuietRel)
RunInv == CodeInv /\ (phase # "draw" => CompiledDoes(diagram, compiled))

LEMMA NothingDoes ==
  ASSUME NEW d
  PROVE  CompiledDoes(d, Nothing)
<1>1. \A w \in Words : w \in QuietWords => <<w, w>> \in QuietRel
  BY DEF QuietWords, QuietRel
<1>2. ASSUME NEW e PROVE Effects(d, e, Nothing, Nothing, QuietWords, QuietRel)
  BY <1>1, NothingTyped, DoesNothing
<1> QED BY <1>2 DEF CompiledDoes

\* One more entry point.
LEMMA DoesMore ==
  ASSUME NEW d, NEW c, NEW r, CompiledDoes(d, c),
         \A e : Entry(d, c, e) => Effects(d, e, c, r, QuietWords, QuietRel),
         IsOrdered(d), CompilationInv(d, c)
  PROVE  CompiledDoes(d, r)
<1> SUFFICES ASSUME ~LoadBoth(d), PlainNodes(d), NEW e, IsEnv(d, e)
             PROVE  Effects(d, e, Nothing, r, QuietWords, QuietRel)
  BY DEF CompiledDoes
<1>1. Effects(d, e, Nothing, c, QuietWords, QuietRel)
  BY DEF CompiledDoes
<1>2. Effects(d, e, c, r, QuietWords, QuietRel)
  BY DEF Entry
<1>3. Chains(QuietWords, QuietRel, QuietWords, QuietRel, QuietRel)
  BY DEF Chains, QuietWords, QuietRel
<1> QED BY <1>1, <1>2, <1>3, DoesNext

LEMMA RunInvInit ==
  GridInit => RunInv
BY CodeInvInit DEF GridInit, RunInv

LEMMA RunInvStep ==
  ASSUME RunInv, [GridNext]_gridVars, CodeInv'
  PROVE  RunInv'
<1>1. CASE phase' = "draw"
  BY <1>1 DEF RunInv
<1>2. CASE Start
  <2>1. compiled' = Nothing
    BY <1>2 DEF Start, RunInv, CodeInv, GridInv
  <2> QED BY <2>1, NothingDoes DEF RunInv
<1>3. CASE phase # "draw" /\ diagram' = diagram /\ compiled' = compiled
  BY <1>3 DEF RunInv
<1>4. ASSUME NEW s \in Stores, CompileAssignment(s) PROVE RunInv'
  <2>1. /\ phase # "draw" /\ diagram' = diagram /\ s \in DOMAIN diagram.stores /\ s \notin compiled.stored
        /\ compiled' = CompileAssign(diagram, compiled, s)
    BY <1>4 DEF CompileAssignment
  <2>2. CompiledDoes(diagram, compiled) /\ IsOrdered(diagram) /\ CompilationInv(diagram, compiled)
    BY <2>1 DEF RunInv, CodeInv, GridInv
  <2>3. \A e : Entry(diagram, compiled, e) =>
          Effects(diagram, e, compiled, CompileAssign(diagram, compiled, s), QuietWords, QuietRel)
    BY <2>1, AssignBrings
  <2>4. CompiledDoes(diagram, CompileAssign(diagram, compiled, s))
    BY <2>2, <2>3, DoesMore
  <2>5. CompiledDoes(diagram', compiled')
    BY <2>1, <2>4
  <2> QED BY <2>5 DEF RunInv
<1>5. ASSUME NEW i \in Nodes, CompileTransfer(i) PROVE RunInv'
  <2>1. /\ phase # "draw" /\ diagram' = diagram /\ i \in Moves(diagram) /\ i \notin compiled.done
        /\ compiled' = CompileNode(diagram, compiled, i)
    BY <1>5 DEF CompileTransfer
  <2>2. CompiledDoes(diagram, compiled) /\ IsOrdered(diagram) /\ CompilationInv(diagram, compiled)
    BY <2>1 DEF RunInv, CodeInv, GridInv
  <2>3. \A e : Entry(diagram, compiled, e) =>
          Effects(diagram, e, compiled, CompileNode(diagram, compiled, i), QuietWords, QuietRel)
    BY <2>1, TransferBrings
  <2>4. CompiledDoes(diagram, CompileNode(diagram, compiled, i))
    BY <2>2, <2>3, DoesMore
  <2>5. CompiledDoes(diagram', compiled')
    BY <2>1, <2>4
  <2> QED BY <2>5 DEF RunInv
<1>6. CASE UNCHANGED gridVars
  BY <1>1, <1>3, <1>6 DEF gridVars
<1>7. CASE (\E node : Draw(node)) \/ (\E s \in Stores, pin \in Pins : AssignOperand(s, pin))
  BY <1>1, <1>7 DEF Draw, AssignOperand
<1>8. CASE (\E last \in BOOLEAN : Finish(last)) \/ (\E enabled \in SUBSET Passes : Optimize(enabled))
  BY <1>3, <1>8 DEF Finish, Optimize
<1>9. (\E node : Draw(node)) \/ (\E s \in Stores, pin \in Pins : AssignOperand(s, pin)) \/ Start
      \/ (\E s \in Stores : CompileAssignment(s)) \/ (\E i \in Nodes : CompileTransfer(i))
      \/ (\E last \in BOOLEAN : Finish(last)) \/ (\E enabled \in SUBSET Passes : Optimize(enabled))
      \/ UNCHANGED gridVars
  BY DEF GridNext, DrawBoolean, DrawBox
<1> QED BY <1>2, <1>4, <1>5, <1>6, <1>7, <1>8, <1>9

\* What has been compiled does what it stands for, as long as it is compiled.
THEOREM RunInvCorrect == GridSpec => []RunInv
<1>1. CodeInv /\ CodeInv' /\ RunInv /\ [GridNext]_gridVars => RunInv'
  BY RunInvStep
<1> QED BY <1>1, RunInvInit, CodeInvCorrect, PTL DEF GridSpec

\* A grid whose code is to compute what the diagram means.
Plainly == ~ResultBehindENO /\ ~EnabledByBox /\ ~LoadAssigned

LEMMA PlainlyNodes ==
  ASSUME GridInv, phase # "draw", Plainly
  PROVE  ~LoadBoth(diagram) /\ PlainNodes(diagram)
<1>1. ~LoadBoth(diagram)
  BY DEF Plainly, LoadAssigned, LoadBoth
<1>2. IsDiagram(diagram) /\ ComparesRead(diagram) /\ \A i \in DOMAIN diagram.nodes : TakesENO(diagram, i)
  BY DEF GridInv, IsOrdered, Fits
<1>3. ASSUME NEW i \in Compares(diagram) PROVE CmpPlain(diagram, i)
  <2>1. Fanout(diagram, Out(i)) > 0
    BY <1>2, <1>3, FanoutFacts DEF ComparesRead
  <2>2. ~(Fanout(diagram, Eno(i)) > 0) <=> Fanout(diagram, Eno(i)) = 0
    BY <1>2, FanoutFacts
  <2>3. Readers(diagram, Out(i)) = {} \/ ~(Fanout(diagram, Eno(i)) > 0)
    BY DEF Plainly, ResultBehindENO
  <2>4. ~(Fanout(diagram, Eno(i)) > 0) =>
          \A k \in DOMAIN diagram.nodes[i].ins : ~Is(diagram, diagram.nodes[i].ins[k].pin[1], Boxes)
    BY <2>2 DEF Plainly, EnabledByBox
  <2> QED BY <2>1, <2>3, <2>4 DEF CmpPlain
<1> QED BY <1>1, <1>2, <1>3 DEF PlainNodes

(***************************************************************************)
(* What the program of a grid leaves in the operands.                      *)
(***************************************************************************)

\* What the operands are to have when the program has run.
Right(values, before, ops) ==
  /\ \A s \in DOMAIN diagram.stores : ops[Stored(s)] = PinValue(diagram, values, diagram.stores[s])
  /\ \A i \in Moves(diagram) : ops[Transferred(i)] = (before # Enabled(diagram, values, i))

\* The machine that a program begins with.
LEMMA FirstMachine ==
  ASSUME IsDiagram(diagram), NEW values \in [Inputs -> BOOLEAN], NEW before \in BOOLEAN,
         NEW e, e.values = values, e.before = before
  PROVE  LET m == Machine(Initially(values, before))
         IN /\ m \in Machines(diagram) /\ Holds(diagram, e, Nothing, {}, m) /\ Ctl(m) \in QuietWords
            /\ Ctl(m).parens = <<>>
<1> DEFINE ops == Initially(values, before)
           m == Machine(ops)
<1>1. Operands = OperandsOf(diagram) /\ Inputs = InputsOf(diagram)
  BY PinsAreGridPins DEF Operands, OperandsOf, Inputs, InputsOf, Nodes
<1>2. ops \in [OperandsOf(diagram) -> BOOLEAN]
  BY <1>1 DEF Initially
<1>3. \A x \in OperandsOf(diagram) : ops[x] = IF x \in InputsOf(diagram) THEN values[x] ELSE before
  BY <1>1 DEF Initially
<1> HIDE DEF ops
<1>4. ResetWord \in Bits /\ Quiet(ResetWord) /\ <<>> \in Seq(ParenElems)
  BY DEF Bits, ResetWord, Quiet
<1>5. m \in Machines(diagram) /\ m.operands = ops /\ m.sw = ResetWord /\ m.parens = <<>>
  BY <1>2, <1>4 DEF Machine, Machines
<1> HIDE DEF m
<1>6. Ctl(m) \in QuietWords /\ Ctl(m).parens = <<>>
  BY <1>4, <1>5, CtlTyped DEF QuietWords
<1>7. /\ InputsOf(diagram) \subseteq OperandsOf(diagram)
      /\ \A i \in Moves(diagram) : Transferred(i) \in OperandsOf(diagram) /\ Transferred(i) \notin InputsOf(diagram)
  BY OperandsThere, OperandsApart
<1>8. Holds(diagram, e, Nothing, {}, m)
  <2>1. \A x \in InputsOf(diagram) : m.operands[x] = e.values[x]
    BY <1>3, <1>5, <1>7
  <2>2. Nothing.temps = {} /\ Nothing.stored = {}
    BY DEF Nothing
  <2>3. \A i \in Moves(diagram) : m.operands[Transferred(i)] = e.before
    BY <1>3, <1>5, <1>7
  <2> QED BY <1>5, <2>1, <2>2, <2>3 DEF Holds
<1> QED BY <1>5, <1>6, <1>8 DEF m, ops

LEMMA EnvThere ==
  ASSUME IsOrdered(diagram), NEW values \in [Inputs -> BOOLEAN], NEW before \in BOOLEAN, NEW e,
         e = [values |-> values, before |-> before, at |-> Values(diagram, values)]
  PROVE  IsEnv(diagram, e)
<1>1. PICK rank, N : Fits(diagram, rank, N)
  BY DEF IsOrdered
<1>2. Inputs = InputsOf(diagram)
  BY DEF Inputs, InputsOf
<1>3. Env(diagram, values, Values(diagram, values))
  BY <1>1, <1>2, ValuesMean
<1> QED BY <1>2, <1>3 DEF IsEnv

\* What the operands have when everything has been compiled.
LEMMA HoldsRight ==
  ASSUME AllCompiled, NEW values, NEW before, NEW e, NEW T, NEW m,
         e = [values |-> values, before |-> before, at |-> Values(diagram, values)],
         Moves(diagram) \subseteq T, Holds(diagram, e, compiled, T, m)
  PROVE  Right(values, before, m.operands)
<1>1. \A s \in DOMAIN diagram.stores : m.operands[Stored(s)] = e.at[diagram.stores[s]]
  BY DEF Holds, AllCompiled
<1>2. \A i \in Moves(diagram) : m.operands[Transferred(i)] = (e.before # EnabledIn(diagram, e.at, i))
  BY DEF Holds
<1>3. e.before = before /\ e.at = Values(diagram, values)
  OBVIOUS
<1> HIDE DEF Moves
<1>4. \A i \in Moves(diagram) : m.operands[Transferred(i)] = (before # EnabledIn(diagram, Values(diagram, values), i))
  BY <1>2, <1>3
<1> QED BY <1>1, <1>3, <1>4 DEF Right, PinValue, Enabled

\* The code without a block end, run as one goes through it.
Reaches(code0, values, before, m2) ==
  Leads(code0, <<Machine(Initially(values, before)), NoLabel>>, <<m2, NoLabel>>)

LEMMA CompiledRight ==
  ASSUME RunInv, phase # "draw", AllCompiled, Plainly, NEW values \in [Inputs -> BOOLEAN], NEW before \in BOOLEAN
  PROVE  ~compiled.failed /\ \E m2 : Reaches(compiled.code, values, before, m2) /\ Right(values, before, m2.operands)
<1> DEFINE e == [values |-> values, before |-> before, at |-> Values(diagram, values)]
           m == Machine(Initially(values, before))
           d == diagram
           c == compiled
<1>1. IsOrdered(d) /\ IsDiagram(d) /\ ~LoadBoth(d) /\ PlainNodes(d) /\ CompilationInv(d, c)
  BY PlainlyNodes DEF RunInv, CodeInv, GridInv, IsOrdered, Fits
<1>2. ~c.failed
  BY <1>1 DEF CompilationInv, Partly
<1>3. IsEnv(d, e)
  BY <1>1, EnvThere
<1>4. m \in Machines(d) /\ Holds(d, e, Nothing, {}, m) /\ Ctl(m) \in QuietWords
  <2>1. e.values = values /\ e.before = before
    OBVIOUS
  <2> HIDE DEF e
  <2> QED BY <1>1, <2>1, FirstMachine
<1>5. e = [values |-> values, before |-> before, at |-> Values(d, values)]
  OBVIOUS
<1> HIDE DEF e, m
<1>6. Effects(d, e, Nothing, c, QuietWords, QuietRel)
  BY <1>1, <1>3 DEF RunInv, CompiledDoes
<1>7. PICK new \in Seq(InsnsOf(d)) : c.code = Nothing.code \o new
                                     /\ Does(d, e, Nothing, c, new, c.done \ Nothing.done, QuietWords, QuietRel)
  BY <1>2, <1>6 DEF Effects, Brings
<1>8. c.code = new /\ c.done \ Nothing.done = c.done
  <2>1. Nothing.code = <<>> /\ Nothing.done = {}
    BY DEF Nothing
  <2>2. <<>> \o new = new
    BY EmptyConcat
  <2> QED BY <1>7, <2>1, <2>2
<1>9. Does(d, e, Nothing, c, new, c.done, QuietWords, QuietRel)
  BY <1>7, <1>8
<1>10. PICK m2 \in Machines(d) : Leads(new, <<m, NoLabel>>, <<m2, NoLabel>>) /\ Holds(d, e, c, {} \cup c.done, m2)
  <2>1. {} \cap c.done = {}
    OBVIOUS
  <2> QED BY <1>4, <1>9, <2>1 DEF Does
<1>11. Moves(d) \subseteq {} \cup c.done
  BY DEF AllCompiled
<1>12. Right(values, before, m2.operands)
  BY <1>5, <1>10, <1>11, HoldsRight
<1> QED BY <1>2, <1>8, <1>10, <1>12 DEF Reaches, m

(***************************************************************************)
(* The optimizer leaves what the code does.                                *)
(***************************************************************************)

\* An instruction that is not skipped.
Entered(insn, m) ==
  IF insn.op = "BE" THEN <<m, NoLabel>>
  ELSE <<Execute(insn, m), IF Jumps(insn) /\ ~m.sw.VKE THEN insn.arg ELSE NoLabel>>

LEMMA PlayCases ==
  ASSUME NEW insn, NEW st
  PROVE  /\ st[2] # NoLabel /\ insn.label # st[2] => PlayStep(insn, st) = st
         /\ st[2] = NoLabel \/ insn.label = st[2] => PlayStep(insn, st) = Entered(insn, st[1])
BY DEF PlayStep, Entered

LEMMA EnteredSame ==
  ASSUME NEW insn, NEW x, NEW m, insn.op = x.op, insn.arg = x.arg
  PROVE  Entered(insn, m) = Entered(x, m)
<1>1. Execute(insn, m) = Execute(x, m)
  BY DEF Execute
<1>2. Jumps(insn) <=> Jumps(x)
  BY DEF Jumps
<1> QED BY <1>1, <1>2 DEF Entered

\* A label that is looked for is further on, and all in front of it is skipped.
LEMMA LabelAhead ==
  ASSUME NEW code0, Len(code0) \in Nat, NEW t, Plays(code0, t), t[Len(code0)][2] = NoLabel,
         NEW k \in 0..Len(code0), t[k][2] # NoLabel
  PROVE  \E j \in k + 1 .. Len(code0) : code0[j].label = t[k][2] /\ t[j - 1] = t[k]
<1> SUFFICES ASSUME \A j \in k + 1 .. Len(code0) : ~(code0[j].label = t[k][2] /\ t[j - 1] = t[k])
             PROVE  FALSE
  OBVIOUS
<1> DEFINE n == Len(code0)
           S == {i \in Nat : k + i <= n => t[k + i] = t[k]}
<1>1. 0 \in S
  BY Z3
<1>2. ASSUME NEW i \in Nat, i \in S PROVE i + 1 \in S
  <2> SUFFICES ASSUME k + (i + 1) <= n PROVE t[k + (i + 1)] = t[k]
    OBVIOUS
  <2> DEFINE j == k + (i + 1)
  <2>1. j \in k + 1 .. n /\ j \in 1..n /\ j - 1 = k + i
    OBVIOUS
  <2>2. t[j - 1] = t[k]
    BY <1>2, <2>1
  <2>3. code0[j].label # t[k][2]
    BY <2>1, <2>2
  <2>4. t[j] = PlayStep(code0[j], t[j - 1])
    BY <2>1 DEF Plays
  <2> HIDE DEF j
  <2>5. PlayStep(code0[j], t[k]) = t[k]
    BY <2>3, PlayCases
  <2> QED BY <2>2, <2>4, <2>5 DEF j
<1> HIDE DEF S
<1>3. n - k \in S
  <2>1. n - k \in Nat
    OBVIOUS
  <2> QED BY <1>1, <1>2, <2>1, SetInduction
<1>4. t[n] = t[k]
  <2>1. k + (n - k) = n
    OBVIOUS
  <2> QED BY <1>3, <2>1 DEF S
<1> QED BY <1>4

\* Code that has a label less, but not one that is jumped to.
Relabelled(code0, r) ==
  /\ Len(code0) \in Nat /\ Len(r) = Len(code0)
  /\ \A k \in 1..Len(code0) : r[k].op = code0[k].op /\ r[k].arg = code0[k].arg
  /\ \A j, k \in 1..Len(code0) :
       Jumps(code0[j]) => (r[k].label = code0[j].arg <=> code0[k].label = code0[j].arg)

LEMMA RelabelledLeads ==
  ASSUME NEW code0, NEW r, Relabelled(code0, r), NEW m, NEW st2, Leads(code0, <<m, NoLabel>>, st2)
  PROVE  Leads(r, <<m, NoLabel>>, st2)
<1>1. PICK t : t[0] = <<m, NoLabel>> /\ t[Len(code0)] = st2 /\ Plays(code0, t)
  BY DEF Leads
<1> DEFINE n == Len(code0)
           Wanted(x) == x[2] = NoLabel \/ \E j \in 1..n : Jumps(code0[j]) /\ x[2] = code0[j].arg
           S == {i \in Nat : i <= n => Wanted(t[i])}
<1>2. 0 \in S
  BY <1>1
<1>3. ASSUME NEW i \in Nat, i \in S PROVE i + 1 \in S
  <2> SUFFICES ASSUME i + 1 <= n PROVE Wanted(t[i + 1])
    OBVIOUS
  <2> DEFINE j == i + 1
  <2>1. j \in 1..n /\ j - 1 = i /\ n \in Nat
    BY DEF Relabelled
  <2>2. t[j] = PlayStep(code0[j], t[i]) /\ Wanted(t[i])
    BY <1>1, <1>3, <2>1 DEF Plays
  <2> HIDE DEF j
  <2>3. CASE t[i][2] # NoLabel /\ code0[j].label # t[i][2]
    <3>1. t[j] = t[i]
      BY <2>2, <2>3, PlayCases
    <3> QED BY <2>2, <3>1 DEF j
  <2>4. CASE t[i][2] = NoLabel \/ code0[j].label = t[i][2]
    <3>1. t[j] = Entered(code0[j], t[i][1])
      BY <2>2, <2>4, PlayCases
    <3>2. t[j][2] = NoLabel \/ (Jumps(code0[j]) /\ t[j][2] = code0[j].arg)
      BY <3>1 DEF Entered
    <3> QED BY <2>1, <3>2 DEF j
  <2> QED BY <2>3, <2>4
<1> HIDE DEF S
<1>4. Nat \subseteq S
  BY <1>2, <1>3, SetInduction
<1>5. ASSUME NEW k \in 1..n PROVE t[k] = PlayStep(r[k], t[k - 1])
  <2>1. k - 1 \in Nat /\ k - 1 <= n
    BY DEF Relabelled
  <2>2. Wanted(t[k - 1])
    BY <1>4, <2>1 DEF S
  <2>3. t[k] = PlayStep(code0[k], t[k - 1])
    BY <1>1 DEF Plays
  <2>4. Entered(r[k], t[k - 1][1]) = Entered(code0[k], t[k - 1][1])
    BY EnteredSame DEF Relabelled
  <2>5. t[k - 1][2] # NoLabel => (r[k].label = t[k - 1][2] <=> code0[k].label = t[k - 1][2])
    BY <2>2 DEF Relabelled
  <2> DEFINE st == t[k - 1]
             x == r[k]
             y == code0[k]
  <2> HIDE DEF st, x, y
  <2>6. PlayStep(x, st) = PlayStep(y, st)
    <3>1. Entered(x, st[1]) = Entered(y, st[1]) /\ (st[2] # NoLabel => (x.label = st[2] <=> y.label = st[2]))
      BY <2>4, <2>5 DEF st, x, y
    <3>2. CASE st[2] # NoLabel /\ y.label # st[2]
      BY <3>1, <3>2, PlayCases
    <3>3. CASE st[2] = NoLabel \/ y.label = st[2]
      BY <3>1, <3>3, PlayCases
    <3> QED BY <3>2, <3>3
  <2> QED BY <2>3, <2>6 DEF st, x, y
<1>6. Plays(r, t) /\ t[Len(r)] = st2
  BY <1>1, <1>5 DEF Relabelled, Plays
<1> QED BY <1>1, <1>6 DEF Leads

LEMMA LabelRemoveRelabels ==
  ASSUME NEW d, IsDiagram(d), NEW code0 \in Seq(InsnsOf(d)), Laid(code0)
  PROVE  LabelRemove(code0) \in Seq(InsnsOf(d)) /\ Relabelled(code0, LabelRemove(code0))
<1> DEFINE used == {code0[k].arg : k \in {k \in DOMAIN code0 : Jumps(code0[k])}}
           r == LabelRemove(code0)
<1>1. r = [k \in DOMAIN code0 |-> IF code0[k].label \in used THEN code0[k] ELSE Labelled(NoLabel, code0[k])]
  BY DEF LabelRemove
<1>2. /\ \A k \in DOMAIN code0 : code0[k] \in InsnsOf(d) /\ Labelled(NoLabel, code0[k]) \in InsnsOf(d)
      /\ Len(code0) \in Nat /\ DOMAIN code0 = 1..Len(code0) /\ NoLabel \in Args(d)
  <2>1. \A k \in DOMAIN code0 : code0[k] \in InsnsOf(d)
    OBVIOUS
  <2>2. NoLabel \in Args(d)
    BY ArgsTyped
  <2>3. \A k \in DOMAIN code0 : Labelled(NoLabel, code0[k]) \in InsnsOf(d)
    BY <2>1, <2>2 DEF InsnsOf, Labelled
  <2> QED BY <2>1, <2>2, <2>3, LenProperties
<1>3. \A j \in 1..Len(code0) : Jumps(code0[j]) => code0[j].arg \in used /\ code0[j].arg # NoLabel
  BY <1>2 DEF Laid
<1> HIDE DEF used, r
<1>4. ASSUME NEW k \in DOMAIN code0
      PROVE  /\ r[k].op = code0[k].op /\ r[k].arg = code0[k].arg
             /\ r[k].label = IF code0[k].label \in used THEN code0[k].label ELSE NoLabel
  BY <1>1, <1>2 DEF Labelled, InsnsOf
<1>5. r \in Seq(InsnsOf(d)) /\ Len(r) = Len(code0)
  <2> DEFINE n == Len(code0)
  <2>1. r \in [1..n -> InsnsOf(d)]
    BY <1>1, <1>2
  <2> HIDE DEF n
  <2> QED BY <1>2, <2>1 DEF n
<1>6. \A j, k \in 1..Len(code0) :
        Jumps(code0[j]) => (r[k].label = code0[j].arg <=> code0[k].label = code0[j].arg)
  BY <1>2, <1>3, <1>4
<1>7. Relabelled(code0, r)
  BY <1>2, <1>4, <1>5, <1>6 DEF Relabelled
<1> QED BY <1>5, <1>7 DEF r

\* Where the pass is in the code it makes, from where the code it reads is: what
\* has been jumped to with it may be the label that has moved.
Follows(s, x, y) ==
  /\ x = <<x[1], x[2]>>
  /\ \/ y = x
     \/ x[2] = NoLabel /\ s.label # NoLabel /\ y = <<x[1], s.label>>

LEMMA FollowsParts ==
  ASSUME NEW s, NEW x, NEW y, Follows(s, x, y)
  PROVE  /\ y[1] = x[1] /\ y = <<y[1], y[2]>> /\ x = <<x[1], x[2]>>
         /\ y[2] = x[2] \/ (x[2] = NoLabel /\ s.label # NoLabel /\ y[2] = s.label)
<1>1. CASE y = x
  BY <1>1 DEF Follows
<1>2. CASE x[2] = NoLabel /\ s.label # NoLabel /\ y = <<x[1], s.label>>
  <2>1. y[1] = x[1] /\ y[2] = s.label
    BY <1>2
  <2> QED BY <1>2, <2>1 DEF Follows
<1> QED BY <1>1, <1>2 DEF Follows

LEMMA NopExecuted ==
  ASSUME NEW insn, NEW m, insn.op = "NOP"
  PROVE  Execute(insn, m) = m
BY ExecCases

LEMMA LeadsAppend ==
  ASSUME NEW A, NEW a \in Seq(A), NEW insn \in A, NEW st, NEW st2, Leads(a, st, st2)
  PROVE  Leads(Append(a, insn), st, PlayStep(insn, st2))
<1>1. Leads(<<insn>>, st2, PlayStep(insn, st2))
  BY LeadsOne
<1>2. <<insn>> \in Seq(A) /\ a \o <<insn>> = Append(a, insn)
  BY AppendIsConcat
<1> DEFINE b == <<insn>>
           st3 == PlayStep(insn, st2)
<1>3. b \in Seq(A) /\ Leads(b, st2, st3)
  BY <1>1, <1>2
<1> HIDE DEF b, st3
<1>4. Leads(a \o b, st, st3)
  BY <1>3, LeadsConcat
<1> QED BY <1>2, <1>4 DEF b, st3

\* The states of the two codes next to instruction k + 1.
NopPlace(d, code0, t, k, s) ==
  /\ IsDiagram(d) /\ code0 \in Seq(InsnsOf(d)) /\ Laid(code0) /\ Plays(code0, t) /\ t[Len(code0)][2] = NoLabel
  /\ k \in Nat /\ k + 1 \in DOMAIN code0 /\ NopWalked(d, code0, k, s)

LEMMA NopFollows ==
  ASSUME NEW d, NEW code0, NEW t, NEW k, NEW s, NopPlace(d, code0, t, k, s), NEW y, Follows(s, t[k], y)
  PROVE  LET insn == NopInsn(code0, s, k + 1)
             r == NopStep(code0, s, k + 1)
         IN IF NopGoes(code0, s, k + 1) THEN Follows(r, t[k + 1], y) ELSE Follows(r, t[k + 1], PlayStep(insn, y))
<1> USE DEF NopPlace
<1> DEFINE n == k + 1
           x == t[k]
           x2 == t[n]
           old == code0[n]
           insn == NopInsn(code0, s, n)
           r == NopStep(code0, s, n)
<1>1. /\ Len(code0) \in Nat /\ DOMAIN code0 = 1..Len(code0) /\ n \in 1..Len(code0) /\ n - 1 = k
      /\ k \in 0..Len(code0) /\ old \in InsnsOf(d)
  BY LenProperties
<1>2. x2 = PlayStep(old, x)
  BY <1>1 DEF Plays
<1>3. /\ s \in NopStates(d)
      /\ s.label # NoLabel => old.label = NoLabel /\ LabelledIn(code0, k, s.label)
  BY DEF NopWalked
<1>4. /\ insn.op = old.op /\ insn.arg = old.arg
      /\ insn.label = IF s.label = NoLabel THEN old.label ELSE s.label
      /\ NopGoes(code0, s, n) => r.label = insn.label
      /\ ~NopGoes(code0, s, n) => r.label = NoLabel
  BY <1>3, NopStepCases
<1>5. NopGoes(code0, s, n) => insn.op = "NOP"
  BY DEF NopGoes
<1>6. x[2] # NoLabel => x[2] # s.label
  <2> SUFFICES ASSUME x[2] # NoLabel, x[2] = s.label PROVE FALSE
    OBVIOUS
  <2>1. PICK j \in k + 1 .. Len(code0) : code0[j].label = t[k][2]
    BY <1>1, LabelAhead
  <2>2. PICK i \in 1..k : code0[i].label = s.label
    BY <1>3 DEF LabelledIn
  <2>3. i \in DOMAIN code0 /\ j \in DOMAIN code0 /\ i # j
    BY <1>1
  <2> QED BY <2>1, <2>2, <2>3 DEF Laid
<1>7. Follows(s, x, y)
  OBVIOUS
<1> HIDE DEF x, x2, old, insn, r, n
<1> HIDE DEF NopPlace
<1>8. /\ y[1] = x[1] /\ y = <<y[1], y[2]>> /\ x = <<x[1], x[2]>>
      /\ y[2] = x[2] \/ (x[2] = NoLabel /\ s.label # NoLabel /\ y[2] = s.label)
  BY <1>7, FollowsParts
<1>9. Entered(insn, y[1]) = Entered(old, x[1])
  BY <1>4, <1>8, EnteredSame
<1>10. CASE x[2] # NoLabel /\ old.label # x[2]
  <2>1. x2 = x /\ y = x
    BY <1>2, <1>8, <1>10, PlayCases
  <2>2. insn.label # y[2] /\ y[2] # NoLabel
    BY <1>4, <1>6, <1>10, <2>1
  <2>3. PlayStep(insn, y) = y
    BY <2>2, PlayCases
  <2>4. Follows(r, x2, y)
    BY <1>8, <2>1 DEF Follows
  <2> QED BY <2>3, <2>4 DEF x2, insn, r, n
<1>11. CASE x[2] = NoLabel \/ old.label = x[2]
  <2>1. x2 = Entered(old, x[1])
    BY <1>2, <1>11, PlayCases
  <2>2. x2 = <<x2[1], x2[2]>>
    BY <2>1 DEF Entered
  <2>3. y[2] = NoLabel \/ insn.label = y[2]
    <3>1. x[2] = NoLabel => y[2] = NoLabel \/ (s.label # NoLabel /\ y[2] = s.label)
      BY <1>8
    <3>2. x[2] # NoLabel => y[2] = x[2] /\ old.label = x[2] /\ s.label = NoLabel
      BY <1>3, <1>8, <1>11
    <3> QED BY <1>4, <3>1, <3>2
  <2>4. CASE NopGoes(code0, s, n)
    <3>1. old.op = "NOP"
      BY <1>4, <1>5, <2>4
    <3>2. Execute(old, x[1]) = x[1] /\ ~Jumps(old) /\ old.op # "BE"
      <4>1. Execute(old, x[1]) = x[1]
        BY <3>1, NopExecuted
      <4> QED BY <3>1, <4>1 DEF Jumps
    <3>3. x2 = <<x[1], NoLabel>>
      BY <2>1, <3>2 DEF Entered
    <3>4. y = <<x[1], NoLabel>> \/ (insn.label # NoLabel /\ y = <<x[1], insn.label>>)
      BY <1>8, <2>3
    <3>5. Follows(r, x2, y)
      BY <1>4, <2>4, <3>3, <3>4 DEF Follows
    <3> QED BY <2>4, <3>5 DEF x2, insn, r, n
  <2>5. CASE ~NopGoes(code0, s, n)
    <3>1. PlayStep(insn, y) = x2
      BY <1>9, <2>1, <2>3, PlayCases
    <3>2. Follows(r, x2, PlayStep(insn, y))
      BY <2>2, <3>1 DEF Follows
    <3> QED BY <2>5, <3>2 DEF x2, insn, r, n
  <2> QED BY <2>4, <2>5
<1> QED BY <1>10, <1>11

\* The last instruction is the only one that can be a block end.
BeLast(code0) == \A k \in DOMAIN code0 : code0[k].op = "BE" => k = Len(code0)

LEMMA NopRemoveLeads ==
  ASSUME NEW d, IsDiagram(d), NEW code0 \in Seq(InsnsOf(d)), Laid(code0), NEW m, NEW m2,
         Leads(code0, <<m, NoLabel>>, <<m2, NoLabel>>)
  PROVE  Leads(NopRemove(code0), <<m, NoLabel>>, <<m2, NoLabel>>)
<1> DEFINE n == Len(code0)
           st == <<m, NoLabel>>
<1>1. n \in Nat /\ DOMAIN code0 = 1..n
  BY LenProperties
<1>2. PICK w : NopWalk(code0, w) /\ NopRemove(code0) = w[Len(code0)].code
  BY <1>1, NopWalkDefined
<1>3. PICK t : t[0] = st /\ t[Len(code0)] = <<m2, NoLabel>> /\ Plays(code0, t)
  BY DEF Leads
<1> DEFINE There(k, s) == NopWalked(d, code0, k, s) /\ \E y : Leads(s.code, st, y) /\ Follows(s, t[k], y)
           S == {k \in Nat : k <= n => There(k, w[k])}
<1>4. 0 \in S
  <2>1. NoLabel \in Args(d) /\ <<>> \in Seq(InsnsOf(d))
    BY ArgsTyped
  <2> DEFINE s == [code |-> <<>>, label |-> NoLabel]
  <2>2. s \in NopStates(d) /\ s.label = NoLabel /\ DOMAIN s.code = {} /\ s.code = <<>>
    BY <2>1 DEF NopStates
  <2> HIDE DEF s
  <2>3. NopWalked(d, code0, 0, s)
    BY <2>2 DEF NopWalked
  <2>4. w[0] = s
    BY <1>2 DEF NopWalk, s
  <2>5. Leads(s.code, st, st)
    <3> HIDE DEF st
    <3> QED BY <2>2, LeadsNil
  <2>6. Follows(s, t[0], st)
    BY <1>3 DEF Follows
  <2>7. There(0, s)
    <3> HIDE DEF st
    <3> QED BY <2>3, <2>5, <2>6
  <2> HIDE DEF There
  <2> QED BY <2>4, <2>7
<1>5. ASSUME NEW k \in Nat, k \in S PROVE k + 1 \in S
  <2> SUFFICES ASSUME k + 1 <= n PROVE There(k + 1, w[k + 1])
    OBVIOUS
  <2>1. k + 1 \in DOMAIN code0 /\ k + 1 \in 1..Len(code0) /\ (k + 1) - 1 = k /\ There(k, w[k])
    BY <1>1, <1>5
  <2>2. w[k + 1] = NopStep(code0, w[k], k + 1)
    BY <1>2, <2>1 DEF NopWalk
  <2> DEFINE s == w[k]
             r == NopStep(code0, s, k + 1)
             insn == NopInsn(code0, s, k + 1)
  <2> HIDE DEF st
  <2>3. NopWalked(d, code0, k, s)
    BY <2>1
  <2>4. PICK y : Leads(s.code, st, y) /\ Follows(s, t[k], y)
    BY <2>1
  <2> HIDE DEF s
  <2>5. NopWalked(d, code0, k + 1, r)
    BY <2>1, <2>3, NopWalkedStep
  <2>6. /\ s \in NopStates(d) /\ insn \in InsnsOf(d)
        /\ NopGoes(code0, s, k + 1) => r.code = s.code
        /\ ~NopGoes(code0, s, k + 1) => r.code = Append(s.code, insn)
    <3>1. s \in NopStates(d)
      BY <2>3 DEF NopWalked
    <3> QED BY <2>1, <3>1, NopStepCases
  <2>7. NopPlace(d, code0, t, k, s)
    <3>1. t[Len(code0)][2] = NoLabel
      BY <1>3
    <3> QED BY <1>3, <2>1, <2>3, <3>1 DEF NopPlace
  <2>8. IF NopGoes(code0, s, k + 1) THEN Follows(r, t[k + 1], y) ELSE Follows(r, t[k + 1], PlayStep(insn, y))
    BY <2>4, <2>7, NopFollows
  <2> HIDE DEF r, insn
  <2>9. s.code \in Seq(InsnsOf(d))
    BY <2>6 DEF NopStates
  <2>10. \E y2 : Leads(r.code, st, y2) /\ Follows(r, t[k + 1], y2)
    <3>1. CASE NopGoes(code0, s, k + 1)
      BY <2>4, <2>6, <2>8, <3>1
    <3>2. CASE ~NopGoes(code0, s, k + 1)
      <4>1. Leads(Append(s.code, insn), st, PlayStep(insn, y))
        <5> DEFINE a == s.code
        <5>1. a \in Seq(InsnsOf(d)) /\ Leads(a, st, y)
          BY <2>4, <2>9
        <5> HIDE DEF a
        <5>2. Leads(Append(a, insn), st, PlayStep(insn, y))
          BY <2>6, <5>1, LeadsAppend
        <5> QED BY <5>2 DEF a
      <4> QED BY <2>6, <2>8, <3>2, <4>1
    <3> QED BY <3>1, <3>2
  <2>11. There(k + 1, r)
    BY <2>5, <2>10
  <2> HIDE DEF There
  <2> QED BY <2>2, <2>11 DEF r, s
<1> HIDE DEF S
<1>6. n \in S
  BY <1>1, <1>4, <1>5, SetInduction
<1>7. NopWalked(d, code0, n, w[n]) /\ \E y : Leads(w[n].code, st, y) /\ Follows(w[n], t[n], y)
  BY <1>1, <1>6 DEF S
<1>8. w[n].label = NoLabel
  BY <1>1, <1>7 DEF NopWalked
<1>9. PICK y : Leads(w[n].code, st, y) /\ y = t[n]
  BY <1>7, <1>8 DEF Follows
<1> HIDE DEF st
<1> QED BY <1>2, <1>3, <1>9 DEF st

LEMMA NopRemoveLast ==
  ASSUME NEW d, IsDiagram(d), NEW code0 \in Seq(InsnsOf(d)), Laid(code0), BeLast(code0)
  PROVE  BeLast(NopRemove(code0))
<1> DEFINE n == Len(code0)
<1>1. n \in Nat /\ DOMAIN code0 = 1..n
  BY LenProperties
<1>2. PICK w : NopWalk(code0, w) /\ NopRemove(code0) = w[Len(code0)].code
  BY <1>1, NopWalkDefined
<1> DEFINE There(k, s) == s \in NopStates(d) /\ \A p \in DOMAIN s.code : s.code[p].op = "BE" => k = n /\ p = Len(s.code)
           S == {k \in Nat : k <= n => There(k, w[k])}
<1>4. 0 \in S
  <2>1. NoLabel \in Args(d) /\ <<>> \in Seq(InsnsOf(d))
    BY ArgsTyped
  <2> DEFINE s == [code |-> <<>>, label |-> NoLabel]
  <2>2. s \in NopStates(d) /\ DOMAIN s.code = {}
    BY <2>1 DEF NopStates
  <2>4. w[0] = s
    BY <1>2 DEF NopWalk
  <2> HIDE DEF s
  <2> QED BY <2>2, <2>4
<1>5. ASSUME NEW k \in Nat, k \in S PROVE k + 1 \in S
  <2> SUFFICES ASSUME k + 1 <= n PROVE There(k + 1, w[k + 1])
    OBVIOUS
  <2>1. k + 1 \in DOMAIN code0 /\ k + 1 \in 1..Len(code0) /\ (k + 1) - 1 = k /\ There(k, w[k]) /\ k # n
    <3> HIDE DEF There, n, S
    <3>1. k <= n /\ k # n /\ k + 1 \in 1..n /\ (k + 1) - 1 = k
      BY <1>1
    <3> USE DEF n, S
    <3>2. There(k, w[k])
      BY <1>5, <3>1
    <3> QED BY <1>1, <3>1, <3>2
  <2>2. w[k + 1] = NopStep(code0, w[k], k + 1)
    BY <1>2, <2>1 DEF NopWalk
  <2> DEFINE s == w[k]
             r == NopStep(code0, s, k + 1)
             insn == NopInsn(code0, s, k + 1)
             a == s.code
  <2>3. s \in NopStates(d) /\ \A p \in DOMAIN a : a[p].op # "BE"
    BY <2>1
  <2> HIDE DEF s
  <2>4. a \in Seq(InsnsOf(d))
    BY <2>3 DEF NopStates
  <2>6. /\ r \in NopStates(d) /\ insn \in InsnsOf(d) /\ insn.op = code0[k + 1].op
        /\ NopGoes(code0, s, k + 1) => r.code = a
        /\ ~NopGoes(code0, s, k + 1) => r.code = Append(a, insn)
    BY <2>1, <2>3, NopStepCases
  <2>7. insn.op = "BE" => k + 1 = n
    BY <2>1, <2>6 DEF BeLast
  <2> HIDE DEF r, insn, a, n
  <2>8. \A p \in DOMAIN Append(a, insn) : Append(a, insn)[p].op = "BE" => k + 1 = n /\ p = Len(Append(a, insn))
    <3> DEFINE b == Append(a, insn)
    <3>1. /\ Len(a) \in Nat /\ DOMAIN a = 1..Len(a) /\ DOMAIN b = 1 .. Len(a) + 1
          /\ Len(b) = Len(a) + 1 /\ b[Len(a) + 1] = insn
          /\ \A p \in DOMAIN a : b[p] = a[p]
      BY <2>4, <2>6, AppendFacts
    <3> HIDE DEF b
    <3>2. \A p \in DOMAIN b : p \in DOMAIN a \/ p = Len(a) + 1
      BY <3>1
    <3>3. \A p \in DOMAIN b : b[p].op = "BE" => k + 1 = n /\ p = Len(b)
      BY <2>3, <2>7, <3>1, <3>2
    <3> QED BY <3>3 DEF b
  <2>9. There(k + 1, r)
    BY <2>3, <2>6, <2>8
  <2> HIDE DEF There
  <2> QED BY <2>2, <2>9 DEF r, s
<1> HIDE DEF S
<1>6. n \in S
  BY <1>1, <1>4, <1>5, SetInduction
<1>7. There(n, w[n])
  BY <1>1, <1>6 DEF S
<1> QED BY <1>2, <1>7 DEF BeLast

LEMMA RelabelledLast ==
  ASSUME NEW code0, NEW r, Relabelled(code0, r), BeLast(code0), DOMAIN code0 = 1..Len(code0), DOMAIN r = 1..Len(r)
  PROVE  BeLast(r)
BY DEF BeLast, Relabelled

(***************************************************************************)
(* Running the code is going through it.                                   *)
(***************************************************************************)

IsMachine(m) ==
  m = [ip |-> m.ip, sw |-> m.sw, bie |-> m.bie, parens |-> m.parens, operands |-> m.operands]
Placed(m, j) == [m EXCEPT !.ip = j]
Parts(m, word, bie, parens, operands) ==
  [ip |-> m.ip, sw |-> word, bie |-> bie, parens |-> parens, operands |-> operands]
Alike(m, m2) ==
  IsMachine(m2) /\ m2.sw = m.sw /\ m2.bie = m.bie /\ m2.parens = m.parens /\ m2.operands = m.operands

LEMMA ExceptParts ==
  ASSUME NEW m, IsMachine(m), NEW word, NEW bie, NEW parens, NEW operands
  PROVE  /\ m = Parts(m, m.sw, m.bie, m.parens, m.operands)
         /\ [m EXCEPT !.sw = word] = Parts(m, word, m.bie, m.parens, m.operands)
         /\ [m EXCEPT !.bie = bie] = Parts(m, m.sw, bie, m.parens, m.operands)
         /\ [m EXCEPT !.sw = word, !.parens = parens] = Parts(m, word, m.bie, parens, m.operands)
         /\ [m EXCEPT !.operands = operands, !.sw = word] = Parts(m, word, m.bie, m.parens, operands)
         /\ [m EXCEPT !.operands = operands] = Parts(m, m.sw, m.bie, m.parens, operands)
         /\ [m EXCEPT !.bie = bie, !.sw = word] = Parts(m, word, bie, m.parens, m.operands)
<1> DEFINE ip == m.ip
           w == m.sw
           b == m.bie
           p == m.parens
           o == m.operands
<1>1. m = [ip |-> ip, sw |-> w, bie |-> b, parens |-> p, operands |-> o]
  BY DEF IsMachine
<1> HIDE DEF ip, w, b, p, o
<1>2. [m EXCEPT !.sw = word] = [ip |-> ip, sw |-> word, bie |-> b, parens |-> p, operands |-> o]
  BY <1>1
<1>3. [m EXCEPT !.bie = bie] = [ip |-> ip, sw |-> w, bie |-> bie, parens |-> p, operands |-> o]
  BY <1>1
<1>4. [m EXCEPT !.sw = word, !.parens = parens] = [ip |-> ip, sw |-> word, bie |-> b, parens |-> parens, operands |-> o]
  <2> DEFINE x == [m EXCEPT !.sw = word]
  <2>1. [m EXCEPT !.sw = word, !.parens = parens] = [x EXCEPT !.parens = parens]
    OBVIOUS
  <2>2. x = [ip |-> ip, sw |-> word, bie |-> b, parens |-> p, operands |-> o]
    BY <1>2
  <2> HIDE DEF x
  <2>3. [x EXCEPT !.parens = parens] = [ip |-> ip, sw |-> word, bie |-> b, parens |-> parens, operands |-> o]
    BY <2>2
  <2> QED BY <2>1, <2>3
<1>5. [m EXCEPT !.operands = operands, !.sw = word]
        = [ip |-> ip, sw |-> word, bie |-> b, parens |-> p, operands |-> operands]
  <2> DEFINE x == [m EXCEPT !.operands = operands]
  <2>1. [m EXCEPT !.operands = operands, !.sw = word] = [x EXCEPT !.sw = word]
    OBVIOUS
  <2>2. x = [ip |-> ip, sw |-> w, bie |-> b, parens |-> p, operands |-> operands]
    BY <1>1
  <2> HIDE DEF x
  <2>3. [x EXCEPT !.sw = word] = [ip |-> ip, sw |-> word, bie |-> b, parens |-> p, operands |-> operands]
    BY <2>2
  <2> QED BY <2>1, <2>3
<1>6. [m EXCEPT !.operands = operands] = [ip |-> ip, sw |-> w, bie |-> b, parens |-> p, operands |-> operands]
  BY <1>1
<1>7. [m EXCEPT !.bie = bie, !.sw = word] = [ip |-> ip, sw |-> word, bie |-> bie, parens |-> p, operands |-> o]
  <2> DEFINE x == [m EXCEPT !.bie = bie]
  <2>1. [m EXCEPT !.bie = bie, !.sw = word] = [x EXCEPT !.sw = word]
    OBVIOUS
  <2>2. x = [ip |-> ip, sw |-> w, bie |-> bie, parens |-> p, operands |-> o]
    BY <1>3
  <2> HIDE DEF x
  <2>3. [x EXCEPT !.sw = word] = [ip |-> ip, sw |-> word, bie |-> bie, parens |-> p, operands |-> o]
    BY <2>2
  <2> QED BY <2>1, <2>3
<1> QED BY <1>1, <1>2, <1>3, <1>4, <1>5, <1>6, <1>7, Zenon DEF Parts, ip, w, b, p, o

\* What each instruction makes of a machine.
LEMMA GateParts ==
  ASSUME NEW m, IsMachine(m), NEW insn, insn.op \in Gates
  PROVE  Execute(insn, m) =
           Parts(m, Operate(insn.op, m.sw, Fetch(m, insn.arg)), m.bie,
                 m.parens, m.operands)
<1>1. Execute(insn, m) = [m EXCEPT !.sw = Operate(insn.op, m.sw, Fetch(m, insn.arg))]
  BY ExecCases
<1> DEFINE word == Operate(insn.op, m.sw, Fetch(m, insn.arg))
<1>2. [m EXCEPT !.sw = word] = Parts(m, word, m.bie, m.parens, m.operands)
  <2> HIDE DEF word
  <2> QED BY ExceptParts
<1> QED BY <1>1, <1>2

LEMMA BranchParts ==
  ASSUME NEW m, IsMachine(m), NEW insn, insn.op \in Branches
  PROVE  Execute(insn, m) =
           Parts(m, Opened(m.sw), m.bie,
                 Append(m.parens, [insnType |-> CHOOSE gate \in Gates : Branch(gate) = insn.op, bits |-> m.sw]), m.operands)
<1>1. Execute(insn, m) = [m EXCEPT !.sw = Opened(m.sw), !.parens = Append(m.parens, [insnType |-> CHOOSE gate \in Gates : Branch(gate) = insn.op, bits |-> m.sw])]
  BY BranchFacts DEF Execute, Gates
<1> DEFINE word == Opened(m.sw)
           p == Append(m.parens, [insnType |-> CHOOSE gate \in Gates : Branch(gate) = insn.op, bits |-> m.sw])
<1>2. [m EXCEPT !.sw = word, !.parens = p] = Parts(m, word, m.bie, p, m.operands)
  <2> HIDE DEF word, p
  <2> QED BY ExceptParts
<1> QED BY <1>1, <1>2

LEMMA CloseParts ==
  ASSUME NEW m, IsMachine(m), NEW insn, insn.op = ")"
  PROVE  Execute(insn, m) =
           Parts(m, Closed(Last(m.parens), m.sw), m.bie,
                 Front(m.parens), m.operands)
<1>1. Execute(insn, m) = [m EXCEPT !.sw = Closed(Last(m.parens), m.sw), !.parens = Front(m.parens)]
  <2>1. insn.op \notin Gates /\ insn.op \notin Branches
    BY BranchFacts DEF Gates
  <2> QED BY <2>1 DEF Execute
<1> DEFINE word == Closed(Last(m.parens), m.sw)
           p == Front(m.parens)
<1>2. [m EXCEPT !.sw = word, !.parens = p] = Parts(m, word, m.bie, p, m.operands)
  <2> HIDE DEF word, p
  <2> QED BY ExceptParts
<1> QED BY <1>1, <1>2

LEMMA NotParts ==
  ASSUME NEW m, IsMachine(m), NEW insn, insn.op = "NOT"
  PROVE  Execute(insn, m) =
           Parts(m, [m.sw EXCEPT !.VKE = ~m.sw.VKE], m.bie,
                 m.parens, m.operands)
<1>1. Execute(insn, m) = [m EXCEPT !.sw = [m.sw EXCEPT !.VKE = ~m.sw.VKE]]
  <2>1. insn.op \notin Gates /\ insn.op \notin Branches
    BY BranchFacts DEF Gates
  <2> QED BY <2>1 DEF Execute
<1> DEFINE word == [m.sw EXCEPT !.VKE = ~m.sw.VKE]
<1>2. [m EXCEPT !.sw = word] = Parts(m, word, m.bie, m.parens, m.operands)
  <2> HIDE DEF word
  <2> QED BY ExceptParts
<1> QED BY <1>1, <1>2

LEMMA SetParts ==
  ASSUME NEW m, IsMachine(m), NEW insn, insn.op = "SET"
  PROVE  Execute(insn, m) =
           Parts(m, Ended(TRUE), m.bie,
                 m.parens, m.operands)
<1>1. Execute(insn, m) = [m EXCEPT !.sw = Ended(TRUE)]
  <2>1. insn.op \notin Gates /\ insn.op \notin Branches
    BY BranchFacts DEF Gates
  <2> QED BY <2>1 DEF Execute
<1> DEFINE word == Ended(TRUE)
<1>2. [m EXCEPT !.sw = word] = Parts(m, word, m.bie, m.parens, m.operands)
  <2> HIDE DEF word
  <2> QED BY ExceptParts
<1> QED BY <1>1, <1>2

LEMMA SaveParts ==
  ASSUME NEW m, IsMachine(m), NEW insn, insn.op = "SAVE"
  PROVE  Execute(insn, m) =
           Parts(m, m.sw, m.sw.VKE,
                 m.parens, m.operands)
<1>1. Execute(insn, m) = [m EXCEPT !.bie = m.sw.VKE]
  BY ExecCases
<1> DEFINE b == m.sw.VKE
<1>2. [m EXCEPT !.bie = b] = Parts(m, m.sw, b, m.parens, m.operands)
  <2> HIDE DEF b
  <2> QED BY ExceptParts
<1> QED BY <1>1, <1>2

LEMMA CmpParts ==
  ASSUME NEW m, IsMachine(m), NEW insn, insn.op = "CMP"
  PROVE  Execute(insn, m) =
           Parts(m, [Ended(m.operands[insn.arg]) EXCEPT !.NER = TRUE], m.bie,
                 m.parens, m.operands)
<1>1. Execute(insn, m) = [m EXCEPT !.sw = [Ended(m.operands[insn.arg]) EXCEPT !.NER = TRUE]]
  BY ExecCases
<1> DEFINE word == [Ended(m.operands[insn.arg]) EXCEPT !.NER = TRUE]
<1>2. [m EXCEPT !.sw = word] = Parts(m, word, m.bie, m.parens, m.operands)
  <2> HIDE DEF word
  <2> QED BY ExceptParts
<1> QED BY <1>1, <1>2

AssignedTo(m, word, o) == [m EXCEPT !.operands = o, !.sw = word]

LEMMA AssignExcept ==
  ASSUME NEW m, IsMachine(m), NEW word, NEW o
  PROVE  AssignedTo(m, word, o) = Parts(m, word, m.bie, m.parens, o)
<1> DEFINE x == [m EXCEPT !.operands = o]
           ip == m.ip
           w == m.sw
           b == m.bie
           p == m.parens
<1>1. x = [ip |-> ip, sw |-> w, bie |-> b, parens |-> p, operands |-> o]
  BY ExceptParts DEF Parts
<1>2. [m EXCEPT !.operands = o, !.sw = word] = [x EXCEPT !.sw = word]
  OBVIOUS
<1> HIDE DEF x, ip, w, b, p
<1>3. [x EXCEPT !.sw = word] = [ip |-> ip, sw |-> word, bie |-> b, parens |-> p, operands |-> o]
  BY <1>1
<1>4. [m EXCEPT !.operands = o, !.sw = word] = [ip |-> ip, sw |-> word, bie |-> b, parens |-> p, operands |-> o]
  BY <1>2, <1>3
<1> QED BY <1>4 DEF AssignedTo, Parts, ip, b, p

LEMMA AssignParts ==
  ASSUME NEW m, IsMachine(m), NEW insn, insn.op = "="
  PROVE  Execute(insn, m) =
           Parts(m, Ended(m.sw.VKE), m.bie,
                 m.parens, [m.operands EXCEPT ![insn.arg] = m.sw.VKE])
<1>1. Execute(insn, m) = [m EXCEPT !.operands = [m.operands EXCEPT ![insn.arg] = m.sw.VKE], !.sw = Ended(m.sw.VKE)]
  BY ExecCases
<1> DEFINE o == [m.operands EXCEPT ![insn.arg] = m.sw.VKE]
           word == Ended(m.sw.VKE)
<1>2. AssignedTo(m, word, o) = Parts(m, word, m.bie, m.parens, o)
  <2> HIDE DEF o, word
  <2> QED BY AssignExcept
<1>3. Execute(insn, m) = AssignedTo(m, word, o)
  BY <1>1 DEF AssignedTo
<1> QED BY <1>2, <1>3

LEMMA TransferParts ==
  ASSUME NEW m, IsMachine(m), NEW insn, insn.op = "T"
  PROVE  Execute(insn, m) =
           Parts(m, m.sw, m.bie,
                 m.parens, [m.operands EXCEPT ![insn.arg] = ~m.operands[insn.arg]])
<1>1. Execute(insn, m) = [m EXCEPT !.operands = [m.operands EXCEPT ![insn.arg] = ~m.operands[insn.arg]]]
  BY ExecCases
<1> DEFINE o == [m.operands EXCEPT ![insn.arg] = ~m.operands[insn.arg]]
<1>2. [m EXCEPT !.operands = o] = Parts(m, m.sw, m.bie, m.parens, o)
  <2> HIDE DEF o
  <2> QED BY ExceptParts
<1> QED BY <1>1, <1>2

LEMMA JumpParts ==
  ASSUME NEW m, IsMachine(m), NEW insn, insn.op = "SPBNB"
  PROVE  Execute(insn, m) =
           Parts(m, Ended(TRUE), m.sw.VKE,
                 m.parens, m.operands)
<1>1. Execute(insn, m) = [m EXCEPT !.bie = m.sw.VKE, !.sw = Ended(TRUE)]
  BY ExecCases
<1> DEFINE b == m.sw.VKE
           word == Ended(TRUE)
<1>2. [m EXCEPT !.bie = b, !.sw = word] = Parts(m, word, b, m.parens, m.operands)
  <2> HIDE DEF b, word
  <2> QED BY ExceptParts
<1> QED BY <1>1, <1>2

LEMMA NopParts ==
  ASSUME NEW m, IsMachine(m), NEW insn, insn.op = "NOP"
  PROVE  Execute(insn, m) =
           Parts(m, m.sw, m.bie,
                 m.parens, m.operands)
<1>1. Execute(insn, m) = m
  BY ExecCases
<1> QED BY <1>1, ExceptParts

\* It does not depend on where the machine is.
LEMMA ExecAlike ==
  ASSUME NEW m, IsMachine(m), NEW insn, insn.op \in Ops \ {"BE"}
  PROVE  \E word, bie, parens, operands :
           \A m2 : Alike(m, m2) => Execute(insn, m2) = Parts(m2, word, bie, parens, operands)
<1>0. \/ insn.op \in Gates \/ insn.op \in Branches
      \/ insn.op \in {")", "NOT", "SET", "SAVE", "CMP", "=", "T", "SPBNB", "NOP"}
  BY BranchFacts DEF Ops, Gates
<1>1. CASE insn.op \in Gates
  <2> DEFINE w == Operate(insn.op, m.sw, Fetch(m, insn.arg))
             b == m.bie
             p == m.parens
             o == m.operands
  <2>1. ASSUME NEW m2, Alike(m, m2) PROVE Execute(insn, m2) = Parts(m2, w, b, p, o)
    BY <1>1, <2>1, GateParts DEF Alike, Fetch
  <2> HIDE DEF w, b, p, o
  <2> QED BY <2>1
<1>2. CASE insn.op \in Branches
  <2> DEFINE w == Opened(m.sw)
             b == m.bie
             p == Append(m.parens, [insnType |-> CHOOSE gate \in Gates : Branch(gate) = insn.op, bits |-> m.sw])
             o == m.operands
  <2>1. ASSUME NEW m2, Alike(m, m2) PROVE Execute(insn, m2) = Parts(m2, w, b, p, o)
    BY <1>2, <2>1, BranchParts DEF Alike
  <2> HIDE DEF w, b, p, o
  <2> QED BY <2>1
<1>3. CASE insn.op = ")"
  <2> DEFINE w == Closed(Last(m.parens), m.sw)
             b == m.bie
             p == Front(m.parens)
             o == m.operands
  <2>1. ASSUME NEW m2, Alike(m, m2) PROVE Execute(insn, m2) = Parts(m2, w, b, p, o)
    BY <1>3, <2>1, CloseParts DEF Alike
  <2> HIDE DEF w, b, p, o
  <2> QED BY <2>1
<1>4. CASE insn.op = "NOT"
  <2> DEFINE w == [m.sw EXCEPT !.VKE = ~m.sw.VKE]
             b == m.bie
             p == m.parens
             o == m.operands
  <2>1. ASSUME NEW m2, Alike(m, m2) PROVE Execute(insn, m2) = Parts(m2, w, b, p, o)
    BY <1>4, <2>1, NotParts DEF Alike
  <2> HIDE DEF w, b, p, o
  <2> QED BY <2>1
<1>5. CASE insn.op = "SET"
  <2> DEFINE w == Ended(TRUE)
             b == m.bie
             p == m.parens
             o == m.operands
  <2>1. ASSUME NEW m2, Alike(m, m2) PROVE Execute(insn, m2) = Parts(m2, w, b, p, o)
    BY <1>5, <2>1, SetParts DEF Alike
  <2> HIDE DEF w, b, p, o
  <2> QED BY <2>1
<1>6. CASE insn.op = "SAVE"
  <2> DEFINE w == m.sw
             b == m.sw.VKE
             p == m.parens
             o == m.operands
  <2>1. ASSUME NEW m2, Alike(m, m2) PROVE Execute(insn, m2) = Parts(m2, w, b, p, o)
    BY <1>6, <2>1, SaveParts DEF Alike
  <2> HIDE DEF w, b, p, o
  <2> QED BY <2>1
<1>7. CASE insn.op = "CMP"
  <2> DEFINE w == [Ended(m.operands[insn.arg]) EXCEPT !.NER = TRUE]
             b == m.bie
             p == m.parens
             o == m.operands
  <2>1. ASSUME NEW m2, Alike(m, m2) PROVE Execute(insn, m2) = Parts(m2, w, b, p, o)
    BY <1>7, <2>1, CmpParts DEF Alike
  <2> HIDE DEF w, b, p, o
  <2> QED BY <2>1
<1>8. CASE insn.op = "="
  <2> DEFINE w == Ended(m.sw.VKE)
             b == m.bie
             p == m.parens
             o == [m.operands EXCEPT ![insn.arg] = m.sw.VKE]
  <2>1. ASSUME NEW m2, Alike(m, m2) PROVE Execute(insn, m2) = Parts(m2, w, b, p, o)
    BY <1>8, <2>1, AssignParts DEF Alike
  <2> HIDE DEF w, b, p, o
  <2> QED BY <2>1
<1>9. CASE insn.op = "T"
  <2> DEFINE w == m.sw
             b == m.bie
             p == m.parens
             o == [m.operands EXCEPT ![insn.arg] = ~m.operands[insn.arg]]
  <2>1. ASSUME NEW m2, Alike(m, m2) PROVE Execute(insn, m2) = Parts(m2, w, b, p, o)
    BY <1>9, <2>1, TransferParts DEF Alike
  <2> HIDE DEF w, b, p, o
  <2> QED BY <2>1
<1>10. CASE insn.op = "SPBNB"
  <2> DEFINE w == Ended(TRUE)
             b == m.sw.VKE
             p == m.parens
             o == m.operands
  <2>1. ASSUME NEW m2, Alike(m, m2) PROVE Execute(insn, m2) = Parts(m2, w, b, p, o)
    BY <1>10, <2>1, JumpParts DEF Alike
  <2> HIDE DEF w, b, p, o
  <2> QED BY <2>1
<1>11. CASE insn.op = "NOP"
  <2> DEFINE w == m.sw
             b == m.bie
             p == m.parens
             o == m.operands
  <2>1. ASSUME NEW m2, Alike(m, m2) PROVE Execute(insn, m2) = Parts(m2, w, b, p, o)
    BY <1>11, <2>1, NopParts DEF Alike
  <2> HIDE DEF w, b, p, o
  <2> QED BY <2>1
<1> QED BY <1>0, <1>1, <1>2, <1>3, <1>4, <1>5, <1>6, <1>7, <1>8, <1>9, <1>10, <1>11

LEMMA ExecPlaced ==
  ASSUME NEW m, IsMachine(m), NEW insn, insn.op \in Ops \ {"BE"}, NEW j, NEW l
  PROVE  IsMachine(Execute(insn, m)) /\ [Execute(insn, Placed(m, j)) EXCEPT !.ip = l] = Placed(Execute(insn, m), l)
<1>1. PICK word, bie, parens, operands :
        \A m2 : Alike(m, m2) => Execute(insn, m2) = Parts(m2, word, bie, parens, operands)
  BY ExecAlike
<1> DEFINE m2 == Placed(m, j)
<1>2. m2 = [ip |-> j, sw |-> m.sw, bie |-> m.bie, parens |-> m.parens, operands |-> m.operands]
  <2> DEFINE ip == m.ip
             w == m.sw
             b == m.bie
             p == m.parens
             o == m.operands
  <2>1. m = [ip |-> ip, sw |-> w, bie |-> b, parens |-> p, operands |-> o]
    BY DEF IsMachine
  <2> HIDE DEF ip, w, b, p, o
  <2>2. [m EXCEPT !.ip = j] = [ip |-> j, sw |-> w, bie |-> b, parens |-> p, operands |-> o]
    BY <2>1
  <2> QED BY <2>2 DEF Placed, ip, w, b, p, o
<1> HIDE DEF m2
<1>3. Alike(m, m2) /\ Alike(m, m)
  BY <1>2 DEF Alike, IsMachine
<1>4. /\ Execute(insn, m) = [ip |-> m.ip, sw |-> word, bie |-> bie, parens |-> parens, operands |-> operands]
      /\ Execute(insn, m2) = [ip |-> m2.ip, sw |-> word, bie |-> bie, parens |-> parens, operands |-> operands]
  BY <1>1, <1>3 DEF Parts
<1> DEFINE x == Execute(insn, m)
           y == Execute(insn, m2)
<1> HIDE DEF x, y
<1>5. /\ x = [ip |-> m.ip, sw |-> word, bie |-> bie, parens |-> parens, operands |-> operands]
      /\ y = [ip |-> m2.ip, sw |-> word, bie |-> bie, parens |-> parens, operands |-> operands]
  BY <1>4 DEF x, y
<1>6. IsMachine(x)
  BY <1>5 DEF IsMachine
<1>7. [y EXCEPT !.ip = l] = [x EXCEPT !.ip = l]
  BY <1>5
<1> QED BY <1>6, <1>7 DEF x, y, m2, Placed

\* t has the states of the code from m0 on; it can be run.
Ran(code0, t, m0, m2) ==
  /\ Len(code0) \in Nat /\ DOMAIN code0 = 1..Len(code0) /\ BeLast(code0)
  /\ \A k \in DOMAIN code0 : code0[k].op \in Ops /\ (Jumps(code0[k]) => code0[k].arg # NoLabel)
  /\ \A j, k \in DOMAIN code0 : code0[j].label = code0[k].label => j = k \/ code0[j].label = NoLabel
  /\ Plays(code0, t) /\ t[0] = <<m0, NoLabel>> /\ t[Len(code0)] = <<m2, NoLabel>>
  /\ IsMachine(m0) /\ m0.ip = 1

\* The machine is about to execute instruction k + 1.
At(code0, t, k, m) ==
  /\ m = Placed(t[k][1], k + 1)
  /\ t[k][2] = NoLabel \/ (k + 1 \in DOMAIN code0 /\ code0[k + 1].label = t[k][2])

LEMMA PlacedParts ==
  ASSUME NEW m, IsMachine(m), NEW j
  PROVE  /\ IsMachine(Placed(m, j)) /\ Placed(m, j).ip = j /\ Placed(m, j).sw = m.sw
         /\ Placed(m, j).operands = m.operands
<1> DEFINE ip == m.ip
           w == m.sw
           b == m.bie
           p == m.parens
           o == m.operands
<1>1. m = [ip |-> ip, sw |-> w, bie |-> b, parens |-> p, operands |-> o]
  BY DEF IsMachine
<1> HIDE DEF ip, w, b, p, o
<1>2. [m EXCEPT !.ip = j] = [ip |-> j, sw |-> w, bie |-> b, parens |-> p, operands |-> o]
  BY <1>1
<1> DEFINE x == [m EXCEPT !.ip = j]
<1>3. x = [ip |-> j, sw |-> w, bie |-> b, parens |-> p, operands |-> o]
  BY <1>2
<1> HIDE DEF x
<1>4. IsMachine(x) /\ x.ip = j /\ x.sw = w /\ x.operands = o
  BY <1>3 DEF IsMachine
<1> QED BY <1>4 DEF Placed, x, w, o

LEMMA TraceMachines ==
  ASSUME NEW code0, NEW t, NEW m0, NEW m2, Ran(code0, t, m0, m2)
  PROVE  \A k \in 0..Len(code0) : IsMachine(t[k][1])
<1> USE DEF Ran
<1> DEFINE n == Len(code0)
           S == {k \in Nat : k <= n => IsMachine(t[k][1])}
<1>1. 0 \in S
  OBVIOUS
<1>2. ASSUME NEW k \in Nat, k \in S PROVE k + 1 \in S
  <2> SUFFICES ASSUME k + 1 <= n PROVE IsMachine(t[k + 1][1])
    OBVIOUS
  <2> DEFINE j == k + 1
             insn == code0[j]
             st == t[k]
  <2>1. j \in 1..n /\ j \in DOMAIN code0 /\ j - 1 = k /\ k <= n
    OBVIOUS
  <2>2. t[j] = PlayStep(insn, st)
    BY <2>1 DEF Plays
  <2>3. IsMachine(st[1]) /\ insn.op \in Ops
    BY <1>2, <2>1
  <2> HIDE DEF j, insn, st
  <2>4. CASE st[2] # NoLabel /\ insn.label # st[2]
    BY <2>2, <2>3, <2>4, PlayCases DEF j
  <2>5. CASE st[2] = NoLabel \/ insn.label = st[2]
    <3>1. t[j] = Entered(insn, st[1])
      BY <2>2, <2>5, PlayCases
    <3>2. CASE insn.op = "BE"
      BY <2>3, <3>1, <3>2 DEF Entered, j
    <3>3. CASE insn.op # "BE"
      <4>1. t[j][1] = Execute(insn, st[1])
        BY <3>1, <3>3 DEF Entered
      <4>2. insn.op \in Ops \ {"BE"}
        BY <2>3, <3>3
      <4> DEFINE m == st[1]
      <4>3. IsMachine(m)
        BY <2>3
      <4> HIDE DEF m
      <4>4. IsMachine(Execute(insn, m))
        BY <4>2, <4>3, ExecPlaced
      <4> QED BY <4>1, <4>4 DEF m, j
    <3> QED BY <3>2, <3>3
  <2> QED BY <2>4, <2>5
<1> HIDE DEF S
<1>3. Nat \subseteq S
  BY <1>1, <1>2, SetInduction
<1> QED BY <1>3 DEF S

\* What the code does next.
LEMMA StepEntered ==
  ASSUME NEW code0, NEW t, NEW m0, NEW m2, Ran(code0, t, m0, m2), NEW k \in Nat, k + 1 \in DOMAIN code0,
         NEW m, At(code0, t, k, m)
  PROVE  /\ m.ip = k + 1
         /\ code0[k + 1].op = "BE" => t[k + 1] = <<t[k][1], NoLabel>>
         /\ code0[k + 1].op # "BE" =>
              \E j \in k + 1 .. Len(code0) : At(code0, t, j, Step(code0, m))
<1> DEFINE n == k + 1
           insn == code0[n]
           st == t[k]
           x == st[1]
<1>1. /\ n \in 1..Len(code0) /\ n \in 0..Len(code0) /\ n - 1 = k /\ k \in 0..Len(code0)
      /\ Len(code0) \in Nat /\ insn.op \in Ops
  BY DEF Ran
<1>2. IsMachine(x) /\ m = Placed(x, n) /\ (st[2] = NoLabel \/ insn.label = st[2])
  BY <1>1, TraceMachines DEF At
<1>3. m.ip = n /\ m.sw = x.sw
  BY <1>2, PlacedParts
<1>4. t[n] = Entered(insn, x)
  <2>1. t[n] = PlayStep(insn, st)
    BY <1>1 DEF Ran, Plays
  <2> HIDE DEF insn, st, n
  <2> QED BY <1>2, <2>1, PlayCases
<1>5. insn.op = "BE" => t[n] = <<x, NoLabel>>
  BY <1>4 DEF Entered
<1>6. ASSUME insn.op # "BE" PROVE \E j \in n .. Len(code0) : At(code0, t, j, Step(code0, m))
  <2> DEFINE jump == Jumps(insn) /\ ~x.sw.VKE
             target == CHOOSE l \in DOMAIN code0 : code0[l].label = insn.arg
             y == Execute(insn, x)
  <2>1. t[n][1] = y /\ t[n][2] = IF jump THEN insn.arg ELSE NoLabel
    BY <1>4, <1>6 DEF Entered
  <2>2. Step(code0, m) = [Execute(insn, m) EXCEPT !.ip = IF jump THEN target ELSE n + 1]
    <3>1. ~Ends(code0, m)
      BY <1>3, <1>6 DEF Ends
    <3>2. code0[m.ip] = insn /\ m.ip + 1 = n + 1
      BY <1>3
    <3>3. Step(code0, m) = [Execute(code0[m.ip], m) EXCEPT !.ip =
             IF Jumps(code0[m.ip]) /\ ~m.sw.VKE THEN CHOOSE l \in DOMAIN code0 : code0[l].label = code0[m.ip].arg
             ELSE m.ip + 1]
      BY <3>1, Zenon DEF Step
    <3> QED BY <1>3, <3>2, <3>3
  <2>3. \A l : [Execute(insn, m) EXCEPT !.ip = l] = Placed(y, l)
    <3>1. insn.op \in Ops \ {"BE"}
      BY <1>1, <1>6
    <3> HIDE DEF x, insn, n
    <3> QED BY <1>2, <3>1, ExecPlaced
  <2>4. CASE ~jump
    <3>1. Step(code0, m) = Placed(t[n][1], n + 1) /\ t[n][2] = NoLabel
      BY <2>1, <2>2, <2>3, <2>4
    <3>2. At(code0, t, n, Step(code0, m)) /\ n \in n..Len(code0)
      BY <1>1, <3>1 DEF At
    <3> QED BY <3>2
  <2>5. CASE jump
    <3>1. insn.arg # NoLabel /\ t[n][2] = insn.arg
      BY <2>1, <2>5 DEF Ran
    <3>2. t[Len(code0)][2] = NoLabel /\ Plays(code0, t)
      BY DEF Ran
    <3>3. PICK j \in n + 1 .. Len(code0) : code0[j].label = t[n][2] /\ t[j - 1] = t[n]
      <4> HIDE DEF n, insn
      <4> QED BY <1>1, <3>1, <3>2, LabelAhead
    <3>4. j \in DOMAIN code0 /\ j - 1 \in n .. Len(code0) /\ (j - 1) + 1 = j
      BY <1>1, <3>3 DEF Ran
    <3>5. \A l \in DOMAIN code0 : code0[l].label = insn.arg => l = j
      BY <3>1, <3>3, <3>4 DEF Ran
    <3>6. target = j
      <4> HIDE DEF insn
      <4> QED BY <3>1, <3>3, <3>4, <3>5
    <3>7. Step(code0, m) = Placed(t[j - 1][1], j)
      <4> HIDE DEF target, jump, y
      <4> QED BY <2>1, <2>2, <2>3, <2>5, <3>3, <3>6
    <3>8. At(code0, t, j - 1, Step(code0, m))
      BY <3>3, <3>4, <3>7 DEF At
    <3> QED BY <3>4, <3>8
  <2> QED BY <2>4, <2>5
<1> QED BY <1>3, <1>5, <1>6

RunWalk(code0, operands, r) ==
  r[0] = Machine(operands) /\ \A k \in 1..Len(code0) : r[k] = Step(code0, r[k - 1])

LEMMA RunDefined ==
  ASSUME NEW code0, NEW operands, Len(code0) \in Nat
  PROVE  \E r : RunWalk(code0, operands, r) /\ Run(code0, operands) = r[Len(code0)]
<1> DEFINE n == Len(code0)
           start == Machine(operands)
           Steps(m, g) == g = [k \in 0..m |-> g[k]] /\ g[0] = start /\ \A k \in 1..m : g[k] = Step(code0, g[k - 1])
           S == {m \in Nat : \E g : Steps(m, g)}
<1>1. n \in Nat
  OBVIOUS
<1> HIDE DEF start
<1>2. 0 \in S
  <2>1. Steps(0, [k \in 0..0 |-> start])
    OBVIOUS
  <2> QED BY <2>1
<1>3. ASSUME NEW m \in Nat, m \in S PROVE m + 1 \in S
  <2>1. PICK g : Steps(m, g)
    BY <1>3
  <2> DEFINE h == [k \in 0..(m + 1) |-> IF k <= m THEN g[k] ELSE Step(code0, g[m])]
  <2>2. h = [k \in 0..(m + 1) |-> h[k]] /\ h[0] = start
    BY <2>1
  <2>3. ASSUME NEW k \in 1..(m + 1) PROVE h[k] = Step(code0, h[k - 1])
    <3>1. k - 1 \in 0..m /\ h[k - 1] = g[k - 1]
      OBVIOUS
    <3>2. CASE k <= m
      <4>1. k \in 1..m /\ h[k] = g[k]
        BY <3>2
      <4>2. g[k] = Step(code0, g[k - 1])
        BY <2>1, <4>1
      <4> QED BY <3>1, <4>1, <4>2
    <3>3. CASE k = m + 1
      BY <3>1, <3>3
    <3> QED BY <3>2, <3>3
  <2>4. Steps(m + 1, h)
    BY <2>2, <2>3
  <2> HIDE DEF h, Steps
  <2> QED BY <2>4
<1> HIDE DEF S
<1>4. n \in S
  BY <1>1, <1>2, <1>3, SetInduction
<1>5. PICK g : Steps(n, g)
  BY <1>4 DEF S
<1> HIDE DEF n
<1>6. g = [k \in 0..n |-> IF k = 0 THEN start ELSE Step(code0, g[k - 1])]
  <2>1. ASSUME NEW k \in 0..n PROVE g[k] = IF k = 0 THEN start ELSE Step(code0, g[k - 1])
    <3>1. k # 0 => k \in 1..n
      BY <1>1
    <3> QED BY <1>5, <3>1
  <2> QED BY <1>5, <2>1
<1> DEFINE j == CHOOSE f : f = [k \in 0..n |-> IF k = 0 THEN start ELSE Step(code0, f[k - 1])]
<1>7. j = [k \in 0..n |-> IF k = 0 THEN start ELSE Step(code0, j[k - 1])]
  BY <1>6, Zenon
<1>8. Run(code0, operands) = j[n]
  BY Zenon DEF Run, n, start
<1> HIDE DEF j
<1>9. PICK f : f = j
  OBVIOUS
<1>10. f = [k \in 0..n |-> IF k = 0 THEN start ELSE Step(code0, f[k - 1])]
  BY <1>7, <1>9, Zenon
<1>11. f[0] = start /\ \A k \in 1..n : f[k] = Step(code0, f[k - 1])
  BY <1>1, <1>10
<1>12. RunWalk(code0, operands, f)
  BY <1>11 DEF RunWalk, start, n
<1> QED BY <1>8, <1>9, <1>12 DEF n

\* After so many steps the machine has come so far, or to a block end.
Came(code0, t, n, m) ==
  \E k \in 0..Len(code0) :
    /\ At(code0, t, k, m)
    /\ n <= k \/ (k + 1 \in DOMAIN code0 /\ code0[k + 1].op = "BE")

LEMMA EndsStays ==
  ASSUME NEW code0, NEW m, Ends(code0, m)
  PROVE  Step(code0, m) = m
BY DEF Step

LEMMA CameFurther ==
  ASSUME NEW code0, NEW t, NEW m0, NEW m2, Ran(code0, t, m0, m2), NEW n \in Nat, n + 1 <= Len(code0),
         NEW m, Came(code0, t, n, m)
  PROVE  Came(code0, t, n + 1, Step(code0, m))
<1>1. PICK k \in 0..Len(code0) : At(code0, t, k, m) /\ (n <= k \/ (k + 1 \in DOMAIN code0 /\ code0[k + 1].op = "BE"))
  BY DEF Came
<1>2. m.ip = k + 1
  BY <1>1, TraceMachines, PlacedParts DEF At
<1>3. Len(code0) \in Nat /\ DOMAIN code0 = 1..Len(code0)
  BY DEF Ran
<1>4. CASE k + 1 \in DOMAIN code0 /\ code0[k + 1].op = "BE"
  <2>1. Step(code0, m) = m
    BY <1>2, <1>4, EndsStays DEF Ends
  <2> QED BY <1>1, <1>4, <2>1 DEF Came
<1>5. CASE k + 1 \in DOMAIN code0 /\ code0[k + 1].op # "BE"
  <2>1. PICK j \in k + 1 .. Len(code0) : At(code0, t, j, Step(code0, m))
    BY <1>1, <1>5, StepEntered
  <2>2. j \in 0..Len(code0) /\ n + 1 <= j
    BY <1>1, <1>3, <1>5
  <2> QED BY <2>1, <2>2 DEF Came
<1>6. CASE k + 1 \notin DOMAIN code0
  <2>1. Step(code0, m) = m
    BY <1>2, <1>6, EndsStays DEF Ends
  <2>2. n + 1 <= k
    BY <1>3, <1>6
  <2> QED BY <1>1, <2>1, <2>2 DEF Came
<1> QED BY <1>4, <1>5, <1>6

LEMMA PlacedSame ==
  ASSUME NEW m, IsMachine(m)
  PROVE  Placed(m, m.ip) = m
<1> DEFINE ip == m.ip
           w == m.sw
           b == m.bie
           p == m.parens
           o == m.operands
<1>1. m = [ip |-> ip, sw |-> w, bie |-> b, parens |-> p, operands |-> o]
  BY DEF IsMachine
<1> HIDE DEF ip, w, b, p, o
<1>2. [m EXCEPT !.ip = ip] = [ip |-> ip, sw |-> w, bie |-> b, parens |-> p, operands |-> o]
  BY <1>1
<1>3. [m EXCEPT !.ip = ip] = m
  BY <1>1, <1>2
<1> QED BY <1>3 DEF Placed, ip

\* The program ends, with the operands of the last machine.
LEMMA RunEnds ==
  ASSUME NEW code0, NEW t, NEW operands, NEW m2, Ran(code0, t, Machine(operands), m2)
  PROVE  Ends(code0, Run(code0, operands)) /\ Run(code0, operands).operands = m2.operands
<1> DEFINE m0 == Machine(operands)
           n == Len(code0)
<1>1. n \in Nat /\ DOMAIN code0 = 1..n /\ t[0] = <<m0, NoLabel>> /\ t[n] = <<m2, NoLabel>>
  BY DEF Ran
<1>2. PICK r : RunWalk(code0, operands, r) /\ Run(code0, operands) = r[n]
  BY <1>1, RunDefined
<1> DEFINE S == {k \in Nat : k <= n => Came(code0, t, k, r[k])}
<1>3. 0 \in S
  <2>1. m0 = Placed(m0, 0 + 1)
    <3>1. IsMachine(m0) /\ m0.ip = 1 /\ 0 + 1 = 1
      BY DEF Ran
    <3> HIDE DEF m0
    <3> QED BY <3>1, PlacedSame
  <2>2. r[0] = m0 /\ t[0][1] = m0 /\ t[0][2] = NoLabel
    BY <1>1, <1>2 DEF RunWalk
  <2> HIDE DEF m0
  <2>3. At(code0, t, 0, r[0])
    BY <2>1, <2>2 DEF At
  <2>4. 0 \in 0..Len(code0) /\ 0 <= 0
    BY <1>1
  <2>5. Came(code0, t, 0, r[0])
    BY <2>3, <2>4 DEF Came
  <2> QED BY <2>5
<1>4. ASSUME NEW k \in Nat, k \in S PROVE k + 1 \in S
  <2> SUFFICES ASSUME k + 1 <= n PROVE Came(code0, t, k + 1, r[k + 1])
    OBVIOUS
  <2>1. k + 1 \in 1..Len(code0) /\ (k + 1) - 1 = k /\ k <= n
    BY <1>1
  <2>2. Came(code0, t, k, r[k])
    BY <1>4, <2>1
  <2>3. r[k + 1] = Step(code0, r[k])
    BY <1>2, <2>1 DEF RunWalk
  <2> DEFINE m == r[k]
  <2>4. Came(code0, t, k, m)
    BY <2>2
  <2> HIDE DEF m
  <2>5. Came(code0, t, k + 1, Step(code0, m))
    BY <2>4, CameFurther
  <2> QED BY <2>3, <2>5 DEF m
<1> HIDE DEF S
<1>5. n \in S
  BY <1>1, <1>3, <1>4, SetInduction
<1>6. Came(code0, t, n, r[n])
  BY <1>1, <1>5 DEF S
<1> DEFINE m == r[n]
<1>7. PICK k \in 0..n : At(code0, t, k, m) /\ (n <= k \/ (k + 1 \in DOMAIN code0 /\ code0[k + 1].op = "BE"))
  BY <1>6 DEF Came
<1>8. m.ip = k + 1 /\ m.operands = t[k][1].operands
  BY <1>7, TraceMachines, PlacedParts DEF At
<1> HIDE DEF m
<1>9. CASE k + 1 \in DOMAIN code0 /\ code0[k + 1].op = "BE"
  <2>1. t[k + 1] = <<t[k][1], NoLabel>>
    BY <1>1, <1>7, <1>9, StepEntered
  <2>2. k + 1 = n
    BY <1>9 DEF Ran, BeLast
  <2>3. m2 = t[k][1]
    BY <1>1, <2>1, <2>2
  <2>4. Ends(code0, m)
    BY <1>8, <1>9 DEF Ends
  <2> QED BY <1>2, <1>8, <2>3, <2>4 DEF m
<1>10. CASE n <= k
  <2>1. k = n
    BY <1>1, <1>10
  <2>2. Ends(code0, m)
    BY <1>1, <1>8, <2>1 DEF Ends
  <2>3. m.operands = m2.operands
    BY <1>1, <1>8, <2>1
  <2> QED BY <1>2, <2>2, <2>3 DEF m
<1> QED BY <1>7, <1>9, <1>10

\* Code that can be run: it has been resolved and ends once.
Sound(d, code0) ==
  /\ code0 \in Seq(InsnsOf(d)) /\ BeLast(code0) /\ Resolvable(code0)
  /\ \A k \in DOMAIN code0 : Jumps(code0[k]) => code0[k].arg # NoLabel

LEMMA LaidSound ==
  ASSUME NEW d, NEW code0 \in Seq(InsnsOf(d)), Laid(code0), BeLast(code0)
  PROVE  Sound(d, code0)
BY LaidResolvable DEF Sound, Laid

LEMMA SoundRuns ==
  ASSUME NEW d, NEW code0, Sound(d, code0), NEW values, NEW before, NEW m2, Reaches(code0, values, before, m2)
  PROVE  /\ Ends(code0, Run(code0, Initially(values, before)))
         /\ Run(code0, Initially(values, before)).operands = m2.operands
<1> DEFINE ops == Initially(values, before)
           m0 == Machine(ops)
<1>1. PICK t : t[0] = <<m0, NoLabel>> /\ t[Len(code0)] = <<m2, NoLabel>> /\ Plays(code0, t)
  BY DEF Reaches, Leads
<1>2. Len(code0) \in Nat /\ DOMAIN code0 = 1..Len(code0)
  BY LenProperties DEF Sound
<1>3. \A k \in DOMAIN code0 : code0[k].op \in Ops
  <2>1. \A k \in DOMAIN code0 : code0[k] \in InsnsOf(d)
    BY DEF Sound
  <2> QED BY <2>1 DEF InsnsOf
<1> HIDE DEF ops
<1>4. IsMachine(m0) /\ m0.ip = 1
  BY DEF Machine, IsMachine
<1>5. \A j, k \in DOMAIN code0 : code0[j].label = code0[k].label => j = k \/ code0[j].label = NoLabel
  BY DEF Sound, Resolvable
<1> HIDE DEF m0
<1>6. Ran(code0, t, m0, m2)
  BY <1>1, <1>2, <1>3, <1>4, <1>5 DEF Ran, Sound
<1> QED BY <1>6, RunEnds DEF m0, ops

LEMMA RemovedSound ==
  ASSUME NEW d, IsDiagram(d), NEW code0 \in Seq(InsnsOf(d)), Laid(code0), BeLast(code0)
  PROVE  Sound(d, LabelRemove(code0))
<1> DEFINE r == LabelRemove(code0)
<1>1. r \in Seq(InsnsOf(d)) /\ Relabelled(code0, r) /\ Resolvable(r)
  BY LabelRemoveRelabels, LabelRemoveResolvable
<1> HIDE DEF r
<1>2. DOMAIN code0 = 1..Len(code0) /\ DOMAIN r = 1..Len(r)
  BY <1>1, LenProperties
<1>3. BeLast(r)
  BY <1>1, <1>2, RelabelledLast
<1>4. \A k \in DOMAIN r : k \in DOMAIN code0 /\ r[k].op = code0[k].op /\ r[k].arg = code0[k].arg
  BY <1>1, <1>2 DEF Relabelled
<1>5. \A k \in DOMAIN r : Jumps(r[k]) => r[k].arg # NoLabel
  BY <1>4 DEF Laid, Jumps
<1>6. Sound(d, r)
  BY <1>1, <1>3, <1>5 DEF Sound
<1> QED BY <1>6 DEF r

\* The optimizer, any of its passes, leaves what the code does.
LEMMA OptimizedRuns ==
  ASSUME NEW d, IsDiagram(d), NEW code0 \in Seq(InsnsOf(d)), Laid(code0), BeLast(code0), NEW enabled,
         NEW values, NEW before, NEW m2, Reaches(code0, values, before, m2)
  PROVE  LET r == OptimizeInsns(code0, enabled) IN Sound(d, r) /\ Reaches(r, values, before, m2)
<1>1. PICK c : /\ c = (IF "noprem" \in enabled THEN NopRemove(code0) ELSE code0)
               /\ c \in Seq(InsnsOf(d)) /\ Laid(c)
               /\ OptimizeInsns(code0, enabled) = IF "lblrem" \in enabled THEN LabelRemove(c) ELSE c
  BY OptimizedCode
<1>2. BeLast(c) /\ Reaches(c, values, before, m2)
  <2>1. BeLast(NopRemove(code0)) /\ Reaches(NopRemove(code0), values, before, m2)
    BY NopRemoveLast, NopRemoveLeads DEF Reaches
  <2> QED BY <1>1, <2>1
<1>3. Sound(d, c) /\ Sound(d, LabelRemove(c))
  BY <1>1, <1>2, LaidSound, RemovedSound
<1>4. Reaches(LabelRemove(c), values, before, m2)
  <2> DEFINE r == LabelRemove(c)
  <2>1. Relabelled(c, r)
    BY <1>1, LabelRemoveRelabels
  <2> HIDE DEF r
  <2>2. Reaches(r, values, before, m2)
    BY <1>2, <2>1, RelabelledLeads DEF Reaches
  <2> QED BY <2>2 DEF r
<1> QED BY <1>1, <1>2, <1>3, <1>4

\* The code of a grid, with its block end or without it.
LEMMA FinishedRuns ==
  ASSUME RunInv, phase # "draw", AllCompiled, Plainly, NEW code0, Finished(code0),
         NEW values \in [Inputs -> BOOLEAN], NEW before \in BOOLEAN
  PROVE  /\ ~compiled.failed /\ IsDiagram(diagram) /\ code0 \in Seq(InsnsOf(diagram)) /\ Laid(code0) /\ BeLast(code0)
         /\ \E m2 : Reaches(code0, values, before, m2) /\ Right(values, before, m2.operands)
<1> DEFINE d == diagram
           c == compiled.code
           be == Plain("BE")
<1>1. IsDiagram(d) /\ code0 \in Seq(InsnsOf(d)) /\ Laid(code0)
  BY FinishedLaid DEF RunInv
<1>2. ~compiled.failed /\ \E m2 : Reaches(c, values, before, m2) /\ Right(values, before, m2.operands)
  BY CompiledRight
<1>3. PICK m2 : Reaches(c, values, before, m2) /\ Right(values, before, m2.operands)
  BY <1>2
<1>4. c \in Seq(InsnsOf(d)) /\ \A k \in DOMAIN c : c[k].op # "BE"
  BY DEF RunInv, CodeInv, CompilationInv, Partly, Result, Tidy
<1>5. be \in InsnsOf(d) /\ be.op = "BE"
  <2>1. "BE" \in Ops
    BY DEF Ops
  <2>2. be \in InsnsOf(d)
    BY <1>1, <2>1, InsnsTyped
  <2> QED BY <2>2 DEF Plain, Insn
<1>6. PICK last \in BOOLEAN : code0 = c \o (IF last THEN <<be>> ELSE <<>>)
  BY DEF Finished
<1>7. PlayStep(be, <<m2, NoLabel>>) = <<m2, NoLabel>>
  BY <1>5 DEF PlayStep
<1> HIDE DEF be, c
<1>8. CASE last
  <2>1. code0 = Append(c, be)
    <3>1. code0 = c \o <<be>>
      BY <1>6, <1>8
    <3>2. c \o <<be>> = Append(c, be)
      BY <1>4, <1>5, AppendIsConcat
    <3> QED BY <3>1, <3>2
  <2>2. Reaches(Append(c, be), values, before, m2)
    <3> DEFINE st == <<Machine(Initially(values, before)), NoLabel>>
               st2 == <<m2, NoLabel>>
    <3>1. Leads(c, st, st2)
      BY <1>3 DEF Reaches
    <3>2. PlayStep(be, st2) = st2
      BY <1>7
    <3> HIDE DEF st, st2
    <3>3. Leads(Append(c, be), st, PlayStep(be, st2))
      BY <1>4, <1>5, <3>1, LeadsAppend
    <3>4. Leads(Append(c, be), st, st2)
      BY <3>2, <3>3
    <3> QED BY <3>4 DEF Reaches, st, st2
  <2>3. BeLast(Append(c, be))
    <3> DEFINE b == Append(c, be)
    <3>1. /\ Len(c) \in Nat /\ DOMAIN c = 1..Len(c) /\ DOMAIN b = 1 .. Len(c) + 1
          /\ Len(b) = Len(c) + 1 /\ \A p \in DOMAIN c : b[p] = c[p]
      BY <1>4, <1>5, AppendFacts
    <3> HIDE DEF b
    <3>2. \A p \in DOMAIN b : p \in DOMAIN c \/ p = Len(b)
      BY <3>1
    <3>3. BeLast(b)
      BY <1>4, <3>1, <3>2 DEF BeLast
    <3> QED BY <3>3 DEF b
  <2> QED BY <1>1, <1>2, <1>3, <2>1, <2>2, <2>3
<1>9. CASE ~last
  <2>1. code0 = c
    BY <1>4, <1>6, <1>9, EmptyConcat
  <2>2. BeLast(c)
    BY <1>4 DEF BeLast
  <2> QED BY <1>1, <1>2, <1>3, <2>1, <2>2
<1> QED BY <1>8, <1>9

LEMMA DoneRuns ==
  ASSUME RunInv, Done, Plainly, NEW values \in [Inputs -> BOOLEAN], NEW before \in BOOLEAN
  PROVE  ~compiled.failed /\ \E m2 : /\ Sound(diagram, code) /\ Reaches(code, values, before, m2)
                                     /\ Right(values, before, m2.operands)
<1>1. phase # "draw" /\ AllCompiled
  BY DEF Done, RunInv, CodeInv
<1>2. CASE phase = "compiled"
  <2>1. Finished(code)
    BY <1>2 DEF RunInv, CodeInv
  <2>2. /\ ~compiled.failed /\ code \in Seq(InsnsOf(diagram)) /\ Laid(code) /\ BeLast(code)
        /\ \E m2 : Reaches(code, values, before, m2) /\ Right(values, before, m2.operands)
    BY <1>1, <2>1, FinishedRuns
  <2> QED BY <2>2, LaidSound
<1>3. CASE phase = "optimized"
  <2>1. PICK code0, enabled : Finished(code0) /\ code = OptimizeInsns(code0, enabled)
    BY <1>3 DEF RunInv, CodeInv
  <2>2. /\ ~compiled.failed /\ IsDiagram(diagram) /\ code0 \in Seq(InsnsOf(diagram)) /\ Laid(code0) /\ BeLast(code0)
        /\ \E m2 : Reaches(code0, values, before, m2) /\ Right(values, before, m2.operands)
    BY <1>1, <2>1, FinishedRuns
  <2>3. PICK m2 : Reaches(code0, values, before, m2) /\ Right(values, before, m2.operands)
    BY <2>2
  <2>4. Sound(diagram, OptimizeInsns(code0, enabled)) /\ Reaches(OptimizeInsns(code0, enabled), values, before, m2)
    BY <2>2, <2>3, OptimizedRuns
  <2> QED BY <2>1, <2>2, <2>3, <2>4
<1> QED BY <1>2, <1>3 DEF Done

LEMMA RunInvComputes ==
  RunInv => Computes
<1> SUFFICES ASSUME RunInv, Done, ~ResultBehindENO, ~EnabledByBox, ~LoadAssigned
             PROVE  ~compiled.failed /\ Computed
  BY DEF Computes
<1>1. Plainly
  BY DEF Plainly
<1>2. ~compiled.failed
  <2>1. AllCompiled /\ phase # "draw" /\ CompilationInv(diagram, compiled) /\ GridInv
    BY DEF RunInv, CodeInv, Done
  <2>2. ~LoadBoth(diagram)
    BY <1>1, <2>1, PlainlyNodes
  <2> QED BY <2>1, <2>2 DEF CompilationInv, Partly
<1>3. ASSUME NEW values \in [Inputs -> BOOLEAN], NEW before \in BOOLEAN
      PROVE  LET end == Run(code, Initially(values, before))
                 after == end.operands
             IN /\ Ends(code, end)
                /\ \A s \in DOMAIN diagram.stores :
                     after[Stored(s)] = PinValue(diagram, values, diagram.stores[s])
                /\ \A i \in Moves(diagram) :
                     after[Transferred(i)] = (before # Enabled(diagram, values, i))
  <2>1. PICK m2 : Sound(diagram, code) /\ Reaches(code, values, before, m2) /\ Right(values, before, m2.operands)
    BY <1>1, DoneRuns
  <2> DEFINE end == Run(code, Initially(values, before))
  <2>2. Ends(code, end) /\ end.operands = m2.operands
    BY <2>1, SoundRuns
  <2> HIDE DEF end
  <2>3. Right(values, before, end.operands)
    BY <2>1, <2>2
  <2> QED BY <2>2, <2>3 DEF Right, end
<1>4. Computed
  BY <1>3 DEF Computed
<1> QED BY <1>2, <1>4

\* FupCompiler.compile and AwlOptimizer.optimizeInsns: whatever is drawn, from
\* whichever element it is compiled and whichever passes are enabled, the code
\* leaves in the operands what the diagram says, for all values of the inputs.
THEOREM CompilerCorrect == GridSpec => []Computes
BY RunInvCorrect, RunInvComputes, PTL
=============================================================================
