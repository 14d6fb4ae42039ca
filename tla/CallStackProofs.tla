-------------------------- MODULE CallStackProofs --------------------------
(***************************************************************************)
(* Proofs about CallStack, for every program, every depth of calls and     *)
(* every size of the L-stack: the types, that call stack and L-stack agree,*)
(* what a CALL restores and what its block sees, where the copies of the   *)
(* parameters are, and where an output comes from and goes.                *)
(***************************************************************************)
EXTENDS CallStack, LStackOpsProofs, SequenceTheorems, TLAPS

----------------------------------------------------------------------------
(* The books of an allocator                                               *)

\* Where frame i ends, if saved tells where each frame found the stack.
FrameEnd(l, saved, i) == IF i = Len(l.frames) THEN l.globAllocBits ELSE saved[i + 1]

\* Every allocated bit is charged to one frame, and each frame starts on the
\* byte boundary after what it found.
Books(l, saved) ==
  /\ saved \in Seq(Nat) /\ Len(saved) = Len(l.frames)
  /\ \A i \in 1 .. Len(l.frames) :
       /\ saved[i] + l.frames[i].allocBits = FrameEnd(l, saved, i)
       /\ 8 * l.frames[i].byteOffset = RoundUp8(saved[i])
       /\ RoundUp8(saved[i]) <= FrameEnd(l, saved, i)

Booked(l) == l \in LStackType /\ \E saved : Books(l, saved)

LEMMA BooksTypes ==
  ASSUME NEW l \in LStackType, NEW saved, Books(l, saved)
  PROVE  /\ Len(l.frames) \in Nat /\ l.globAllocBits \in Nat /\ l.frames \in Seq(Frame)
         /\ \A i \in 1 .. Len(l.frames) :
              /\ saved[i] \in Nat /\ l.frames[i] \in Frame
              /\ l.frames[i].allocBits \in Nat /\ l.frames[i].byteOffset \in Nat
         /\ (l.frames = <<>>) <=> (Len(l.frames) = 0)
<1>1. l.frames \in Seq(Frame) /\ l.globAllocBits \in Nat /\ saved \in Seq(Nat) /\ Len(saved) = Len(l.frames)
  BY DEF LStackType, Books
<1>2. Len(l.frames) \in Nat /\ ((l.frames = <<>>) <=> (Len(l.frames) = 0))
  BY <1>1, EmptySeq
<1>3. \A i \in 1 .. Len(l.frames) : saved[i] \in Nat /\ l.frames[i] \in Frame
  BY <1>1
<1>4. QED
  BY <1>1, <1>2, <1>3 DEF Frame

LEMMA ResetBooked ==
  ASSUME NEW l \in LStackType
  PROVE  Booked(Reset(l)) /\ Len(Reset(l).frames) = 0 /\ Reset(l).globAllocBits = 0
<1>1. Reset(l) \in LStackType /\ Reset(l).frames = <<>> /\ Reset(l).globAllocBits = 0
  BY FreshFacts
<1>2. Books(Reset(l), <<>>)
  BY <1>1 DEF Books
<1>3. QED
  BY <1>1, <1>2 DEF Booked

LEMMA EnterBooks ==
  ASSUME NEW l \in LStackType, NEW saved, Books(l, saved)
  PROVE  /\ EnterStackFrame(l) \in LStackType
         /\ Books(EnterStackFrame(l), Append(saved, l.globAllocBits))
<1> DEFINE n == Len(l.frames)
           g == l.globAllocBits
           e == EnterStackFrame(l)
           more == Append(saved, g)
<1>1. /\ n \in Nat /\ g \in Nat /\ saved \in Seq(Nat) /\ Len(saved) = n
      /\ RoundUp8(g) \in Nat /\ g <= RoundUp8(g)
  BY BooksTypes, RoundUpFacts DEF Books
<1>2. /\ e \in LStackType /\ e.globAllocBits = RoundUp8(g) /\ Len(e.frames) = n + 1
      /\ \A i \in 1 .. n : e.frames[i] = l.frames[i]
      /\ 8 * e.frames[n + 1].byteOffset = RoundUp8(g)
      /\ e.frames[n + 1].allocBits = RoundUp8(g) - g
  BY EnterFacts
<1>3. /\ more \in Seq(Nat) /\ Len(more) = n + 1 /\ more[n + 1] = g
      /\ \A i \in 1 .. n : more[i] = saved[i]
  BY <1>1
<1> HIDE DEF e, more
<1>4. ASSUME NEW i \in 1 .. n
      PROVE  /\ more[i] + e.frames[i].allocBits = FrameEnd(e, more, i)
             /\ 8 * e.frames[i].byteOffset = RoundUp8(more[i])
             /\ RoundUp8(more[i]) <= FrameEnd(e, more, i)
  <2>1. FrameEnd(e, more, i) = FrameEnd(l, saved, i)
    <3>1. FrameEnd(e, more, i) = more[i + 1]
      BY <1>1, <1>2 DEF FrameEnd
    <3>2. CASE i = n
      BY <1>3, <3>1, <3>2 DEF FrameEnd
    <3>3. CASE i # n
      <4>1. i + 1 \in 1 .. n
        BY <1>1, <3>3
      <4>2. QED
        BY <1>3, <3>1, <3>3, <4>1 DEF FrameEnd
    <3>4. QED
      BY <3>2, <3>3
  <2>2. more[i] = saved[i] /\ e.frames[i] = l.frames[i]
    BY <1>2, <1>3
  <2>3. QED
    BY <2>1, <2>2 DEF Books
<1>5. /\ more[n + 1] + e.frames[n + 1].allocBits = FrameEnd(e, more, n + 1)
      /\ 8 * e.frames[n + 1].byteOffset = RoundUp8(more[n + 1])
      /\ RoundUp8(more[n + 1]) <= FrameEnd(e, more, n + 1)
  <2>1. FrameEnd(e, more, n + 1) = RoundUp8(g)
    BY <1>2 DEF FrameEnd
  <2>2. QED
    BY <1>1, <1>2, <1>3, <2>1
<1>6. \A i \in 1 .. n + 1 : i \in 1 .. n \/ i = n + 1
  BY <1>1
<1>7. Books(e, more)
  BY <1>2, <1>3, <1>4, <1>5, <1>6 DEF Books
<1>8. QED
  BY <1>2, <1>7 DEF e, more

LEMMA EnterBooked ==
  ASSUME NEW l, Booked(l)
  PROVE  Booked(EnterStackFrame(l))
<1>1. PICK saved : Books(l, saved)
  BY DEF Booked
<1>2. QED
  BY <1>1, EnterBooks DEF Booked

LEMMA AllocBooks ==
  ASSUME NEW l \in LStackType, NEW saved, Books(l, saved), l.frames # <<>>,
         NEW nrBits \in Nat \ {0}
  PROVE  Alloc(l, nrBits) \in LStackType /\ Books(Alloc(l, nrBits), saved)
<1> DEFINE n == Len(l.frames)
           a == Alloc(l, nrBits)
<1>1. /\ n \in Nat /\ saved \in Seq(Nat) /\ Len(saved) = n /\ l.globAllocBits \in Nat
      /\ \A i \in 1 .. n : saved[i] \in Nat /\ l.frames[i].allocBits \in Nat
  BY BooksTypes DEF Books
<1>2. /\ a \in LStackType /\ a.globAllocBits > l.globAllocBits /\ Len(a.frames) = n
      /\ \A i \in 1 .. n : a.frames[i].byteOffset = l.frames[i].byteOffset
      /\ \A i \in 1 .. n - 1 : a.frames[i] = l.frames[i]
      /\ a.frames[n].allocBits = l.frames[n].allocBits + a.globAllocBits - l.globAllocBits
  BY AllocFacts
<1>3. a.globAllocBits \in Nat
  BY <1>2 DEF LStackType
<1> HIDE DEF a
<1>4. ASSUME NEW i \in 1 .. n
      PROVE  /\ saved[i] + a.frames[i].allocBits = FrameEnd(a, saved, i)
             /\ RoundUp8(saved[i]) <= FrameEnd(a, saved, i)
  <2>1. /\ saved[i] + l.frames[i].allocBits = FrameEnd(l, saved, i)
        /\ RoundUp8(saved[i]) <= FrameEnd(l, saved, i)
    BY DEF Books
  <2>2. CASE i = n
    <3>1. FrameEnd(l, saved, i) = l.globAllocBits /\ FrameEnd(a, saved, i) = a.globAllocBits
      BY <1>2, <2>2 DEF FrameEnd
    <3>2. RoundUp8(saved[i]) \in Nat
      BY <1>1, RoundUpFacts
    <3>3. a.frames[i].allocBits = l.frames[i].allocBits + a.globAllocBits - l.globAllocBits
      BY <1>2, <2>2
    <3>4. saved[i] \in Nat /\ l.frames[i].allocBits \in Nat /\ l.globAllocBits \in Nat
      BY <1>1
    <3>5. saved[i] + a.frames[i].allocBits = FrameEnd(a, saved, i)
      BY <1>3, <2>1, <3>1, <3>3, <3>4
    <3>6. RoundUp8(saved[i]) <= FrameEnd(a, saved, i)
      BY <1>2, <1>3, <2>1, <3>1, <3>2, <3>4
    <3>7. QED
      BY <3>5, <3>6
  <2>3. CASE i # n
    <3>1. FrameEnd(a, saved, i) = FrameEnd(l, saved, i) /\ i \in 1 .. n - 1
      BY <1>1, <1>2, <2>3 DEF FrameEnd
    <3>2. QED
      BY <1>2, <2>1, <3>1
  <2>4. QED
    BY <2>2, <2>3
<1>5. Books(a, saved)
  BY <1>1, <1>2, <1>4 DEF Books
<1>6. QED
  BY <1>2, <1>5 DEF a

LEMMA AllocBooked ==
  ASSUME NEW l, Booked(l), l.frames # <<>>, NEW nrBits \in Nat \ {0}
  PROVE  Booked(Alloc(l, nrBits))
<1>1. PICK saved : Books(l, saved)
  BY DEF Booked
<1>2. QED
  BY <1>1, AllocBooks DEF Booked

\* The offset of an allocation within its frame.
LEMMA OffsetIsNat ==
  ASSUME NEW l, Booked(l), l.frames # <<>>, NEW nrBits \in Nat
  PROVE  /\ AllocOffset(l, nrBits) \in Nat /\ AllocStart(l, nrBits) \in Nat
         /\ AllocOffset(l, nrBits) = AllocStart(l, nrBits) - 8 * TopFrame(l).byteOffset
         /\ TopFrame(l).byteOffset \in Nat
<1>1. PICK saved : Books(l, saved)
  BY DEF Booked
<1> DEFINE n == Len(l.frames)
<1>2. n \in 1 .. n /\ l.globAllocBits \in Nat /\ l.frames[n].byteOffset \in Nat
  BY <1>1, BooksTypes DEF Booked
<1>3. 8 * l.frames[n].byteOffset <= l.globAllocBits
  BY <1>1, <1>2 DEF Books, FrameEnd
<1>4. AllocStart(l, nrBits) \in Nat /\ l.globAllocBits <= AllocStart(l, nrBits)
  <2>1. RoundUp8(l.globAllocBits) \in Nat /\ l.globAllocBits <= RoundUp8(l.globAllocBits)
    BY <1>2, RoundUpFacts
  <2>2. QED
    BY <1>2, <2>1 DEF AllocStart
<1>5. QED
  BY <1>2, <1>3, <1>4 DEF AllocOffset, TopFrame

\* A return computes the base from what the frame of the caller had found.
LEMMA ExitBooks ==
  ASSUME NEW l \in LStackType, NEW saved, Books(l, saved), l.frames # <<>>
  PROVE  LET x == ExitStackFrame(l)
             n == Len(l.frames)
         IN  /\ x \in LStackType /\ Books(x, SubSeq(saved, 1, n - 1)) /\ Len(x.frames) = n - 1
             /\ \A i \in 1 .. n - 1 : x.frames[i] = l.frames[i]
             /\ n > 1 => x.topFrameOffset = saved[n - 1]
<1> DEFINE n == Len(l.frames)
           x == ExitStackFrame(l)
           less == SubSeq(saved, 1, n - 1)
<1>1. /\ n \in Nat /\ n > 0 /\ saved \in Seq(Nat) /\ Len(saved) = n /\ l.globAllocBits \in Nat
      /\ \A i \in 1 .. n : saved[i] \in Nat /\ l.frames[i].allocBits \in Nat
  BY BooksTypes DEF Books
<1>2. saved[n] + l.frames[n].allocBits = l.globAllocBits /\ n \in 1 .. n
  BY <1>1 DEF Books, FrameEnd
<1>3. n > 1 => n - 1 \in 1 .. n /\ saved[n - 1] + l.frames[n - 1].allocBits = saved[n]
  <2>1. n > 1 => n - 1 \in 1 .. n /\ n - 1 # n /\ (n - 1) + 1 = n
    BY <1>1
  <2>2. QED
    BY <2>1 DEF Books, FrameEnd
<1>4. /\ l.frames[n].allocBits <= l.globAllocBits
      /\ n > 1 => l.frames[n - 1].allocBits <= l.globAllocBits - l.frames[n].allocBits
  <2> DEFINE p == saved[n]
             q == l.frames[n].allocBits
             r == saved[n - 1]
             k == l.frames[n - 1].allocBits
  <2>1. p \in Nat /\ q \in Nat /\ p + q = l.globAllocBits
    BY <1>1, <1>2
  <2>2. n > 1 => r \in Nat /\ k \in Nat /\ r + k = p
    BY <1>1, <1>3
  <2> HIDE DEF n, p, q, r, k
  <2>3. q <= l.globAllocBits /\ l.globAllocBits - q = p
    BY <2>1
  <2>4. n > 1 => k <= p
    BY <2>1, <2>2
  <2>5. QED
    BY <2>3, <2>4 DEF q, k
<1>5. /\ x \in LStackType /\ x.globAllocBits = l.globAllocBits - l.frames[n].allocBits
      /\ Len(x.frames) = n - 1 /\ \A i \in 1 .. n - 1 : x.frames[i] = l.frames[i]
      /\ n > 1 => x.topFrameOffset = x.globAllocBits - l.frames[n - 1].allocBits
  BY <1>4, ExitFacts
<1>6. x.globAllocBits = saved[n]
  BY <1>1, <1>2, <1>5
<1>7. n > 1 => x.topFrameOffset = saved[n - 1]
  <2> SUFFICES ASSUME n > 1 PROVE x.topFrameOffset = saved[n - 1]
    OBVIOUS
  <2> DEFINE p == saved[n - 1]
             q == l.frames[n - 1].allocBits
  <2>1. p \in Nat /\ q \in Nat /\ p + q = saved[n]
    BY <1>1, <1>3
  <2>2. x.topFrameOffset = saved[n] - q
    BY <1>5, <1>6
  <2> HIDE DEF p, q
  <2>3. saved[n] - q = p
    BY <2>1
  <2>4. QED
    BY <2>2, <2>3 DEF p
<1>8. /\ less \in Seq(Nat) /\ Len(less) = n - 1
      /\ \A i \in 1 .. n - 1 : less[i] = saved[i]
  BY <1>1
<1> HIDE DEF x, less
<1>9. ASSUME NEW i \in 1 .. n - 1
       PROVE  /\ less[i] + x.frames[i].allocBits = FrameEnd(x, less, i)
              /\ 8 * x.frames[i].byteOffset = RoundUp8(less[i])
              /\ RoundUp8(less[i]) <= FrameEnd(x, less, i)
  <2>1. i \in 1 .. n /\ i # n
    BY <1>1
  <2>2. FrameEnd(l, saved, i) = saved[i + 1]
    BY <2>1 DEF FrameEnd
  <2>3. FrameEnd(x, less, i) = saved[i + 1]
    <3>1. CASE i = n - 1
      BY <1>1, <1>5, <1>6, <3>1 DEF FrameEnd
    <3>2. CASE i # n - 1
      <4>1. i + 1 \in 1 .. n - 1
        BY <1>1, <3>2
      <4>2. QED
        BY <1>5, <1>8, <3>2, <4>1 DEF FrameEnd
    <3>3. QED
      BY <3>1, <3>2
  <2>4. less[i] = saved[i] /\ x.frames[i] = l.frames[i]
    BY <1>5, <1>8
  <2>5. QED
    BY <2>1, <2>2, <2>3, <2>4 DEF Books
<1>10. Books(x, less)
  BY <1>5, <1>8, <1>9 DEF Books
<1>11. QED
  BY <1>5, <1>7, <1>10 DEF x, less

LEMMA ExitBooked ==
  ASSUME NEW l, Booked(l), l.frames # <<>>
  PROVE  LET x == ExitStackFrame(l)
             n == Len(l.frames)
         IN  /\ Booked(x) /\ Len(x.frames) = n - 1
             /\ \A i \in 1 .. n - 1 : x.frames[i] = l.frames[i]
<1>1. PICK saved : Books(l, saved)
  BY DEF Booked
<1>2. QED
  BY <1>1, ExitBooks DEF Booked

----------------------------------------------------------------------------
(* The call stack                                                          *)

Blocks == DOMAIN TempBytes
Elements == [block : Blocks, kind : Calls \cup {"OB"}, site : Sites \cup {OB}, inst : DBs, ref : Nat,
             prev : Registers]
Places == {<<>>} \cup [lstack : Nat] \cup [db : DBs \cup {NoDB}, base : Nat]
FoundType == [reg : Registers, slot : Nat, from : Places, to : Places,
              entered : Nat]

TypesFit ==
  /\ running \in BOOLEAN /\ ls \in LStackType /\ depth \in 0 .. CallStackSize
  /\ reg \in Registers /\ scratch \in [Sites -> Nat]
  /\ stack \in Seq(Elements) /\ found \in Seq(FoundType)

\* Call stack, depth and L-stack count the same blocks, and the books balance.
DepthsFit ==
  /\ depth = Len(stack) /\ Len(found) = Len(stack) /\ Len(ls.frames) = Len(stack)
  /\ depth > 0 /\ Booked(ls)

\* The DI and AR2 that the block called at s starts with, if the caller has r.
EntryView(s, r) ==
  CASE Site[s].kind = "FB" -> [db |-> Site[s].inst, base |-> 0]
    [] Site[s].kind = "MULTI_FB" -> [db |-> r.di, base |-> r.ar2 + Site[s].base]
    [] OTHER -> [db |-> r.di, base |-> r.ar2]

\* What the element e, called by the block b, has to do with what it found, f.
Linked(b, e, f) ==
  /\ e.site \in Sites /\ Site[e.site].owner = b
  /\ e.block = Site[e.site].callee /\ e.kind = Site[e.site].kind
  /\ e.prev = f.reg
  /\ f.from = IF e.kind = "FC" THEN [lstack |-> f.slot] ELSE EntryView(e.site, f.reg)
  /\ f.to = Destination(e.site, f.reg)

Chained ==
  /\ stack[1].kind = "OB"
  /\ \A i \in 2 .. Len(stack) : Linked(stack[i - 1].block, stack[i], found[i])

CallInv == TypesFit /\ (running => DepthsFit /\ Chained)

LEMMA RegisterFields ==
  ASSUME NEW r \in Registers
  PROVE  r.db \in DBs /\ r.di \in DBs /\ r.ar2 \in Nat
BY DEF Registers

LEMMA SiteIs ==
  ASSUME NEW s \in Sites
  PROVE  /\ Site[s].callee \in Blocks /\ Site[s].kind \in Calls /\ Site[s].inst \in DBs
         /\ Site[s].base \in Nat /\ Site[s].width \in Nat /\ Site[s].opens \in DBs \cup {NoDB}
         /\ TempBytes[Site[s].callee] \in Nat
BY CallStackAssumption DEF Blocks

LEMMA OpenedType ==
  ASSUME reg \in Registers, NEW s \in Sites
  PROVE  Opened(s) \in Registers /\ Opened(s).di = reg.di /\ Opened(s).ar2 = reg.ar2
<1>1. Site[s].opens \in DBs \/ Site[s].opens = NoDB
  BY SiteIs
<1>2. QED
  BY <1>1 DEF Opened, Registers

LEMMA CalleeRegistersType ==
  ASSUME reg \in Registers, NEW s \in Sites
  PROVE  /\ CalleeRegisters(s) \in Registers
         /\ [db |-> CalleeRegisters(s).di, base |-> CalleeRegisters(s).ar2] = EntryView(s, reg)
<1>1. reg.di \in DBs /\ reg.ar2 \in Nat /\ Site[s].inst \in DBs /\ Site[s].base \in Nat
  BY RegisterFields, SiteIs
<1>2. CASE Site[s].kind = "FB"
  <2>1. CalleeRegisters(s) = [db |-> reg.di, di |-> Site[s].inst, ar2 |-> 0]
    BY <1>2 DEF CalleeRegisters
  <2>2. EntryView(s, reg) = [db |-> Site[s].inst, base |-> 0]
    BY <1>2 DEF EntryView
  <2>3. QED
    BY <1>1, <2>1, <2>2 DEF Registers
<1>3. CASE Site[s].kind = "MULTI_FB"
  <2>1. CalleeRegisters(s) = [db |-> reg.di, di |-> reg.di, ar2 |-> reg.ar2 + Site[s].base]
    BY <1>3 DEF CalleeRegisters
  <2>2. EntryView(s, reg) = [db |-> reg.di, base |-> reg.ar2 + Site[s].base]
    BY <1>3 DEF EntryView
  <2>3. QED
    BY <1>1, <2>1, <2>2 DEF Registers
<1>4. CASE Site[s].kind \notin {"FB", "MULTI_FB"}
  <2>1. CalleeRegisters(s) = Opened(s)
    BY <1>4 DEF CalleeRegisters
  <2>2. EntryView(s, reg) = [db |-> reg.di, base |-> reg.ar2]
    BY <1>4 DEF EntryView
  <2>3. QED
    BY <2>1, <2>2, OpenedType
<1>5. QED
  BY <1>2, <1>3, <1>4

\* The L-stack in the course of a call: the copy of the parameter, the frame
\* of the callee and its TEMP data.
LEMMA CopyBooked ==
  ASSUME Booked(ls), ls.frames # <<>>, NEW s \in Sites
  PROVE  /\ Booked(Copied(s)) /\ Len(Copied(s).frames) = Len(ls.frames)
         /\ \A i \in 1 .. Len(ls.frames) : Copied(s).frames[i].byteOffset = ls.frames[i].byteOffset
         /\ Copies(s) => Copied(s).globAllocBits = AllocStart(ls, Site[s].width) + Site[s].width
<1>1. CASE Copies(s)
  <2>1. Site[s].width \in Nat \ {0}
    BY <1>1, SiteIs DEF Copies
  <2>2. Copied(s) = Alloc(ls, Site[s].width)
    BY <1>1 DEF Copied
  <2>3. ls \in LStackType
    BY DEF Booked
  <2>4. QED
    BY <2>1, <2>2, <2>3, AllocBooked, AllocFacts
<1>2. CASE ~Copies(s)
  BY <1>2 DEF Copied
<1>3. QED
  BY <1>1, <1>2

LEMMA TempBooked ==
  ASSUME NEW l, Booked(l), l.frames # <<>>, NEW b \in Blocks
  PROVE  /\ Booked(WithTemp(l, b)) /\ Len(WithTemp(l, b).frames) = Len(l.frames)
         /\ \A i \in 1 .. Len(l.frames) : WithTemp(l, b).frames[i].byteOffset = l.frames[i].byteOffset
<1>1. CASE TempBytes[b] > 0
  <2>1. 8 * TempBytes[b] \in Nat \ {0}
    BY <1>1, CallStackAssumption DEF Blocks
  <2>2. WithTemp(l, b) = Alloc(l, 8 * TempBytes[b])
    BY <1>1 DEF WithTemp
  <2>3. l \in LStackType
    BY DEF Booked
  <2>4. QED
    BY <2>1, <2>2, <2>3, AllocBooked, AllocFacts
<1>2. CASE ~(TempBytes[b] > 0)
  BY <1>2 DEF WithTemp
<1>3. QED
  BY <1>1, <1>2

\* A new frame with its TEMP data.
LEMMA FrameBooked ==
  ASSUME NEW l, Booked(l), NEW b \in Blocks
  PROVE  LET e == WithTemp(EnterStackFrame(l), b)
             n == Len(l.frames)
         IN  /\ Booked(e) /\ Len(e.frames) = n + 1
             /\ \A i \in 1 .. n : e.frames[i].byteOffset = l.frames[i].byteOffset
             /\ 8 * e.frames[n + 1].byteOffset = RoundUp8(l.globAllocBits)
<1> DEFINE n == Len(l.frames)
           m == EnterStackFrame(l)
           e == WithTemp(m, b)
<1>1. l \in LStackType /\ n \in Nat
  BY DEF Booked, LStackType
<1>2. Booked(m)
  BY EnterBooked
<1>3. /\ Len(m.frames) = n + 1 /\ \A i \in 1 .. n : m.frames[i] = l.frames[i]
      /\ 8 * m.frames[n + 1].byteOffset = RoundUp8(l.globAllocBits)
  BY <1>1, EnterFacts
<1> HIDE DEF m
<1>4. m.frames # <<>>
  BY <1>1, <1>3, EmptySeq
<1>5. /\ Booked(e) /\ Len(e.frames) = Len(m.frames)
      /\ \A i \in 1 .. Len(m.frames) : e.frames[i].byteOffset = m.frames[i].byteOffset
  BY <1>2, <1>4, TempBooked
<1> HIDE DEF e
<1>6. \A i \in 1 .. n : e.frames[i].byteOffset = l.frames[i].byteOffset
  BY <1>1, <1>3, <1>5
<1>7. e.frames[n + 1].byteOffset = m.frames[n + 1].byteOffset
  BY <1>1, <1>3, <1>5
<1>8. QED
  BY <1>3, <1>5, <1>6, <1>7 DEF e, m

LEMMA FramesThere ==
  ASSUME CallInv, running
  PROVE  /\ Booked(ls) /\ ls.frames # <<>> /\ Len(stack) \in Nat /\ Len(stack) > 0
         /\ Len(ls.frames) = Len(stack) /\ Len(found) = Len(stack) /\ depth = Len(stack)
         /\ Top \in Elements /\ stack[Len(stack)] = Top
         /\ \A i \in 1 .. Len(stack) : stack[i] \in Elements /\ found[i] \in FoundType
<1>1. /\ DepthsFit /\ stack \in Seq(Elements) /\ found \in Seq(FoundType)
      /\ ls \in LStackType /\ depth \in 0 .. CallStackSize
  BY DEF CallInv, TypesFit
<1>2. depth = Len(stack) /\ Len(found) = Len(stack) /\ Len(ls.frames) = Len(stack) /\ depth > 0 /\ Booked(ls)
  BY <1>1 DEF DepthsFit
<1>3. Len(stack) \in Nat /\ Len(stack) > 0 /\ ls.frames \in Seq(Frame)
  BY <1>1, <1>2 DEF LStackType
<1>4. \A i \in 1 .. Len(stack) : stack[i] \in Elements /\ found[i] \in FoundType
  BY <1>1, <1>2
<1>5. ls.frames # <<>>
  BY <1>2, <1>3, EmptySeq
<1>6. QED
  BY <1>2, <1>3, <1>4, <1>5 DEF Top

LEMMA StaticPlace ==
  ASSUME NEW b, NEW r \in Registers, NEW s \in Sites
  PROVE  StaticOf(b, r) \in Places /\ Destination(s, r) \in Places
<1>1. r.di \in DBs /\ r.ar2 \in Nat
  BY RegisterFields
<1>2. StaticOf(b, r) \in [db : DBs \cup {NoDB}, base : Nat] /\ StaticOf(Site[s].owner, r) \in [db : DBs \cup {NoDB}, base : Nat]
  BY <1>1 DEF StaticOf
<1>3. [db |-> NoDB, base |-> 0] \in [db : DBs \cup {NoDB}, base : Nat]
  OBVIOUS
<1>4. QED
  BY <1>2, <1>3 DEF Destination, Places

\* The element of a call, and what it finds.
LEMMA ElementIs ==
  ASSUME CallInv, NEW s \in Sites, At(s)
  PROVE  /\ Element(s) \in Elements /\ Found(s) \in FoundType /\ Scratched(s) \in [Sites -> Nat]
         /\ Element(s).site = s /\ Element(s).ref = (IF Copies(s) THEN AllocOffset(ls, Site[s].width) ELSE 0)
         /\ Found(s).slot = ls.topFrameOffset + Element(s).ref /\ Found(s).reg = reg
         /\ Linked(Top.block, Element(s), Found(s))
<1>1. /\ running /\ reg \in Registers /\ scratch \in [Sites -> Nat] /\ Site[s].owner = Top.block
      /\ ls.topFrameOffset \in Nat
  BY DEF At, CallInv, TypesFit, LStackType
<1> DEFINE ref == IF Copies(s) THEN AllocOffset(ls, Site[s].width) ELSE 0
           inst == CASE Site[s].kind = "FB" -> Site[s].inst
                     [] Site[s].kind \in {"MULTI_FB", "RAW_FB"} -> reg.di
                     [] OTHER -> 0
<1>2. AllocOffset(ls, Site[s].width) \in Nat /\ ref \in Nat
  BY <1>1, FramesThere, SiteIs, OffsetIsNat
<1>3. inst \in DBs
  BY <1>1, SiteIs, RegisterFields, CallStackAssumption
<1>4. Element(s) = [block |-> Site[s].callee, kind |-> Site[s].kind, site |-> s, inst |-> inst, ref |-> ref, prev |-> reg]
  BY DEF Element
<1> HIDE DEF ref, inst
<1>5. Element(s) \in Elements
  BY <1>1, <1>2, <1>3, <1>4, SiteIs DEF Elements
<1>6. /\ Element(s).site = s /\ Element(s).kind = Site[s].kind /\ Element(s).ref = ref
      /\ Element(s).block = Site[s].callee /\ Element(s).prev = reg
  BY <1>4
<1> DEFINE slot == ls.topFrameOffset + Element(s).ref
           from == IF Site[s].kind = "FC" THEN [lstack |-> slot]
                   ELSE [db |-> CalleeRegisters(s).di, base |-> CalleeRegisters(s).ar2]
<1>7. Found(s) = [reg |-> reg, slot |-> slot, from |-> from, to |-> Destination(s, reg),
                  entered |-> Copied(s).globAllocBits]
  BY DEF Found
<1>8. slot \in Nat
  BY <1>1, <1>2, <1>6
<1>9. from \in Places
  <2>1. CalleeRegisters(s).di \in DBs /\ CalleeRegisters(s).ar2 \in Nat
    BY <1>1, CalleeRegistersType, RegisterFields
  <2>2. [db |-> CalleeRegisters(s).di, base |-> CalleeRegisters(s).ar2] \in [db : DBs \cup {NoDB}, base : Nat]
    BY <2>1
  <2>3. [lstack |-> slot] \in [lstack : Nat]
    BY <1>8
  <2>4. QED
    BY <2>2, <2>3 DEF Places
<1>10. from = (IF Site[s].kind = "FC" THEN [lstack |-> slot] ELSE EntryView(s, reg))
  BY <1>1, CalleeRegistersType
<1> HIDE DEF slot, from
<1>11. Found(s) \in FoundType
  <2>1. Copied(s).globAllocBits \in Nat
    BY <1>1, FramesThere, CopyBooked DEF Booked, LStackType
  <2>2. Destination(s, reg) \in Places
    BY <1>1, StaticPlace
  <2>3. QED
    BY <1>1, <1>7, <1>8, <1>9, <2>1, <2>2 DEF FoundType
<1>12. Found(s).reg = reg /\ Found(s).slot = slot /\ Found(s).from = from /\ Found(s).to = Destination(s, reg)
  BY <1>7
<1>13. Linked(Top.block, Element(s), Found(s))
  BY <1>1, <1>6, <1>10, <1>12 DEF Linked
<1>14. Scratched(s) \in [Sites -> Nat]
  BY <1>1, <1>2 DEF Scratched
<1>15. QED
  BY <1>5, <1>6, <1>11, <1>12, <1>13, <1>14 DEF slot, ref

\* What a call does to the call stack and to the L-stack.
LEMMA CallIs ==
  ASSUME CallInv, NEW s \in Sites, Call(s)
  PROVE  LET n == Len(stack)
         IN  /\ running /\ running' = running /\ n \in Nat /\ n > 0 /\ At(s)
             /\ Len(stack') = n + 1 /\ stack'[n + 1] = Element(s) /\ \A i \in 1 .. n : stack'[i] = stack[i]
             /\ Len(found') = n + 1 /\ found'[n + 1] = Found(s) /\ \A i \in 1 .. n : found'[i] = found[i]
             /\ Booked(ls') /\ Len(ls'.frames) = n + 1
             /\ \A i \in 1 .. n : ls'.frames[i].byteOffset = ls.frames[i].byteOffset
             /\ 8 * ls'.frames[n + 1].byteOffset = RoundUp8(Copied(s).globAllocBits)
             /\ reg' = CalleeRegisters(s) /\ scratch' = Scratched(s) /\ depth' = n + 1
             /\ stack' \in Seq(Elements) /\ found' \in Seq(FoundType) /\ tidy' = tidy
<1> DEFINE n == Len(stack)
<1>1. /\ At(s) /\ ls' = WithTemp(EnterStackFrame(Copied(s)), Site[s].callee)
      /\ stack' = Append(stack, Element(s)) /\ depth' = depth + 1 /\ reg' = CalleeRegisters(s)
      /\ scratch' = Scratched(s) /\ found' = Append(found, Found(s)) /\ running' = running /\ tidy' = tidy
  BY DEF Call
<1>2. running
  BY <1>1 DEF At
<1>3. /\ Booked(ls) /\ ls.frames # <<>> /\ n \in Nat /\ n > 0 /\ Len(ls.frames) = n
      /\ Len(found) = n /\ depth = n
  BY <1>2, FramesThere
<1>4. Element(s) \in Elements /\ Found(s) \in FoundType
  BY <1>1, ElementIs
<1>5. stack \in Seq(Elements) /\ found \in Seq(FoundType)
  BY DEF CallInv, TypesFit
<1>6. /\ Len(stack') = n + 1 /\ stack'[n + 1] = Element(s) /\ \A i \in 1 .. n : stack'[i] = stack[i]
      /\ stack' \in Seq(Elements)
  BY <1>1, <1>4, <1>5
<1>7. /\ Len(found') = n + 1 /\ found'[n + 1] = Found(s) /\ \A i \in 1 .. n : found'[i] = found[i]
      /\ found' \in Seq(FoundType)
  BY <1>1, <1>3, <1>4, <1>5
<1>8. /\ Booked(Copied(s)) /\ Len(Copied(s).frames) = n
      /\ \A i \in 1 .. n : Copied(s).frames[i].byteOffset = ls.frames[i].byteOffset
  BY <1>3, CopyBooked
<1>9. /\ Booked(ls') /\ Len(ls'.frames) = n + 1
      /\ \A i \in 1 .. n : ls'.frames[i].byteOffset = Copied(s).frames[i].byteOffset
      /\ 8 * ls'.frames[n + 1].byteOffset = RoundUp8(Copied(s).globAllocBits)
  BY <1>1, <1>8, SiteIs, FrameBooked
<1>10. QED
  BY <1>1, <1>2, <1>3, <1>6, <1>7, <1>8, <1>9

LEMMA CallKeeps ==
  ASSUME CallInv, NEW s \in Sites, Call(s)
  PROVE  CallInv'
<1> DEFINE n == Len(stack)
<1>1. n \in Nat /\ n > 0 /\ At(s) /\ running
  BY CallIs
<1>2. Booked(ls') /\ Len(ls'.frames) = n + 1 /\ depth' = n + 1 /\ Len(stack') = n + 1 /\ Len(found') = n + 1
  BY CallIs
<1>3. DepthsFit'
  <2>1. depth' = Len(stack') /\ Len(found') = Len(stack') /\ Len(ls'.frames) = Len(stack') /\ depth' > 0
    BY <1>1, <1>2
  <2>2. QED
    BY <1>2, <2>1 DEF DepthsFit, Booked, Books, FrameEnd
<1>4. TypesFit'
  <2>1. reg' \in Registers /\ scratch' \in [Sites -> Nat]
    BY <1>1, CallIs, ElementIs, CalleeRegistersType DEF CallInv, TypesFit
  <2>2. depth' \in 0 .. CallStackSize
    <3>1. ~(depth >= CallStackSize) /\ depth' = depth + 1
      BY DEF Call, DepthExceeded
    <3>2. QED
      BY <3>1, CallStackAssumption DEF CallInv, TypesFit
  <2>3. ls' \in LStackType /\ stack' \in Seq(Elements) /\ found' \in Seq(FoundType) /\ running' \in BOOLEAN
    BY <1>1, CallIs DEF Booked
  <2>4. QED
    BY <2>1, <2>2, <2>3 DEF TypesFit
<1>5. Chained'
  <2>1. Chained
    BY <1>1 DEF CallInv
  <2>2. stack'[1].kind = "OB"
    <3>1. 1 \in 1 .. n
      BY <1>1
    <3>2. stack'[1] = stack[1]
      BY <3>1, CallIs
    <3>3. QED
      BY <2>1, <3>2 DEF Chained
  <2>3. ASSUME NEW i \in 2 .. n + 1 PROVE Linked(stack'[i - 1].block, stack'[i], found'[i])
    <3>1. CASE i = n + 1
      <4>0. i - 1 = n /\ n \in 1 .. n
        BY <1>1, <3>1
      <4>1. stack'[i] = Element(s) /\ found'[i] = Found(s) /\ stack'[i - 1] = stack[n]
        <5>1. stack'[n + 1] = Element(s) /\ found'[n + 1] = Found(s) /\ \A j \in 1 .. n : stack'[j] = stack[j]
          BY CallIs
        <5>2. QED
          BY <3>1, <4>0, <5>1
      <4>2. stack[n] = Top
        BY DEF Top
      <4>3. QED
        BY <1>1, <4>1, <4>2, ElementIs
    <3>2. CASE i # n + 1
      <4>1. i \in 2 .. n /\ i \in 1 .. n /\ i - 1 \in 1 .. n
        BY <1>1, <3>2
      <4>2. stack'[i] = stack[i] /\ found'[i] = found[i] /\ stack'[i - 1] = stack[i - 1]
        BY <4>1, CallIs
      <4>3. QED
        BY <2>1, <4>1, <4>2 DEF Chained
    <3>3. QED
      BY <3>1, <3>2
  <2>4. \A i \in 2 .. Len(stack') : Linked(stack'[i - 1].block, stack'[i], found'[i])
    BY <1>2, <2>3
  <2>5. QED
    BY <2>2, <2>4 DEF Chained, Linked, EntryView, Destination, StaticOf
<1>6. QED
  BY <1>3, <1>4, <1>5 DEF CallInv

LEMMA RunOBIs ==
  ASSUME CallInv, RunOB
  PROVE  /\ Booked(ls') /\ Len(ls'.frames) = 1 /\ running' /\ depth' = 1 /\ reg' = InitialRegisters
         /\ Len(stack') = 1 /\ stack'[1] = OBElement /\ Len(found') = 1
         /\ stack' \in Seq(Elements) /\ found' \in Seq(FoundType)
         /\ reg' \in Registers /\ scratch' = scratch
<1>1. /\ reg' = InitialRegisters /\ running' = TRUE /\ ls' = WithTemp(EnterStackFrame(Reset(ls)), OB)
      /\ stack' = <<OBElement>> /\ depth' = 1 /\ scratch' = scratch
      /\ found' = <<[reg |-> InitialRegisters, slot |-> 0, from |-> <<>>, to |-> <<>>, entered |-> 0]>>
  BY DEF RunOB, FrameOfOB
<1>2. ls \in LStackType
  BY DEF CallInv, TypesFit
<1>3. Booked(Reset(ls)) /\ Len(Reset(ls).frames) = 0 /\ OB \in Blocks
  BY <1>2, ResetBooked, CallStackAssumption DEF Blocks
<1>4. Booked(ls') /\ Len(ls'.frames) = 0 + 1
  BY <1>1, <1>3, FrameBooked
<1>5. InitialRegisters \in Registers
  BY CallStackAssumption DEF InitialRegisters, Registers
<1>6. OBElement \in Elements
  BY <1>3, <1>5, CallStackAssumption DEF OBElement, Elements
<1>7. [reg |-> InitialRegisters, slot |-> 0, from |-> <<>>, to |-> <<>>, entered |-> 0] \in FoundType
  <2>1. <<>> \in Places
    BY DEF Places
  <2>2. QED
    BY <1>5, <2>1 DEF FoundType
<1>8. stack' \in Seq(Elements) /\ Len(stack') = 1 /\ stack'[1] = OBElement
  BY <1>1, <1>6
<1> DEFINE f == [reg |-> InitialRegisters, slot |-> 0, from |-> <<>>, to |-> <<>>, entered |-> 0]
<1>9. found' = <<f>> /\ f \in FoundType
  BY <1>1, <1>7
<1> HIDE DEF f
<1>10. found' \in Seq(FoundType) /\ Len(found') = 1
  BY <1>9
<1>11. QED
  BY <1>1, <1>4, <1>5, <1>8, <1>10

LEMMA RunOBKeeps ==
  ASSUME CallInv, RunOB
  PROVE  CallInv'
<1>1. DepthsFit'
  <2>1. Booked(ls') /\ Len(ls'.frames) = 1 /\ depth' = 1 /\ Len(stack') = 1 /\ Len(found') = 1
    BY RunOBIs
  <2>2. QED
    BY <2>1 DEF DepthsFit, Booked, Books, FrameEnd
<1>2. Chained'
  <2>1. Len(stack') = 1 /\ stack'[1].kind = "OB"
    BY RunOBIs DEF OBElement
  <2>2. QED
    BY <2>1 DEF Chained
<1>3. TypesFit'
  <2>1. /\ ls' \in LStackType /\ depth' = 1 /\ running' \in BOOLEAN /\ reg' \in Registers
        /\ stack' \in Seq(Elements) /\ found' \in Seq(FoundType) /\ scratch' = scratch
    BY RunOBIs DEF Booked, RunOB
  <2>2. 1 \in 0 .. CallStackSize
    BY CallStackAssumption
  <2>3. QED
    BY <2>1, <2>2 DEF CallInv, TypesFit
<1>4. QED
  BY <1>1, <1>2, <1>3 DEF CallInv

LEMMA CallFailsKeeps ==
  ASSUME CallInv, NEW s \in Sites, CallFails(s)
  PROVE  CallInv'
<1>1. running /\ running' = FALSE /\ UNCHANGED <<stack, depth, found>>
  BY DEF CallFails, At
<1>2. At(s)
  BY DEF CallFails
<1>3. ls' = ls \/ ls' = EnterStackFrame(Copied(s))
  BY DEF CallFails
<1>4. reg' \in {reg, Opened(s)} /\ scratch' \in {scratch, Scratched(s)}
  BY DEF CallFails
<1>5. Booked(ls) /\ Booked(EnterStackFrame(Copied(s)))
  BY <1>1, FramesThere, CopyBooked, EnterBooked
<1>6. reg \in Registers /\ scratch \in [Sites -> Nat]
  BY DEF CallInv, TypesFit
<1>7. reg' \in Registers /\ scratch' \in [Sites -> Nat]
  BY <1>2, <1>4, <1>6, OpenedType, ElementIs
<1>8. ls' \in LStackType
  BY <1>3, <1>5 DEF Booked
<1>9. QED
  BY <1>1, <1>7, <1>8 DEF CallInv, TypesFit

LEMMA UserOpKeeps ==
  ASSUME CallInv, UserOp
  PROVE  CallInv'
<1>1. UNCHANGED <<running, ls, stack, depth, scratch, found>>
  BY DEF UserOp
<1>2. reg' \in Registers
  <2>1. reg \in Registers /\ DBs \subseteq DBs /\ \A n \in Bases : n \in Nat
    BY CallStackAssumption DEF CallInv, TypesFit
  <2>2. \/ \E n \in DBs : reg' = [reg EXCEPT !.db = n] \/ reg' = [reg EXCEPT !.di = n]
        \/ reg' = [reg EXCEPT !.db = reg.di, !.di = reg.db]
        \/ \E n \in Bases : reg' = [reg EXCEPT !.ar2 = n]
    BY DEF UserOp
  <2>3. QED
    BY <2>1, <2>2 DEF Registers
<1>3. TypesFit'
  BY <1>1, <1>2 DEF CallInv, TypesFit
<1>4. running' => DepthsFit' /\ Chained'
  BY <1>1 DEF CallInv, DepthsFit, Booked, Books, FrameEnd, Chained, Linked, EntryView, Destination, StaticOf
<1>5. QED
  BY <1>3, <1>4 DEF CallInv

LEMMA AbandonKeeps ==
  ASSUME CallInv, Abandon
  PROVE  CallInv'
BY DEF CallInv, TypesFit, Abandon

LEMMA ReturnedType ==
  ASSUME reg \in Registers, NEW e \in Elements
  PROVE  Returned(e) \in Registers
<1>1. e.prev \in Registers /\ e.inst \in DBs
  BY DEF Elements
<1>2. [db |-> e.inst, di |-> e.prev.di, ar2 |-> e.prev.ar2] \in Registers
  BY <1>1 DEF Registers
<1>3. Returned(e) \in {e.prev, [db |-> e.inst, di |-> e.prev.di, ar2 |-> e.prev.ar2], reg}
  BY DEF Returned
<1>4. QED
  BY <1>1, <1>2, <1>3

\* What the end of a block does to the call stack and to the L-stack.
LEMMA BlockEndIs ==
  ASSUME CallInv, BlockEnd
  PROVE  LET n == Len(stack)
         IN  /\ running /\ n \in Nat /\ n > 0 /\ running' = (n > 1)
             /\ Len(stack') = n - 1 /\ \A i \in 1 .. n - 1 : stack'[i] = stack[i]
             /\ Len(found') = n - 1 /\ \A i \in 1 .. n - 1 : found'[i] = found[i]
             /\ Booked(ls') /\ Len(ls'.frames) = n - 1
             /\ \A i \in 1 .. n - 1 : ls'.frames[i] = ls.frames[i]
             /\ reg' = Returned(Top) /\ reg' \in Registers /\ depth' = n - 1
             /\ stack' \in Seq(Elements) /\ found' \in Seq(FoundType)
             /\ Top = stack[n] /\ Top \in Elements /\ scratch' = scratch /\ tidy' = tidy
<1> DEFINE n == Len(stack)
<1>1. /\ running /\ ls' = ExitStackFrame(ls) /\ stack' = SubSeq(stack, 1, n - 1)
      /\ found' = SubSeq(found, 1, Len(found) - 1) /\ depth' = depth - 1 /\ running' = (n > 1)
      /\ reg' = Returned(Top) /\ scratch' = scratch /\ tidy' = tidy
  BY DEF BlockEnd
<1>2. /\ Booked(ls) /\ ls.frames # <<>> /\ n \in Nat /\ n > 0 /\ Len(ls.frames) = n
      /\ Len(found) = n /\ depth = n /\ Top \in Elements /\ Top = stack[n]
  BY <1>1, FramesThere
<1>3. stack \in Seq(Elements) /\ found \in Seq(FoundType) /\ reg \in Registers
  BY DEF CallInv, TypesFit
<1>4. /\ stack' \in Seq(Elements) /\ Len(stack') = n - 1
      /\ \A i \in 1 .. n - 1 : stack'[i] = stack[i]
  BY <1>1, <1>2, <1>3
<1>5. found' = SubSeq(found, 1, n - 1)
  BY <1>1, <1>2
<1>6. /\ found' \in Seq(FoundType) /\ Len(found') = n - 1
      /\ \A i \in 1 .. n - 1 : found'[i] = found[i]
  BY <1>2, <1>3, <1>5
<1>7. /\ Booked(ls') /\ Len(ls'.frames) = n - 1
      /\ \A i \in 1 .. n - 1 : ls'.frames[i] = ls.frames[i]
  BY <1>1, <1>2, ExitBooked
<1>8. reg' \in Registers
  BY <1>1, <1>2, <1>3, ReturnedType
<1>9. QED
  BY <1>1, <1>2, <1>4, <1>6, <1>7, <1>8

LEMMA BlockEndKeeps ==
  ASSUME CallInv, BlockEnd
  PROVE  CallInv'
<1> DEFINE n == Len(stack)
<1>1. n \in Nat /\ n > 0 /\ running /\ running' = (n > 1) /\ depth' = n - 1 /\ depth = n
  BY BlockEndIs, FramesThere
<1>2. depth' \in 0 .. CallStackSize
  BY <1>1, CallStackAssumption DEF CallInv, TypesFit
<1>3. TypesFit'
  BY <1>1, <1>2, BlockEndIs DEF CallInv, TypesFit, Booked
<1>4. ASSUME n > 1 PROVE DepthsFit' /\ Chained'
  <2>1. Len(stack') = n - 1 /\ Len(found') = n - 1 /\ Len(ls'.frames) = n - 1 /\ Booked(ls')
    BY BlockEndIs
  <2>2. DepthsFit'
    BY <1>1, <1>4, <2>1 DEF DepthsFit, Booked, Books, FrameEnd
  <2>3. Chained /\ 1 \in 1 .. n - 1
    BY <1>1, <1>4 DEF CallInv
  <2>4. stack'[1].kind = "OB"
    BY <2>3, BlockEndIs DEF Chained
  <2>5. ASSUME NEW i \in 2 .. n - 1 PROVE Linked(stack'[i - 1].block, stack'[i], found'[i])
    <3>1. i \in 1 .. n - 1 /\ i - 1 \in 1 .. n - 1 /\ i \in 2 .. n
      BY <1>1
    <3>2. stack'[i] = stack[i] /\ found'[i] = found[i] /\ stack'[i - 1] = stack[i - 1]
      BY <3>1, BlockEndIs
    <3>3. QED
      BY <2>3, <3>1, <3>2 DEF Chained
  <2>6. \A i \in 2 .. Len(stack') : Linked(stack'[i - 1].block, stack'[i], found'[i])
    BY <2>1, <2>5
  <2>7. QED
    BY <2>2, <2>4, <2>6 DEF Chained, Linked, EntryView, Destination, StaticOf
<1>5. QED
  BY <1>1, <1>3, <1>4 DEF CallInv

LEMMA CallInit == Init => CallInv
<1> SUFFICES ASSUME Init PROVE CallInv
  OBVIOUS
<1>1. /\ running = FALSE /\ ls = EmptyLStack(LocalBytes) /\ stack = <<>> /\ depth = 0
      /\ reg = InitialRegisters /\ scratch = [s \in Sites |-> 0] /\ found = <<>>
  BY DEF Init
<1>2. ls \in LStackType
  <2>1. <<>> \in Seq(Frame) /\ 8 * LocalBytes \in Nat
    BY CallStackAssumption
  <2>2. QED
    BY <1>1, <2>1 DEF EmptyLStack, LStackType
<1>3. InitialRegisters \in Registers /\ 0 \in 0 .. CallStackSize
  BY CallStackAssumption DEF InitialRegisters, Registers
<1>4. stack \in Seq(Elements) /\ found \in Seq(FoundType) /\ scratch \in [Sites -> Nat]
  BY <1>1
<1>5. QED
  BY <1>1, <1>2, <1>3, <1>4 DEF CallInv, TypesFit

LEMMA CallNext == CallInv /\ [Next]_vars => CallInv'
<1> SUFFICES ASSUME CallInv, [Next]_vars PROVE CallInv'
  OBVIOUS
<1>1. CASE UNCHANGED vars
  BY <1>1 DEF vars, CallInv, TypesFit, DepthsFit, Booked, Books, FrameEnd, Chained, Linked, EntryView,
              Destination, StaticOf
<1>2. QED
  BY <1>1, RunOBKeeps, CallKeeps, CallFailsKeeps, UserOpKeeps, AbandonKeeps, BlockEndKeeps DEF Next

THEOREM CallInvariant == Spec => []CallInv
BY CallInit, CallNext, PTL DEF Spec

LEMMA CallTypes == CallInv => TypeOK
<1> SUFFICES ASSUME CallInv PROVE TypeOK
  OBVIOUS
<1>1. ASSUME NEW i \in 1 .. Len(stack)
      PROVE  /\ stack[i].block \in DOMAIN TempBytes /\ stack[i].kind \in Calls \cup {"OB"}
             /\ stack[i].inst \in DBs /\ stack[i].prev \in Registers
  <2>1. stack[i] \in Elements
    BY DEF CallInv, TypesFit
  <2>2. QED
    BY <2>1 DEF Elements, Blocks
<1>2. QED
  BY <1>1 DEF TypeOK, CallInv, TypesFit

\* The types: the depth of calls stays within callStackSize, and no offset of
\* the L-stack or of a copied parameter becomes negative (S7CPU.run_CALL).
THEOREM CallStackTypeCorrect == Spec => []TypeOK
BY CallInvariant, CallTypes, PTL

\* At every instruction there are as many call stack elements and L-stack
\* frames as callStackDepth says, also in a cycle that follows an abandoned one
\* (S7CPU.__runOB starts all three afresh).
THEOREM StacksAgree == Spec => []StackAgrees
<1>1. CallInv => StackAgrees
  BY DEF CallInv, DepthsFit, StackAgrees
<1>2. QED
  BY CallInvariant, <1>1, PTL

\* Whatever a called block does to the registers, the end of a CALL restores DI
\* and AR2, and DB after an FC (CallStackElem.handleBlockExit).
THEOREM CallsRestore == Spec => ReturnRestores
<1>1. ASSUME CallInv, BlockEnd, Top.kind \in {"FC", "FB", "MULTI_FB"}
      PROVE  LET before == found[Len(found)].reg
             IN  /\ reg'.di = before.di /\ reg'.ar2 = before.ar2
                 /\ reg'.db = IF Top.kind = "FC" THEN before.db ELSE Top.inst
  <2> DEFINE n == Len(stack)
  <2>1. running /\ n \in Nat /\ n > 0 /\ Len(found) = n /\ Top = stack[n] /\ reg' = Returned(Top)
    BY <1>1, BlockEndIs, FramesThere
  <2>2. n # 1
    BY <1>1, <2>1 DEF CallInv, Chained
  <2>3. n \in 2 .. n
    BY <2>1, <2>2
  <2>4. Top.prev = found[n].reg
    BY <1>1, <2>1, <2>3 DEF CallInv, Chained, Linked
  <2>5. Returned(Top) = IF Top.kind = "FC" THEN Top.prev
                        ELSE [db |-> Top.inst, di |-> Top.prev.di, ar2 |-> Top.prev.ar2]
    BY <1>1 DEF Returned
  <2>6. QED
    BY <1>1, <2>1, <2>4, <2>5
<1>2. CallInv /\ [Next]_vars =>
        [BlockEnd /\ Top.kind \in {"FC", "FB", "MULTI_FB"} =>
           LET before == found[Len(found)].reg
           IN  /\ reg'.di = before.di /\ reg'.ar2 = before.ar2
               /\ reg'.db = IF Top.kind = "FC" THEN before.db ELSE Top.inst]_vars
  BY <1>1
<1>3. QED
  BY CallInvariant, <1>2, PTL DEF Spec, ReturnRestores

----------------------------------------------------------------------------
(* What a block sees                                                       *)

\* The registers of the block at i: those it called the next one with.
Current(i) == IF i = Len(stack) THEN reg ELSE found[i + 1].reg

\* In a tidy cycle every active block has the DI and AR2 it was entered with.
Views ==
  running /\ tidy =>
    \A i \in 2 .. Len(stack) :
      [db |-> Current(i).di, base |-> Current(i).ar2] = EntryView(stack[i].site, found[i].reg)

LEMMA RunOBViews == CallInv /\ RunOB => Views'
<1> SUFFICES ASSUME CallInv, RunOB PROVE Views'
  OBVIOUS
<1>1. Len(stack') = 1
  BY RunOBIs
<1>2. QED
  BY <1>1 DEF Views

LEMMA CallViews ==
  ASSUME CallInv, Views, NEW s \in Sites, Call(s)
  PROVE  Views'
<1> DEFINE n == Len(stack)
<1>1. /\ running /\ n \in Nat /\ n > 0 /\ At(s) /\ Len(stack') = n + 1 /\ tidy' = tidy
      /\ reg' = CalleeRegisters(s) /\ stack'[n + 1] = Element(s) /\ found'[n + 1] = Found(s)
      /\ \A i \in 1 .. n : stack'[i] = stack[i] /\ found'[i] = found[i]
  BY CallIs
<1>2. Element(s).site = s /\ Found(s).reg = reg
  BY <1>1, ElementIs
<1>3. reg \in Registers
  BY DEF CallInv, TypesFit
<1> SUFFICES ASSUME tidy, NEW i \in 2 .. n + 1
             PROVE  [db |-> Current(i)'.di, base |-> Current(i)'.ar2] = EntryView(stack'[i].site, found'[i].reg)
  BY <1>1 DEF Views, EntryView
<1>4. CASE i = n + 1
  <2>1. Current(i)' = CalleeRegisters(s)
    BY <1>1, <1>4 DEF Current
  <2>2. stack'[i].site = s /\ found'[i].reg = reg
    BY <1>1, <1>2, <1>4
  <2>3. QED
    BY <1>3, <2>1, <2>2, CalleeRegistersType
<1>5. CASE i # n + 1
  <2>1. i \in 2 .. n /\ i \in 1 .. n
    BY <1>1, <1>5
  <2>2. Current(i)' = Current(i)
    <3>1. Current(i)' = found'[i + 1].reg
      BY <1>1, <1>5 DEF Current
    <3>2. CASE i = n
      BY <1>1, <1>2, <3>1, <3>2 DEF Current
    <3>3. CASE i # n
      <4>1. i + 1 \in 1 .. n
        BY <1>1, <2>1, <3>3
      <4>2. QED
        BY <1>1, <3>1, <3>3, <4>1 DEF Current
    <3>4. QED
      BY <3>2, <3>3
  <2>3. [db |-> Current(i).di, base |-> Current(i).ar2] = EntryView(stack[i].site, found[i].reg)
    BY <1>1, <2>1 DEF Views
  <2>4. QED
    BY <1>1, <2>1, <2>2, <2>3
<1>6. QED
  BY <1>4, <1>5

LEMMA UserOpViews ==
  ASSUME CallInv, Views, UserOp
  PROVE  Views'
<1>1. UNCHANGED <<running, stack, found>> /\ (tidy' => tidy /\ reg'.di = reg.di /\ reg'.ar2 = reg.ar2)
  BY DEF UserOp
<1> SUFFICES ASSUME running, tidy', NEW i \in 2 .. Len(stack)
             PROVE  [db |-> Current(i)'.di, base |-> Current(i)'.ar2] = EntryView(stack[i].site, found[i].reg)
  BY <1>1 DEF Views, EntryView
<1>2. Current(i)'.di = Current(i).di /\ Current(i)'.ar2 = Current(i).ar2
  BY <1>1 DEF Current
<1>3. QED
  BY <1>1, <1>2 DEF Views

\* The registers a block gives back, as far as its caller sees them.
LEMMA ReturnedIs ==
  ASSUME CallInv, Views, tidy, BlockEnd, Len(stack) > 1
  PROVE  /\ reg'.di = found[Len(stack)].reg.di /\ reg'.ar2 = found[Len(stack)].reg.ar2
         /\ Linked(stack[Len(stack) - 1].block, Top, found[Len(stack)])
         /\ [db |-> reg.di, base |-> reg.ar2] = EntryView(Top.site, found[Len(stack)].reg)
<1> DEFINE n == Len(stack)
           r == found[n].reg
<1>1. running /\ n \in Nat /\ Top = stack[n] /\ reg' = Returned(Top) /\ n \in 2 .. n
  BY BlockEndIs
<1>2. Linked(stack[n - 1].block, Top, found[n])
  BY <1>1 DEF CallInv, Chained
<1>3. Top.prev = r /\ Top.kind = Site[Top.site].kind /\ Top.kind \in Calls
  BY <1>2, SiteIs DEF Linked
<1>4. [db |-> reg.di, base |-> reg.ar2] = EntryView(Top.site, r)
  BY <1>1 DEF Views, Current
<1> HIDE DEF r
<1>5. ASSUME Top.kind = "FC" PROVE reg'.di = r.di /\ reg'.ar2 = r.ar2
  BY <1>1, <1>3, <1>5 DEF Returned
<1>6. ASSUME Top.kind \in {"FB", "MULTI_FB"} PROVE reg'.di = r.di /\ reg'.ar2 = r.ar2
  <2>1. Returned(Top) = [db |-> Top.inst, di |-> Top.prev.di, ar2 |-> Top.prev.ar2]
    BY <1>6 DEF Returned
  <2>2. QED
    BY <1>1, <1>3, <2>1
<1>7. ASSUME Top.kind \in {"RAW_FC", "RAW_FB"} PROVE reg'.di = r.di /\ reg'.ar2 = r.ar2
  <2>1. Returned(Top) = reg
    BY <1>7 DEF Returned
  <2>2. EntryView(Top.site, r) = [db |-> r.di, base |-> r.ar2]
    BY <1>3, <1>7 DEF EntryView
  <2>3. reg.di = r.di /\ reg.ar2 = r.ar2
    BY <1>4, <2>2
  <2>4. QED
    BY <1>1, <2>1, <2>3
<1>8. reg'.di = r.di /\ reg'.ar2 = r.ar2
  BY <1>3, <1>5, <1>6, <1>7 DEF Calls
<1>9. QED
  BY <1>2, <1>4, <1>8 DEF r

LEMMA BlockEndViews ==
  ASSUME CallInv, Views, BlockEnd
  PROVE  Views'
<1> DEFINE n == Len(stack)
<1>1. /\ running /\ n \in Nat /\ n > 0 /\ Len(stack') = n - 1 /\ tidy' = tidy /\ running' = (n > 1)
      /\ \A i \in 1 .. n - 1 : stack'[i] = stack[i] /\ found'[i] = found[i]
  BY BlockEndIs
<1> SUFFICES ASSUME tidy, n > 1, NEW i \in 2 .. n - 1
             PROVE  [db |-> Current(i)'.di, base |-> Current(i)'.ar2] = EntryView(stack'[i].site, found'[i].reg)
  BY <1>1 DEF Views, EntryView
<1>2. i \in 2 .. n /\ i \in 1 .. n - 1 /\ i # n
  BY <1>1
<1>3. Current(i)'.di = Current(i).di /\ Current(i)'.ar2 = Current(i).ar2
  <2>1. Current(i) = found[i + 1].reg
    BY <1>2 DEF Current
  <2>2. CASE i = n - 1
    <3>1. Current(i)' = reg' /\ i + 1 = n
      BY <1>1, <2>2 DEF Current
    <3>2. QED
      BY <2>1, <3>1, ReturnedIs
  <2>3. CASE i # n - 1
    <3>1. i + 1 \in 1 .. n - 1
      BY <1>1, <1>2, <2>3
    <3>2. Current(i)' = found'[i + 1].reg
      BY <1>1, <2>3 DEF Current
    <3>3. QED
      BY <1>1, <2>1, <3>1, <3>2
  <2>4. QED
    BY <2>2, <2>3
<1>4. [db |-> Current(i).di, base |-> Current(i).ar2] = EntryView(stack[i].site, found[i].reg)
  BY <1>1, <1>2 DEF Views
<1>5. QED
  BY <1>1, <1>2, <1>3, <1>4

LEMMA ViewsNext == CallInv /\ Views /\ [Next]_vars => Views'
<1> SUFFICES ASSUME CallInv, Views, [Next]_vars PROVE Views'
  OBVIOUS
<1>1. CASE UNCHANGED vars
  BY <1>1 DEF vars, Views, Current, EntryView
<1>2. ASSUME Abandon \/ \E s \in Sites : CallFails(s) PROVE Views'
  BY <1>2 DEF Abandon, CallFails, Views
<1>3. QED
  BY <1>1, <1>2, RunOBViews, CallViews, UserOpViews, BlockEndViews DEF Next

THEOREM ViewsInvariant == Spec => []Views
<1>1. Init => Views
  BY DEF Init, Views
<1>2. QED
  BY CallInvariant, ViewsNext, <1>1, PTL DEF Spec

\* As long as a cycle leaves DI and AR2 to its CALL instructions, an FB or a
\* multi-instance finds its own instance in DI at its own base in AR2 whenever
\* it runs, also after calls of its own (S7CPU.__call_FB and handleBlockExit).
THEOREM InstancesAreSeen == Spec => []InstanceView
<1>1. ASSUME CallInv, Views PROVE InstanceView
  <2> DEFINE n == Len(stack)
  <2> SUFFICES ASSUME running, tidy, Top.kind \in {"FB", "MULTI_FB"}
               PROVE  StaticOf(Top.block, reg) = found[Len(found)].from
    BY DEF InstanceView
  <2>1. n \in Nat /\ n > 0 /\ Len(found) = n /\ Top = stack[n]
    BY <1>1, FramesThere
  <2>2. n # 1
    BY <1>1, <2>1 DEF CallInv, Chained
  <2>3. n \in 2 .. n
    BY <2>1, <2>2
  <2>4. Linked(stack[n - 1].block, Top, found[n])
    BY <1>1, <2>1, <2>3 DEF CallInv, Chained
  <2>5. found[n].from = EntryView(Top.site, found[n].reg)
    BY <2>4 DEF Linked
  <2>6. [db |-> reg.di, base |-> reg.ar2] = EntryView(Top.site, found[n].reg)
    BY <1>1, <2>1, <2>3 DEF Views, Current
  <2>7. Top.block \in FBs
    BY <2>4, CallStackAssumption DEF Linked
  <2>8. QED
    BY <2>1, <2>5, <2>6, <2>7 DEF StaticOf
<1>2. QED
  BY CallInvariant, ViewsInvariant, <1>1, PTL

----------------------------------------------------------------------------
(* Where the copied parameters are.  A return computes the base of the      *)
(* caller from where the stack ended when the frame of the caller was       *)
(* entered; it is the base the caller had if that was a byte boundary.      *)

Entered == [i \in 1 .. Len(found) |-> found[i].entered]

\* The operands of the running block are added to the start of its frame.
OwnBase == OnByte(Len(found)) => ls.topFrameOffset = 8 * TopFrame(ls).byteOffset

Layout == ParamsReachable /\ (running => Books(ls, Entered) /\ OwnBase)

LEMMA Multiples ==
  \A k \in Nat : 8 * k \in Nat
OBVIOUS

LEMMA EnteredIs ==
  ASSUME NEW f \in Seq(FoundType)
  PROVE  LET e == [i \in 1 .. Len(f) |-> f[i].entered]
         IN  /\ e \in Seq(Nat) /\ Len(e) = Len(f)
             /\ \A i \in 1 .. Len(f) : e[i] = f[i].entered /\ e[i] \in Nat
<1> DEFINE e == [i \in 1 .. Len(f) |-> f[i].entered]
<1>1. Len(f) \in Nat /\ \A i \in 1 .. Len(f) : f[i] \in FoundType
  OBVIOUS
<1>2. \A i \in 1 .. Len(f) : f[i].entered \in Nat
  BY <1>1 DEF FoundType
<1>3. QED
  BY <1>1, <1>2

\* The books depend on the members of the sequence only.
LEMMA SameBooks ==
  ASSUME NEW l, NEW a, Books(l, a), NEW b \in Seq(Nat), Len(b) = Len(a),
         \A i \in 1 .. Len(a) : b[i] = a[i]
  PROVE  Books(l, b)
<1> DEFINE n == Len(l.frames)
<1>1. n = Len(a) /\ n \in Nat
  BY DEF Books
<1>2. \A i \in 1 .. n : FrameEnd(l, b, i) = FrameEnd(l, a, i)
  <2>1. \A i \in 1 .. n : i # n => i + 1 \in 1 .. n
    BY <1>1
  <2>2. QED
    BY <1>1, <2>1 DEF FrameEnd
<1>3. QED
  BY <1>1, <1>2 DEF Books

LEMMA CopyBooks ==
  ASSUME NEW saved, ls \in LStackType, Books(ls, saved), ls.frames # <<>>, NEW s \in Sites
  PROVE  Copied(s) \in LStackType /\ Books(Copied(s), saved)
<1>1. CASE Copies(s)
  <2>1. Site[s].width \in Nat \ {0} /\ Copied(s) = Alloc(ls, Site[s].width)
    BY <1>1, SiteIs DEF Copies, Copied
  <2>2. QED
    BY <2>1, AllocBooks
<1>2. CASE ~Copies(s)
  BY <1>2 DEF Copied
<1>3. QED
  BY <1>1, <1>2

\* A new frame with its TEMP data starts at the base of its block.
LEMMA FrameBooks ==
  ASSUME NEW l \in LStackType, NEW saved, Books(l, saved), NEW b \in Blocks
  PROVE  LET e == WithTemp(EnterStackFrame(l), b)
         IN  /\ Books(e, Append(saved, l.globAllocBits))
             /\ e.topFrameOffset = 8 * TopFrame(e).byteOffset
<1> DEFINE n == Len(l.frames)
           m == EnterStackFrame(l)
           e == WithTemp(m, b)
           more == Append(saved, l.globAllocBits)
<1>1. m \in LStackType /\ Books(m, more)
  BY EnterBooks
<1>2. n \in Nat /\ Len(m.frames) = n + 1 /\ m.topFrameOffset = RoundUp8(l.globAllocBits)
  BY EnterFacts DEF LStackType
<1>3. /\ Len(e.frames) = n + 1 /\ 8 * e.frames[n + 1].byteOffset = RoundUp8(l.globAllocBits)
  BY FrameBooked DEF Booked
<1> HIDE DEF m, more
<1>4. Books(e, more) /\ e.topFrameOffset = m.topFrameOffset
  <2>1. CASE TempBytes[b] > 0
    <3>1. 8 * TempBytes[b] \in Nat \ {0} /\ e = Alloc(m, 8 * TempBytes[b])
      BY <2>1, CallStackAssumption DEF Blocks, WithTemp
    <3>2. m.frames # <<>>
      BY <1>2, EmptySeq
    <3>3. QED
      BY <1>1, <3>1, <3>2, AllocBooks, AllocFacts
  <2>2. CASE ~(TempBytes[b] > 0)
    BY <1>1, <2>2 DEF WithTemp
  <2>3. QED
    BY <2>1, <2>2
<1>5. QED
  BY <1>2, <1>3, <1>4 DEF TopFrame, m, more

LEMMA RunOBLayout ==
  ASSUME CallInv, RunOB
  PROVE  Layout'
<1>1. Len(stack') = 1 /\ Len(found') = 1 /\ found' \in Seq(FoundType) /\ Len(ls'.frames) = 1
  BY RunOBIs
<1>2. found'[1].entered = 0
  BY DEF RunOB
<1>3. ls \in LStackType
  BY DEF CallInv, TypesFit
<1>4. /\ Reset(ls) \in LStackType /\ Reset(ls).globAllocBits = 0 /\ Reset(ls).frames = <<>>
  BY <1>3, FreshFacts
<1>5. Books(Reset(ls), <<>>)
  BY <1>4 DEF Books
<1>6. OB \in Blocks /\ ls' = WithTemp(EnterStackFrame(Reset(ls)), OB)
  BY CallStackAssumption DEF Blocks, RunOB, FrameOfOB
<1>7. Books(ls', Append(<<>>, 0)) /\ ls'.topFrameOffset = 8 * TopFrame(ls').byteOffset
  BY <1>4, <1>5, <1>6, FrameBooks
<1>8. Books(ls', Entered')
  <2>1. Entered' \in Seq(Nat) /\ Len(Entered') = 1 /\ Entered'[1] = 0
    BY <1>1, <1>2, EnteredIs DEF Entered
  <2>2. Len(Append(<<>>, 0)) = 1 /\ Append(<<>>, 0)[1] = 0
    OBVIOUS
  <2>3. QED
    BY <1>7, <2>1, <2>2, SameBooks
<1>9. ParamsReachable'
  BY <1>1 DEF ParamsReachable
<1>10. QED
  BY <1>7, <1>8, <1>9 DEF Layout, OwnBase, TopFrame, Books, FrameEnd

LEMMA CallLayout ==
  ASSUME CallInv, Layout, NEW s \in Sites, Call(s)
  PROVE  Layout'
<1> DEFINE n == Len(stack)
<1>1. /\ running /\ n \in Nat /\ n > 0 /\ At(s) /\ Len(stack') = n + 1 /\ Len(found') = n + 1
      /\ stack'[n + 1] = Element(s) /\ found'[n + 1] = Found(s) /\ found' \in Seq(FoundType)
      /\ \A i \in 1 .. n : stack'[i] = stack[i] /\ found'[i] = found[i]
      /\ \A i \in 1 .. n : ls'.frames[i].byteOffset = ls.frames[i].byteOffset
      /\ 8 * ls'.frames[n + 1].byteOffset = RoundUp8(Copied(s).globAllocBits)
  BY CallIs
<1>2. /\ Booked(ls) /\ ls \in LStackType /\ ls.frames # <<>> /\ Len(ls.frames) = n
      /\ Len(found) = n /\ found \in Seq(FoundType) /\ Books(ls, Entered) /\ OwnBase
  BY <1>1, FramesThere DEF Layout, CallInv, TypesFit
<1>3. /\ Books(ls', Append(Entered, Copied(s).globAllocBits))
      /\ ls'.topFrameOffset = 8 * TopFrame(ls').byteOffset
  <2>1. ls' = WithTemp(EnterStackFrame(Copied(s)), Site[s].callee)
    BY DEF Call
  <2>2. Copied(s) \in LStackType /\ Books(Copied(s), Entered)
    BY <1>2, CopyBooks
  <2>3. QED
    BY <2>1, <2>2, SiteIs, FrameBooks
<1>4. Books(ls', Entered')
  <2> DEFINE g == Copied(s).globAllocBits
             more == Append(Entered, g)
  <2>1. /\ Entered \in Seq(Nat) /\ Len(Entered) = n
        /\ \A i \in 1 .. n : Entered[i] = found[i].entered
    BY <1>2, EnteredIs DEF Entered
  <2>2. /\ Entered' \in Seq(Nat) /\ Len(Entered') = n + 1
        /\ \A i \in 1 .. n + 1 : Entered'[i] = found'[i].entered
    BY <1>1, EnteredIs DEF Entered
  <2>3. Found(s).entered = g
    BY DEF Found
  <2>4. Len(more) = n + 1 /\ more[n + 1] = g /\ \A i \in 1 .. n : more[i] = Entered[i]
    BY <1>1, <2>1
  <2> HIDE DEF more, g
  <2>5. \A i \in 1 .. n + 1 : Entered'[i] = more[i]
    <3>1. \A i \in 1 .. n + 1 : i \in 1 .. n \/ i = n + 1
      BY <1>1
    <3>2. QED
      BY <1>1, <2>1, <2>2, <2>3, <2>4, <3>1
  <2>6. Books(ls', more)
    BY <1>3 DEF more, g
  <2>7. QED
    BY <2>2, <2>4, <2>5, <2>6, SameBooks
<1>5. ASSUME Copies(s), OnByte(n)
      PROVE  /\ 8 * ls'.frames[n].byteOffset + Element(s).ref = Found(s).slot
             /\ Found(s).slot + Site[s].width <= 8 * ls'.frames[n + 1].byteOffset
  <2> DEFINE w == Site[s].width
             start == AllocStart(ls, w)
             base == 8 * TopFrame(ls).byteOffset
  <2>1. w \in Nat /\ start \in Nat /\ base \in Nat /\ Element(s).ref = start - base
    BY <1>1, <1>2, <1>5, SiteIs, OffsetIsNat, ElementIs, Multiples
  <2>2. Found(s).slot = ls.topFrameOffset + Element(s).ref /\ ls.topFrameOffset = base
    BY <1>1, <1>2, <1>5, ElementIs DEF OwnBase
  <2>3. ls'.frames[n].byteOffset = TopFrame(ls).byteOffset
    BY <1>1, <1>2 DEF TopFrame
  <2>4. Copied(s).globAllocBits = start + w
    BY <1>2, <1>5, CopyBooked
  <2>5. start + w \in Nat /\ start + w <= 8 * ls'.frames[n + 1].byteOffset
    <3>1. start + w \in Nat
      BY <2>1
    <3>2. start + w <= RoundUp8(start + w)
      BY <3>1, RoundUpFacts
    <3>3. QED
      BY <1>1, <2>4, <3>1, <3>2
  <2>6. 8 * ls'.frames[n].byteOffset = base
    BY <2>3
  <2> HIDE DEF w, start, base
  <2>7. Found(s).slot = start
    BY <2>1, <2>2
  <2>8. QED
    BY <2>1, <2>2, <2>5, <2>6, <2>7 DEF w
<1>6. ASSUME NEW i \in 2 .. n + 1, Copies(stack'[i].site), found'[i - 1].entered % 8 = 0
      PROVE  /\ 8 * ls'.frames[i - 1].byteOffset + stack'[i].ref = found'[i].slot
             /\ found'[i].slot + Site[stack'[i].site].width <= 8 * ls'.frames[i].byteOffset
  <2>1. i - 1 \in 1 .. n /\ OnByte(i - 1)
    BY <1>1, <1>6 DEF OnByte
  <2>2. CASE i = n + 1
    <3>1. stack'[i] = Element(s) /\ found'[i] = Found(s) /\ i - 1 = n /\ Element(s).site = s
      BY <1>1, <2>2, ElementIs
    <3>2. QED
      BY <1>5, <1>6, <2>1, <2>2, <3>1
  <2>3. CASE i # n + 1
    <3>1. i \in 2 .. n /\ i \in 1 .. n
      BY <1>1, <2>3
    <3>2. stack'[i] = stack[i] /\ found'[i] = found[i]
      BY <1>1, <3>1
    <3>3. ls'.frames[i].byteOffset = ls.frames[i].byteOffset /\ ls'.frames[i - 1].byteOffset = ls.frames[i - 1].byteOffset
      BY <1>1, <2>1, <3>1
    <3>4. /\ 8 * ls.frames[i - 1].byteOffset + stack[i].ref = found[i].slot
          /\ found[i].slot + Site[stack[i].site].width <= 8 * ls.frames[i].byteOffset
      BY <1>1, <1>6, <2>1, <3>1, <3>2 DEF Layout, ParamsReachable
    <3>5. QED
      BY <3>2, <3>3, <3>4
  <2>4. QED
    BY <2>2, <2>3
<1>7. ParamsReachable'
  BY <1>1, <1>6 DEF ParamsReachable, Copies, OnByte
<1>8. QED
  BY <1>3, <1>4, <1>7 DEF Layout, OwnBase, TopFrame, Books, FrameEnd

\* The base a return computes.
LEMMA ExitBase ==
  ASSUME CallInv, Layout, running
  PROVE  LET n == Len(stack)
             x == ExitStackFrame(ls)
         IN  /\ Books(x, SubSeq(Entered, 1, n - 1))
             /\ n > 1 /\ OnByte(n - 1) => x.topFrameOffset = 8 * ls.frames[n - 1].byteOffset
<1> DEFINE n == Len(stack)
           x == ExitStackFrame(ls)
<1>1. /\ ls \in LStackType /\ ls.frames # <<>> /\ Len(ls.frames) = n /\ n \in Nat
      /\ Len(found) = n /\ found \in Seq(FoundType) /\ Books(ls, Entered)
  BY FramesThere DEF Layout, CallInv, TypesFit
<1>2. Books(x, SubSeq(Entered, 1, n - 1)) /\ (n > 1 => x.topFrameOffset = Entered[n - 1])
  BY <1>1, ExitBooks
<1>3. ASSUME n > 1, OnByte(n - 1) PROVE Entered[n - 1] = 8 * ls.frames[n - 1].byteOffset
  <2>1. n - 1 \in 1 .. n
    BY <1>1, <1>3
  <2>2. Entered[n - 1] = found[n - 1].entered /\ Entered[n - 1] \in Nat
    BY <1>1, <2>1, EnteredIs DEF Entered
  <2>3. 8 * ls.frames[n - 1].byteOffset = RoundUp8(Entered[n - 1])
    BY <1>1, <2>1 DEF Books
  <2>4. QED
    BY <1>3, <2>2, <2>3, AlignedRoundUp DEF OnByte
<1>4. QED
  BY <1>2, <1>3

LEMMA BlockEndLayout ==
  ASSUME CallInv, Layout, BlockEnd
  PROVE  Layout'
<1> DEFINE n == Len(stack)
<1>1. /\ running /\ n \in Nat /\ n > 0 /\ Len(stack') = n - 1 /\ running' = (n > 1)
      /\ Len(found') = n - 1 /\ found' \in Seq(FoundType) /\ Len(ls'.frames) = n - 1
      /\ \A i \in 1 .. n - 1 : stack'[i] = stack[i] /\ found'[i] = found[i]
      /\ \A i \in 1 .. n - 1 : ls'.frames[i] = ls.frames[i]
  BY BlockEndIs
<1>2. Len(found) = n /\ found \in Seq(FoundType) /\ ls' = ExitStackFrame(ls)
  BY <1>1, FramesThere DEF CallInv, TypesFit, BlockEnd
<1>3. Books(ls', Entered')
  <2> DEFINE less == SubSeq(Entered, 1, n - 1)
  <2>1. Books(ls', less)
    BY <1>1, <1>2, ExitBase
  <2>2. /\ Entered \in Seq(Nat) /\ Len(Entered) = n
        /\ \A i \in 1 .. n : Entered[i] = found[i].entered
    BY <1>2, EnteredIs DEF Entered
  <2>3. /\ Entered' \in Seq(Nat) /\ Len(Entered') = n - 1
        /\ \A i \in 1 .. n - 1 : Entered'[i] = found'[i].entered
    BY <1>1, EnteredIs DEF Entered
  <2>4. Len(less) = n - 1 /\ \A i \in 1 .. n - 1 : less[i] = Entered[i]
    BY <1>1, <2>2
  <2> HIDE DEF less
  <2>5. ASSUME NEW i \in 1 .. n - 1 PROVE Entered'[i] = less[i]
    <3>1. i \in 1 .. n
      BY <1>1
    <3>2. found'[i] = found[i]
      BY <1>1
    <3>3. QED
      BY <2>2, <2>3, <2>4, <3>1, <3>2
  <2>6. QED
    BY <2>1, <2>3, <2>4, <2>5, SameBooks
<1>4. ASSUME n > 1, found'[n - 1].entered % 8 = 0
      PROVE  ls'.topFrameOffset = 8 * ls'.frames[n - 1].byteOffset
  <2>1. n - 1 \in 1 .. n - 1 /\ OnByte(n - 1)
    BY <1>1, <1>4 DEF OnByte
  <2>2. QED
    BY <1>1, <1>2, <1>4, <2>1, ExitBase
<1>5. ASSUME NEW i \in 2 .. n - 1, Copies(stack'[i].site), found'[i - 1].entered % 8 = 0
      PROVE  /\ 8 * ls'.frames[i - 1].byteOffset + stack'[i].ref = found'[i].slot
             /\ found'[i].slot + Site[stack'[i].site].width <= 8 * ls'.frames[i].byteOffset
  <2>1. i \in 2 .. n /\ i \in 1 .. n - 1 /\ i - 1 \in 1 .. n - 1
    BY <1>1
  <2>2. /\ stack'[i] = stack[i] /\ found'[i] = found[i] /\ OnByte(i - 1)
        /\ ls'.frames[i] = ls.frames[i] /\ ls'.frames[i - 1] = ls.frames[i - 1]
    BY <1>1, <1>5, <2>1 DEF OnByte
  <2>3. QED
    BY <1>1, <1>5, <2>1, <2>2 DEF Layout, ParamsReachable
<1>6. ParamsReachable'
  BY <1>1, <1>5 DEF ParamsReachable, Copies, OnByte
<1>7. running' => OwnBase'
  BY <1>1, <1>4 DEF OwnBase, OnByte, TopFrame
<1>8. QED
  BY <1>3, <1>6, <1>7 DEF Layout, OwnBase, Books, FrameEnd

LEMMA LayoutNext == CallInv /\ Layout /\ [Next]_vars => Layout'
<1> SUFFICES ASSUME CallInv, Layout, [Next]_vars PROVE Layout'
  OBVIOUS
<1>1. ASSUME UNCHANGED vars \/ UserOp PROVE Layout'
  <2>1. UNCHANGED <<running, ls, stack, found>>
    BY <1>1 DEF vars, UserOp
  <2>2. (running => OwnBase)' /\ ParamsReachable'
    BY <2>1 DEF Layout, ParamsReachable, OwnBase, OnByte, TopFrame, Copies
  <2>3. Entered' = Entered
    BY <2>1 DEF Entered
  <2>4. Books(ls, Entered) => Books(ls, Entered)'
    BY <2>1, <2>3 DEF Books, FrameEnd
  <2>5. QED
    BY <2>1, <2>2, <2>4 DEF Layout
<1>2. ASSUME Abandon \/ \E s \in Sites : CallFails(s) PROVE Layout'
  BY <1>2 DEF Abandon, CallFails, Layout, ParamsReachable
<1>3. QED
  BY <1>1, <1>2, RunOBLayout, CallLayout, BlockEndLayout DEF Next

THEOREM LayoutInvariant == Spec => []Layout
<1>1. Init => Layout
  BY DEF Init, Layout, ParamsReachable
<1>2. CallInv /\ Layout /\ [Next]_vars => Layout'
  BY LayoutNext
<1>3. QED
  BY CallInvariant, <1>1, <1>2, PTL DEF Spec

\* The copy of a parameter is where the called FC looks for it, below everything
\* the called block allocates, also after other calls have returned
\* (CallStackElem._FC_trans_copyToVL), whatever the program copies; the exception
\* is a caller whose own frame was entered in the middle of a byte.
THEOREM ParametersAreReachable == Spec => []ParamsReachable
<1>1. Layout => ParamsReachable
  BY DEF Layout
<1>2. QED
  BY LayoutInvariant, <1>1, PTL

----------------------------------------------------------------------------
(* Where an output comes from and goes.                                     *)

\* Each active call whose instruction was not executed again since still finds
\* the offset of its copy.
Offsets ==
  running =>
    \A i \in 2 .. Len(stack) :
      HasOutput(stack[i]) /\ stack[i].kind = "FC" /\ i \notin again =>
        scratch[stack[i].site] = stack[i].ref

LEMMA CallOffsets ==
  ASSUME CallInv, Offsets, NEW s \in Sites, Call(s)
  PROVE  Offsets'
<1> DEFINE n == Len(stack)
<1>1. /\ running /\ n \in Nat /\ n > 0 /\ At(s) /\ Len(stack') = n + 1
      /\ stack'[n + 1] = Element(s) /\ scratch' = Scratched(s)
      /\ \A i \in 1 .. n : stack'[i] = stack[i]
  BY CallIs
<1>2. again' = {i \in 1 .. n : i \in again \/ stack[i].site = s}
  BY DEF Call
<1>3. /\ Element(s).site = s
      /\ Element(s).ref = IF Copies(s) THEN AllocOffset(ls, Site[s].width) ELSE 0
  BY <1>1, ElementIs
<1>4. scratch \in [Sites -> Nat]
  BY DEF CallInv, TypesFit
<1>5. ASSUME NEW i \in 2 .. n + 1, HasOutput(stack'[i]), stack'[i].kind = "FC", i \notin again'
      PROVE  scratch'[stack'[i].site] = stack'[i].ref
  <2>1. CASE i = n + 1
    <3>1. stack'[i] = Element(s) /\ stack'[i].site = s
      BY <1>1, <1>3, <2>1
    <3>2. Copies(s) /\ Site[s].out # "none"
      BY <1>5, <3>1 DEF HasOutput
    <3>3. Scratched(s) = [scratch EXCEPT ![s] = AllocOffset(ls, Site[s].width)]
      BY <3>2 DEF Scratched
    <3>4. QED
      BY <1>1, <1>3, <1>4, <3>1, <3>2, <3>3
  <2>2. CASE i # n + 1
    <3>1. i \in 2 .. n /\ i \in 1 .. n
      BY <1>1, <2>2
    <3>2. stack'[i] = stack[i]
      BY <1>1, <3>1
    <3>3. i \notin again /\ stack[i].site # s
      BY <1>2, <1>5, <3>1
    <3>4. stack[i].site \in Sites
      BY <1>1, <3>1 DEF CallInv, Chained, Linked
    <3>5. scratch'[stack[i].site] = scratch[stack[i].site]
      BY <1>1, <1>4, <3>3, <3>4 DEF Scratched
    <3>6. scratch[stack[i].site] = stack[i].ref
      BY <1>1, <1>5, <3>1, <3>2, <3>3 DEF Offsets
    <3>7. QED
      BY <3>2, <3>5, <3>6
  <2>3. QED
    BY <2>1, <2>2
<1>6. QED
  BY <1>1, <1>5 DEF Offsets, HasOutput, Copies

LEMMA BlockEndOffsets ==
  ASSUME CallInv, Offsets, BlockEnd
  PROVE  Offsets'
<1> DEFINE n == Len(stack)
<1>1. /\ running /\ n \in Nat /\ Len(stack') = n - 1 /\ scratch' = scratch
      /\ \A i \in 1 .. n - 1 : stack'[i] = stack[i]
  BY BlockEndIs
<1>2. again' = again \ {n}
  BY DEF BlockEnd
<1>3. ASSUME NEW i \in 2 .. n - 1, HasOutput(stack'[i]), stack'[i].kind = "FC", i \notin again'
      PROVE  scratch'[stack'[i].site] = stack'[i].ref
  <2>1. i \in 1 .. n - 1 /\ i \in 2 .. n /\ i # n
    BY <1>1
  <2>2. stack'[i] = stack[i] /\ i \notin again
    BY <1>1, <1>2, <1>3, <2>1
  <2>3. QED
    BY <1>1, <1>3, <2>1, <2>2 DEF Offsets
<1>4. QED
  BY <1>1, <1>3 DEF Offsets, HasOutput, Copies

LEMMA OffsetsNext == CallInv /\ Offsets /\ [Next]_vars => Offsets'
<1> SUFFICES ASSUME CallInv, Offsets, [Next]_vars PROVE Offsets'
  OBVIOUS
<1>1. ASSUME UNCHANGED vars \/ UserOp PROVE Offsets'
  <2>1. UNCHANGED <<running, stack, scratch, again>>
    BY <1>1 DEF vars, UserOp
  <2>2. QED
    BY <2>1 DEF Offsets, HasOutput, Copies
<1>2. ASSUME Abandon \/ \E s \in Sites : CallFails(s) PROVE Offsets'
  BY <1>2 DEF Abandon, CallFails, Offsets
<1>3. ASSUME RunOB PROVE Offsets'
  <2>1. Len(stack') = 1
    BY <1>3, RunOBIs
  <2>2. QED
    BY <2>1 DEF Offsets
<1>4. QED
  BY <1>1, <1>2, <1>3, CallOffsets, BlockEndOffsets DEF Next

THEOREM OffsetsInvariant == Spec => []Offsets
<1>1. Init => Offsets
  BY DEF Init, Offsets
<1>2. CallInv /\ Offsets /\ [Next]_vars => Offsets'
  BY OffsetsNext
<1>3. QED
  BY CallInvariant, <1>1, <1>2, PTL DEF Spec

LEMMA OutputMoves ==
  ASSUME CallInv, Views, Layout, Offsets, BlockEnd, moved' # <<>>
  PROVE  FromThisCall /\ ToTheCaller
<1> DEFINE n == Len(stack)
           f == found[n]
           s == Top.site
<1>1. HasOutput(Top) /\ moved' = [from |-> TransferFrom(Top), to |-> TransferTo(Top)]
  BY DEF BlockEnd
<1>2. Top.kind \in {"FC", "FB", "MULTI_FB"}
  BY <1>1 DEF HasOutput
<1>3. running /\ n \in Nat /\ n > 0 /\ Top = stack[n] /\ reg \in Registers
  BY BlockEndIs DEF CallInv, TypesFit
<1>4. n # 1
  BY <1>2, <1>3 DEF CallInv, Chained
<1>5. n > 1 /\ n \in 2 .. n
  <2> HIDE DEF n
  <2>1. n \in Nat /\ n > 0 /\ n # 1
    BY <1>3, <1>4
  <2>2. QED
    BY <2>1
<1>6. Linked(stack[n - 1].block, Top, f)
  BY <1>3, <1>5 DEF CallInv, Chained
<1>7. /\ Top.kind = Site[s].kind /\ Top.prev = f.reg /\ f.to = Destination(s, f.reg)
      /\ f.from = IF Top.kind = "FC" THEN [lstack |-> f.slot] ELSE EntryView(s, f.reg)
  BY <1>6 DEF Linked
<1>8. ASSUME tidy PROVE [db |-> reg.di, base |-> reg.ar2] = EntryView(s, f.reg)
  BY <1>5, <1>8, ReturnedIs
<1>9. Len(found) = n
  BY <1>3, FramesThere
<1> HIDE DEF f, s
<1>10. ASSUME Top.kind = "FC", n \notin again, OnByte(n - 1) PROVE TransferFrom(Top) = f.from
  <2>1. ExitStackFrame(ls).topFrameOffset = 8 * ls.frames[n - 1].byteOffset
    BY <1>3, <1>5, <1>10, ExitBase
  <2>2. scratch[Top.site] = Top.ref
    BY <1>1, <1>3, <1>5, <1>10 DEF Offsets
  <2>3. Copies(Top.site)
    BY <1>1, <1>10 DEF HasOutput
  <2>4. 8 * ls.frames[n - 1].byteOffset + Top.ref = f.slot
    BY <1>3, <1>5, <1>10, <2>3 DEF Layout, ParamsReachable, f
  <2>5. TransferFrom(Top) = [lstack |-> ExitStackFrame(ls).topFrameOffset + scratch[Top.site]]
    BY <1>10 DEF TransferFrom
  <2>6. QED
    BY <1>7, <1>10, <2>1, <2>2, <2>4, <2>5
<1>11. ASSUME Top.kind # "FC", tidy PROVE TransferFrom(Top) = f.from
  BY <1>7, <1>8, <1>11 DEF TransferFrom
<1>12. FromThisCall
  BY <1>1, <1>9, <1>10, <1>11 DEF FromThisCall, f
<1>13. ASSUME tidy, ~(Top.kind = "FB" /\ Site[s].out = "DI") PROVE TransferTo(Top) = f.to
  <2> DEFINE r == [reg EXCEPT !.ar2 = Top.prev.ar2]
  <2>1. r.di = reg.di /\ r.ar2 = f.reg.ar2
    BY <1>3, <1>7 DEF Registers
  <2>2. TransferTo(Top) = Destination(s, r)
    BY DEF TransferTo, s
  <2> HIDE DEF r
  <2>3. CASE Top.kind = "FB"
    BY <1>7, <1>13, <2>2, <2>3 DEF Destination
  <2>4. CASE Top.kind # "FB"
    <3>1. EntryView(s, f.reg).db = f.reg.di
      BY <1>2, <1>7, <2>4 DEF EntryView
    <3>2. reg.di = f.reg.di
      BY <1>8, <1>13, <3>1
    <3>3. QED
      BY <1>7, <2>1, <2>2, <3>2 DEF Destination, StaticOf
  <2>5. QED
    BY <2>3, <2>4
<1>14. ToTheCaller
  BY <1>1, <1>9, <1>13 DEF ToTheCaller, f, s
<1>15. QED
  BY <1>12, <1>14

\* An output is read where this very call has put it and goes to what the RVALUE
\* was when the call was made (CallStackElem.handleBlockExit), in every program.
\* The exceptions are the three that FromThisCall and ToTheCaller name.
THEOREM OutputsComeBack == Spec => CopyBackToCaller
<1>1. CallInv /\ Views /\ Layout /\ Offsets /\ [Next]_vars =>
        [BlockEnd /\ moved' # <<>> => FromThisCall /\ ToTheCaller]_vars
  BY OutputMoves
<1>2. QED
  BY CallInvariant, ViewsInvariant, LayoutInvariant, OffsetsInvariant, <1>1, PTL DEF Spec, CopyBackToCaller
=============================================================================
