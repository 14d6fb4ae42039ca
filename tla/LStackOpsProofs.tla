-------------------------- MODULE LStackOpsProofs --------------------------
(***************************************************************************)
(* Lemmas about the operators of the L-stack allocator: what each of them  *)
(* does to an allocator of the right type.  The proofs about LStack and    *)
(* about CallStack rest on them.                                           *)
(***************************************************************************)
EXTENDS LStackOps, SequenceTheorems, TLAPS

----------------------------------------------------------------------------
(* Arithmetic of the round-up.                                             *)

LEMMA RoundUpFacts ==
  ASSUME NEW n \in Nat
  PROVE  /\ RoundUp8(n) \in Nat
         /\ n <= RoundUp8(n)
         /\ RoundUp8(n) < n + 8
         /\ RoundUp8(n) \div 8 \in Nat
         /\ 8 * (RoundUp8(n) \div 8) = RoundUp8(n)
         /\ RoundUp8(RoundUp8(n)) = RoundUp8(n)
BY DEF RoundUp8

LEMMA AlignedRoundUp ==
  ASSUME NEW n \in Nat
  PROVE  RoundUp8(n) % 8 = 0 /\ (n % 8 = 0 => RoundUp8(n) = n)
BY DEF RoundUp8

(***************************************************************************)
(* enterStackFrame(): the old frames are untouched and the new one closes  *)
(* the gap between the allocated bits and its own start.                   *)
(***************************************************************************)
LEMMA EnterFacts ==
  ASSUME NEW l \in LStackType
  PROVE  LET e == EnterStackFrame(l)
             n == Len(l.frames)
         IN  /\ e \in LStackType
             /\ e.maxAllocBits = l.maxAllocBits
             /\ e.globAllocBits = RoundUp8(l.globAllocBits)
             /\ e.topFrameOffset = RoundUp8(l.globAllocBits)
             /\ Len(e.frames) = n + 1
             /\ \A i \in 1 .. n : e.frames[i] = l.frames[i]
             /\ 8 * e.frames[n + 1].byteOffset = RoundUp8(l.globAllocBits)
             /\ e.frames[n + 1].allocBits
                  = RoundUp8(l.globAllocBits) - l.globAllocBits
<1> DEFINE f == [byteOffset |-> RoundUp8(l.globAllocBits) \div 8,
                 allocBits  |-> RoundUp8(l.globAllocBits) - l.globAllocBits]
<1>1. l.globAllocBits \in Nat /\ l.frames \in Seq(Frame)
  BY DEF LStackType
<1>2. /\ RoundUp8(l.globAllocBits) \in Nat
      /\ l.globAllocBits <= RoundUp8(l.globAllocBits)
      /\ RoundUp8(l.globAllocBits) \div 8 \in Nat
      /\ 8 * (RoundUp8(l.globAllocBits) \div 8) = RoundUp8(l.globAllocBits)
  BY <1>1, RoundUpFacts
<1>3. f \in Frame
  BY <1>1, <1>2 DEF Frame
<1>4. /\ Append(l.frames, f) \in Seq(Frame)
      /\ Len(Append(l.frames, f)) = Len(l.frames) + 1
      /\ \A i \in 1 .. Len(l.frames) : Append(l.frames, f)[i] = l.frames[i]
      /\ Append(l.frames, f)[Len(l.frames) + 1] = f
  BY <1>1, <1>3
<1>5. EnterStackFrame(l)
        = [l EXCEPT !.globAllocBits  = RoundUp8(l.globAllocBits),
                    !.frames         = Append(l.frames, f),
                    !.topFrameOffset = RoundUp8(l.globAllocBits)]
  BY DEF EnterStackFrame, LStackType
<1> DEFINE e == EnterStackFrame(l)
<1>6. /\ e.maxAllocBits = l.maxAllocBits
      /\ e.globAllocBits = RoundUp8(l.globAllocBits)
      /\ e.topFrameOffset = RoundUp8(l.globAllocBits)
      /\ e.frames = Append(l.frames, f)
  BY <1>5 DEF LStackType
<1>7. e \in LStackType
  BY <1>2, <1>4, <1>5 DEF LStackType
<1>8. /\ f.byteOffset = RoundUp8(l.globAllocBits) \div 8
      /\ f.allocBits = RoundUp8(l.globAllocBits) - l.globAllocBits
  OBVIOUS
<1> HIDE DEF f, e
<1>9. QED
  BY <1>2, <1>4, <1>6, <1>7, <1>8 DEF e

\* Charging bits to a frame changes its account and nothing else.
LEMMA ChargeFacts ==
  ASSUME NEW g \in Frame, NEW k \in Nat
  PROVE  LET c == [g EXCEPT !.allocBits = @ + k]
         IN  /\ c \in Frame
             /\ c.byteOffset = g.byteOffset
             /\ c.allocBits = g.allocBits + k
BY DEF Frame

(***************************************************************************)
(* alloc(): only the top frame grows, by as much as the stack does.        *)
(***************************************************************************)
LEMMA AllocFacts ==
  ASSUME NEW l \in LStackType, l.frames # <<>>,
         NEW nrBits \in Nat \ {0}
  PROVE  LET a == Alloc(l, nrBits)
             n == Len(l.frames)
         IN  /\ a \in LStackType
             /\ a.maxAllocBits = l.maxAllocBits
             /\ a.topFrameOffset = l.topFrameOffset
             /\ a.globAllocBits = AllocStart(l, nrBits) + nrBits
             /\ a.globAllocBits > l.globAllocBits
             /\ Len(a.frames) = n
             /\ \A i \in 1 .. n : a.frames[i].byteOffset = l.frames[i].byteOffset
             /\ \A i \in 1 .. n - 1 : a.frames[i] = l.frames[i]
             /\ a.frames[n].allocBits
                  = l.frames[n].allocBits + a.globAllocBits - l.globAllocBits
<1> DEFINE n == Len(l.frames)
           end == AllocStart(l, nrBits) + nrBits
           f == [l.frames[n] EXCEPT !.allocBits = @ + (end - l.globAllocBits)]
<1>1. /\ l.globAllocBits \in Nat /\ l.frames \in Seq(Frame)
      /\ n \in Nat /\ n \in 1 .. n /\ l.frames[n] \in Frame
  BY DEF LStackType
<1>2. AllocStart(l, nrBits) \in Nat /\ l.globAllocBits <= AllocStart(l, nrBits)
  <2>1. /\ RoundUp8(l.globAllocBits) \in Nat
        /\ l.globAllocBits <= RoundUp8(l.globAllocBits)
    BY <1>1, RoundUpFacts
  <2>2. QED
    BY <1>1, <2>1 DEF AllocStart
<1>3. end \in Nat /\ end > l.globAllocBits
  BY <1>1, <1>2
<1> HIDE DEF end
<1>4. /\ f \in Frame
      /\ f.byteOffset = l.frames[n].byteOffset
      /\ f.allocBits = l.frames[n].allocBits + end - l.globAllocBits
  <2>1. end - l.globAllocBits \in Nat
    BY <1>1, <1>3
  <2>2. /\ f \in Frame
        /\ f.byteOffset = l.frames[n].byteOffset
        /\ f.allocBits = l.frames[n].allocBits + (end - l.globAllocBits)
    BY <1>1, <2>1, ChargeFacts
  <2>3. l.frames[n].allocBits \in Nat
    BY <1>1 DEF Frame
  <2>4. QED
    BY <1>1, <1>3, <2>2, <2>3
<1> HIDE DEF f
<1>5. /\ [l.frames EXCEPT ![n] = f] \in Seq(Frame)
      /\ Len([l.frames EXCEPT ![n] = f]) = n
      /\ [l.frames EXCEPT ![n] = f][n] = f
      /\ \A i \in 1 .. n - 1 : [l.frames EXCEPT ![n] = f][i] = l.frames[i]
  BY <1>1, <1>4
<1>6. Alloc(l, nrBits) = [l EXCEPT !.globAllocBits = end,
                                   !.frames = [l.frames EXCEPT ![n] = f]]
  BY <1>1 DEF Alloc, LStackType, end, f
<1> HIDE DEF n
<1>7. /\ Alloc(l, nrBits) \in LStackType
      /\ Alloc(l, nrBits).frames = [l.frames EXCEPT ![n] = f]
      /\ Alloc(l, nrBits).globAllocBits = end
      /\ Alloc(l, nrBits).maxAllocBits = l.maxAllocBits
      /\ Alloc(l, nrBits).topFrameOffset = l.topFrameOffset
  BY <1>1, <1>3, <1>5, <1>6 DEF LStackType
<1>8. QED
  BY <1>1, <1>3, <1>4, <1>5, <1>7 DEF n, end

(***************************************************************************)
(* exitStackFrame(): the books of a balanced frame are returned exactly.   *)
(***************************************************************************)
LEMMA ExitFacts ==
  ASSUME NEW l \in LStackType, l.frames # <<>>,
         l.frames[Len(l.frames)].allocBits <= l.globAllocBits,
         Len(l.frames) > 1 =>
           l.frames[Len(l.frames) - 1].allocBits
             <= l.globAllocBits - l.frames[Len(l.frames)].allocBits
  PROVE  LET x == ExitStackFrame(l)
             n == Len(l.frames)
         IN  /\ x \in LStackType
             /\ x.maxAllocBits = l.maxAllocBits
             /\ x.globAllocBits = l.globAllocBits - l.frames[n].allocBits
             /\ Len(x.frames) = n - 1
             /\ \A i \in 1 .. n - 1 : x.frames[i] = l.frames[i]
             /\ x.topFrameOffset = IF n > 1
                  THEN x.globAllocBits - l.frames[n - 1].allocBits ELSE 0
<1> DEFINE n == Len(l.frames)
           glob == l.globAllocBits - l.frames[n].allocBits
           base == IF n > 1 THEN glob - l.frames[n - 1].allocBits ELSE 0
           x == ExitStackFrame(l)
<1>1. /\ l.globAllocBits \in Nat /\ l.frames \in Seq(Frame)
      /\ n \in Nat /\ n >= 1 /\ l.frames[n] \in Frame
      /\ n > 1 => l.frames[n - 1] \in Frame
  BY DEF LStackType
<1>2. glob \in Nat
  BY <1>1 DEF Frame
<1>3. base \in Nat
  BY <1>1, <1>2 DEF Frame
<1>4. /\ SubSeq(l.frames, 1, n - 1) \in Seq(Frame)
      /\ Len(SubSeq(l.frames, 1, n - 1)) = n - 1
      /\ \A i \in 1 .. n - 1 : SubSeq(l.frames, 1, n - 1)[i] = l.frames[i]
  BY <1>1
<1>5. x = [l EXCEPT !.globAllocBits = glob,
                    !.frames = SubSeq(l.frames, 1, n - 1),
                    !.topFrameOffset = base]
  BY DEF ExitStackFrame, LStackType
<1> HIDE DEF x, glob, base
<1>6. /\ x.maxAllocBits = l.maxAllocBits /\ x.globAllocBits = glob
      /\ x.frames = SubSeq(l.frames, 1, n - 1) /\ x.topFrameOffset = base
      /\ x \in LStackType
  BY <1>2, <1>3, <1>4, <1>5 DEF LStackType
<1>7. QED
  BY <1>4, <1>6 DEF x, glob, base

LEMMA FreshFacts ==
  ASSUME NEW l \in LStackType
  PROVE  LET r == Reset(l)
         IN  /\ r \in LStackType
             /\ r.maxAllocBits = l.maxAllocBits
             /\ r.globAllocBits = 0
             /\ r.frames = <<>>
<1>1. << >> \in Seq(Frame)
  OBVIOUS
<1>2. QED
  BY <1>1 DEF Reset, LStackType
=============================================================================
