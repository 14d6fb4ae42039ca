---------------------------- MODULE LStackProofs ----------------------------
(***************************************************************************)
(* Proofs about LStack for every size, every set of allocation widths and  *)
(* every call depth.                                                       *)
(***************************************************************************)
EXTENDS LStack, LStackOpsProofs, SequenceTheorems, TLAPS

\* Each frame starts on the first byte boundary its block found, and ends
\* behind it.
Based ==
  \A i \in 1 .. Len(ls.frames) :
    /\ 8 * ls.frames[i].byteOffset = RoundUp8(saved[i])
    /\ 8 * ls.frames[i].byteOffset <= EndOf(i)

\* The base MEM_L operands are added to lies between what the block found and
\* its byte offset: after a nested call it is the former, not the latter.
BaseInRoundUp ==
  ls.frames # <<>> =>
    /\ saved[Len(saved)] <= ls.topFrameOffset
    /\ ls.topFrameOffset <= 8 * TopFrame(ls).byteOffset

HasFrame == running => ls.frames # <<>>

\* The inductive invariant.
IInv ==
  /\ TypeOK
  /\ Balanced
  /\ NoLeak
  /\ InBounds
  /\ Based
  /\ BaseInRoundUp
  /\ HasFrame

----------------------------------------------------------------------------
(* The invariant is inductive: one lemma per action that changes ls.       *)

LEMMA InitIInv == Init => IInv
<1> SUFFICES ASSUME Init PROVE IInv
  OBVIOUS
<1> USE LStackAssumption
<1>1. PICK bytes \in LocalBytes : ls = EmptyLStack(bytes)
  BY DEF Init
<1>2. /\ 8 * bytes \in Nat /\ << >> \in Seq(Frame) /\ << >> \in Seq(Nat)
  OBVIOUS
<1>3. /\ ls \in LStackType /\ ls.frames = <<>> /\ ls.globAllocBits = 0
  BY <1>1, <1>2 DEF EmptyLStack, LStackType
<1>4. /\ running = FALSE /\ returned = FALSE /\ saved = <<>> /\ Len(saved) = 0
      /\ Len(ls.frames) = 0 /\ saved \in Seq(Nat)
  BY <1>2, <1>3 DEF Init
<1>5. TypeOK
  BY <1>3, <1>4 DEF TypeOK
<1>6. Balanced /\ Based
  BY <1>4 DEF Balanced, Based
<1>7. NoLeak /\ InBounds /\ BaseInRoundUp /\ HasFrame
  BY <1>3, <1>4 DEF NoLeak, InBounds, BaseInRoundUp, HasFrame
<1>8. QED
  BY <1>5, <1>6, <1>7 DEF IInv

LEMMA RunOBIInv == ASSUME IInv, RunOB PROVE IInv'
<1> DEFINE r == Reset(ls)
<1>1. /\ r \in LStackType /\ r.maxAllocBits = ls.maxAllocBits
      /\ r.globAllocBits = 0 /\ Len(r.frames) = 0
  BY FreshFacts DEF IInv, TypeOK
<1>2. RoundUp8(0) = 0
  BY DEF RoundUp8
<1> HIDE DEF r
<1>3. ls' = EnterStackFrame(r)
  BY DEF RunOB, r
<1>4. /\ ls' \in LStackType /\ ls'.maxAllocBits = ls.maxAllocBits
      /\ ls'.globAllocBits = 0 /\ ls'.topFrameOffset = 0
      /\ Len(ls'.frames) = 1
      /\ 8 * ls'.frames[1].byteOffset = 0
      /\ ls'.frames[1].allocBits = 0
  <2>1. /\ ls' \in LStackType /\ ls'.maxAllocBits = r.maxAllocBits
        /\ ls'.globAllocBits = RoundUp8(0) /\ ls'.topFrameOffset = RoundUp8(0)
        /\ Len(ls'.frames) = 0 + 1
        /\ 8 * ls'.frames[0 + 1].byteOffset = RoundUp8(0)
        /\ ls'.frames[0 + 1].allocBits = RoundUp8(0) - 0
    BY <1>1, <1>3, EnterFacts
  <2>2. QED
    BY <1>1, <1>2, <2>1
<1>5. /\ running' = TRUE /\ saved' = <<0>> /\ saved' \in Seq(Nat)
      /\ Len(saved') = 1 /\ saved'[1] = 0
  BY DEF RunOB
<1>6. ls.maxAllocBits \in Nat
  BY DEF IInv, TypeOK, LStackType
<1>7. TypeOK'
  BY <1>4, <1>5 DEF TypeOK, RunOB
<1>8. ls'.frames # <<>>
  BY <1>4
<1>9. Balanced' /\ Based'
  BY <1>2, <1>4, <1>5 DEF Balanced, Based, EndOf
<1>10. NoLeak' /\ HasFrame'
  BY <1>8 DEF NoLeak, HasFrame
<1>11. InBounds' /\ BaseInRoundUp'
  BY <1>2, <1>4, <1>5, <1>6 DEF InBounds, BaseInRoundUp, TopFrame
<1>12. QED
  BY <1>7, <1>9, <1>10, <1>11 DEF IInv

\* What a call changes, in terms of the frames that were there before.
LEMMA CallStep ==
  ASSUME IInv, Call
  PROVE  LET n == Len(ls.frames)
             g == ls.globAllocBits
         IN
             /\ /\ ls \in LStackType /\ saved \in Seq(Nat) /\ running
                /\ ls' = EnterStackFrame(ls) /\ running' = running
                /\ saved' = Append(saved, g)
             /\ /\ n \in Nat /\ g \in Nat /\ ls.maxAllocBits \in Nat
                /\ ls.frames \in Seq(Frame) /\ n > 0 /\ Len(saved) = n
                /\ ls.frames # <<>>
             /\ /\ ls' \in LStackType /\ ls'.maxAllocBits = ls.maxAllocBits
                /\ ls'.globAllocBits = RoundUp8(g) /\ ls'.topFrameOffset = RoundUp8(g)
                /\ Len(ls'.frames) = n + 1
                /\ \A i \in 1 .. n : ls'.frames[i] = ls.frames[i]
                /\ 8 * ls'.frames[n + 1].byteOffset = RoundUp8(g)
                /\ ls'.frames[n + 1].allocBits = RoundUp8(g) - g
             /\ /\ saved' \in Seq(Nat) /\ Len(saved') = n + 1
                /\ \A i \in 1 .. n : saved'[i] = saved[i]
                /\ saved'[n + 1] = g
             /\ /\ RoundUp8(g) \in Nat /\ g <= RoundUp8(g)
                /\ RoundUp8(RoundUp8(g)) = RoundUp8(g)
             /\ /\ \A i \in 1 .. n : EndOf(i)' = EndOf(i)
                /\ \A i \in 1 .. n + 1 : i = n + 1 => EndOf(i)' = RoundUp8(g)
<1> DEFINE n == Len(ls.frames)
           g == ls.globAllocBits
<1>1. /\ ls \in LStackType /\ saved \in Seq(Nat) /\ running
      /\ ls' = EnterStackFrame(ls) /\ running' = running
      /\ saved' = Append(saved, g)
  BY DEF IInv, TypeOK, Call
<1>2. /\ n \in Nat /\ g \in Nat /\ ls.maxAllocBits \in Nat
      /\ ls.frames \in Seq(Frame) /\ n > 0 /\ Len(saved) = n
      /\ ls.frames # <<>>
  BY <1>1 DEF LStackType, IInv, HasFrame, Balanced
<1>3. /\ ls' \in LStackType /\ ls'.maxAllocBits = ls.maxAllocBits
      /\ ls'.globAllocBits = RoundUp8(g) /\ ls'.topFrameOffset = RoundUp8(g)
      /\ Len(ls'.frames) = n + 1
      /\ \A i \in 1 .. n : ls'.frames[i] = ls.frames[i]
      /\ 8 * ls'.frames[n + 1].byteOffset = RoundUp8(g)
      /\ ls'.frames[n + 1].allocBits = RoundUp8(g) - g
  BY <1>1, EnterFacts
<1>4. /\ saved' \in Seq(Nat) /\ Len(saved') = n + 1
      /\ \A i \in 1 .. n : saved'[i] = saved[i]
      /\ saved'[n + 1] = g
  BY <1>1, <1>2
<1>5. /\ RoundUp8(g) \in Nat /\ g <= RoundUp8(g)
      /\ RoundUp8(RoundUp8(g)) = RoundUp8(g)
  BY <1>2, RoundUpFacts
<1>6. /\ \A i \in 1 .. n : EndOf(i)' = EndOf(i)
      /\ \A i \in 1 .. n + 1 : i = n + 1 => EndOf(i)' = RoundUp8(g)
  <2>1. ASSUME NEW i \in 1 .. n PROVE EndOf(i)' = EndOf(i)
    <3>1. i # n + 1 /\ i + 1 \in 1 .. n + 1
      BY <1>2
    <3>2. EndOf(i)' = saved'[i + 1]
      BY <1>3, <3>1 DEF EndOf
    <3>3. CASE i = n
      BY <1>4, <3>2, <3>3 DEF EndOf
    <3>4. CASE i # n
      <4>1. i + 1 \in 1 .. n
        BY <1>2, <3>4
      <4>2. QED
        BY <1>4, <3>2, <3>4, <4>1 DEF EndOf
    <3>5. QED
      BY <3>3, <3>4
  <2>2. ASSUME NEW i \in 1 .. n + 1, i = n + 1 PROVE EndOf(i)' = RoundUp8(g)
    BY <1>3, <2>2 DEF EndOf
  <2>3. QED
    BY <2>1, <2>2
<1>7. QED
  BY <1>1, <1>2, <1>3, <1>4, <1>5, <1>6

LEMMA CallIInv == ASSUME IInv, Call PROVE IInv'
<1> DEFINE n == Len(ls.frames)
           g == ls.globAllocBits
<1>1. /\ ls \in LStackType /\ saved \in Seq(Nat) /\ running
      /\ ls' = EnterStackFrame(ls) /\ running' = running
      /\ saved' = Append(saved, g)
  BY CallStep
<1>2. /\ n \in Nat /\ g \in Nat /\ ls.maxAllocBits \in Nat
      /\ ls.frames \in Seq(Frame) /\ n > 0 /\ Len(saved) = n
      /\ ls.frames # <<>>
  BY CallStep
<1>3. /\ ls' \in LStackType /\ ls'.maxAllocBits = ls.maxAllocBits
      /\ ls'.globAllocBits = RoundUp8(g) /\ ls'.topFrameOffset = RoundUp8(g)
      /\ Len(ls'.frames) = n + 1
      /\ \A i \in 1 .. n : ls'.frames[i] = ls.frames[i]
      /\ 8 * ls'.frames[n + 1].byteOffset = RoundUp8(g)
      /\ ls'.frames[n + 1].allocBits = RoundUp8(g) - g
  BY CallStep
<1>4. /\ saved' \in Seq(Nat) /\ Len(saved') = n + 1
      /\ \A i \in 1 .. n : saved'[i] = saved[i]
      /\ saved'[n + 1] = g
  BY CallStep
<1>5. /\ RoundUp8(g) \in Nat /\ g <= RoundUp8(g)
      /\ RoundUp8(RoundUp8(g)) = RoundUp8(g)
  BY CallStep
<1>6. /\ \A i \in 1 .. n : EndOf(i)' = EndOf(i)
      /\ \A i \in 1 .. n + 1 : i = n + 1 => EndOf(i)' = RoundUp8(g)
  BY CallStep
<1>7. TypeOK'
  BY <1>1, <1>3, <1>4 DEF TypeOK, IInv, Call
<1>8. Balanced'
  <2>1. ASSUME NEW i \in 1 .. n + 1
        PROVE  saved'[i] + ls'.frames[i].allocBits = EndOf(i)'
    <3>1. CASE i = n + 1
      <4>1. saved'[n + 1] + ls'.frames[n + 1].allocBits = RoundUp8(g)
        BY <1>2, <1>3, <1>4, <1>5
      <4>2. QED
        BY <1>6, <3>1, <4>1
    <3>2. CASE i \in 1 .. n
      BY <1>3, <1>4, <1>6, <3>2 DEF IInv, Balanced
    <3>3. QED
      BY <1>2, <3>1, <3>2
  <2>2. QED
    BY <1>2, <1>3, <1>4, <2>1 DEF Balanced, IInv
<1>9. Based'
  <2>1. ASSUME NEW i \in 1 .. n + 1
        PROVE  /\ 8 * ls'.frames[i].byteOffset = RoundUp8(saved'[i])
               /\ 8 * ls'.frames[i].byteOffset <= EndOf(i)'
    <3>1. CASE i = n + 1
      <4>1. /\ 8 * ls'.frames[n + 1].byteOffset = RoundUp8(saved'[n + 1])
            /\ 8 * ls'.frames[n + 1].byteOffset <= RoundUp8(g)
        BY <1>3, <1>4, <1>5
      <4>2. QED
        BY <1>6, <3>1, <4>1
    <3>2. CASE i \in 1 .. n
      BY <1>3, <1>4, <1>6, <3>2 DEF IInv, Based
    <3>3. QED
      BY <1>2, <3>1, <3>2
  <2>2. QED
    BY <1>3, <2>1 DEF Based
<1>10. NoLeak' /\ HasFrame'
  BY <1>2, <1>3 DEF NoLeak, HasFrame
<1>11. InBounds'
  BY <1>1, <1>3, <1>5 DEF InBounds, IInv
<1>12. BaseInRoundUp'
  BY <1>2, <1>3, <1>4, <1>5 DEF BaseInRoundUp, TopFrame
<1>13. QED
  BY <1>7, <1>8, <1>9, <1>10, <1>11, <1>12 DEF IInv

\* What an allocation changes: the end of the top frame.
LEMMA AllocStep ==
  ASSUME IInv, NEW nrBits \in AllocWidths, AllocBits(nrBits)
  PROVE  LET n == Len(ls.frames)
         IN
             /\ /\ ls \in LStackType /\ saved \in Seq(Nat) /\ running
                /\ AllocFits(ls, nrBits) /\ ls' = Alloc(ls, nrBits)
                /\ running' = running /\ saved' = saved
             /\ (nrBits \in Nat \ {0})
             /\ /\ n \in Nat /\ ls.globAllocBits \in Nat /\ ls.maxAllocBits \in Nat
                /\ ls.frames \in Seq(Frame) /\ n > 0 /\ Len(saved) = n
                /\ ls.frames # <<>>
             /\ (\A i \in 1 .. n : /\ ls.frames[i].allocBits \in Nat
                                   /\ ls.frames[i].byteOffset \in Nat
                                   /\ saved[i] \in Nat)
             /\ /\ ls' \in LStackType /\ ls'.maxAllocBits = ls.maxAllocBits
                /\ ls'.topFrameOffset = ls.topFrameOffset
                /\ ls'.globAllocBits = AllocStart(ls, nrBits) + nrBits
                /\ ls'.globAllocBits > ls.globAllocBits
                /\ Len(ls'.frames) = n
                /\ \A i \in 1 .. n : ls'.frames[i].byteOffset = ls.frames[i].byteOffset
                /\ \A i \in 1 .. n - 1 : ls'.frames[i] = ls.frames[i]
                /\ ls'.frames[n].allocBits
                     = ls.frames[n].allocBits + ls'.globAllocBits - ls.globAllocBits
             /\ (ls'.globAllocBits \in Nat)
             /\ /\ \A i \in 1 .. n - 1 : EndOf(i)' = EndOf(i)
                /\ EndOf(n)' = ls'.globAllocBits /\ EndOf(n) = ls.globAllocBits
<1> DEFINE n == Len(ls.frames)
<1>1. /\ ls \in LStackType /\ saved \in Seq(Nat) /\ running
      /\ AllocFits(ls, nrBits) /\ ls' = Alloc(ls, nrBits)
      /\ running' = running /\ saved' = saved
  BY DEF IInv, TypeOK, AllocBits
<1>2. nrBits \in Nat \ {0}
  BY LStackAssumption
<1>3. /\ n \in Nat /\ ls.globAllocBits \in Nat /\ ls.maxAllocBits \in Nat
      /\ ls.frames \in Seq(Frame) /\ n > 0 /\ Len(saved) = n
      /\ ls.frames # <<>>
  BY <1>1 DEF LStackType, IInv, HasFrame, Balanced
<1>t. \A i \in 1 .. n : /\ ls.frames[i].allocBits \in Nat
                         /\ ls.frames[i].byteOffset \in Nat
                         /\ saved[i] \in Nat
  <2>1. ASSUME NEW i \in 1 .. n
        PROVE  ls.frames[i] \in Frame /\ saved[i] \in Nat
    BY <1>1, <1>3
  <2>2. QED
    BY <2>1 DEF Frame
<1>4. /\ ls' \in LStackType /\ ls'.maxAllocBits = ls.maxAllocBits
      /\ ls'.topFrameOffset = ls.topFrameOffset
      /\ ls'.globAllocBits = AllocStart(ls, nrBits) + nrBits
      /\ ls'.globAllocBits > ls.globAllocBits
      /\ Len(ls'.frames) = n
      /\ \A i \in 1 .. n : ls'.frames[i].byteOffset = ls.frames[i].byteOffset
      /\ \A i \in 1 .. n - 1 : ls'.frames[i] = ls.frames[i]
      /\ ls'.frames[n].allocBits
           = ls.frames[n].allocBits + ls'.globAllocBits - ls.globAllocBits
  BY <1>1, <1>2, <1>3, AllocFacts
<1>5. ls'.globAllocBits \in Nat
  BY <1>4 DEF LStackType
<1>6. /\ \A i \in 1 .. n - 1 : EndOf(i)' = EndOf(i)
      /\ EndOf(n)' = ls'.globAllocBits /\ EndOf(n) = ls.globAllocBits
  BY <1>1, <1>3, <1>4 DEF EndOf
<1> QED
  BY <1>1, <1>2, <1>3, <1>t, <1>4, <1>5, <1>6

LEMMA AllocIInv ==
  ASSUME IInv, NEW nrBits \in AllocWidths, AllocBits(nrBits)
  PROVE  IInv'
<1> DEFINE n == Len(ls.frames)
<1>1. /\ ls \in LStackType /\ saved \in Seq(Nat) /\ running
      /\ AllocFits(ls, nrBits) /\ ls' = Alloc(ls, nrBits)
      /\ running' = running /\ saved' = saved
  BY AllocStep
<1>2. nrBits \in Nat \ {0}
  BY AllocStep
<1>3. /\ n \in Nat /\ ls.globAllocBits \in Nat /\ ls.maxAllocBits \in Nat
      /\ ls.frames \in Seq(Frame) /\ n > 0 /\ Len(saved) = n
      /\ ls.frames # <<>>
  BY AllocStep
<1>t. \A i \in 1 .. n : /\ ls.frames[i].allocBits \in Nat
                         /\ ls.frames[i].byteOffset \in Nat
                         /\ saved[i] \in Nat
  BY AllocStep
<1>4. /\ ls' \in LStackType /\ ls'.maxAllocBits = ls.maxAllocBits
      /\ ls'.topFrameOffset = ls.topFrameOffset
      /\ ls'.globAllocBits = AllocStart(ls, nrBits) + nrBits
      /\ ls'.globAllocBits > ls.globAllocBits
      /\ Len(ls'.frames) = n
      /\ \A i \in 1 .. n : ls'.frames[i].byteOffset = ls.frames[i].byteOffset
      /\ \A i \in 1 .. n - 1 : ls'.frames[i] = ls.frames[i]
      /\ ls'.frames[n].allocBits
           = ls.frames[n].allocBits + ls'.globAllocBits - ls.globAllocBits
  BY AllocStep
<1>5. ls'.globAllocBits \in Nat
  BY AllocStep
<1>6. /\ \A i \in 1 .. n - 1 : EndOf(i)' = EndOf(i)
      /\ EndOf(n)' = ls'.globAllocBits /\ EndOf(n) = ls.globAllocBits
  BY AllocStep
<1>7. TypeOK'
  BY <1>1, <1>4 DEF TypeOK, IInv, AllocBits
<1>8. Balanced'
  <2>1. ASSUME NEW i \in 1 .. n
        PROVE  saved[i] + ls'.frames[i].allocBits = EndOf(i)'
    <3>1. saved[i] + ls.frames[i].allocBits = EndOf(i)
      BY DEF IInv, Balanced
    <3>2. CASE i = n
      BY <1>t, <1>3, <1>4, <1>5, <1>6, <3>1, <3>2
    <3>3. CASE i \in 1 .. n - 1
      BY <1>4, <1>6, <3>1, <3>3
    <3>4. QED
      BY <1>3, <3>2, <3>3
  <2>2. QED
    BY <1>1, <1>3, <1>4, <2>1 DEF Balanced, IInv
<1>9. Based'
  <2>1. ASSUME NEW i \in 1 .. n
        PROVE  8 * ls'.frames[i].byteOffset <= EndOf(i)'
    <3>1. /\ 8 * ls.frames[i].byteOffset <= EndOf(i)
          /\ ls.frames[i].byteOffset \in Nat
          /\ ls'.frames[i].byteOffset = ls.frames[i].byteOffset
      BY <1>t, <1>4 DEF IInv, Based
    <3>2. CASE i = n
      <4>1. EndOf(i) = ls.globAllocBits /\ EndOf(i)' = ls'.globAllocBits
        BY <1>4, <3>2 DEF EndOf
      <4>2. QED
        BY <1>3, <1>4, <1>5, <3>1, <4>1
    <3>3. CASE i \in 1 .. n - 1
      BY <1>6, <3>1, <3>3
    <3>4. QED
      BY <1>3, <3>2, <3>3
  <2>2. QED
    BY <1>1, <1>4, <2>1 DEF Based, IInv
<1>10. NoLeak' /\ HasFrame'
  BY <1>3, <1>4 DEF NoLeak, HasFrame
<1>11. InBounds'
  <2>1. RoundUp8(ls'.globAllocBits) < ls.maxAllocBits
    BY <1>1, <1>4 DEF AllocFits
  <2>2. RoundUp8(ls'.globAllocBits) \in Nat
    BY <1>5, RoundUpFacts
  <2>3. QED
    BY <1>3, <1>4, <2>1, <2>2 DEF InBounds
<1>12. BaseInRoundUp'
  BY <1>1, <1>3, <1>4 DEF BaseInRoundUp, TopFrame, IInv
<1>13. QED
  BY <1>7, <1>8, <1>9, <1>10, <1>11, <1>12 DEF IInv

\* What a return changes: the caller's frame ends where the callee found it.
LEMMA ExitStep ==
  ASSUME IInv, BlockExit
  PROVE  LET n == Len(ls.frames)
         IN
             /\ /\ ls \in LStackType /\ saved \in Seq(Nat) /\ running
                /\ ls' = ExitStackFrame(ls) /\ running' = (n > 1)
                /\ saved' = SubSeq(saved, 1, Len(saved) - 1)
             /\ /\ n \in Nat /\ ls.globAllocBits \in Nat /\ ls.maxAllocBits \in Nat
                /\ ls.frames \in Seq(Frame) /\ n > 0 /\ Len(saved) = n /\ saved[1] = 0
                /\ ls.frames # <<>>
             /\ (\A i \in 1 .. n : /\ ls.frames[i].allocBits \in Nat
                                   /\ ls.frames[i].byteOffset \in Nat
                                   /\ saved[i] \in Nat)
             /\ (n \in 1 .. n /\ (n > 1 => n - 1 \in 1 .. n))
             /\ (saved[n] + ls.frames[n].allocBits = ls.globAllocBits)
             /\ (n > 1 => saved[n - 1] + ls.frames[n - 1].allocBits = saved[n])
             /\ /\ ls' \in LStackType /\ ls'.maxAllocBits = ls.maxAllocBits
                /\ ls'.globAllocBits = saved[n]
                /\ Len(ls'.frames) = n - 1
                /\ \A i \in 1 .. n - 1 : ls'.frames[i] = ls.frames[i]
                /\ n > 1 => ls'.topFrameOffset = saved[n - 1]
             /\ /\ saved' \in Seq(Nat) /\ Len(saved') = n - 1
                /\ \A i \in 1 .. n - 1 : saved'[i] = saved[i]
             /\ ((ls'.frames = <<>>) <=> (n = 1))
             /\ (\A i \in 1 .. n - 1 : EndOf(i)' = EndOf(i) /\ EndOf(i) = saved[i + 1])
             /\ (1 .. n - 1 \subseteq 1 .. n)
<1> DEFINE n == Len(ls.frames)
<1>1. /\ ls \in LStackType /\ saved \in Seq(Nat) /\ running
      /\ ls' = ExitStackFrame(ls) /\ running' = (n > 1)
      /\ saved' = SubSeq(saved, 1, Len(saved) - 1)
  BY DEF IInv, TypeOK, BlockExit
<1>2. /\ n \in Nat /\ ls.globAllocBits \in Nat /\ ls.maxAllocBits \in Nat
      /\ ls.frames \in Seq(Frame) /\ n > 0 /\ Len(saved) = n /\ saved[1] = 0
      /\ ls.frames # <<>>
  BY <1>1 DEF LStackType, IInv, HasFrame, Balanced
<1>3. \A i \in 1 .. n : /\ ls.frames[i].allocBits \in Nat
                         /\ ls.frames[i].byteOffset \in Nat
                         /\ saved[i] \in Nat
  <2>1. ASSUME NEW i \in 1 .. n
        PROVE  ls.frames[i] \in Frame /\ saved[i] \in Nat
    BY <1>1, <1>2
  <2>2. QED
    BY <2>1 DEF Frame
<1>4. n \in 1 .. n /\ (n > 1 => n - 1 \in 1 .. n)
  BY <1>2
<1>5. saved[n] + ls.frames[n].allocBits = ls.globAllocBits
  BY <1>4 DEF IInv, Balanced, EndOf
<1>6. n > 1 => saved[n - 1] + ls.frames[n - 1].allocBits = saved[n]
  <2>1. n > 1 => n - 1 # n /\ (n - 1) + 1 = n
    BY <1>2
  <2>2. QED
    BY <1>4, <2>1 DEF IInv, Balanced, EndOf
<1>7. /\ ls' \in LStackType /\ ls'.maxAllocBits = ls.maxAllocBits
      /\ ls'.globAllocBits = saved[n]
      /\ Len(ls'.frames) = n - 1
      /\ \A i \in 1 .. n - 1 : ls'.frames[i] = ls.frames[i]
      /\ n > 1 => ls'.topFrameOffset = saved[n - 1]
  <2>0. /\ ls.frames[n].allocBits \in Nat /\ saved[n] \in Nat
        /\ n > 1 => ls.frames[n - 1].allocBits \in Nat /\ saved[n - 1] \in Nat
    BY <1>3, <1>4
  <2>1. /\ ls.frames[n].allocBits <= ls.globAllocBits
        /\ n > 1 => ls.frames[n - 1].allocBits
                      <= ls.globAllocBits - ls.frames[n].allocBits
    BY <1>2, <1>5, <1>6, <2>0
  <2>2. /\ ls' \in LStackType /\ ls'.maxAllocBits = ls.maxAllocBits
        /\ ls'.globAllocBits = ls.globAllocBits - ls.frames[n].allocBits
        /\ Len(ls'.frames) = n - 1
        /\ \A i \in 1 .. n - 1 : ls'.frames[i] = ls.frames[i]
        /\ n > 1 => ls'.topFrameOffset
                      = ls'.globAllocBits - ls.frames[n - 1].allocBits
    BY <1>1, <1>2, <2>1, ExitFacts
  <2>3. ls'.globAllocBits = saved[n]
    <3>1. ls.globAllocBits - ls.frames[n].allocBits = saved[n]
      BY <1>2, <1>5, <2>0
    <3>2. QED
      BY <2>2, <3>1, Zenon
  <2>4. n > 1 => ls'.topFrameOffset = saved[n - 1]
    <3>1. n > 1 => saved[n] - ls.frames[n - 1].allocBits = saved[n - 1]
      BY <1>6, <2>0
    <3>2. n > 1 => ls'.topFrameOffset = saved[n] - ls.frames[n - 1].allocBits
      BY <2>2, <2>3, Zenon
    <3>3. QED
      BY <3>1, <3>2, Zenon
  <2>5. QED
    BY <2>2, <2>3, <2>4, Zenon
<1>8. /\ saved' \in Seq(Nat) /\ Len(saved') = n - 1
      /\ \A i \in 1 .. n - 1 : saved'[i] = saved[i]
  BY <1>1, <1>2
<1>e. (ls'.frames = <<>>) <=> (n = 1)
  <2>1. ls'.frames \in Seq(Frame)
    BY <1>7 DEF LStackType
  <2>2. (ls'.frames = <<>>) <=> (Len(ls'.frames) = 0)
    BY <2>1, EmptySeq
  <2>3. QED
    BY <1>2, <1>7, <2>2
<1>9. \A i \in 1 .. n - 1 : EndOf(i)' = EndOf(i) /\ EndOf(i) = saved[i + 1]
  <2>1. ASSUME NEW i \in 1 .. n - 1
        PROVE  EndOf(i)' = EndOf(i) /\ EndOf(i) = saved[i + 1]
    <3>1. EndOf(i) = saved[i + 1]
      BY <1>2 DEF EndOf
    <3>2. CASE i = n - 1
      <4>1. EndOf(i)' = ls'.globAllocBits
        BY <1>7, <3>2 DEF EndOf
      <4>2. saved[i + 1] = saved[n]
        BY <1>2, <3>2
      <4>3. QED
        BY <1>7, <3>1, <4>1, <4>2
    <3>3. CASE i # n - 1
      <4>1. i + 1 \in 1 .. n - 1
        BY <1>2, <3>3
      <4>2. EndOf(i)' = saved'[i + 1]
        BY <1>7, <3>3 DEF EndOf
      <4>3. QED
        BY <1>8, <3>1, <4>1, <4>2
    <3>4. QED
      BY <3>2, <3>3
  <2>2. QED
    BY <2>1
<1>10. 1 .. n - 1 \subseteq 1 .. n
  BY <1>2
<1> QED
  BY <1>1, <1>2, <1>3, <1>4, <1>5, <1>6, <1>7, <1>8, <1>e, <1>9, <1>10

LEMMA BlockExitIInv == ASSUME IInv, BlockExit PROVE IInv'
<1> DEFINE n == Len(ls.frames)
<1>1. /\ ls \in LStackType /\ saved \in Seq(Nat) /\ running
      /\ ls' = ExitStackFrame(ls) /\ running' = (n > 1)
      /\ saved' = SubSeq(saved, 1, Len(saved) - 1)
  BY ExitStep
<1>2. /\ n \in Nat /\ ls.globAllocBits \in Nat /\ ls.maxAllocBits \in Nat
      /\ ls.frames \in Seq(Frame) /\ n > 0 /\ Len(saved) = n /\ saved[1] = 0
      /\ ls.frames # <<>>
  BY ExitStep
<1>3. \A i \in 1 .. n : /\ ls.frames[i].allocBits \in Nat
                         /\ ls.frames[i].byteOffset \in Nat
                         /\ saved[i] \in Nat
  BY ExitStep
<1>4. n \in 1 .. n /\ (n > 1 => n - 1 \in 1 .. n)
  BY ExitStep
<1>5. saved[n] + ls.frames[n].allocBits = ls.globAllocBits
  BY ExitStep
<1>6. n > 1 => saved[n - 1] + ls.frames[n - 1].allocBits = saved[n]
  BY ExitStep
<1>7. /\ ls' \in LStackType /\ ls'.maxAllocBits = ls.maxAllocBits
      /\ ls'.globAllocBits = saved[n]
      /\ Len(ls'.frames) = n - 1
      /\ \A i \in 1 .. n - 1 : ls'.frames[i] = ls.frames[i]
      /\ n > 1 => ls'.topFrameOffset = saved[n - 1]
  BY ExitStep
<1>8. /\ saved' \in Seq(Nat) /\ Len(saved') = n - 1
      /\ \A i \in 1 .. n - 1 : saved'[i] = saved[i]
  BY ExitStep
<1>e. (ls'.frames = <<>>) <=> (n = 1)
  BY ExitStep
<1>9. \A i \in 1 .. n - 1 : EndOf(i)' = EndOf(i) /\ EndOf(i) = saved[i + 1]
  BY ExitStep
<1>10. 1 .. n - 1 \subseteq 1 .. n
  BY ExitStep
<1>11. TypeOK'
  BY <1>1, <1>7, <1>8 DEF TypeOK, IInv, BlockExit
<1>12. Balanced'
  <2>1. ASSUME NEW i \in 1 .. n - 1
        PROVE  saved'[i] + ls'.frames[i].allocBits = EndOf(i)'
    BY <1>7, <1>8, <1>9, <1>10 DEF IInv, Balanced
  <2>2. n - 1 > 0 => saved'[1] = 0
    BY <1>2, <1>8
  <2>3. QED
    BY <1>7, <1>8, <2>1, <2>2 DEF Balanced
<1>13. Based'
  <2>1. ASSUME NEW i \in 1 .. n - 1
        PROVE  /\ 8 * ls'.frames[i].byteOffset = RoundUp8(saved'[i])
               /\ 8 * ls'.frames[i].byteOffset <= EndOf(i)'
    BY <1>7, <1>8, <1>9, <1>10 DEF IInv, Based
  <2>2. QED
    BY <1>7, <2>1 DEF Based
<1>14. NoLeak'
  BY <1>e, <1>2, <1>7 DEF NoLeak
<1>15. HasFrame'
  <2>1. running' => n > 1
    BY <1>1, Zenon
  <2>2. ls'.frames = <<>> => Len(ls'.frames) = 0
    OBVIOUS
  <2>3. n > 1 => ls'.frames # <<>>
    BY <1>2, <1>7, <2>2
  <2>4. QED
    BY <2>1, <2>3 DEF HasFrame
<1>16. InBounds'
  <2>1. saved[n] \in Nat /\ saved[n] <= ls.globAllocBits
    BY <1>2, <1>3, <1>4, <1>5
  <2>2. RoundUp8(saved[n]) <= RoundUp8(ls.globAllocBits)
    BY <1>2, <2>1 DEF RoundUp8
  <2>3. RoundUp8(ls.globAllocBits) <= ls.maxAllocBits
    BY <1>1 DEF IInv, InBounds
  <2>4. RoundUp8(saved[n]) \in Nat /\ RoundUp8(ls.globAllocBits) \in Nat
    BY <1>2, <2>1, RoundUpFacts
  <2>5. QED
    BY <1>2, <1>7, <2>2, <2>3, <2>4 DEF InBounds
<1>17. BaseInRoundUp'
  <2>1. SUFFICES ASSUME ls'.frames # <<>>
                 PROVE  /\ saved'[n - 1] <= ls'.topFrameOffset
                        /\ ls'.topFrameOffset <= 8 * ls'.frames[n - 1].byteOffset
    BY <1>7, <1>8 DEF BaseInRoundUp, TopFrame
  <2>2. n > 1 /\ n - 1 \in 1 .. n - 1 /\ n - 1 \in 1 .. n
    <3>1. Len(ls'.frames) > 0
      BY <1>7, <2>1, EmptySeq DEF LStackType
    <3>2. QED
      BY <1>2, <1>7, <3>1
  <2>3. /\ saved[n - 1] \in Nat
        /\ 8 * ls.frames[n - 1].byteOffset = RoundUp8(saved[n - 1])
    BY <1>3, <2>2 DEF IInv, Based
  <2>4. saved[n - 1] <= RoundUp8(saved[n - 1])
    BY <2>3, RoundUpFacts
  <2>5. QED
    BY <1>7, <1>8, <2>2, <2>3, <2>4
<1>18. QED
  BY <1>11, <1>12, <1>13, <1>14, <1>15, <1>16, <1>17 DEF IInv

LEMMA ReallocateIInv ==
  ASSUME IInv, NEW bytes \in LocalBytes, Reallocate(bytes)
  PROVE  IInv'
<1>1. /\ ~running /\ running' = running /\ saved' = saved
      /\ ls' = [ls EXCEPT !.maxAllocBits = 8 * bytes] /\ ls \in LStackType
  BY DEF Reallocate, Resize, IInv, TypeOK
<1>2. bytes \in Nat
  BY LStackAssumption
<1>3. /\ ls' \in LStackType /\ ls'.frames = ls.frames
      /\ ls'.globAllocBits = ls.globAllocBits
      /\ ls'.topFrameOffset = ls.topFrameOffset
  BY <1>1, <1>2 DEF LStackType
<1>4. TypeOK'
  BY <1>1, <1>3 DEF IInv, TypeOK, Reallocate
<1>5. \A i \in 1 .. Len(ls.frames) : EndOf(i)' = EndOf(i)
  BY <1>1, <1>3 DEF EndOf
<1>6. Balanced' /\ Based'
  BY <1>1, <1>3, <1>5 DEF IInv, Balanced, Based
<1>7. NoLeak' /\ InBounds' /\ HasFrame'
  BY <1>1, <1>3 DEF IInv, NoLeak, InBounds, HasFrame
<1>8. BaseInRoundUp'
  BY <1>1, <1>3 DEF IInv, BaseInRoundUp, TopFrame
<1>9. QED
  BY <1>4, <1>6, <1>7, <1>8 DEF IInv

\* An abandoned cycle, and any step that leaves the allocator alone.
LEMMA UnchangedIInv ==
  ASSUME IInv, UNCHANGED <<ls, saved, returned>>,
         running' \in BOOLEAN, running' => running
  PROVE  IInv'
<1>1. \A i \in 1 .. Len(ls.frames) : EndOf(i)' = EndOf(i)
  BY DEF EndOf
<1>2. TypeOK' /\ Balanced' /\ Based'
  BY <1>1 DEF IInv, TypeOK, Balanced, Based
<1>3. NoLeak' /\ InBounds' /\ HasFrame' /\ BaseInRoundUp'
  BY DEF IInv, NoLeak, InBounds, HasFrame, BaseInRoundUp, TopFrame
<1>4. QED
  BY <1>2, <1>3 DEF IInv

LEMMA NextIInv == IInv /\ [Next]_vars => IInv'
<1> SUFFICES ASSUME IInv, [Next]_vars PROVE IInv'
  OBVIOUS
<1>1. CASE RunOB
  BY <1>1, RunOBIInv
<1>2. CASE Call
  BY <1>2, CallIInv
<1>3. ASSUME NEW nrBits \in AllocWidths, AllocBits(nrBits) PROVE IInv'
  BY <1>3, AllocIInv
<1>4. ASSUME NEW nrBits \in AllocWidths, Exhausted(nrBits) PROVE IInv'
  BY <1>4, UnchangedIInv DEF Exhausted
<1>5. CASE Abandon
  BY <1>5, UnchangedIInv DEF Abandon
<1>6. CASE BlockExit
  BY <1>6, BlockExitIInv
<1>7. ASSUME NEW bytes \in LocalBytes, Reallocate(bytes) PROVE IInv'
  BY <1>7, ReallocateIInv
<1>8. CASE UNCHANGED vars
  BY <1>8, UnchangedIInv DEF vars, IInv, TypeOK
<1>9. QED
  BY <1>1, <1>2, <1>3, <1>4, <1>5, <1>6, <1>7, <1>8 DEF Next

\* The invariant holds in every reachable state, for every size of the L-stack,
\* all allocation widths and every call depth.
THEOREM Inductive == Spec => []IInv
<1>1. Init => IInv
  BY InitIInv
<1>2. IInv /\ [Next]_vars => IInv'
  BY NextIInv
<1>3. QED
  BY <1>1, <1>2, PTL DEF Spec

\* The state of the allocator is well typed; in particular no count and no
\* offset ever gets negative.
THEOREM TypeCorrect == Spec => []TypeOK
<1>1. IInv => TypeOK
  BY DEF IInv
<1>2. QED
  BY <1>1, Inductive, PTL

\* Every allocated bit is charged to one frame, and a regular end leaves none.
THEOREM BooksBalance == Spec => [](Balanced /\ NoLeak)
<1>1. IInv => Balanced /\ NoLeak
  BY DEF IInv
<1>2. QED
  BY <1>1, Inductive, PTL

\* The frames of a running OB stay within its local data.
THEOREM StaysInBounds == Spec => []InBounds
<1>1. IInv => InBounds
  BY DEF IInv
<1>2. QED
  BY <1>1, Inductive, PTL

----------------------------------------------------------------------------
(***************************************************************************)
(* Where the operands of a block begin: at its byte offset until a block   *)
(* it has called returns, then at the bit it was called at.                *)
(***************************************************************************)

BaseKnown ==
  ls.frames # <<>> =>
    ls.topFrameOffset = IF returned THEN saved[Len(saved)]
                                    ELSE 8 * TopFrame(ls).byteOffset

LEMMA NextBaseKnown == ASSUME IInv, BaseKnown, [Next]_vars PROVE BaseKnown'
<1>1. ASSUME UNCHANGED <<ls, saved, returned>> PROVE BaseKnown'
  BY <1>1 DEF BaseKnown, TopFrame
<1>2. CASE RunOB
  <2> DEFINE r == Reset(ls)
  <2>1. r \in LStackType /\ r.globAllocBits = 0 /\ Len(r.frames) = 0
    BY FreshFacts DEF IInv, TypeOK
  <2>2. ls' = EnterStackFrame(r) /\ returned' = FALSE
    BY <1>2 DEF RunOB
  <2> HIDE DEF r
  <2>3. /\ ls'.topFrameOffset = RoundUp8(r.globAllocBits)
        /\ Len(ls'.frames) = 0 + 1
        /\ 8 * ls'.frames[0 + 1].byteOffset = RoundUp8(r.globAllocBits)
    BY <2>1, <2>2, EnterFacts
  <2>4. 0 + 1 = 1
    OBVIOUS
  <2>5. Len(ls'.frames) = 1 /\ 8 * ls'.frames[1].byteOffset = ls'.topFrameOffset
    BY <2>3, <2>4, Zenon
  <2>6. QED
    BY <2>2, <2>5 DEF BaseKnown, TopFrame
<1>3. CASE Call
  <2>1. /\ ls'.topFrameOffset = RoundUp8(ls.globAllocBits)
        /\ Len(ls'.frames) = Len(ls.frames) + 1
        /\ 8 * ls'.frames[Len(ls.frames) + 1].byteOffset = RoundUp8(ls.globAllocBits)
    BY <1>3, CallStep
  <2>2. returned' = FALSE
    BY <1>3 DEF Call
  <2>3. QED
    BY <2>1, <2>2 DEF BaseKnown, TopFrame
<1>4. ASSUME NEW nrBits \in AllocWidths, AllocBits(nrBits) PROVE BaseKnown'
  <2>1. /\ Len(ls.frames) \in 1 .. Len(ls.frames) /\ ls.frames # <<>>
        /\ ls'.topFrameOffset = ls.topFrameOffset /\ saved' = saved
        /\ Len(ls'.frames) = Len(ls.frames)
        /\ \A i \in 1 .. Len(ls.frames) :
             ls'.frames[i].byteOffset = ls.frames[i].byteOffset
    BY <1>4, AllocStep
  <2>2. returned' = returned
    BY <1>4 DEF AllocBits
  <2>3. QED
    BY <2>1, <2>2 DEF BaseKnown, TopFrame
<1>5. ASSUME NEW nrBits \in AllocWidths, Exhausted(nrBits) PROVE BaseKnown'
  BY <1>1, <1>5 DEF Exhausted
<1>6. CASE Abandon
  BY <1>1, <1>6 DEF Abandon
<1>7. CASE BlockExit
  <2> DEFINE n == Len(ls.frames)
  <2>1. /\ n \in Nat /\ n > 0
        /\ n > 1 => ls'.topFrameOffset = saved[n - 1]
        /\ (ls'.frames = <<>>) <=> (n = 1)
        /\ Len(saved') = n - 1
        /\ \A i \in 1 .. n - 1 : saved'[i] = saved[i]
    BY <1>7, ExitStep
  <2>2. returned' = TRUE
    BY <1>7 DEF BlockExit
  <2> HIDE DEF n
  <2>3. ls'.frames # <<>> => n - 1 \in 1 .. n - 1 /\ n > 1
    BY <2>1
  <2>4. QED
    BY <2>1, <2>2, <2>3 DEF BaseKnown
<1>8. ASSUME NEW bytes \in LocalBytes, Reallocate(bytes) PROVE BaseKnown'
  <2>1. /\ ls' = [ls EXCEPT !.maxAllocBits = 8 * bytes]
        /\ saved' = saved /\ returned' = returned
    BY <1>8 DEF Reallocate, Resize
  <2>2. ls'.frames = ls.frames /\ ls'.topFrameOffset = ls.topFrameOffset
    BY <2>1 DEF IInv, TypeOK, LStackType
  <2>3. QED
    BY <2>1, <2>2 DEF BaseKnown, TopFrame
<1>9. CASE UNCHANGED vars
  BY <1>1, <1>9 DEF vars
<1>10. QED
  BY <1>2, <1>3, <1>4, <1>5, <1>6, <1>7, <1>8, <1>9 DEF Next

THEOREM BaseIsKnown == Spec => []BaseKnown
<1>1. Init => BaseKnown
  <2> SUFFICES ASSUME Init PROVE BaseKnown
    OBVIOUS
  <2>1. PICK bytes \in LocalBytes : ls = EmptyLStack(bytes)
    BY DEF Init
  <2>2. QED
    BY <2>1 DEF EmptyLStack, BaseKnown
<1>2. IInv /\ BaseKnown /\ [Next]_vars => BaseKnown'
  BY NextBaseKnown
<1>3. QED
  BY <1>1, <1>2, Inductive, PTL DEF Spec

\* Neither bits nor bytes of the running block's L operands reach what its
\* callers have allocated, except bytes in a block called in the middle of a
\* byte after a return to it.
THEOREM CalleeIsolated == Spec => []Isolated
<1>1. IInv /\ BaseKnown => Isolated
  <2> SUFFICES ASSUME IInv, BaseKnown, running PROVE Isolated
    BY DEF Isolated
  <2> DEFINE n == Len(ls.frames)
             f == saved[n]
             t == ls.topFrameOffset
  <2>1. /\ n \in Nat /\ n > 0 /\ Len(saved) = n /\ saved \in Seq(Nat)
        /\ ls.frames # <<>> /\ t \in Nat /\ ls.frames \in Seq(Frame)
        /\ returned \in BOOLEAN
    BY EmptySeq DEF IInv, TypeOK, LStackType, HasFrame, Balanced
  <2>2. /\ f \in Nat /\ n \in 1 .. n /\ ls.frames[n] \in Frame
        /\ f <= t /\ t <= 8 * ls.frames[n].byteOffset
        /\ 8 * ls.frames[n].byteOffset = RoundUp8(f)
    BY <2>1 DEF IInv, Based, BaseInRoundUp, TopFrame
  <2>3. CASE returned /\ f % 8 # 0
    BY <2>1, <2>2, <2>3 DEF Isolated, InSharedByte, TopFrame
  <2>4. CASE ~(returned /\ f % 8 # 0)
    <3>1. t = RoundUp8(f)
      <4>1. CASE returned
        <5>1. t = f /\ f % 8 = 0
          BY <2>1, <2>4, <4>1 DEF BaseKnown
        <5>2. QED
          BY <2>2, <5>1, AlignedRoundUp
      <4>2. CASE ~returned
        BY <2>1, <2>2, <4>2 DEF BaseKnown, TopFrame
      <4>3. QED
        BY <4>1, <4>2
    <3>2. f <= 8 * (t \div 8)
      BY <2>2, <3>1, RoundUpFacts
    <3>3. QED
      BY <2>1, <2>2, <3>2 DEF Isolated, ByteReach, TopFrame
  <2>5. QED
    BY <2>3, <2>4
<1>2. QED
  BY <1>1, Inductive, BaseIsKnown, PTL

----------------------------------------------------------------------------
(***************************************************************************)
(* Refinement: the books of the allocator are a stack of disjoint areas.   *)
(***************************************************************************)

Area == [from : Nat, lo : Nat, hi : Nat]

LEMMA AreasOfFacts ==
  ASSUME NEW l \in LStackType, NEW s \in Seq(Nat), Len(s) = Len(l.frames)
  PROVE  /\ AreasOf(l, s) \in Seq(Area)
         /\ Len(AreasOf(l, s)) = Len(l.frames)
         /\ \A i \in 1 .. Len(l.frames) :
              AreasOf(l, s)[i] =
                [from |-> s[i],
                 lo |-> 8 * l.frames[i].byteOffset,
                 hi |-> IF i = Len(l.frames) THEN l.globAllocBits ELSE s[i + 1]]
<1> DEFINE n == Len(l.frames)
<1>1. l.frames \in Seq(Frame) /\ n \in Nat /\ l.globAllocBits \in Nat
  BY DEF LStackType
<1>2. ASSUME NEW i \in 1 .. n
      PROVE  [from |-> s[i],
              lo |-> 8 * l.frames[i].byteOffset,
              hi |-> IF i = n THEN l.globAllocBits ELSE s[i + 1]] \in Area
  <2>1. l.frames[i] \in Frame
    BY <1>1
  <2>2. s[i] \in Nat /\ (i # n => s[i + 1] \in Nat)
    BY <1>1
  <2>3. QED
    BY <1>1, <2>1, <2>2 DEF Area, Frame
<1>3. QED
  BY <1>1, <1>2 DEF AreasOf

\* Two stacks of areas that agree on length and members are equal.
LEMMA SameAreas ==
  ASSUME NEW s \in Seq(Area), NEW t \in Seq(Area), Len(s) = Len(t),
         \A i \in 1 .. Len(s) : s[i] = t[i]
  PROVE  s = t
BY SeqEqual

LEMMA InitAreas == Init => Areas!Init
<1> SUFFICES ASSUME Init PROVE Areas!Init
  OBVIOUS
<1>1. PICK bytes \in LocalBytes : ls = EmptyLStack(bytes)
  BY DEF Init
<1>2. /\ ls.frames = <<>> /\ ls.topFrameOffset = 0
      /\ ls.maxAllocBits = 8 * bytes /\ bytes \in Nat
  BY <1>1, LStackAssumption DEF EmptyLStack
<1>3. AreasOf(ls, saved) = <<>>
  BY <1>2 DEF AreasOf
<1>4. QED
  BY <1>2, <1>3 DEF Areas!Init

LEMMA RunOBBegins == IInv /\ RunOB => Areas!Begin
<1> SUFFICES ASSUME IInv, RunOB PROVE Areas!Begin
  OBVIOUS
<1>1. IInv'
  BY RunOBIInv
<1> DEFINE r == Reset(ls)
<1>2. /\ r \in LStackType /\ r.maxAllocBits = ls.maxAllocBits
      /\ r.globAllocBits = 0 /\ Len(r.frames) = 0
  BY FreshFacts DEF IInv, TypeOK
<1> HIDE DEF r
<1>3. /\ ls' = EnterStackFrame(r) /\ saved' = <<0>> /\ RoundUp8(0) = 0
  BY DEF RunOB, r, RoundUp8
<1>4. /\ ls' \in LStackType /\ ls'.maxAllocBits = r.maxAllocBits
      /\ ls'.globAllocBits = RoundUp8(0) /\ ls'.topFrameOffset = RoundUp8(0)
      /\ Len(ls'.frames) = 0 + 1
      /\ 8 * ls'.frames[0 + 1].byteOffset = RoundUp8(0)
  BY <1>2, <1>3, EnterFacts
<1>5. /\ Len(ls'.frames) = 1 /\ ls'.globAllocBits = 0 /\ ls'.topFrameOffset = 0
      /\ 8 * ls'.frames[1].byteOffset = 0
      /\ ls'.maxAllocBits = ls.maxAllocBits
  BY <1>2, <1>3, <1>4
<1>6. saved' \in Seq(Nat) /\ Len(saved') = Len(ls'.frames) /\ saved'[1] = 0
  BY <1>3, <1>5
<1>7. /\ Len(AreasOf(ls', saved')) = 1
      /\ AreasOf(ls', saved')[1] = [from |-> 0, lo |-> 0, hi |-> 0]
      /\ AreasOf(ls', saved') \in Seq(Area)
  <2>1. /\ AreasOf(ls', saved') \in Seq(Area)
        /\ Len(AreasOf(ls', saved')) = Len(ls'.frames)
        /\ \A i \in 1 .. Len(ls'.frames) :
             AreasOf(ls', saved')[i] =
               [from |-> saved'[i], lo |-> 8 * ls'.frames[i].byteOffset,
                hi |-> IF i = Len(ls'.frames) THEN ls'.globAllocBits
                                              ELSE saved'[i + 1]]
    BY <1>4, <1>6, AreasOfFacts
  <2>2. 1 \in 1 .. Len(ls'.frames) /\ 1 = Len(ls'.frames)
    BY <1>5
  <2>3. AreasOf(ls', saved')[1] =
          [from |-> saved'[1], lo |-> 8 * ls'.frames[1].byteOffset,
           hi |-> ls'.globAllocBits]
    BY <2>1, <2>2
  <2>4. QED
    BY <1>5, <1>6, <2>1, <2>3
<1>8. << [from |-> 0, lo |-> 0, hi |-> 0] >> \in Seq(Area)
  BY DEF Area
<1>9. AreasOf(ls', saved') = << [from |-> 0, lo |-> 0, hi |-> 0] >>
  BY <1>7, <1>8, SameAreas
<1>10. QED
  BY <1>3, <1>5, <1>9 DEF Areas!Begin, Areas!NewArea, RoundUp8

\* What the areas of a running OB look like before a step.
LEMMA Before ==
  ASSUME IInv, running
  PROVE  LET n == Len(ls.frames)
             A == AreasOf(ls, saved)
         IN  /\ n \in Nat /\ n > 0 /\ Len(A) = n /\ A \in Seq(Area) /\ A # <<>>
             /\ ls \in LStackType /\ saved \in Seq(Nat) /\ Len(saved) = n
             /\ ls.frames # <<>>
             /\ A[n].hi = ls.globAllocBits
             /\ \A i \in 1 .. n :
                  A[i] = [from |-> saved[i], lo |-> 8 * ls.frames[i].byteOffset,
                          hi |-> EndOf(i)]
<1>1. /\ ls \in LStackType /\ saved \in Seq(Nat) /\ Len(saved) = Len(ls.frames)
      /\ ls.frames # <<>>
  BY DEF IInv, TypeOK, Balanced, HasFrame
<1>2. Len(ls.frames) \in Nat /\ Len(ls.frames) > 0
  BY <1>1, EmptySeq DEF LStackType
<1>3. /\ Len(AreasOf(ls, saved)) = Len(ls.frames)
      /\ AreasOf(ls, saved) \in Seq(Area)
      /\ \A i \in 1 .. Len(ls.frames) :
           AreasOf(ls, saved)[i] =
             [from |-> saved[i], lo |-> 8 * ls.frames[i].byteOffset, hi |-> EndOf(i)]
  BY <1>1, AreasOfFacts DEF EndOf
<1>4. AreasOf(ls, saved)[Len(ls.frames)].hi = ls.globAllocBits
  <2>1. Len(ls.frames) \in 1 .. Len(ls.frames)
    BY <1>2
  <2>2. EndOf(Len(ls.frames)) = ls.globAllocBits
    BY DEF EndOf
  <2>3. AreasOf(ls, saved)[Len(ls.frames)] =
          [from |-> saved[Len(ls.frames)],
           lo |-> 8 * ls.frames[Len(ls.frames)].byteOffset,
           hi |-> EndOf(Len(ls.frames))]
    BY <1>3, <2>1, Zenon
  <2>4. QED
    BY <2>2, <2>3
<1>5. AreasOf(ls, saved) # <<>>
  <2>1. AreasOf(ls, saved) = <<>> => Len(AreasOf(ls, saved)) = 0
    OBVIOUS
  <2>2. ~(Len(AreasOf(ls, saved)) = 0)
    BY <1>2, <1>3
  <2>3. QED
    BY <2>1, <2>2
<1>6. QED
  BY <1>1, <1>2, <1>3, <1>4, <1>5

LEMMA CallOpens == IInv /\ Call => Areas!Open
<1> SUFFICES ASSUME IInv, Call PROVE Areas!Open
  OBVIOUS
<1> DEFINE n == Len(ls.frames)
           A == AreasOf(ls, saved)
           B == AreasOf(ls', saved')
           lo == RoundUp8(ls.globAllocBits)
           from == ls.globAllocBits
           new == [from |-> from, lo |-> lo, hi |-> lo]
<1>1. running
  BY DEF Call
<1>2. /\ n \in Nat /\ n > 0 /\ Len(A) = n /\ A \in Seq(Area) /\ A # <<>>
      /\ A[n].hi = ls.globAllocBits
      /\ \A i \in 1 .. n :
           A[i] = [from |-> saved[i], lo |-> 8 * ls.frames[i].byteOffset, hi |-> EndOf(i)]
  BY <1>1, Before
<1>3. /\ ls' \in LStackType /\ ls'.maxAllocBits = ls.maxAllocBits
      /\ ls'.globAllocBits = lo /\ ls'.topFrameOffset = lo
      /\ lo \in Nat /\ from \in Nat
      /\ saved'[n + 1] = from /\ \A i \in 1 .. n : saved'[i] = saved[i]
      /\ Len(ls'.frames) = n + 1
      /\ \A i \in 1 .. n : ls'.frames[i] = ls.frames[i]
      /\ 8 * ls'.frames[n + 1].byteOffset = lo
      /\ saved' \in Seq(Nat) /\ Len(saved') = n + 1
      /\ \A i \in 1 .. n : EndOf(i)' = EndOf(i)
  BY CallStep
<1>4. /\ Len(B) = n + 1 /\ B \in Seq(Area)
      /\ \A i \in 1 .. n + 1 :
           B[i] = [from |-> saved'[i], lo |-> 8 * ls'.frames[i].byteOffset,
                   hi |-> EndOf(i)']
  BY <1>3, AreasOfFacts DEF EndOf
<1>5. new \in Area
  BY <1>3 DEF Area
<1>6. ASSUME NEW i \in 1 .. n
      PROVE  B[i] = A[i]
  <2>1. i \in 1 .. n + 1
    BY <1>2
  <2>2. B[i] = [from |-> saved'[i], lo |-> 8 * ls'.frames[i].byteOffset, hi |-> EndOf(i)']
    BY <1>4, <2>1, Zenon
  <2>3. A[i] = [from |-> saved[i], lo |-> 8 * ls.frames[i].byteOffset, hi |-> EndOf(i)]
    BY <1>2, Zenon
  <2>4. ls'.frames[i] = ls.frames[i] /\ EndOf(i)' = EndOf(i) /\ saved'[i] = saved[i]
    BY <1>3, Zenon
  <2>5. QED
    BY <2>2, <2>3, <2>4, Zenon
<1>7. B[n + 1] = new
  <2>1. n + 1 \in 1 .. n + 1
    <3>1. n \in Nat
      BY <1>2
    <3> HIDE DEF n
    <3>2. QED
      BY <3>1
  <2>2. ASSUME NEW j \in 1 .. n + 1, j = n + 1
        PROVE  B[j] = new
    <3>1. EndOf(j)' = IF j = Len(ls'.frames) THEN ls'.globAllocBits
                                             ELSE saved'[j + 1]
      BY DEF EndOf
    <3>2. EndOf(j)' = lo
      BY <1>3, <2>2, <3>1, Zenon
    <3>3. B[j] = [from |-> saved'[j], lo |-> 8 * ls'.frames[j].byteOffset, hi |-> EndOf(j)']
      BY <1>4, Zenon
    <3>4. QED
      BY <1>3, <2>2, <3>2, <3>3, Zenon
  <2>3. QED
    BY <2>1, <2>2
<1> HIDE DEF A, B, new
<1>8. B = Append(A, new)
  <2>1. /\ Append(A, new) \in Seq(Area) /\ Len(Append(A, new)) = n + 1
        /\ \A i \in 1 .. n : Append(A, new)[i] = A[i]
        /\ Append(A, new)[n + 1] = new
    BY <1>2, <1>5
  <2>2. \A i \in 1 .. n + 1 : B[i] = Append(A, new)[i]
    BY <1>2, <1>6, <1>7, <2>1
  <2>3. QED
    BY <1>4, <2>1, <2>2, SameAreas
<1>9. new = Areas!NewArea(A[Len(A)].hi) /\ lo = new.lo
  BY <1>2 DEF RoundUp8, Areas!NewArea, new
<1>10. QED
  BY <1>2, <1>3, <1>8, <1>9 DEF Areas!Open, Areas!Last, A, B

LEMMA AllocGrows ==
  ASSUME IInv, NEW nrBits \in AllocWidths, AllocBits(nrBits)
  PROVE  Areas!Grow
<1> DEFINE n == Len(ls.frames)
           A == AreasOf(ls, saved)
           B == AreasOf(ls', saved')
           hi == ls'.globAllocBits
<1>1. running
  BY DEF AllocBits
<1>2. /\ n \in Nat /\ n > 0 /\ Len(A) = n /\ A \in Seq(Area) /\ A # <<>>
      /\ A[n].hi = ls.globAllocBits
      /\ \A i \in 1 .. n :
           A[i] = [from |-> saved[i], lo |-> 8 * ls.frames[i].byteOffset, hi |-> EndOf(i)]
  BY <1>1, Before
<1>3. /\ ls' \in LStackType /\ ls'.maxAllocBits = ls.maxAllocBits
      /\ ls.globAllocBits \in Nat /\ ls.maxAllocBits \in Nat
      /\ hi \in Nat /\ hi > ls.globAllocBits
      /\ ls'.topFrameOffset = ls.topFrameOffset
      /\ Len(ls'.frames) = n
      /\ \A i \in 1 .. n : ls'.frames[i].byteOffset = ls.frames[i].byteOffset
      /\ \A i \in 1 .. n - 1 : EndOf(i)' = EndOf(i)
      /\ EndOf(n)' = hi
      /\ saved' = saved /\ saved \in Seq(Nat) /\ Len(saved) = n
  BY AllocStep
<1>4. /\ Len(B) = n /\ B \in Seq(Area)
      /\ \A i \in 1 .. n :
           B[i] = [from |-> saved'[i], lo |-> 8 * ls'.frames[i].byteOffset,
                   hi |-> EndOf(i)']
  BY <1>3, AreasOfFacts DEF EndOf
<1>5. hi < ls.maxAllocBits
  <2>1. RoundUp8(hi) < ls.maxAllocBits
    BY AllocStep DEF AllocFits
  <2>2. hi <= RoundUp8(hi) /\ RoundUp8(hi) \in Nat
    BY <1>3, RoundUpFacts
  <2>3. QED
    BY <1>3, <2>1, <2>2
<1>6. \A i \in 1 .. n - 1 : B[i] = A[i]
  <2>1. 1 .. n - 1 \subseteq 1 .. n
    BY <1>2
  <2>2. QED
    BY <1>2, <1>3, <1>4, <2>1
<1>7. B[n] = [A[n] EXCEPT !.hi = hi]
  <2>1. n \in 1 .. n
    BY <1>2
  <2>2. B[n] = [from |-> saved[n], lo |-> 8 * ls.frames[n].byteOffset, hi |-> hi]
    BY <1>3, <1>4, <2>1
  <2>3. A[n] = [from |-> saved[n], lo |-> 8 * ls.frames[n].byteOffset, hi |-> EndOf(n)]
    BY <1>2, <2>1
  <2>4. QED
    BY <2>2, <2>3
<1> HIDE DEF A, B
<1>8. B = [A EXCEPT ![n] = [A[n] EXCEPT !.hi = hi]]
  <2> DEFINE C == [A EXCEPT ![n] = B[n]]
  <2>1. n \in 1 .. n /\ B[n] \in Area
    BY <1>2, <1>4
  <2>2. /\ C \in Seq(Area) /\ Len(C) = n
        /\ \A i \in 1 .. n : C[i] = IF i = n THEN B[n] ELSE A[i]
    BY <1>2, <2>1, ExceptSeq
  <2>3. \A i \in 1 .. n : B[i] = C[i]
    BY <1>2, <1>6, <2>2
  <2>4. B = C
    BY <1>4, <2>2, <2>3, SameAreas
  <2>5. QED
    BY <1>7, <2>4
<1>9. hi \in A[n].hi + 1 .. ls.maxAllocBits - 1
  BY <1>2, <1>3, <1>5
<1>10. QED
  BY <1>2, <1>3, <1>8, <1>9 DEF Areas!Grow, Areas!Last, A, B

LEMMA ExitCloses == IInv /\ BlockExit => Areas!Close
<1> SUFFICES ASSUME IInv, BlockExit PROVE Areas!Close
  OBVIOUS
<1> DEFINE n == Len(ls.frames)
           A == AreasOf(ls, saved)
           B == AreasOf(ls', saved')
<1>1. running
  BY DEF BlockExit
<1>2. /\ n \in Nat /\ n > 0 /\ Len(A) = n /\ A \in Seq(Area) /\ A # <<>>
      /\ \A i \in 1 .. n :
           A[i] = [from |-> saved[i], lo |-> 8 * ls.frames[i].byteOffset, hi |-> EndOf(i)]
  BY <1>1, Before
<1>3. /\ ls' \in LStackType /\ ls'.maxAllocBits = ls.maxAllocBits
      /\ Len(ls'.frames) = n - 1
      /\ \A i \in 1 .. n - 1 : ls'.frames[i] = ls.frames[i]
      /\ saved' \in Seq(Nat) /\ Len(saved') = n - 1
      /\ \A i \in 1 .. n - 1 : saved'[i] = saved[i]
      /\ n > 1 => ls'.topFrameOffset = saved[n - 1]
      /\ \A i \in 1 .. n - 1 : EndOf(i)' = EndOf(i)
      /\ 1 .. n - 1 \subseteq 1 .. n
  BY ExitStep
<1>4. /\ Len(B) = n - 1 /\ B \in Seq(Area)
      /\ \A i \in 1 .. n - 1 :
           B[i] = [from |-> saved'[i], lo |-> 8 * ls'.frames[i].byteOffset,
                   hi |-> EndOf(i)']
  BY <1>3, AreasOfFacts DEF EndOf
<1>5. \A i \in 1 .. n - 1 : B[i] = A[i]
  BY <1>2, <1>3, <1>4
<1> HIDE DEF A, B
<1>6. /\ SubSeq(A, 1, n - 1) \in Seq(Area) /\ Len(SubSeq(A, 1, n - 1)) = n - 1
      /\ \A i \in 1 .. n - 1 : SubSeq(A, 1, n - 1)[i] = A[i]
  BY <1>2
<1>7. B = SubSeq(A, 1, n - 1)
  BY <1>4, <1>5, <1>6, SameAreas
<1>8. B # <<>> => ls'.topFrameOffset = B[Len(B)].from
  <2>1. SUFFICES ASSUME B # <<>> PROVE ls'.topFrameOffset = B[n - 1].from
    BY <1>4
  <2>2. n > 1 /\ n - 1 \in 1 .. n - 1
    <3>1. Len(B) > 0
      BY <1>4, <2>1, EmptySeq
    <3>2. QED
      BY <1>2, <1>4, <3>1
  <2>3. B[n - 1].from = saved'[n - 1]
    <3>1. ASSUME NEW i \in 1 .. n - 1 PROVE B[i].from = saved'[i]
      <4>1. B[i] = [from |-> saved'[i], lo |-> 8 * ls'.frames[i].byteOffset,
                    hi |-> EndOf(i)']
        BY <1>4, Zenon
      <4>2. QED
        BY <4>1
    <3>2. QED
      BY <2>2, <3>1
  <2>4. QED
    BY <1>3, <2>2, <2>3
<1>9. QED
  BY <1>2, <1>3, <1>7, <1>8 DEF Areas!Close, Areas!Last, A, B

LEMMA ReallocateChangesSize ==
  ASSUME IInv, NEW bytes \in LocalBytes, Reallocate(bytes)
  PROVE  Areas!ChangeSize
<1>1. ls' = [ls EXCEPT !.maxAllocBits = 8 * bytes] /\ saved' = saved
  BY DEF Reallocate, Resize
<1>2. bytes \in Nat /\ ls \in LStackType
  BY LStackAssumption DEF IInv, TypeOK
<1>3. /\ ls'.frames = ls.frames /\ ls'.globAllocBits = ls.globAllocBits
      /\ ls'.maxAllocBits \in Nat /\ ls'.topFrameOffset = ls.topFrameOffset
  BY <1>1, <1>2 DEF LStackType
<1>4. AreasOf(ls', saved') = AreasOf(ls, saved)
  BY <1>1, <1>3 DEF AreasOf
<1>5. QED
  BY <1>3, <1>4 DEF Areas!ChangeSize

\* The allocator implements the stack of disjoint areas: whatever the sequence
\* of calls, allocations and returns, no two active blocks share local data, a
\* return leaves the callers' areas as they were, and the operands of the
\* caller begin at its area again or at the bit it was called at.
THEOREM Refinement == Spec => ImplementsAreas
<1>1. Init => Areas!Init
  BY InitAreas
<1>2. IInv /\ [Next]_vars =>
        [Areas!Next]_<<AreasOf(ls, saved), ls.topFrameOffset, ls.maxAllocBits>>
  <2> SUFFICES ASSUME IInv, [Next]_vars
               PROVE
        [Areas!Next]_<<AreasOf(ls, saved), ls.topFrameOffset, ls.maxAllocBits>>
    OBVIOUS
  <2>1. CASE RunOB
    BY <2>1, RunOBBegins DEF Areas!Next
  <2>2. CASE Call
    BY <2>2, CallOpens DEF Areas!Next
  <2>3. ASSUME NEW nrBits \in AllocWidths, AllocBits(nrBits) PROVE Areas!Next
    BY <2>3, AllocGrows DEF Areas!Next
  <2>4. ASSUME UNCHANGED <<ls, saved>>
        PROVE  UNCHANGED <<AreasOf(ls, saved), ls.topFrameOffset, ls.maxAllocBits>>
    BY <2>4 DEF AreasOf
  <2>5. ASSUME NEW nrBits \in AllocWidths, Exhausted(nrBits)
        PROVE  UNCHANGED <<ls, saved>>
    BY <2>5 DEF Exhausted
  <2>6. CASE Abandon
    BY <2>4, <2>6 DEF Abandon
  <2>7. CASE BlockExit
    BY <2>7, ExitCloses DEF Areas!Next
  <2>8. ASSUME NEW bytes \in LocalBytes, Reallocate(bytes) PROVE Areas!Next
    BY <2>8, ReallocateChangesSize DEF Areas!Next
  <2>9. CASE UNCHANGED vars
    BY <2>4, <2>9 DEF vars
  <2>10. QED
    BY <2>1, <2>2, <2>3, <2>4, <2>5, <2>6, <2>7, <2>8, <2>9 DEF Next
<1>3. QED
  BY <1>1, <1>2, Inductive, PTL DEF Spec, ImplementsAreas, Areas!Spec

----------------------------------------------------------------------------
(***************************************************************************)
(* Programs without single bits.  If whole bytes are allocated only, the   *)
(* round-up never moves anything and the base that a return computes is    *)
(* the byte offset of the frame.                                           *)
(***************************************************************************)

ByteWidths == \A nrBits \in AllocWidths : nrBits % 8 = 0

Aligned ==
  /\ ls.globAllocBits % 8 = 0
  /\ \A i \in 1 .. Len(saved) : saved[i] % 8 = 0

FrameBase == ls.frames # <<>> => ls.topFrameOffset = 8 * TopFrame(ls).byteOffset

LEMMA RunOBAligned == ASSUME IInv, RunOB PROVE (Aligned /\ FrameBase)'
<1> DEFINE r == Reset(ls)
<1>1. r \in LStackType /\ r.globAllocBits = 0 /\ Len(r.frames) = 0
  BY FreshFacts DEF IInv, TypeOK
<1>2. ls' = EnterStackFrame(r) /\ saved' = <<0>> /\ RoundUp8(0) = 0
  BY DEF RunOB, RoundUp8
<1> HIDE DEF r
<1>3. /\ ls'.globAllocBits = 0 /\ ls'.topFrameOffset = 0
      /\ Len(ls'.frames) = 1 /\ 8 * ls'.frames[1].byteOffset = 0
  <2>1. /\ ls'.globAllocBits = RoundUp8(0) /\ ls'.topFrameOffset = RoundUp8(0)
        /\ Len(ls'.frames) = 0 + 1
        /\ 8 * ls'.frames[0 + 1].byteOffset = RoundUp8(0)
    BY <1>1, <1>2, EnterFacts
  <2>2. 0 + 1 = 1
    OBVIOUS
  <2>3. QED
    BY <1>2, <2>1, <2>2, Zenon
<1>4. Len(saved') = 1 /\ saved'[1] = 0
  BY <1>2
<1>5. QED
  BY <1>3, <1>4 DEF Aligned, FrameBase, TopFrame

LEMMA CallAligned == ASSUME IInv, Aligned, Call PROVE (Aligned /\ FrameBase)'
<1> DEFINE n == Len(ls.frames)
           g == ls.globAllocBits
<1>1. /\ n \in Nat /\ g \in Nat /\ Len(saved) = n /\ g % 8 = 0
      /\ \A i \in 1 .. n : saved[i] % 8 = 0
  BY CallStep DEF Aligned
<1>2. /\ ls'.globAllocBits = RoundUp8(g) /\ ls'.topFrameOffset = RoundUp8(g)
      /\ Len(ls'.frames) = n + 1
      /\ 8 * ls'.frames[n + 1].byteOffset = RoundUp8(g)
      /\ Len(saved') = n + 1
      /\ \A i \in 1 .. n : saved'[i] = saved[i]
      /\ saved'[n + 1] = g
  BY CallStep
<1>3. RoundUp8(g) % 8 = 0
  BY <1>1, AlignedRoundUp
<1>4. ASSUME NEW i \in 1 .. n + 1 PROVE saved'[i] % 8 = 0
  BY <1>1, <1>2
<1>5. QED
  BY <1>2, <1>3, <1>4 DEF Aligned, FrameBase, TopFrame

LEMMA AllocAligned ==
  ASSUME ByteWidths, IInv, Aligned, FrameBase,
         NEW nrBits \in AllocWidths, AllocBits(nrBits)
  PROVE  (Aligned /\ FrameBase)'
<1> DEFINE n == Len(ls.frames)
           g == ls.globAllocBits
<1>1. /\ n \in Nat /\ n > 0 /\ ls.frames # <<>> /\ g \in Nat /\ g % 8 = 0
      /\ nrBits \in Nat /\ nrBits % 8 = 0 /\ nrBits # 1
      /\ ls \in LStackType /\ ls' = Alloc(ls, nrBits) /\ saved' = saved
  <2>1. nrBits \in Nat /\ nrBits % 8 = 0
    BY LStackAssumption DEF ByteWidths
  <2>2. ls \in LStackType /\ ls.frames # <<>> /\ g \in Nat
    BY DEF IInv, TypeOK, HasFrame, AllocBits, LStackType
  <2>3. n \in Nat /\ n > 0
    BY <2>2, EmptySeq DEF LStackType
  <2>4. nrBits # 1
    BY <2>1
  <2>5. QED
    BY <2>1, <2>2, <2>3, <2>4 DEF Aligned, AllocBits
<1>2. /\ ls'.topFrameOffset = ls.topFrameOffset
      /\ ls'.globAllocBits = AllocStart(ls, nrBits) + nrBits
      /\ Len(ls'.frames) = n
      /\ \A i \in 1 .. n : ls'.frames[i].byteOffset = ls.frames[i].byteOffset
  <2>1. nrBits \in Nat \ {0}
    BY LStackAssumption
  <2>2. QED
    BY <1>1, <2>1, AllocFacts
<1>3. AllocStart(ls, nrBits) = g
  BY <1>1, AlignedRoundUp DEF AllocStart
<1>4. ls'.globAllocBits % 8 = 0
  <2>1. ls'.globAllocBits = g + nrBits
    BY <1>2, <1>3
  <2>2. (g + nrBits) % 8 = 0
    <3> HIDE DEF g
    <3>1. QED
      BY <1>1
  <2>3. QED
    BY <2>1, <2>2
<1>5. ls'.frames[n].byteOffset = ls.frames[n].byteOffset
  BY <1>1, <1>2
<1>6. QED
  BY <1>1, <1>2, <1>4, <1>5 DEF Aligned, FrameBase, TopFrame

LEMMA ExitAligned ==
  ASSUME IInv, Aligned, BlockExit
  PROVE  (Aligned /\ FrameBase)'
<1> DEFINE n == Len(ls.frames)
<1>1. /\ n \in Nat /\ n > 0 /\ Len(saved) = n
      /\ n \in 1 .. n /\ (n > 1 => n - 1 \in 1 .. n)
      /\ \A i \in 1 .. n : saved[i] \in Nat
  BY ExitStep
<1>2. /\ ls' \in LStackType /\ ls'.globAllocBits = saved[n]
      /\ Len(ls'.frames) = n - 1
      /\ \A i \in 1 .. n - 1 : ls'.frames[i] = ls.frames[i]
      /\ n > 1 => ls'.topFrameOffset = saved[n - 1]
      /\ Len(saved') = n - 1
      /\ \A i \in 1 .. n - 1 : saved'[i] = saved[i]
  BY ExitStep
<1>3. Aligned'
  <2>1. ls'.globAllocBits % 8 = 0
    BY <1>1, <1>2 DEF Aligned
  <2>2. ASSUME NEW i \in 1 .. n - 1 PROVE saved'[i] % 8 = 0
    BY <1>1, <1>2 DEF Aligned
  <2>3. QED
    BY <1>2, <2>1, <2>2 DEF Aligned
<1>4. FrameBase'
  <2>1. SUFFICES ASSUME ls'.frames # <<>>
                 PROVE  ls'.topFrameOffset = 8 * ls'.frames[n - 1].byteOffset
    BY <1>2 DEF FrameBase, TopFrame
  <2>2. n > 1 /\ n - 1 \in 1 .. n - 1 /\ n - 1 \in 1 .. n
    <3>1. Len(ls'.frames) > 0
      BY <1>2, <2>1, EmptySeq DEF LStackType
    <3>2. QED
      BY <1>1, <1>2, <3>1
  <2>3. /\ saved[n - 1] \in Nat /\ saved[n - 1] % 8 = 0
        /\ 8 * ls.frames[n - 1].byteOffset = RoundUp8(saved[n - 1])
    BY <1>1, <2>2 DEF Aligned, IInv, Based
  <2>4. RoundUp8(saved[n - 1]) = saved[n - 1]
    BY <2>3, AlignedRoundUp
  <2>5. QED
    BY <1>2, <2>2, <2>3, <2>4
<1>5. QED
  BY <1>3, <1>4

LEMMA NextAligned ==
  ASSUME ByteWidths, IInv, Aligned, FrameBase, [Next]_vars
  PROVE  (Aligned /\ FrameBase)'
<1>1. ASSUME UNCHANGED <<ls, saved>> PROVE (Aligned /\ FrameBase)'
  BY <1>1 DEF Aligned, FrameBase, TopFrame
<1>2. CASE RunOB
  BY <1>2, RunOBAligned
<1>3. CASE Call
  BY <1>3, CallAligned
<1>4. ASSUME NEW nrBits \in AllocWidths, AllocBits(nrBits)
      PROVE  (Aligned /\ FrameBase)'
  BY <1>4, AllocAligned
<1>5. ASSUME NEW nrBits \in AllocWidths, Exhausted(nrBits)
      PROVE  (Aligned /\ FrameBase)'
  BY <1>1, <1>5 DEF Exhausted
<1>6. CASE Abandon
  BY <1>1, <1>6 DEF Abandon
<1>7. CASE BlockExit
  BY <1>7, ExitAligned
<1>8. ASSUME NEW bytes \in LocalBytes, Reallocate(bytes)
      PROVE  (Aligned /\ FrameBase)'
  <2>1. ls' = [ls EXCEPT !.maxAllocBits = 8 * bytes] /\ saved' = saved
    BY <1>8 DEF Reallocate, Resize
  <2>2. /\ ls'.frames = ls.frames /\ ls'.globAllocBits = ls.globAllocBits
        /\ ls'.topFrameOffset = ls.topFrameOffset
    BY <2>1 DEF IInv, TypeOK, LStackType
  <2>3. QED
    BY <2>1, <2>2 DEF Aligned, FrameBase, TopFrame
<1>9. CASE UNCHANGED vars
  BY <1>1, <1>9 DEF vars
<1>10. QED
  BY <1>2, <1>3, <1>4, <1>5, <1>6, <1>7, <1>8, <1>9 DEF Next

\* Without single bits a return restores the base of the caller exactly, so a
\* block finds its TEMP data where it has left them.
THEOREM ByteProgramsKeepTheirBase == ASSUME ByteWidths PROVE Spec => []BaseIsFrame
<1>1. Init => Aligned /\ FrameBase
  <2> SUFFICES ASSUME Init PROVE Aligned /\ FrameBase
    OBVIOUS
  <2>1. PICK bytes \in LocalBytes : ls = EmptyLStack(bytes)
    BY DEF Init
  <2>2. ls.globAllocBits = 0 /\ ls.frames = <<>> /\ Len(saved) = 0
    BY <2>1 DEF Init, EmptyLStack
  <2>3. QED
    BY <2>2 DEF Aligned, FrameBase
<1>2. IInv /\ Aligned /\ FrameBase /\ [Next]_vars => (Aligned /\ FrameBase)'
  BY NextAligned
<1>3. IInv /\ FrameBase => BaseIsFrame
  BY DEF IInv, HasFrame, FrameBase, BaseIsFrame
<1>4. QED
  BY <1>1, <1>2, <1>3, Inductive, PTL DEF Spec
=============================================================================
