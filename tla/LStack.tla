------------------------------- MODULE LStack -------------------------------
(***************************************************************************)
(* The L-stack of one OB in the order the CPU uses it.  S7CPU.__runOB      *)
(* resets the stack and enters the frame of the OB; the blocks that run    *)
(* allocate their TEMP data and the copies of the parameters they pass,    *)
(* calls enter a frame and block ends leave it.  An AwlSimError abandons   *)
(* the cycle with the frames in place; only the next __runOB cleans up.    *)
(***************************************************************************)
EXTENDS LStackOps

CONSTANTS LocalBytes,     \* values of S7CPUSpecs.nrLocalbytes
          AllocWidths,    \* numbers of bits that are allocated
          CallStackSize   \* S7CPUSpecs.callStackSize

ASSUME LStackAssumption ==
  /\ LocalBytes \subseteq Nat
  /\ AllocWidths \subseteq Nat \ {0}
  /\ CallStackSize \in Nat \ {0}

VARIABLES
  ls,        \* the LStackAllocator of the OB
  running,   \* __runOB is executing this OB
  saved,     \* history: globAllocBits as each active frame found it
  returned   \* history: a block the running block has called has returned

vars == <<ls, running, saved, returned>>

TypeOK ==
  /\ ls \in LStackType
  /\ running \in BOOLEAN
  /\ saved \in Seq(Nat)
  /\ returned \in BOOLEAN

Init ==
  /\ \E bytes \in LocalBytes : ls = EmptyLStack(bytes)
  /\ running = FALSE
  /\ saved = <<>>
  /\ returned = FALSE

\* __runOB: clear what an abandoned cycle left, then enter the OB's frame.
RunOB ==
  /\ ~running
  /\ running' = TRUE
  /\ ls' = EnterStackFrame(Reset(ls))
  /\ saved' = <<0>>
  /\ returned' = FALSE

\* run_CALL checks the depth, make_CallStackElem enters the frame.
Call ==
  /\ running
  /\ Len(ls.frames) < CallStackSize
  /\ ls' = EnterStackFrame(ls)
  /\ saved' = Append(saved, ls.globAllocBits)
  /\ returned' = FALSE
  /\ UNCHANGED running

AllocBits(nrBits) ==
  /\ running
  /\ AllocFits(ls, nrBits)
  /\ ls' = Alloc(ls, nrBits)
  /\ UNCHANGED <<running, saved, returned>>

\* alloc() raises before it assigns anything; the cycle is abandoned.
Exhausted(nrBits) ==
  /\ running
  /\ ~AllocFits(ls, nrBits)
  /\ running' = FALSE
  /\ UNCHANGED <<ls, saved, returned>>

\* Any other AwlSimError of the user program.
Abandon ==
  /\ running
  /\ running' = FALSE
  /\ UNCHANGED <<ls, saved, returned>>

\* handleBlockExit; the end of the OB itself ends the cycle.
BlockExit ==
  /\ running
  /\ ls' = ExitStackFrame(ls)
  /\ running' = (Len(ls.frames) > 1)
  /\ saved' = SubSeq(saved, 1, Len(saved) - 1)
  /\ returned' = TRUE

\* reallocate() between two cycles, with new CPU specs.
Reallocate(bytes) ==
  /\ ~running
  /\ ls.maxAllocBits # 8 * bytes
  /\ ls' = Resize(ls, bytes)
  /\ UNCHANGED <<running, saved, returned>>

Next ==
  \/ RunOB
  \/ Call
  \/ \E nrBits \in AllocWidths : AllocBits(nrBits) \/ Exhausted(nrBits)
  \/ Abandon
  \/ BlockExit
  \/ \E bytes \in LocalBytes : Reallocate(bytes)

Spec == Init /\ [][Next]_vars

----------------------------------------------------------------------------
(***************************************************************************)
(* Correctness.                                                            *)
(***************************************************************************)

\* Where the bits of frame i end: where its callee found the stack, or the top.
EndOf(i) == IF i = Len(ls.frames) THEN ls.globAllocBits ELSE saved[i + 1]

\* The books balance: every bit below globAllocBits is charged to exactly one
\* frame, so a return gives back exactly what the callee took.
Balanced ==
  /\ Len(saved) = Len(ls.frames)
  /\ Len(saved) > 0 => saved[1] = 0
  /\ \A i \in 1 .. Len(ls.frames) : saved[i] + ls.frames[i].allocBits = EndOf(i)

\* A cycle that ended regularly leaves no allocation behind.
NoLeak == ls.frames = <<>> => ls.globAllocBits = 0

\* The frames of a running OB lie within its local data, also after the
\* unchecked round-up of enterStackFrame().
InBounds == running => RoundUp8(ls.globAllocBits) <= ls.maxAllocBits

\* MEM_L operands are added to topFrameOffset.  An access of whole bytes drops
\* the bit offset of the sum, so it may begin up to seven bits below.
ByteReach == 8 * (ls.topFrameOffset \div 8)

\* The running block was called in the middle of a byte, and a block it has
\* called has returned: its base is then the bit it was called at.
InSharedByte == returned /\ saved[Len(saved)] % 8 # 0

\* No MEM_L operand of the running block, a bit or a byte, reaches what its
\* callers have allocated, except that bytes do in a block called in the middle
\* of a byte after a return to it; nothing of the block's own lies below its base.
Isolated ==
  running => /\ saved[Len(saved)] <= ls.topFrameOffset
             /\ ls.topFrameOffset <= 8 * TopFrame(ls).byteOffset
             /\ InSharedByte \/ saved[Len(saved)] <= ByteReach

\* The areas the frames of the allocator l stand for.
AreasOf(l, found) ==
  [i \in 1 .. Len(l.frames) |->
     [from |-> found[i],
      lo   |-> 8 * l.frames[i].byteOffset,
      hi   |-> IF i = Len(l.frames) THEN l.globAllocBits ELSE found[i + 1]]]

Areas == INSTANCE LocalAreas WITH areas <- AreasOf(ls, saved),
                                  base  <- ls.topFrameOffset,
                                  size  <- ls.maxAllocBits

\* The allocator implements the stack of disjoint areas: no two active blocks
\* share local data, a return leaves the caller's data as they were, and the
\* base of the caller's operands is where it was or at the bit it was called at.
ImplementsAreas == Areas!Spec

\* Operands of whole bytes are addressed from a byte boundary, as the assertion
\* in AwlMemory.fetch() has it.
BaseIsAligned == running => ls.topFrameOffset % 8 = 0

\* The base of the running block is the byte offset of its frame.  It holds of
\* programs that allocate no single bits: the round-up is what it fails on.
BaseIsFrame == running => ls.topFrameOffset = 8 * TopFrame(ls).byteOffset
=============================================================================
