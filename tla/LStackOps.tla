----------------------------- MODULE LStackOps -----------------------------
(***************************************************************************)
(* The L-stack allocator of one OB instance (awlsim/core/lstack.py) as     *)
(* operators on the allocator's value                                      *)
(*                                                                         *)
(*   [maxAllocBits, globAllocBits, frames, topFrameOffset]                 *)
(*                                                                         *)
(* frames is the linked list of LStackFrame objects, the top frame last;   *)
(* topFrameOffset is the AwlOffset that MEM_L operands are added to, as a  *)
(* bit address.  The bytes of the L-stack itself are not represented: no   *)
(* operation of the allocator reads them.                                  *)
(***************************************************************************)
EXTENDS Integers, Sequences

Frame == [byteOffset : Nat, allocBits : Nat]

LStackType == [maxAllocBits : Nat, globAllocBits : Nat,
               frames : Seq(Frame), topFrameOffset : Nat]

\* ((n + 7) >> 3) << 3
RoundUp8(n) == 8 * ((n + 7) \div 8)

\* A fresh allocator for maxBytes bytes that has been reset once.
EmptyLStack(maxBytes) ==
  [maxAllocBits |-> 8 * maxBytes, globAllocBits |-> 0,
   frames |-> <<>>, topFrameOffset |-> 0]

Resize(ls, maxBytes) == [ls EXCEPT !.maxAllocBits = 8 * maxBytes]

\* Mutant: the count of allocated bits survives the reset.
ResetFramesOnly(ls) == [ls EXCEPT !.frames = <<>>]

Reset(ls) == [ls EXCEPT !.globAllocBits = 0, !.frames = <<>>]

TopFrame(ls) == ls.frames[Len(ls.frames)]

\* Mutant: the skipped bits are charged to nobody.
EnterUncharged(ls) ==
  LET start == RoundUp8(ls.globAllocBits)
  IN  [ls EXCEPT
        !.globAllocBits  = start,
        !.frames         = Append(@, [byteOffset |-> start \div 8,
                                      allocBits  |-> 0]),
        !.topFrameOffset = start]

\* The bits skipped to start on a byte boundary are charged to the new frame.
EnterStackFrame(ls) ==
  LET start == RoundUp8(ls.globAllocBits)
  IN  [ls EXCEPT
        !.globAllocBits  = start,
        !.frames         = Append(@, [byteOffset |-> start \div 8,
                                      allocBits  |-> start - ls.globAllocBits]),
        !.topFrameOffset = start]

\* Mutant: the base of the callee stays in place.
ExitKeepsBase(ls) ==
  LET n == Len(ls.frames)
  IN  [ls EXCEPT !.globAllocBits = @ - ls.frames[n].allocBits,
                 !.frames        = SubSeq(@, 1, n - 1)]

ExitStackFrame(ls) ==
  LET n    == Len(ls.frames)
      glob == ls.globAllocBits - ls.frames[n].allocBits
  IN  [ls EXCEPT
        !.globAllocBits  = glob,
        !.frames         = SubSeq(@, 1, n - 1),
        !.topFrameOffset = IF n > 1 THEN glob - ls.frames[n - 1].allocBits
                                    ELSE 0]

(***************************************************************************)
(* alloc(nrBits).  A single bit is packed behind the last one, everything  *)
(* else starts on a byte boundary.                                         *)
(***************************************************************************)
AllocStart(ls, nrBits) ==
  IF nrBits = 1 THEN ls.globAllocBits ELSE RoundUp8(ls.globAllocBits)

\* Mutant: the check measures the offset within the frame.
FitsIntoFrame(ls, nrBits) ==
  RoundUp8(AllocStart(ls, nrBits) - 8 * TopFrame(ls).byteOffset + nrBits)
    < ls.maxAllocBits

\* The check that precedes the assignment: an exact fit is refused, too.
AllocFits(ls, nrBits) ==
  RoundUp8(AllocStart(ls, nrBits) + nrBits) < ls.maxAllocBits

\* The AwlOffset alloc() returns: relative to the byte offset of the top frame.
AllocOffset(ls, nrBits) == AllocStart(ls, nrBits) - 8 * TopFrame(ls).byteOffset

Alloc(ls, nrBits) ==
  LET end == AllocStart(ls, nrBits) + nrBits
  IN  [ls EXCEPT
        !.globAllocBits = end,
        !.frames[Len(ls.frames)].allocBits = @ + (end - ls.globAllocBits)]
=============================================================================
