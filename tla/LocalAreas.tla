----------------------------- MODULE LocalAreas -----------------------------
(***************************************************************************)
(* What the L-stack promises to the blocks of one OB: local data as a      *)
(* stack of disjoint areas, one per active block, the running block last.  *)
(* areas[i] = [from, lo, hi]: block i was called with the bits below from  *)
(* taken, its local data begin at bit lo, the next byte boundary, and the  *)
(* bits below hi are taken.  Calling a block opens an area behind all      *)
(* others, the running block's area may grow, and a return leaves the      *)
(* caller with exactly the area it had at the call.                        *)
(*                                                                         *)
(* base is the bit that operands of the running block are counted from: lo *)
(* until a block it has called returns, then lo or from.  The two differ   *)
(* in a block that was called in the middle of a byte, where a return      *)
(* therefore does not promise the base that was there before the call.     *)
(***************************************************************************)
EXTENDS Integers, Sequences

VARIABLES areas,    \* the areas of the active blocks
          base,     \* where the operands of the running block begin
          size      \* bits of local data of the OB

Init == areas = <<>> /\ base = 0 /\ size \in Nat

Last(s) == s[Len(s)]

\* A block that finds the bits below from taken begins on the next boundary.
NewArea(from) ==
  LET lo == 8 * ((from + 7) \div 8) IN [from |-> from, lo |-> lo, hi |-> lo]

\* A cycle of the OB begins, whatever the last one left behind.
Begin == areas' = << NewArea(0) >> /\ base' = 0 /\ UNCHANGED size

\* A block is called: a new, empty area on the next byte boundary.
Open ==
  /\ areas # <<>>
  /\ areas' = Append(areas, NewArea(Last(areas).hi))
  /\ base' = NewArea(Last(areas).hi).lo
  /\ UNCHANGED size

\* The running block gets more bits above those it has.
Grow ==
  /\ areas # <<>>
  /\ \E hi \in Last(areas).hi + 1 .. size - 1 :
       areas' = [areas EXCEPT ![Len(areas)].hi = hi]
  /\ UNCHANGED <<base, size>>

\* The running block ends: its area is gone and no other has changed.
Close ==
  /\ areas # <<>>
  /\ areas' = SubSeq(areas, 1, Len(areas) - 1)
  /\ areas' # <<>> => base' \in {Last(areas').from, Last(areas').lo}
  /\ UNCHANGED size

\* The CPU is given another amount of local data between two cycles.
ChangeSize == size' \in Nat /\ UNCHANGED <<areas, base>>

Next == Begin \/ Open \/ Grow \/ Close \/ ChangeSize

Spec == Init /\ [][Next]_<<areas, base, size>>
=============================================================================
