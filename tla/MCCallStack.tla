---------------------------- MODULE MCCallStack ----------------------------
(***************************************************************************)
(* A small program for TLC with every kind of call.  The OB calls an FC,  *)
(* which calls itself with a single bit of DB 1 as its parameter, and an   *)
(* FB with DB 1 as its instance.  The FB calls its multi-instance and      *)
(* another FB, with outputs to its own static variables; the block of both *)
(* passes a byte of its static variables to the FC.  FC and FB call a      *)
(* block raw.                                                              *)
(***************************************************************************)
EXTENDS CallStack

AbsCall == [owner |-> "ob", callee |-> "fc1", kind |-> "FC", inst |-> 0,
            base |-> 0, width |-> 0, opens |-> NoDB, out |-> "none"]

NestedSite ==
  [ob_fc   |-> AbsCall,
   ob_fb   |-> [AbsCall EXCEPT !.callee = "fb1", !.kind = "FB", !.inst = 1,
                               !.out = "abs"],
   fb_fb   |-> [AbsCall EXCEPT !.owner = "fb1", !.callee = "fb2",
                               !.kind = "MULTI_FB", !.base = 4, !.out = "DI"],
   fb_db   |-> [AbsCall EXCEPT !.owner = "fb1", !.callee = "fb2", !.kind = "FB",
                               !.inst = 2, !.out = "DI"],
   fb_fc   |-> [AbsCall EXCEPT !.owner = "fb2", !.width = 8, !.out = "DI"],
   fc_self |-> [AbsCall EXCEPT !.owner = "fc1", !.width = 1, !.opens = 1,
                               !.out = "abs"],
   fc_raw  |-> [AbsCall EXCEPT !.owner = "fc1", !.callee = "fc2",
                               !.kind = "RAW_FC"],
   fb_raw  |-> [AbsCall EXCEPT !.owner = "fb1", !.callee = "fb2",
                               !.kind = "RAW_FB"]]

NestedSites == DOMAIN NestedSite

MCFBs == {"fb1", "fb2"}
MCTempBytes == [ob |-> 0, fc1 |-> 0, fc2 |-> 0, fb1 |-> 1, fb2 |-> 0]
NestedDBs == {0, 1, 2}
AllOps == {"AUF_DB", "AUF_DI", "TDB", "LAR2"}
MCBases == {0}

\* What the next steps depend on.  A cycle that has been abandoned leaves only the
\* L-stack to the next one, the offset of a copy is read by the end of its call
\* alone, and every step sets `moved' anew.  (TLC checks an action property on
\* every step, whether the state it leads to is new or not.)
View ==
  IF running
  THEN <<running, ls, [i \in 2 .. Len(stack) |-> scratch[stack[i].site]],
         stack, depth, reg, found, again, tidy>>
  ELSE <<running, ls>>
=============================================================================
