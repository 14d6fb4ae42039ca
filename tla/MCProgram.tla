----------------------------- MODULE MCProgram -----------------------------
(* The program of Program.tla with an OB, a UDT and two FCs: a
   source, one that calls it and defines a UDT, and one that does
   not translate in its second block. *)
EXTENDS Program

CONSTANTS ob1, udt, fc1, fc2, a, b, bad

MCKinds == <<{udt}, {ob1}, {}, {fc1, fc2}, {}>>
MCDefines == a :> <<<<>>, <<>>, <<>>, <<fc1>>, <<>>>>
             @@ b :> <<<<udt>>, <<>>, <<>>, <<fc2>>, <<>>>>
             @@ bad :> <<<<>>, <<>>, <<>>, <<fc1, fc2>>, <<>>>>
MCCalls == a :> {} @@ b :> {fc1} @@ bad :> {}
MCFaulty == {<<bad, fc2>>}
=============================================================================
