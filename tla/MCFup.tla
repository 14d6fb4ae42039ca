------------------------------- MODULE MCFup --------------------------------
EXTENDS Fup, TLC

\* An AND with an inverted input, and an OR with an inverted output.
MCShapes == {<<"U", {1}, FALSE>>, <<"O", {}, TRUE>>}

\* LOAD operands are interchangeable: nothing picks one of them.
LoadSymmetry == Permutations(Loads)
=============================================================================
