---------------------------- MODULE MCDataManager ----------------------------
(* Small instances of DataManager for TLC.  RowId and Value are symmetric:   *)
(* neither appears in the specification but through quantifiers over them.   *)
EXTENDS DataManager, TLC

CONSTANTS q1, q2, rowA, rowB, v1, v2

MCOne == {q1}
MCTwo == {q1, q2}
MCRows == {rowA, rowB}
MCValues == {v1, v2}
MCOneValue == {v1}
MCForeign == -1
RowSymmetry == Permutations(MCRows)
Symmetry == Permutations(MCRows) \cup Permutations(MCTwo)
=============================================================================
