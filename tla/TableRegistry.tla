---------------------------- MODULE TableRegistry ----------------------------
(***************************************************************************)
(* What TableManager promises of one table id: there is no table, or there *)
(* is one with the columns it was created with.  It appears whole, never   *)
(* changes its columns, and goes as a whole.                               *)
(***************************************************************************)
CONSTANT Schemas   \* the sets of columns a table may be created with

VARIABLE table     \* the columns of the table that is there, if one is: {} or {columns}

Init == table = {}

Create == table = {} /\ \E s \in Schemas : table' = {s}
Delete == table # {} /\ table' = {}

Spec == Init /\ [][Create \/ Delete]_table
=============================================================================
