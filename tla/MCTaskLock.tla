----------------------------- MODULE MCTaskLock -----------------------------
(* Two requests that contend for one table's lock, for TLC. *)
EXTENDS TaskLock

CONSTANTS r1, r2, tableA

MCRequest == {r1, r2}
MCResource == {tableA}
MCResourceOf == [r \in MCRequest |-> tableA]
=============================================================================
