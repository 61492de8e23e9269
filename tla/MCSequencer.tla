---------------------------- MODULE MCSequencer ----------------------------
(* Two workers for TLC, that serve one table or a table each.  *)
EXTENDS Sequencer

CONSTANTS w1, w2, tableA, tableB

MCWorker == {w1, w2}
MCTable == {tableA, tableB}
MCOneTable == [w \in MCWorker |-> tableA]
MCTwoTables == [w \in MCWorker |-> IF w = w1 THEN tableA ELSE tableB]
=============================================================================
