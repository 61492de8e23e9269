--------------------------- MODULE MCTableLifecycle ---------------------------
(* Two requests, three columns of which one may hold an array, and names taken *)
(* by a row relation and by a log relation of other tables.                    *)
EXTENDS TableLifecycle

CONSTANTS t1, t2, colA, colB, colItems

MCRequest == {t1, t2}
MCColumn == {colA, colB, colItems}
MCSchemas == {{colA}, {colA, colB}}
MCNoItems == [c \in MCColumn |-> {}]
MCOthers == {[name |-> 0, kind |-> "data"], [name |-> 1, kind |-> "log"]}

\* With these, CleanUpIsPossible is violated.
MCArraySchemas == {{colA, colItems}}
MCArrayItems == [c \in MCColumn |-> IF c = colA THEN {colItems} ELSE {}]
=============================================================================
