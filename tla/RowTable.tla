------------------------------ MODULE RowTable ------------------------------
(***************************************************************************)
(* What DataManager promises of a table: versions of rows and a data ETag  *)
(* that change together, one whole change set at a time.  ETags are        *)
(* numbered in the order they are issued.                                  *)
(***************************************************************************)
EXTENDS Integers

CONSTANTS
  RowId,
  Absent   \* the version of a row that was never created

VARIABLES
  rows,    \* the version of each row
  tag      \* the table's data ETag

Init == tag = 0 /\ rows = [i \in RowId |-> Absent]

(* One change set: the table gets a new data ETag, and every row that changes *)
(* gets a row ETag issued for this change set, so a row that was created      *)
(* never vanishes (a deleted row keeps a version that says so) and no client  *)
(* sees an ETag stand for two versions.                                       *)
ChangeSet ==
  /\ tag' > tag
  /\ \A i \in RowId : rows'[i] # rows[i] => rows'[i].etag > tag'

Spec == Init /\ [][ChangeSet]_<<rows, tag>>
=============================================================================
