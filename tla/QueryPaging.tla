----------------------------- MODULE QueryPaging -----------------------------
(***************************************************************************)
(* Reading a relation page by page: a client fetches a page, and passes    *)
(* its resume cursor or its backward cursor on to fetch another one, while *)
(* rows are inserted, updated and deleted in between.  Each page is read   *)
(* under the table's lock; nothing is held between pages.                  *)
(*                                                                         *)
(* The relation is sorted by one attribute and then by URI, its primary    *)
(* key, both in one direction.  The attribute is the creation date, the    *)
(* sequence value of the log, or a column of the user's, which may be null.*)
(***************************************************************************)
EXTENDS Integers, FiniteSets

CONSTANTS
  Uri,          \* primary keys, ordered as integers
  Value,        \* values of the sort attribute, ordered as integers
  Parsed,       \* what is parsed from the text of a value in a cursor
  FetchLimit,   \* rows of a page; 0 is no limit
  QueriesFail,  \* may a query fail?
  MaxChanges    \* bound on the changes of rows during a reading

Null == 0
None == [uri |-> 0, value |-> Null, forward |-> TRUE]

ASSUME PagingAssumption ==
  /\ Uri \subseteq Nat \ {0} /\ Value \subseteq Nat \ {Null}
  /\ Parsed \in [Value -> Value \cup {Null}]
  /\ FetchLimit \in Nat /\ MaxChanges \in Nat
  /\ QueriesFail \in BOOLEAN

VARIABLES
  rows,      \* the rows the query selects
  pc,        \* what the client does
  ascending, \* the direction it began with
  page,      \* the rows of the page it has
  resume, backward, hasMore,   \* what came with it
  got,       \* the rows it has had (history)
  stable,    \* the rows there since the start (history)
  twice,     \* rows there since the start and returned again (history)
  oneWay,    \* did it only go on? (history)
  lost,      \* has a cursor pointed to a row that is gone, or a query failed? (history)
  altered,   \* has a cursor been followed that had lost its row's value? (history)
  changes    \* the number of changes so far

client == <<pc, ascending, page, resume, backward, hasMore>>
history == <<got, twice, oneWay, lost, altered>>
vars == <<rows, client, history, stable, changes>>

Row == [uri : Uri, value : Value \cup {Null}]
Cursor == [uri : Uri, value : Value \cup {Null}, forward : BOOLEAN]

TypeOK ==
  /\ rows \subseteq Row /\ IsFiniteSet(rows)
  /\ \A r, s \in rows : r.uri = s.uri => r = s
  /\ pc \in {"idle", "reading", "error"}
  /\ ascending \in BOOLEAN
  /\ page \subseteq Row /\ (FetchLimit > 0 => Cardinality(page) <= FetchLimit)
  /\ resume \in Cursor \cup {None} /\ backward \in Cursor \cup {None}
  /\ hasMore \in BOOLEAN /\ oneWay \in BOOLEAN /\ lost \in BOOLEAN /\ altered \in BOOLEAN
  /\ got \subseteq Row /\ stable \subseteq rows /\ twice \subseteq Row
  /\ changes \in 0 .. MaxChanges

Init ==
  /\ \E keys \in SUBSET Uri, f \in [Uri -> Value \cup {Null}] :
       /\ IsFiniteSet(keys)
       /\ rows = {[uri |-> u, value |-> f[u]] : u \in keys}
  /\ pc = "idle" /\ ascending = TRUE
  /\ page = {} /\ resume = None /\ backward = None /\ hasMore = FALSE
  /\ got = {} /\ stable = {} /\ twice = {} /\ oneWay = TRUE /\ lost = FALSE
  /\ altered = FALSE
  /\ changes = 0

-----------------------------------------------------------------------------
(* QueryImpl.executeQuery(startCursor, fetchLimit).                        *)

\* PostgreSQL sorts null after all values.
Less(v, w) == v # Null /\ (w = Null \/ v < w)

\* ORDER BY the attribute, then the primary key.
Precedes(r, s) == Less(r.value, s.value) \/ (r.value = s.value /\ r.uri < s.uri)

Before(r, s, asc) == IF asc THEN Precedes(r, s) ELSE Precedes(s, r)

\* Fault: a value equal to the cursor's is left out.
BeyondStrictly(rs, asc, cursor) ==
  IF cursor = None THEN rs
  ELSE {r \in rs : r.uri = cursor.uri \/
          (r.value # Null /\ IF asc THEN cursor.value < r.value ELSE r.value < cursor.value)}

\* addContinuationFilter: null compares with nothing.
Beyond(rs, asc, cursor) ==
  IF cursor = None THEN rs
  ELSE {r \in rs : r.value # Null /\ IF asc THEN cursor.value <= r.value ELSE r.value <= cursor.value}

\* extractData: rows are skipped up to the one of the cursor.
Rest(rs, asc, cursor) ==
  LET beyond == Beyond(rs, asc, cursor) IN
  IF cursor = None THEN beyond
  ELSE {r \in beyond : \E s \in beyond : s.uri = cursor.uri /\ Before(s, r, asc)}

\* How many of the rows rs are returned before r.
Rank(rs, r, asc) == Cardinality({s \in rs : Before(s, r, asc)})

\* The first rows, as many as the page may have.
Limited(rs, asc) ==
  IF FetchLimit = 0 THEN rs ELSE {r \in rs : Rank(rs, r, asc) < FetchLimit}

\* The first of the rows rs; the last is the first in the other direction.
First(rs, asc) == {r \in rs : \A s \in rs : ~Before(s, r, asc)}

\* A value goes to the client as text and comes back trimmed; what is then empty,
\* as a null is, has no value.
Converted(v) == IF v = Null THEN Null ELSE Parsed[v]

CursorAt(r, forward) == [uri |-> r.uri, value |-> Converted(r.value), forward |-> forward]

Resume(rs, asc, forward) == {CursorAt(r, forward) : r \in First(rs, ~asc)}

\* Fault: the backward cursor is that of the last row.
BackwardAtEnd(rs, asc, forward) == {CursorAt(r, ~forward) : r \in First(rs, ~asc)}

Backward(rs, asc, forward) == {CursorAt(r, ~forward) : r \in First(rs, asc)}

\* A page that has no rows has no backward cursor and is the last.
Fetch(cursor, asc) ==
  LET rest == Rest(rows, asc, cursor)
      results == Limited(rest, asc)
      forward == cursor = None \/ cursor.forward
  IN
  /\ page' = results
  /\ hasMore' = (results # {} /\ results # rest)
  /\ resume' \in IF results = {} THEN {cursor} ELSE Resume(results, asc, forward)
  /\ backward' \in IF results = {} THEN {None} ELSE Backward(results, asc, forward)

-----------------------------------------------------------------------------
(* The client.                                                             *)

\* The first page, in either direction.
Start ==
  /\ pc = "idle"
  /\ ascending' \in BOOLEAN
  /\ Fetch(None, ascending')
  /\ pc' = "reading"
  /\ got' = page'
  /\ stable' = rows
  /\ twice' = {} /\ oneWay' = TRUE /\ lost' = FALSE /\ altered' = FALSE
  /\ UNCHANGED <<rows, changes>>

\* getRows: the direction follows from the cursor, or the client inverts it.
Direction(cursor) == ascending = cursor.forward

Gone(cursor) == [uri |-> cursor.uri, value |-> cursor.value] \notin rows

\* The row the cursor was made of had another value.
Altered(cursor) == \E r \in page : r.uri = cursor.uri /\ r.value # cursor.value

Follow(cursor) ==
  /\ pc = "reading" /\ cursor # None /\ cursor.value # Null
  /\ Fetch(cursor, Direction(cursor))
  /\ got' = got \cup page'
  /\ twice' = twice \cup (got \cap page' \cap stable)
  /\ lost' = (lost \/ Gone(cursor))
  /\ altered' = (altered \/ Altered(cursor))
  /\ UNCHANGED <<rows, pc, ascending, stable, changes>>

Continue == hasMore /\ Follow(resume) /\ UNCHANGED oneWay
TurnBack == Follow(backward) /\ oneWay' = FALSE

\* parseCursorParameter throws for a cursor that has no value.
FollowThrows(cursor) ==
  /\ pc = "reading" /\ cursor # None /\ cursor.value = Null
  /\ pc' = "error"
  /\ UNCHANGED <<rows, ascending, page, resume, backward, hasMore, history, stable, changes>>

\* Query.execute makes an empty last page of a query that failed.
QueryFails ==
  /\ QueriesFail /\ pc = "reading" /\ hasMore
  /\ page' = {} /\ resume' = None /\ backward' = None /\ hasMore' = FALSE
  /\ lost' = TRUE
  /\ UNCHANGED <<rows, pc, ascending, got, twice, oneWay, altered, stable, changes>>

Stop ==
  /\ pc # "idle"
  /\ pc' = "idle" /\ ascending' = TRUE
  /\ page' = {} /\ resume' = None /\ backward' = None /\ hasMore' = FALSE
  /\ got' = {} /\ stable' = {} /\ twice' = {} /\ oneWay' = TRUE /\ lost' = FALSE /\ altered' = FALSE
  /\ changes' = 0
  /\ UNCHANGED rows

-----------------------------------------------------------------------------
(* Others change the relation.                                             *)

Change(rs) ==
  /\ pc = "reading" /\ changes < MaxChanges
  /\ rows' = rs
  /\ stable' = stable \cap rs
  /\ changes' = changes + 1
  /\ UNCHANGED <<client, history>>

Insert ==
  \E r \in Row : (\A s \in rows : s.uri # r.uri) /\ Change(rows \cup {r})
Update ==
  \E s \in rows, v \in Value \cup {Null} :
    v # s.value /\ Change((rows \ {s}) \cup {[s EXCEPT !.value = v]})
Delete == \E s \in rows : Change(rows \ {s})

Next ==
  \/ Start \/ Continue \/ TurnBack \/ QueryFails \/ Stop
  \/ \E c \in {resume, backward} : FollowThrows(c)
  \/ Insert \/ Update \/ Delete

Spec == Init /\ [][Next]_vars

-----------------------------------------------------------------------------
(* Properties.                                                             *)

(* A client that only goes on has a row that stays never twice, and on the    *)
(* last page it has had all that have a value in the sort column, whatever    *)
(* was changed around them, unless a row that a cursor pointed to has gone or *)
(* a query has failed, or a cursor's value is not the one its row had.        *)
EachRowOnce ==
  pc = "reading" /\ oneWay /\ ~altered =>
    /\ twice = {}
    /\ ~hasMore /\ ~lost => {r \in stable : r.value # Null} \subseteq got

(* The page before: it ends where the page it was asked for from begins, in   *)
(* the other direction, and no row is left out in between.                    *)
BackwardAdjoins ==
  [][TurnBack /\ changes = 0 /\ ~Altered(backward) =>
       \E first \in First(page, ~Direction(backward)) :
         page' = Limited({r \in rows : r.value # Null /\ Before(first, r, Direction(backward))},
                         Direction(backward))]_vars

(* "The resume point tracks the dominant sort column name, the last value of   *)
(* this column from the prior query, and the PK of the last value returned"    *)
(* (QueryResumePoint.java:30): a client that goes on to the last page, while   *)
(* nothing changes and no query fails, has had all rows with a value.          *)
AllAreReached ==
  pc = "reading" /\ oneWay /\ changes = 0 /\ ~QueriesFail /\ ~hasMore =>
    {r \in stable : r.value # Null} \subseteq got
=============================================================================
