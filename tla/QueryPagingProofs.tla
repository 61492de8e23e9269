-------------------------- MODULE QueryPagingProofs --------------------------
(***************************************************************************)
(* Reading by pages, for every relation, every page size, any number of    *)
(* changes between two pages and whatever a cursor's text is parsed to.    *)
(***************************************************************************)
EXTENDS QueryPaging, FiniteSetTheorems, WellFoundedInduction, TLAPS

\* The place of a cursor in the order of the rows.
Place(cursor) == [uri |-> cursor.uri, value |-> cursor.value]

\* The page is of rows that are there, until one changes; and its backward cursor
\* is at the first of them.
PageInv ==
  /\ changes = 0 => page \subseteq rows
  /\ backward # None =>
       \E first \in First(page, ~Direction(backward)) : first.uri = backward.uri

\* While a client only goes on: it has had no row beyond the cursor, and the rows
\* that stay it has had, or they are beyond the cursor and it is told that there
\* are more.
OnwardInv ==
  pc = "reading" /\ oneWay /\ ~altered =>
    /\ twice = {}
    /\ resume # None =>
         /\ resume.forward
         /\ ~Altered(resume) => \A r \in got : ~Before(Place(resume), r, ascending)
    /\ ~lost =>
         \A r \in stable : r.value # Null /\ r \notin got =>
           /\ hasMore
           /\ resume # None /\ ~Altered(resume) => Before(Place(resume), r, ascending)

-----------------------------------------------------------------------------
(* The order of the rows.                                                    *)

LEMMA Values ==
  /\ Null = 0 /\ FetchLimit \in Nat
  /\ \A v \in Value \cup {Null} : Converted(v) \in Value \cup {Null}
  /\ \A u \in Uri : u \in Nat /\ u # 0
  /\ \A v \in Value : v \in Nat /\ v # Null
  /\ \A r \in Row : /\ r.uri \in Uri /\ r.value \in Value \cup {Null}
                    /\ r.uri \in Nat /\ r.uri # 0 /\ r.value \in Nat
                    /\ r = [uri |-> r.uri, value |-> r.value]
<1>1. /\ Null = 0 /\ FetchLimit \in Nat
      /\ \A u \in Uri : u \in Nat /\ u # 0
      /\ \A v \in Value : v \in Nat /\ v # Null
  BY PagingAssumption DEF Null
<1>2. ASSUME NEW r \in Row
      PROVE  /\ r.uri \in Uri /\ r.value \in Value \cup {Null}
             /\ r = [uri |-> r.uri, value |-> r.value]
  BY DEF Row
<1>3. \A v \in Value \cup {Null} : Converted(v) \in Value \cup {Null}
  BY PagingAssumption DEF Converted
<1> QED
  BY <1>1, <1>2, <1>3

\* The rows are strictly and totally ordered in both directions, rows with equal
\* values and with null values included.
LEMMA Order ==
  ASSUME NEW asc \in BOOLEAN
  PROVE  /\ \A r \in Row : ~Before(r, r, asc)
         /\ \A r, s \in Row : Before(r, s, asc) => ~Before(s, r, asc)
         /\ \A r, s \in Row : r = s \/ Before(r, s, asc) \/ Before(s, r, asc)
         /\ \A r, s, t \in Row : Before(r, s, asc) /\ Before(s, t, asc) => Before(r, t, asc)
         /\ \A r, s \in Row : Before(r, s, ~asc) <=> Before(s, r, asc)
<1> USE Values DEF Before, Precedes, Less
<1>1. \A r \in Row : ~Before(r, r, asc)
  OBVIOUS
<1>2. \A r, s \in Row : Before(r, s, asc) => ~Before(s, r, asc)
  OBVIOUS
<1>3. ASSUME NEW r \in Row, NEW s \in Row, ~Before(r, s, asc), ~Before(s, r, asc)
      PROVE  r = s
  <2>1. r.value = s.value /\ r.uri = s.uri
    BY <1>3
  <2> QED
    BY <2>1
<1>4. \A r, s, t \in Row : Before(r, s, asc) /\ Before(s, t, asc) => Before(r, t, asc)
  OBVIOUS
<1>5. \A r, s \in Row : Before(r, s, ~asc) <=> Before(s, r, asc)
  OBVIOUS
<1> QED
  BY <1>1, <1>2, <1>3, <1>4, <1>5

-----------------------------------------------------------------------------
(* The first rows of a finite set.                                           *)

LEMMA RankType ==
  ASSUME NEW rs \in SUBSET Row, IsFiniteSet(rs), NEW r \in rs, NEW asc \in BOOLEAN
  PROVE  Rank(rs, r, asc) \in Nat
<1>1. {s \in rs : Before(s, r, asc)} \in SUBSET rs
  OBVIOUS
<1>2. IsFiniteSet({s \in rs : Before(s, r, asc)})
  BY <1>1, FS_Subset
<1> QED
  BY <1>2, FS_CardinalityType DEF Rank

\* Of two rows, the one that is returned earlier has the lower rank.
LEMMA RankOrder ==
  ASSUME NEW rs \in SUBSET Row, IsFiniteSet(rs), NEW r \in rs, NEW s \in rs,
         NEW asc \in BOOLEAN, Before(r, s, asc)
  PROVE  Rank(rs, r, asc) < Rank(rs, s, asc)
<1> DEFINE R == {t \in rs : Before(t, r, asc)}
           S == {t \in rs : Before(t, s, asc)}
<1>1. R \in SUBSET S /\ r \in S /\ r \notin R
  BY Order
<1>2. IsFiniteSet(S)
  BY FS_Subset
<1>3. Cardinality(R) <= Cardinality(S) /\ Cardinality(R) # Cardinality(S)
  BY <1>1, <1>2, FS_Subset
<1>4. Cardinality(R) = Rank(rs, r, asc) /\ Cardinality(S) = Rank(rs, s, asc)
  BY DEF Rank
<1> QED
  BY <1>3, <1>4, RankType

\* A page has no more rows than the limit.
LEMMA LimitedSize ==
  ASSUME NEW rs \in SUBSET Row, IsFiniteSet(rs), NEW asc \in BOOLEAN
  PROVE  /\ Limited(rs, asc) \subseteq rs
         /\ FetchLimit > 0 => Cardinality(Limited(rs, asc)) <= FetchLimit
<1>1. Limited(rs, asc) \subseteq rs
  BY DEF Limited
<1>2. ASSUME FetchLimit > 0
      PROVE  Cardinality(Limited(rs, asc)) <= FetchLimit
  <2> DEFINE L == Limited(rs, asc)
             f == [r \in L |-> Rank(rs, r, asc)]
  <2>1. \A r \in L : r \in rs /\ Rank(rs, r, asc) \in 0 .. FetchLimit - 1
    BY <1>2, RankType, Values DEF Limited
  <2>2. f \in [L -> 0 .. FetchLimit - 1]
    BY <2>1
  <2>3. ASSUME NEW r \in L, NEW s \in L, f[r] = f[s]
        PROVE  r = s
    <3>1. r \in rs /\ s \in rs /\ Rank(rs, r, asc) = Rank(rs, s, asc)
          /\ Rank(rs, r, asc) \in Nat
      BY <2>1, <2>3
    <3>2. ~Before(r, s, asc) /\ ~Before(s, r, asc)
      BY <3>1, RankOrder
    <3> QED
      BY <3>1, <3>2, Order
  <2>4. f \in Injection(L, 0 .. FetchLimit - 1)
    BY <2>2, <2>3 DEF Injection, IsInjective
  <2>5. /\ IsFiniteSet(0 .. FetchLimit - 1)
        /\ Cardinality(0 .. FetchLimit - 1) = FetchLimit
    <3>1. FetchLimit - 1 \in Int /\ 0 \in Int /\ ~(0 > FetchLimit - 1)
          /\ FetchLimit - 1 - 0 + 1 = FetchLimit
      BY <1>2, Values
    <3> DEFINE n == FetchLimit - 1
    <3>2. /\ IsFiniteSet(0 .. n)
          /\ Cardinality(0 .. n) = IF 0 > n THEN 0 ELSE n - 0 + 1
      BY <3>1, FS_Interval
    <3> QED
      BY <3>1, <3>2
  <2> QED
    BY <2>4, <2>5, FS_Injection
<1> QED
  BY <1>1, <1>2

\* What a page leaves out comes after all it has.
LEMMA LimitedIsFirst ==
  ASSUME NEW rs \in SUBSET Row, IsFiniteSet(rs), NEW asc \in BOOLEAN,
         NEW r \in Limited(rs, asc), NEW s \in rs \ Limited(rs, asc)
  PROVE  Before(r, s, asc)
<1>1. r \in rs /\ s \in rs /\ r # s
  BY DEF Limited
<1>2. Rank(rs, r, asc) < FetchLimit /\ ~(Rank(rs, s, asc) < FetchLimit)
  BY DEF Limited
<1>3. Rank(rs, r, asc) \in Nat /\ Rank(rs, s, asc) \in Nat
  BY <1>1, RankType
<1>4. ~Before(s, r, asc)
  BY <1>1, <1>2, <1>3, RankOrder, Values
<1> QED
  BY <1>1, <1>4, Order

\* A set of numbers has a least one.
LEMMA Least ==
  ASSUME NEW S, S \subseteq Nat, S # {}
  PROVE  \E n \in S : \A m \in S : n <= m
<1>1. IsWellFoundedOn(OpToRel(<, Nat), Nat)
  BY NatLessThanWellFounded, Zenon
<1>2. PICK n \in S : \A m \in S : ~ (<<m, n>> \in OpToRel(<, Nat))
  BY <1>1, WFMin, Zenon
<1>3. \A m \in S : ~ (m < n)
  BY <1>2, Zenon DEF OpToRel
<1> QED
  BY <1>3

\* A page is empty only if there is nothing to return.
LEMMA LimitedNotEmpty ==
  ASSUME NEW rs \in SUBSET Row, IsFiniteSet(rs), NEW asc \in BOOLEAN, rs # {}
  PROVE  Limited(rs, asc) # {}
<1>1. CASE FetchLimit = 0
  BY <1>1 DEF Limited
<1>2. CASE FetchLimit # 0
  <2> DEFINE ranks == {Rank(rs, r, asc) : r \in rs}
  <2>1. ranks \subseteq Nat /\ ranks # {}
    BY RankType
  <2> HIDE DEF ranks
  <2>2. PICK n \in ranks : \A m \in ranks : n <= m
    BY <2>1, Least
  <2>3. PICK r \in rs : n = Rank(rs, r, asc)
    BY <2>2 DEF ranks
  <2>4. ASSUME NEW s \in rs, Before(s, r, asc)
        PROVE  FALSE
    <3>1. Rank(rs, s, asc) < Rank(rs, r, asc)
      BY <2>4, RankOrder
    <3>2. Rank(rs, s, asc) \in ranks
      BY DEF ranks
    <3>3. Rank(rs, r, asc) <= Rank(rs, s, asc)
      BY <3>2, <2>2, <2>3
    <3>4. Rank(rs, r, asc) \in Nat /\ Rank(rs, s, asc) \in Nat
      BY RankType
    <3> QED
      BY ONLY <3>1, <3>3, <3>4
  <2>5. {s \in rs : Before(s, r, asc)} = {}
    BY <2>4
  <2>6. Rank(rs, r, asc) = 0
    BY <2>5, FS_EmptySet DEF Rank
  <2>7. r \in Limited(rs, asc)
    BY <1>2, <2>6, Values DEF Limited
  <2> QED
    BY <2>7
<1> QED
  BY <1>1, <1>2

-----------------------------------------------------------------------------
(* A fetch.                                                                  *)

\* What follows a cursor is beyond its place, and if the row it names is still as
\* it was, that is all there is.
LEMMA RestIsBeyond ==
  ASSUME TypeOK, NEW asc \in BOOLEAN, NEW cursor \in Cursor, cursor.value # Null
  PROVE  /\ \A r \in Rest(rows, asc, cursor) :
              r \in rows /\ r.value # Null /\ Before(Place(cursor), r, asc)
         /\ Place(cursor) \in rows =>
              \A r \in rows : r.value # Null /\ Before(Place(cursor), r, asc)
                              => r \in Rest(rows, asc, cursor)
<1> DEFINE place == Place(cursor)
           beyond == Beyond(rows, asc, cursor)
<1>1. cursor # None
  BY Values DEF Cursor, None
<1>2. /\ place \in Row /\ place.value = cursor.value /\ place.uri = cursor.uri
      /\ cursor.value \in Value
  BY DEF Place, Cursor, Row
<1>3. \A r : r \in beyond <=>
        /\ r \in rows /\ r.value # Null
        /\ IF asc THEN cursor.value <= r.value ELSE r.value <= cursor.value
  BY <1>1 DEF Beyond
<1>4. \A r : r \in Rest(rows, asc, cursor) <=>
        r \in beyond /\ \E s \in beyond : s.uri = cursor.uri /\ Before(s, r, asc)
  BY <1>1 DEF Rest
<1>5. rows \subseteq Row
  BY DEF TypeOK
<1> HIDE DEF place, beyond
<1>6. ASSUME NEW r \in Rest(rows, asc, cursor)
      PROVE  r \in rows /\ r.value # Null /\ Before(place, r, asc)
  <2>1. PICK s \in beyond : s.uri = cursor.uri /\ Before(s, r, asc)
    BY <1>4
  <2>2. r \in rows /\ r.value # Null /\ r \in Row /\ s \in Row /\ s.value # Null
        /\ IF asc THEN cursor.value <= s.value ELSE s.value <= cursor.value
    BY <1>3, <1>4, <1>5
  <2>3. s = place \/ Before(place, s, asc)
    <3>1. CASE s.value = cursor.value
      BY <3>1, <2>1, <2>2, <1>2, Values
    <3>2. CASE s.value # cursor.value
      <4>1. cursor.value \in Nat /\ s.value \in Nat /\ place.value = cursor.value
        BY <2>2, <1>2, Values
      <4> QED
        BY <4>1, <3>2, <2>2 DEF Before, Precedes, Less
    <3> QED
      BY <3>1, <3>2
  <2> QED
    BY <2>1, <2>2, <2>3, <1>2, Order
<1>7. ASSUME place \in rows, NEW r \in rows, r.value # Null, Before(place, r, asc)
      PROVE  r \in Rest(rows, asc, cursor)
  <2>1. r \in Row /\ cursor.value \in Nat /\ r.value \in Nat
    BY <1>2, <1>5, Values
  <2>2. r \in beyond
    <3>1. IF asc THEN cursor.value <= r.value ELSE r.value <= cursor.value
      BY <2>1, <1>7, <1>2 DEF Before, Precedes, Less
    <3> QED
      BY <3>1, <1>3, <1>7
  <2>3. place \in beyond
    <3>1. cursor.value <= place.value /\ place.value <= cursor.value /\ place.value # Null
      BY <1>2, <2>1
    <3> QED
      BY <3>1, <1>3, <1>7
  <2> QED
    BY <2>2, <2>3, <1>2, <1>4, <1>7
<1> QED
  BY <1>6, <1>7 DEF place

\* What a fetch leaves with the client.
LEMMA FetchShape ==
  ASSUME TypeOK, NEW cursor \in Cursor \cup {None}, NEW asc \in BOOLEAN, Fetch(cursor, asc)
  PROVE  LET rest == Rest(rows, asc, cursor)
             forward == cursor = None \/ cursor.forward
         IN  /\ rest \subseteq rows /\ IsFiniteSet(rest)
             /\ page' = Limited(rest, asc) /\ page' \subseteq rest
             /\ FetchLimit > 0 => Cardinality(page') <= FetchLimit
             /\ hasMore' \in BOOLEAN /\ (hasMore' <=> page' # rest)
             /\ page' = {} => resume' = cursor /\ backward' = None
             /\ page' # {} => /\ \E last \in First(page', ~asc) : resume' = CursorAt(last, forward)
                              /\ \E first \in First(page', asc) : backward' = CursorAt(first, ~forward)
<1> DEFINE rest == Rest(rows, asc, cursor)
           forward == cursor = None \/ cursor.forward
<1>1. rest \subseteq rows
  BY DEF Rest, Beyond
<1>2. rows \in SUBSET Row /\ IsFiniteSet(rows)
  BY DEF TypeOK
<1>3. rest \in SUBSET Row /\ IsFiniteSet(rest)
  BY <1>1, <1>2, FS_Subset
<1> HIDE DEF rest, forward
<1>4. /\ page' = Limited(rest, asc) /\ hasMore' = (page' # {} /\ page' # rest)
      /\ resume' \in IF page' = {} THEN {cursor} ELSE Resume(page', asc, forward)
      /\ backward' \in IF page' = {} THEN {None} ELSE Backward(page', asc, forward)
  BY DEF Fetch, rest, forward
<1>5. page' \subseteq rest /\ (FetchLimit > 0 => Cardinality(page') <= FetchLimit)
  BY <1>3, <1>4, LimitedSize
<1>6. page' = {} => resume' = cursor /\ backward' = None
  BY <1>4
<1>7. hasMore' \in BOOLEAN /\ (hasMore' <=> page' # rest)
  <2>1. page' = {} => rest = {}
    BY <1>3, <1>4, LimitedNotEmpty
  <2> QED
    BY <2>1, <1>4
<1>8. page' # {} => /\ \E last \in First(page', ~asc) : resume' = CursorAt(last, forward)
                    /\ \E first \in First(page', asc) : backward' = CursorAt(first, ~forward)
  BY <1>4 DEF Resume, Backward
<1> QED
  BY <1>1, <1>3, <1>4, <1>5, <1>6, <1>7, <1>8 DEF rest, forward

\* The types of what a fetch leaves.
LEMMA FetchType ==
  ASSUME TypeOK, NEW cursor \in Cursor \cup {None}, NEW asc \in BOOLEAN, Fetch(cursor, asc)
  PROVE  /\ page' \subseteq rows /\ page' \subseteq Row
         /\ FetchLimit > 0 => Cardinality(page') <= FetchLimit
         /\ resume' \in Cursor \cup {None} /\ backward' \in Cursor \cup {None}
         /\ hasMore' \in BOOLEAN
<1>1. page' \subseteq rows /\ rows \subseteq Row
  BY FetchShape DEF TypeOK
<1>2. \A r \in Row, forward \in BOOLEAN : CursorAt(r, forward) \in Cursor
  BY Values DEF CursorAt, Cursor
<1>3. (cursor = None \/ cursor.forward) \in BOOLEAN /\ (~(cursor = None \/ cursor.forward)) \in BOOLEAN
  OBVIOUS
<1>4. resume' \in Cursor \cup {None} /\ backward' \in Cursor \cup {None}
  <2>1. CASE page' = {}
    BY <2>1, FetchShape
  <2>2. CASE page' # {}
    <3>1. PICK last \in First(page', ~asc) :
            resume' = CursorAt(last, cursor = None \/ cursor.forward)
      BY <2>2, FetchShape
    <3>2. PICK first \in First(page', asc) :
            backward' = CursorAt(first, ~(cursor = None \/ cursor.forward))
      BY <2>2, FetchShape
    <3>3. last \in Row /\ first \in Row
      BY <1>1 DEF First
    <3> QED
      BY <3>1, <3>2, <3>3, <1>2, <1>3
  <2> QED
    BY <2>1, <2>2
<1> QED
  BY <1>1, <1>4, FetchShape

-----------------------------------------------------------------------------
(* Types.                                                                    *)

\* A relation has finitely many rows, one for each primary key.
LEMMA InitType == Init => TypeOK
<1> SUFFICES ASSUME Init PROVE TypeOK
  OBVIOUS
<1>1. PICK keys \in SUBSET Uri, f \in [Uri -> Value \cup {Null}] :
        /\ IsFiniteSet(keys)
        /\ rows = {[uri |-> u, value |-> f[u]] : u \in keys}
  BY DEF Init
<1>2. rows \subseteq Row /\ \A r, s \in rows : r.uri = s.uri => r = s
  BY <1>1 DEF Row
<1>3. IsFiniteSet(rows)
  <2> DEFINE g == [u \in keys |-> [uri |-> u, value |-> f[u]]]
  <2>1. g \in Surjection(keys, rows)
    BY <1>1 DEF Surjection
  <2> QED
    BY <2>1, <1>1, FS_Surjection
<1>4. page \subseteq Row /\ (FetchLimit > 0 => Cardinality(page) <= FetchLimit)
  BY FS_EmptySet, Values DEF Init
<1>5. changes \in 0 .. MaxChanges
  BY PagingAssumption DEF Init
<1> QED
  BY <1>2, <1>3, <1>4, <1>5 DEF Init, TypeOK

\* A change leaves a relation.
LEMMA ChangeType ==
  ASSUME TypeOK, NEW rs, Change(rs), rs \subseteq Row, IsFiniteSet(rs),
         \A r, s \in rs : r.uri = s.uri => r = s
  PROVE  TypeOK'
<1>1. rows' = rs /\ stable' = stable \cap rs /\ changes' \in 0 .. MaxChanges
  BY PagingAssumption DEF Change, TypeOK
<1> QED
  BY <1>1 DEF Change, TypeOK, client, history

LEMMA TypeStep == TypeOK /\ [Next]_vars => TypeOK'
<1> SUFFICES ASSUME TypeOK, [Next]_vars PROVE TypeOK'
  OBVIOUS
<1>1. CASE Start
  <2>1. ascending' \in BOOLEAN /\ Fetch(None, ascending')
    BY <1>1 DEF Start
  <2>2. /\ page' \subseteq rows /\ page' \subseteq Row
        /\ FetchLimit > 0 => Cardinality(page') <= FetchLimit
        /\ resume' \in Cursor \cup {None} /\ backward' \in Cursor \cup {None}
        /\ hasMore' \in BOOLEAN
    BY <2>1, FetchType
  <2> QED
    BY <1>1, <2>1, <2>2 DEF Start, TypeOK
<1>2. ASSUME NEW cursor \in {resume, backward}, Follow(cursor), oneWay' \in BOOLEAN
      PROVE  TypeOK'
  <2>1. cursor \in Cursor \cup {None} /\ Direction(cursor) \in BOOLEAN
        /\ Fetch(cursor, Direction(cursor))
    BY <1>2 DEF Follow, TypeOK, Direction
  <2>2. /\ page' \subseteq rows /\ page' \subseteq Row
        /\ FetchLimit > 0 => Cardinality(page') <= FetchLimit
        /\ resume' \in Cursor \cup {None} /\ backward' \in Cursor \cup {None}
        /\ hasMore' \in BOOLEAN
    BY <2>1, FetchType
  <2> QED
    BY <1>2, <2>2 DEF Follow, TypeOK
<1>3. CASE Continue \/ TurnBack
  BY <1>2, <1>3 DEF Continue, TurnBack, TypeOK
<1>4. CASE QueryFails \/ Stop
  <2>1. FetchLimit > 0 => Cardinality({}) <= FetchLimit
    BY FS_EmptySet, Values
  <2>2. CASE QueryFails
    BY <2>1, <2>2 DEF QueryFails, TypeOK
  <2>3. CASE Stop
    <3>1. changes' \in 0 .. MaxChanges
      BY <2>3, PagingAssumption DEF Stop
    <3> QED
      BY <2>1, <2>3, <3>1 DEF Stop, TypeOK
  <2> QED
    BY <1>4, <2>2, <2>3
<1>5. ASSUME NEW cursor \in {resume, backward}, FollowThrows(cursor)
      PROVE  TypeOK'
  BY <1>5 DEF FollowThrows, TypeOK, history
<1>6. rows \subseteq Row /\ IsFiniteSet(rows) /\ \A r, s \in rows : r.uri = s.uri => r = s
  BY DEF TypeOK
<1>7. CASE Insert
  <2>1. PICK r \in Row : (\A s \in rows : s.uri # r.uri) /\ Change(rows \cup {r})
    BY <1>7 DEF Insert
  <2>2. IsFiniteSet(rows \cup {r})
    BY <1>6, FS_AddElement
  <2> QED
    BY <2>1, <2>2, <1>6, ChangeType
<1>8. CASE Update
  <2>1. PICK s \in rows, v \in Value \cup {Null} :
          v # s.value /\ Change((rows \ {s}) \cup {[s EXCEPT !.value = v]})
    BY <1>8 DEF Update
  <2> DEFINE t == [s EXCEPT !.value = v]
  <2>2. t \in Row /\ t.uri = s.uri
    BY <1>6 DEF Row
  <2> HIDE DEF t
  <2>3. IsFiniteSet(rows \ {s}) /\ IsFiniteSet((rows \ {s}) \cup {t})
    BY <1>6, FS_RemoveElement, FS_AddElement
  <2>4. Change((rows \ {s}) \cup {t})
    BY <2>1 DEF t
  <2>5. (rows \ {s}) \cup {t} \subseteq Row
    BY <1>6, <2>2
  <2>6. \A p, q \in (rows \ {s}) \cup {t} : p.uri = q.uri => p = q
    BY <1>6, <2>2
  <2> QED
    BY <2>3, <2>4, <2>5, <2>6, ChangeType
<1>9. CASE Delete
  <2>1. PICK s \in rows : Change(rows \ {s})
    BY <1>9 DEF Delete
  <2>2. IsFiniteSet(rows \ {s})
    BY <1>6, FS_RemoveElement
  <2> QED
    BY <2>1, <2>2, <1>6, ChangeType
<1>10. CASE UNCHANGED vars
  BY <1>10 DEF vars, client, history, TypeOK
<1> QED
  BY <1>1, <1>3, <1>4, <1>5, <1>7, <1>8, <1>9, <1>10 DEF Next

(* However the rows change, queries fail and cursors end at nulls: a page has *)
(* no more rows than the limit, and what a client holds are rows and cursors. *)
THEOREM TypeCorrect == Spec => []TypeOK
BY InitType, TypeStep, PTL DEF Spec

-----------------------------------------------------------------------------
(* The page before.                                                          *)

\* A fetch in the direction of its cursor keeps the page and its cursor together.
LEMMA FetchPage ==
  ASSUME TypeOK, NEW cursor \in Cursor \cup {None}, NEW asc \in BOOLEAN, Fetch(cursor, asc),
         ascending' \in BOOLEAN,
         asc = (ascending' = (cursor = None \/ cursor.forward)),
         UNCHANGED rows
  PROVE  PageInv'
<1>1. page' \subseteq rows'
  BY FetchType
<1>2. ASSUME backward' # None
      PROVE  \E first \in First(page', ~Direction(backward)') : first.uri = backward'.uri
  <2>1. page' # {}
    BY <1>2, FetchShape
  <2> DEFINE forward == cursor = None \/ cursor.forward
  <2>2. PICK first \in First(page', asc) : backward' = CursorAt(first, ~forward)
    BY <2>1, FetchShape
  <2>3. first \in Row
    BY <1>1, <2>2 DEF First, TypeOK
  <2>4. first.uri = backward'.uri
    BY <2>2 DEF CursorAt
  <2>5. backward'.forward = ~forward /\ forward \in BOOLEAN
    BY <2>2 DEF CursorAt
  <2> HIDE DEF forward
  <2>6. ~Direction(backward)' <=> asc
    BY <2>5 DEF Direction, forward
  <2> QED
    BY <2>2, <2>4, <2>6
<1> QED
  BY <1>1, <1>2 DEF PageInv

LEMMA PageStep == TypeOK /\ PageInv /\ [Next]_vars => PageInv'
<1> SUFFICES ASSUME TypeOK, PageInv, [Next]_vars PROVE PageInv'
  OBVIOUS
<1>1. CASE Start
  <2>1. /\ ascending' \in BOOLEAN /\ Fetch(None, ascending') /\ UNCHANGED rows
        /\ None \in Cursor \cup {None}
    BY <1>1 DEF Start
  <2>2. ascending' = (ascending' = (None = None \/ None.forward))
    BY <2>1
  <2> QED
    BY <2>1, <2>2, FetchPage
<1>2. ASSUME NEW cursor \in {resume, backward}, Follow(cursor)
      PROVE  PageInv'
  <2>1. /\ cursor \in Cursor /\ cursor # None /\ ascending \in BOOLEAN
        /\ cursor.forward \in BOOLEAN
        /\ Fetch(cursor, Direction(cursor))
        /\ ascending' = ascending /\ UNCHANGED rows
    BY <1>2 DEF Follow, TypeOK, Cursor
  <2>2. Direction(cursor) \in BOOLEAN
        /\ Direction(cursor) = (ascending' = (cursor = None \/ cursor.forward))
    BY <2>1 DEF Direction
  <2> QED
    BY <2>1, <2>2, FetchPage
<1>3. CASE Continue \/ TurnBack
  BY <1>2, <1>3 DEF Continue, TurnBack
<1>4. CASE QueryFails \/ Stop
  BY <1>4 DEF QueryFails, Stop, PageInv
<1>5. ASSUME UNCHANGED <<page, backward, ascending>>,
             UNCHANGED <<rows, changes>> \/ changes' # 0
      PROVE  PageInv'
  BY <1>5 DEF PageInv, First, Direction
<1>6. ASSUME NEW cursor \in {resume, backward}, FollowThrows(cursor)
      PROVE  PageInv'
  BY <1>5, <1>6 DEF FollowThrows
<1>7. ASSUME NEW rs, Change(rs)
      PROVE  PageInv'
  <2>1. changes' # 0
    BY <1>7 DEF Change, TypeOK
  <2> QED
    BY <1>5, <1>7, <2>1 DEF Change, client
<1>8. CASE Insert \/ Update \/ Delete
  BY <1>7, <1>8 DEF Insert, Update, Delete
<1>9. CASE UNCHANGED vars
  BY <1>5, <1>9 DEF vars, client
<1> QED
  BY <1>1, <1>3, <1>4, <1>6, <1>8, <1>9 DEF Next

LEMMA InitPage == Init => PageInv
BY DEF Init, PageInv

\* The page before a page of rows that are all still there.
LEMMA TurnBackAdjoins ==
  ASSUME TypeOK, PageInv, TurnBack, changes = 0, ~Altered(backward)
  PROVE  \E first \in First(page, ~Direction(backward)) :
           page' = Limited({r \in rows : r.value # Null /\ Before(first, r, Direction(backward))},
                           Direction(backward))
<1>1. /\ backward \in Cursor /\ backward # None /\ backward.value # Null
      /\ Direction(backward) \in BOOLEAN /\ Fetch(backward, Direction(backward))
  BY DEF TurnBack, Follow, TypeOK, Direction
<1>2. PICK first \in First(page, ~Direction(backward)) : Place(backward) = first
  <2>1. PICK first \in First(page, ~Direction(backward)) : first.uri = backward.uri
    BY <1>1 DEF PageInv
  <2>2. first \in page /\ first \in Row
    BY <2>1 DEF First, TypeOK
  <2>3. first.value = backward.value
    BY <2>1, <2>2 DEF Altered
  <2> QED
    BY <2>1, <2>2, <2>3, Values DEF Place
<1>3. Place(backward) \in rows
  BY <1>2 DEF First, PageInv
<1>4. Rest(rows, Direction(backward), backward)
        = {r \in rows : r.value # Null /\ Before(first, r, Direction(backward))}
  BY <1>1, <1>2, <1>3, RestIsBeyond
<1>5. page' = Limited(Rest(rows, Direction(backward), backward), Direction(backward))
  BY <1>1, FetchShape
<1> QED
  BY <1>2, <1>4, <1>5

(* The page before ends where the page it was asked for from begins, whatever *)
(* the values, the size of a page and how often the client has turned.        *)
THEOREM PagesAdjoin == Spec => BackwardAdjoins
<1>1. TypeOK /\ PageInv /\ [Next]_vars
        => [TurnBack /\ changes = 0 /\ ~Altered(backward) =>
              \E first \in First(page, ~Direction(backward)) :
                page' = Limited({r \in rows : r.value # Null /\ Before(first, r, Direction(backward))},
                                Direction(backward))]_vars
  BY TurnBackAdjoins
<1>2. Spec => []PageInv
  BY InitPage, PageStep, TypeCorrect, PTL DEF Spec
<1> QED
  BY <1>1, <1>2, TypeCorrect, PTL DEF Spec, BackwardAdjoins

-----------------------------------------------------------------------------
(* Going on.                                                                 *)

\* A page that follows a cursor has only rows beyond it, and the next cursor is at
\* or beyond all of these; what the page leaves out is beyond the next cursor.
LEMMA OnwardFetch ==
  ASSUME TypeOK, NEW asc \in BOOLEAN, NEW cursor \in Cursor \cup {None}, Fetch(cursor, asc),
         page' # {}
  PROVE  /\ resume' \in Cursor
         /\ resume'.forward <=> cursor = None \/ cursor.forward
         /\ ~Altered(resume)' =>
              /\ Place(resume') \in page'
              /\ \A r \in page' : ~Before(Place(resume'), r, asc)
              /\ \A r \in Rest(rows, asc, cursor) \ page' : Before(Place(resume'), r, asc)
<1> DEFINE forward == cursor = None \/ cursor.forward
           rest == Rest(rows, asc, cursor)
<1>1. PICK last \in First(page', ~asc) : resume' = CursorAt(last, forward)
  BY FetchShape
<1>2. /\ rest \in SUBSET Row /\ IsFiniteSet(rest) /\ page' = Limited(rest, asc)
      /\ page' \subseteq rest
  BY FetchShape DEF TypeOK
<1>3. last \in page' /\ last \in Row /\ \A r \in page' : ~Before(r, last, ~asc)
  BY <1>1, <1>2 DEF First
<1>4. /\ resume'.forward <=> forward
      /\ ~Altered(resume)' => Place(resume') = last
  <2>1. resume'.uri = last.uri /\ (resume'.forward <=> forward)
    BY <1>1 DEF CursorAt
  <2>2. ~Altered(resume)' => last.value = resume'.value
    BY <1>3, <2>1 DEF Altered
  <2> QED
    BY <1>3, <2>1, <2>2, Values DEF Place
<1>5. \A r \in page' : ~Before(last, r, asc)
  BY <1>2, <1>3, Order
<1>6. \A r \in rest \ page' : Before(last, r, asc)
  BY <1>2, <1>3, LimitedIsFirst
<1>7. resume' # None
  BY <1>1, <1>3, Values DEF CursorAt, None
<1> QED
  BY <1>3, <1>4, <1>5, <1>6, <1>7, FetchType

LEMMA InitOnward == Init => OnwardInv
BY DEF Init, OnwardInv

LEMMA OnwardStart ==
  ASSUME TypeOK, Start
  PROVE  OnwardInv'
<1>1. /\ ascending' \in BOOLEAN /\ Fetch(None, ascending') /\ None \in Cursor \cup {None}
      /\ got' = page' /\ stable' = rows /\ twice' = {}
  BY DEF Start
<1>2. Rest(rows, ascending', None) = rows
  BY DEF Rest, Beyond
<1>3. CASE page' = {}
  <2>1. resume' = None /\ (hasMore' <=> rows # {})
    BY <1>1, <1>2, <1>3, FetchShape
  <2> QED
    BY <2>1, <1>1, <1>3 DEF OnwardInv
<1>4. CASE page' # {}
  <2>1. /\ resume'.forward
        /\ ~Altered(resume)' =>
             /\ \A r \in page' : ~Before(Place(resume'), r, ascending')
             /\ \A r \in rows \ page' : Before(Place(resume'), r, ascending')
    BY <1>1, <1>2, <1>4, OnwardFetch
  <2>2. hasMore' <=> page' # rows
    BY <1>1, <1>2, FetchShape
  <2>3. page' \subseteq rows
    BY <1>1, FetchType
  <2> QED
    BY <2>1, <2>2, <2>3, <1>1 DEF OnwardInv, Place
<1> QED
  BY <1>3, <1>4

LEMMA OnwardContinue ==
  ASSUME TypeOK, OnwardInv, Continue
  PROVE  OnwardInv'
<1> SUFFICES ASSUME oneWay, ~altered, ~Altered(resume) PROVE OnwardInv'
  BY DEF Continue, Follow, OnwardInv
<1>1. /\ pc = "reading" /\ resume # None /\ resume.value # Null
      /\ Fetch(resume, Direction(resume))
      /\ got' = got \cup page' /\ twice' = twice \cup (got \cap page' \cap stable)
      /\ lost' = (lost \/ Gone(resume))
      /\ UNCHANGED <<rows, pc, ascending, stable>>
  BY DEF Continue, Follow
<1>2. /\ resume \in Cursor /\ ascending \in BOOLEAN /\ stable \subseteq rows
      /\ rows \subseteq Row /\ got \subseteq Row
  BY <1>1 DEF TypeOK
<1>3. /\ twice = {} /\ resume.forward
      /\ \A r \in got : ~Before(Place(resume), r, ascending)
      /\ ~lost => \A r \in stable : r.value # Null /\ r \notin got =>
                    Before(Place(resume), r, ascending)
  BY <1>1 DEF OnwardInv
<1>4. Direction(resume) = ascending
  BY <1>2, <1>3 DEF Direction
<1>5. Fetch(resume, ascending)
  BY <1>1, <1>4
<1>6. Place(resume) \in Row
  BY <1>2 DEF Place, Cursor, Row
<1>7. /\ page' \subseteq Rest(rows, ascending, resume)
      /\ hasMore' <=> page' # Rest(rows, ascending, resume)
      /\ page' = {} => resume' = resume
  BY <1>2, <1>5, FetchShape
<1>8. /\ page' \subseteq Row
      /\ \A r \in page' : Before(Place(resume), r, ascending)
  BY <1>1, <1>2, <1>7, RestIsBeyond
<1>9. twice' = {}
  BY <1>1, <1>3, <1>8
<1>10. ASSUME ~lost'
       PROVE  \A r \in stable : r.value # Null /\ r \notin got =>
                r \in Rest(rows, ascending, resume)
  <2>1. ~lost /\ Place(resume) \in rows
    BY <1>1, <1>10 DEF Gone, Place
  <2> QED
    BY <2>1, <1>1, <1>2, <1>3, RestIsBeyond
<1>11. CASE page' = {}
  <2>1. resume' = resume /\ got' = got
    BY <1>1, <1>7, <1>11
  <2>2. ~lost' => \A r \in stable' : r.value # Null /\ r \notin got' =>
          hasMore' /\ Before(Place(resume'), r, ascending')
    <3> SUFFICES ASSUME ~lost', NEW r \in stable, r.value # Null, r \notin got
                 PROVE  hasMore' /\ Before(Place(resume), r, ascending)
      BY <1>1, <2>1 DEF Place
    <3>1. r \in Rest(rows, ascending, resume)
      BY <1>10
    <3>2. Before(Place(resume), r, ascending)
      BY <3>1, <1>1, <1>2, RestIsBeyond
    <3> QED
      BY <3>1, <3>2, <1>7, <1>11
  <2> QED
    BY <1>1, <1>3, <1>9, <2>1, <2>2 DEF OnwardInv, Place
<1>12. CASE page' # {}
  <2>1. /\ resume' \in Cursor /\ resume'.forward
        /\ ~Altered(resume)' =>
             /\ Place(resume') \in page'
             /\ \A r \in page' : ~Before(Place(resume'), r, ascending)
             /\ \A r \in Rest(rows, ascending, resume) \ page' : Before(Place(resume'), r, ascending)
    BY <1>2, <1>3, <1>5, <1>12, OnwardFetch
  <2>2. ASSUME NEW r \in got, ~Altered(resume)'
        PROVE  ~Before(Place(resume'), r, ascending)
    <3> DEFINE p == Place(resume)
    <3>1. PICK q \in Row : q = Place(resume')
      BY <2>1, <2>2, <1>8
    <3>2. Before(p, q, ascending) /\ ~Before(p, r, ascending)
      BY <3>1, <2>1, <2>2, <1>8, <1>3
    <3>3. r \in Row /\ p \in Row
      BY <1>2, <1>6
    <3> HIDE DEF p
    <3>4. ~Before(q, r, ascending)
      BY <3>2, <3>3, <1>2, Order
    <3> QED
      BY <3>1, <3>4
  <2>3. ASSUME ~lost', NEW r \in stable, r.value # Null, r \notin got'
        PROVE  hasMore' /\ (~Altered(resume)' => Before(Place(resume'), r, ascending))
    <3>1. r \in Rest(rows, ascending, resume) \ page'
      BY <1>1, <1>10, <2>3
    <3> QED
      BY <3>1, <2>1, <1>7
  <2> QED
    BY <1>1, <1>9, <2>1, <2>2, <2>3 DEF OnwardInv, Place
<1> QED
  BY <1>11, <1>12

\* What a client has read stays with it while the rows change.
LEMMA OnwardStep == TypeOK /\ OnwardInv /\ [Next]_vars => OnwardInv'
<1> SUFFICES ASSUME TypeOK, OnwardInv, [Next]_vars PROVE OnwardInv'
  OBVIOUS
<1>1. CASE TurnBack
  BY <1>1 DEF TurnBack, OnwardInv
<1>2. CASE QueryFails
  BY <1>2 DEF QueryFails, OnwardInv
<1>3. CASE Stop
  BY <1>3 DEF Stop, OnwardInv
<1>4. ASSUME NEW cursor \in {resume, backward}, FollowThrows(cursor)
      PROVE  OnwardInv'
  BY <1>4 DEF FollowThrows, OnwardInv
<1>5. ASSUME UNCHANGED <<client, history>>, stable' \subseteq stable
      PROVE  OnwardInv'
  BY <1>5 DEF OnwardInv, Altered, client, history, Place
<1>6. CASE Insert \/ Update \/ Delete
  <2>1. PICK rs : Change(rs)
    BY <1>6 DEF Insert, Update, Delete
  <2> QED
    BY <2>1, <1>5 DEF Change
<1>7. CASE UNCHANGED vars
  BY <1>5, <1>7 DEF vars
<1> QED
  BY <1>1, <1>2, <1>3, <1>4, <1>6, <1>7, OnwardStart, OnwardContinue DEF Next

(* A client that only goes on has a row that stays never twice, and in the end *)
(* all that have a value, wherever rows with equal values fall on the pages   *)
(* and whatever is inserted, updated or deleted around them.                  *)
THEOREM EveryRowOnce == Spec => []EachRowOnce
<1>1. OnwardInv => EachRowOnce
  BY DEF OnwardInv, EachRowOnce
<1>2. Spec => []OnwardInv
  BY InitOnward, OnwardStep, TypeCorrect, PTL DEF Spec
<1> QED
  BY <1>1, <1>2, PTL
=============================================================================
