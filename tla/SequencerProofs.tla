--------------------------- MODULE SequencerProofs ---------------------------
(***************************************************************************)
(* SequencesIncrease, for any number of workers on one table, any clock    *)
(* and no bound but those of the specification.  The hypothesis OneTable   *)
(* is what the code needs and does not have: the lock that is held is the  *)
(* table's, the preference is everybody's.                                 *)
(***************************************************************************)
EXTENDS Sequencer, TLAPS

OneTable == \A v, w \in Worker : TableOf[v] = TableOf[w]

\* Whoever is not idle holds the lock, so one worker at most is at work.
Locked == \A w \in Worker : pc[w] # "idle" => holder[TableOf[w]] = w

\* There is one row at most, and nobody else is about to insert another.
OneRow ==
  /\ \A p, q \in Rows : p = q
  /\ \A w \in Worker : pc[w] = "put" => \A p \in Rows : target[w] = p

\* The saved base bounds every value drawn; a base just read is the saved one,
\* a base about to be written is greater, one that was written is saved.
Bounded ==
  /\ \A w \in Worker : last[TableOf[w]].base # NoBase =>
       \E p \in Rows : last[TableOf[w]].base <= pref[p]
  /\ \A w \in Worker : pc[w] = "find" =>
       (base[w] = NoBase /\ Rows = {}) \/ \E p \in Rows : base[w] = pref[p]
  /\ \A w \in Worker : pc[w] = "put" =>
       base[w] > NoBase /\ \A p \in Rows : pref[p] < base[w]
  /\ \A w \in Worker : pc[w] = "draw" =>
       /\ base[w] > NoBase /\ \E p \in Rows : base[w] = pref[p]
       /\ last[TableOf[w]].base < base[w] \/ last[TableOf[w]] = [base |-> base[w], counter |-> counter[w]]

ClockRuns == clock > 0

IInv == TypeOK /\ Locked /\ OneRow /\ Bounded /\ ClockRuns

\* The initial state satisfies the invariant.
LEMMA InitIInv == Init => IInv
  BY SequencerAssumption DEF Init, IInv, TypeOK, Locked, OneRow, Bounded, ClockRuns, Rows, NoBase, Value

\* Of two workers on the table one is idle, so only the one that steps counts.
LEMMA Alone ==
  ASSUME OneTable, Locked, NEW v \in Worker, NEW w \in Worker,
         pc[v] # "idle", pc[w] # "idle"
  PROVE  v = w
  BY DEF OneTable, Locked

\* The types hold after every step.
LEMMA TypeStep == TypeOK /\ [Next]_vars => TypeOK'
<1> SUFFICES ASSUME TypeOK, [Next]_vars PROVE TypeOK'
  OBVIOUS
<1> USE SequencerAssumption DEF TypeOK, Goto
<1>1. CASE Tick
  BY <1>1 DEF Tick
<1>2. ASSUME NEW w \in Worker, Step(w) PROVE TypeOK'
  <2>1. CASE Acquire(w)
    BY <2>1 DEF Acquire
  <2>2. CASE GetBase(w)
    <3>1. PICK saved \in Nat : base' = [base EXCEPT ![w] = saved]
      BY <2>2 DEF GetBase, Rows, Latest, NoBase
    <3>2. QED
      BY <2>2, <3>1 DEF GetBase
  <2>3. CASE FindRow(w)
    <3>1. NextBase(base[w], clock) \in Nat
      BY DEF NextBase
    <3>2. PICK p \in Worker : target' = [target EXCEPT ![w] = p]
      BY <2>3 DEF FindRow, Rows
    <3>3. QED
      BY <2>3, <3>1, <3>2 DEF FindRow
  <2>4. CASE PutRow(w)
    BY <2>4 DEF PutRow
  <2>5. CASE Draw(w)
    BY <2>5 DEF Draw, Value
  <2>6. CASE Leave(w)
    BY <2>6 DEF Leave
  <2>7. QED
    BY <1>2, <2>1, <2>2, <2>3, <2>4, <2>5, <2>6 DEF Step
<1>3. CASE UNCHANGED vars
  BY <1>3 DEF vars
<1>4. QED
  BY <1>1, <1>2, <1>3 DEF Next

\* Locks are taken before any other step and only given up by their holder.
LEMMA LockStep == OneTable /\ TypeOK /\ Locked /\ [Next]_vars => Locked'
<1> SUFFICES ASSUME OneTable, TypeOK, Locked, [Next]_vars PROVE Locked'
  OBVIOUS
<1> USE SequencerAssumption DEF Goto
<1>1. ASSUME NEW w \in Worker, Step(w) PROVE Locked'
  <2>1. CASE Acquire(w)
    BY <2>1 DEF Acquire, TypeOK, Locked, OneTable
  <2>2. CASE Leave(w)
    BY <2>2 DEF Leave, TypeOK, Locked, OneTable
  <2>3. CASE GetBase(w) \/ FindRow(w) \/ PutRow(w) \/ Draw(w)
    BY <2>3 DEF GetBase, FindRow, PutRow, Draw, TypeOK, Locked
  <2>4. QED
    BY <1>1, <2>1, <2>2, <2>3 DEF Step
<1>2. CASE Tick \/ UNCHANGED vars
  BY <1>2 DEF Tick, vars, Locked
<1>3. QED
  BY <1>1, <1>2 DEF Next

\* Each step keeps the rows and the bases as the invariant has them.
LEMMA BoundStep == OneTable /\ IInv /\ [Next]_vars => (OneRow /\ Bounded /\ ClockRuns)'
<1> SUFFICES ASSUME OneTable, IInv, [Next]_vars
             PROVE  OneRow' /\ Bounded' /\ ClockRuns'
  OBVIOUS
<1> USE SequencerAssumption DEF Goto
<1>0. TypeOK /\ TypeOK' /\ Locked /\ OneRow /\ Bounded /\ ClockRuns
  BY TypeStep DEF IInv
<1>1. ASSUME NEW w \in Worker, Step(w) PROVE OneRow' /\ Bounded' /\ ClockRuns'
  <2>0. \A v \in Worker \ {w} : pc[w] # "idle" => pc[v] = "idle"
    BY <1>0, Alone
  <2>1. CASE Acquire(w)
    BY <2>1, <1>0 DEF Acquire, OneRow, Bounded, ClockRuns, Rows, TypeOK
  <2>2. CASE GetBase(w)
    <3>1. Rows' = Rows /\ pref' = pref /\ last' = last /\ target' = target /\ clock' = clock
          /\ counter' = counter
      BY <2>2 DEF GetBase, Rows
    <3>2. (base'[w] = NoBase /\ Rows = {}) \/ \E p \in Rows : base'[w] = pref[p]
      BY <2>2, <1>0 DEF GetBase, Latest, TypeOK
    <3>3. \A v \in Worker \ {w} : pc'[v] = "idle"
      BY <2>0, <2>2, <1>0 DEF GetBase, TypeOK
    <3>4. pc'[w] = "find"
      BY <2>2, <1>0 DEF GetBase, TypeOK
    <3>5. QED
      BY <3>1, <3>2, <3>3, <3>4, <1>0 DEF OneRow, Bounded, ClockRuns
  <2>3. CASE FindRow(w)
    <3>1. Rows' = Rows /\ pref' = pref /\ last' = last /\ clock' = clock /\ counter' = counter
      BY <2>3 DEF FindRow, Rows
    <3>2. \A v \in Worker \ {w} : pc'[v] = "idle"
      BY <2>0, <2>3, <1>0 DEF FindRow, TypeOK
    <3>3. pc'[w] = "put" /\ base'[w] = NextBase(base[w], clock)
      BY <2>3, <1>0 DEF FindRow, TypeOK
    <3>4. \A p \in Rows : target'[w] = p
      BY <2>3, <1>0 DEF FindRow, TypeOK, OneRow
    <3>5. base'[w] > NoBase /\ \A p \in Rows : pref[p] < base'[w]
      <4>1. pc[w] = "find" /\ base[w] \in Nat /\ clock \in Nat /\ clock > 0
        BY <2>3, <1>0 DEF FindRow, TypeOK, ClockRuns
      <4>2. \A p \in Rows : base[w] = pref[p] /\ base[w] # NoBase
        BY <4>1, <1>0 DEF Bounded, OneRow, Rows
      <4>3. base'[w] > base[w] \/ base[w] = NoBase
        BY <4>1, <3>3 DEF NextBase, NoBase
      <4>4. base'[w] > NoBase
        BY <4>1, <3>3 DEF NextBase, NoBase
      <4>5. QED
        BY <4>2, <4>3, <4>4
    <3>6. QED
      BY <3>1, <3>2, <3>3, <3>4, <3>5, <1>0 DEF OneRow, Bounded, ClockRuns
  <2>4. CASE PutRow(w)
    <3>1. /\ last' = last /\ base' = base /\ clock' = clock /\ target' = target
          /\ pref' = [pref EXCEPT ![target[w]] = base[w]]
          /\ base[w] > NoBase /\ base[w] \in Nat /\ target[w] \in Worker
          /\ \A p \in Rows : target[w] = p /\ pref[p] < base[w]
      BY <2>4, <1>0 DEF PutRow, TypeOK, OneRow, Bounded
    <3>2. Rows' = {target[w]} /\ pref'[target[w]] = base[w]
      BY <3>1, <1>0 DEF Rows, TypeOK, NoBase
    <3>3. \A v \in Worker \ {w} : pc'[v] = "idle"
      BY <2>0, <2>4, <1>0 DEF PutRow, TypeOK
    <3>4. pc'[w] = "draw"
      BY <2>4, <1>0 DEF PutRow, TypeOK
    <3>5. \A v \in Worker : last[TableOf[v]].base < base[w]
      <4> TAKE v \in Worker
      <4>1. last[TableOf[v]].base \in Nat
        BY <1>0 DEF TypeOK, Value
      <4>2. CASE last[TableOf[v]].base = NoBase
        BY <4>2, <3>1 DEF NoBase
      <4>3. CASE last[TableOf[v]].base # NoBase
        <5>1. PICK p \in Rows : last[TableOf[v]].base <= pref[p]
          BY <4>3, <1>0 DEF Bounded
        <5>2. pref[p] \in Nat /\ pref[p] < base[w]
          BY <3>1, <1>0 DEF Rows, TypeOK
        <5>3. QED
          BY <4>1, <5>1, <5>2, <3>1
      <4>4. QED
        BY <4>2, <4>3
    <3>6. OneRow'
      BY <3>2, <3>3, <3>4 DEF OneRow
    <3>7. \A v \in Worker : \E p \in Rows' : last'[TableOf[v]].base <= pref'[p]
      <4>1. \A v \in Worker : last[TableOf[v]].base \in Nat
        BY <1>0 DEF TypeOK, Value
      <4>2. \A v \in Worker : last[TableOf[v]].base <= base[w]
        BY <4>1, <3>1, <3>5
      <4>3. QED
        BY <4>2, <3>1, <3>2
    <3>8. base'[w] > NoBase /\ last'[TableOf[w]].base < base'[w]
          /\ \E p \in Rows' : base'[w] = pref'[p]
      BY <3>1, <3>2, <3>5
    <3>9. Bounded'
      BY <3>3, <3>4, <3>7, <3>8 DEF Bounded
    <3>10. QED
      BY <3>6, <3>9, <3>1, <1>0 DEF ClockRuns
  <2>5. CASE Draw(w)
    <3>1. /\ Rows' = Rows /\ pref' = pref /\ target' = target /\ clock' = clock
          /\ base' = base /\ pc' = pc /\ pc[w] = "draw"
      BY <2>5 DEF Draw, Rows
    <3>2. /\ last'[TableOf[w]] = [base |-> base[w], counter |-> counter'[w]]
      BY <2>5, <1>0 DEF Draw, TypeOK
    <3>3. \A v \in Worker : last'[TableOf[v]] = [base |-> base[w], counter |-> counter'[w]]
      BY <3>2 DEF OneTable
    <3>4. base[w] \in Nat /\ base[w] > NoBase /\ \E p \in Rows : base[w] = pref[p]
      BY <3>1, <1>0 DEF Bounded, TypeOK
    <3>5. \A v \in Worker \ {w} : pc[v] = "idle"
      BY <2>0, <3>1
    <3>6. OneRow' /\ ClockRuns'
      BY <3>1, <1>0 DEF OneRow, ClockRuns
    <3>7. \A v \in Worker : \E p \in Rows : last'[TableOf[v]].base <= pref[p]
      BY <3>3, <3>4
    <3>8. Bounded'
      BY <3>1, <3>3, <3>4, <3>5, <3>7 DEF Bounded
    <3>9. QED
      BY <3>6, <3>8
  <2>6. CASE Leave(w)
    BY <2>6, <1>0 DEF Leave, OneRow, Bounded, ClockRuns, Rows, TypeOK
  <2>7. QED
    BY <1>1, <2>1, <2>2, <2>3, <2>4, <2>5, <2>6 DEF Step
<1>2. CASE Tick
  <2>1. clock' > 0
    BY <1>2 DEF Tick
  <2>2. QED
    BY <1>2, <2>1, <1>0 DEF Tick, OneRow, Bounded, ClockRuns, Rows
<1>3. CASE UNCHANGED vars
  BY <1>3, <1>0 DEF vars, OneRow, Bounded, ClockRuns, Rows
<1>4. QED
  BY <1>1, <1>2, <1>3 DEF Next

\* A draw under the invariant is greater than the last one.
LEMMA DrawIncreases ==
  ASSUME IInv, NEW w \in Worker, Draw(w)
  PROVE  Less(last[TableOf[w]], last'[TableOf[w]])
<1>1. /\ last'[TableOf[w]] = [base |-> base[w], counter |-> counter[w] + 1]
      /\ counter[w] \in Nat /\ base[w] \in Nat
  BY SequencerAssumption DEF IInv, Draw, TypeOK
<1>2. \/ last[TableOf[w]].base < base[w]
      \/ last[TableOf[w]] = [base |-> base[w], counter |-> counter[w]]
  BY DEF IInv, Bounded, Draw
<1>3. QED
  BY <1>1, <1>2 DEF Less

(* The variables keep their types, with however many tables.                *)
THEOREM TypeCorrect == Spec => []TypeOK
<1>1. Init => TypeOK
  BY InitIInv DEF IInv
<1>2. TypeOK /\ [Next]_vars => TypeOK'
  BY TypeStep
<1>3. QED
  BY <1>1, <1>2, PTL DEF Spec

(* With one table the invariant holds for ever.                             *)
THEOREM Inductive == OneTable => (Spec => []IInv)
<1> SUFFICES ASSUME OneTable PROVE Spec => []IInv
  OBVIOUS
<1>1. IInv /\ [Next]_vars => IInv'
  BY TypeStep, LockStep, BoundStep DEF IInv
<1>2. QED
  BY <1>1, InitIInv, PTL DEF Spec

(* When the workers serve one table, the sequence values it is given increase *)
(* strictly, whatever the clock does and whichever operations fail.           *)
THEOREM Increase == OneTable => (Spec => SequencesIncrease)
<1> SUFFICES ASSUME OneTable PROVE Spec => SequencesIncrease
  OBVIOUS
<1>1. IInv /\ [Next]_vars =>
        [\A w \in Worker : Draw(w) => Less(last[TableOf[w]], last'[TableOf[w]])]_vars
  BY DrawIncreases
<1>2. QED
  BY <1>1, Inductive, PTL DEF Spec, SequencesIncrease
=============================================================================
