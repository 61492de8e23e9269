------------------------------ MODULE Sequencer ------------------------------
(***************************************************************************)
(* The sequence values that order the entries of every table's log.  An    *)
(* operation that holds its table's lock draws a base from a preference    *)
(* that all tables share (unsafeIncOdkTablesSequencerBase) and numbers its *)
(* log entries below it.  Reading, looking up and writing the preference   *)
(* are three statements without a transaction, and the locks of two tables *)
(* do not exclude each other.                                              *)
(*                                                                         *)
(* A base is an ISO 8601 time in GMT to the millisecond, compared as text: *)
(* a number here.  A sequence value is the base, a dot and the counter     *)
(* padded to ten digits: the pair, in lexicographic order.                 *)
(***************************************************************************)
EXTENDS Integers

CONSTANTS
  Table,
  Worker,          \* server threads, each serving one table
  TableOf,
  ClockMayGoBack,  \* may the server's clock be set back, or servers disagree?
  MaxTime,         \* bound on the clock
  MaxBase,         \* bound on the bases
  MaxCount         \* bound on the entries of one operation

NoBase == 0
Nobody == "nobody"

ASSUME SequencerAssumption ==
  /\ TableOf \in [Worker -> Table]
  /\ ClockMayGoBack \in BOOLEAN
  /\ MaxTime \in Nat /\ MaxBase \in Nat /\ MaxCount \in Nat
  /\ Nobody \notin Worker

VARIABLES
  clock,    \* System.currentTimeMillis()
  pref,     \* VALUE of the preference row each worker has inserted, or NoBase
  updated,  \* LAST_UPDATE_DATE of that row
  holder,   \* who holds the lock of each table
  pc,       \* where each worker is
  base,     \* the base it has read, then the one it has drawn
  target,   \* the preference row it will write
  counter,  \* Sequencer.counter
  last      \* the last sequence value drawn for each table

vars == <<clock, pref, updated, holder, pc, base, target, counter, last>>

Value == [base : Nat, counter : Nat]

TypeOK ==
  /\ clock \in Nat
  /\ pref \in [Worker -> Nat]
  /\ updated \in [Worker -> Nat]
  /\ holder \in [Table -> Worker \cup {Nobody}]
  /\ pc \in [Worker -> {"idle", "get", "find", "put", "draw"}]
  /\ base \in [Worker -> Nat]
  /\ target \in [Worker -> Worker]
  /\ counter \in [Worker -> Nat]
  /\ last \in [Table -> Value]

Init ==
  /\ clock = 1
  /\ pref = [w \in Worker |-> NoBase]
  /\ updated = [w \in Worker |-> 0]
  /\ holder = [t \in Table |-> Nobody]
  /\ pc = [w \in Worker |-> "idle"]
  /\ base = [w \in Worker |-> NoBase]
  /\ target = [w \in Worker |-> w]
  /\ counter = [w \in Worker |-> 0]
  /\ last = [t \in Table |-> [base |-> NoBase, counter |-> 0]]

Goto(w, stage) == pc' = [pc EXCEPT ![w] = stage]

Rows == {p \in Worker : pref[p] # NoBase}
Latest == {p \in Rows : \A q \in Rows : updated[q] <= updated[p]}

\* The operation gets its table's lock and creates its Sequencer.
Acquire(w) ==
  /\ pc[w] = "idle" /\ holder[TableOf[w]] = Nobody
  /\ holder' = [holder EXCEPT ![TableOf[w]] = w]
  /\ Goto(w, "get")
  /\ UNCHANGED <<clock, pref, updated, base, target, counter, last>>

\* getServerPreferencesProperty: the most recently updated row, if any.
GetBase(w) ==
  /\ pc[w] = "get"
  /\ \E saved \in IF Rows = {} THEN {NoBase} ELSE {pref[p] : p \in Latest} :
       base' = [base EXCEPT ![w] = saved]
  /\ Goto(w, "find")
  /\ UNCHANGED <<clock, pref, updated, holder, target, counter, last>>

\* Fault: a base saved in this very millisecond is drawn again.
NextBaseStrictly(saved, time) ==
  IF saved # NoBase /\ saved > time THEN saved + 1 ELSE time

\* The current time, or a millisecond more than a saved base that is not less.
NextBase(saved, time) ==
  IF saved # NoBase /\ saved >= time THEN saved + 1 ELSE time

\* The new base is computed; setServerPreferencesProperty looks for a row to
\* write, in no order, and will insert one if there is none.
FindRow(w) ==
  /\ pc[w] = "find"
  /\ NextBase(base[w], clock) <= MaxBase
  /\ base' = [base EXCEPT ![w] = NextBase(@, clock)]
  /\ \E p \in IF Rows = {} THEN {w} ELSE Rows : target' = [target EXCEPT ![w] = p]
  /\ Goto(w, "put")
  /\ UNCHANGED <<clock, pref, updated, holder, counter, last>>

\* The row is written and the Sequencer starts counting.
PutRow(w) ==
  /\ pc[w] = "put"
  /\ pref' = [pref EXCEPT ![target[w]] = base[w]]
  /\ updated' = [updated EXCEPT ![target[w]] = clock]
  /\ counter' = [counter EXCEPT ![w] = 0]
  /\ Goto(w, "draw")
  /\ UNCHANGED <<clock, holder, base, target, last>>

\* getNextSequenceValue
Draw(w) ==
  /\ pc[w] = "draw" /\ counter[w] < MaxCount
  /\ counter' = [counter EXCEPT ![w] = @ + 1]
  /\ last' = [last EXCEPT ![TableOf[w]] = [base |-> base[w], counter |-> counter'[w]]]
  /\ UNCHANGED <<clock, pref, updated, holder, pc, base, target>>

\* The operation is over, or fails anywhere, and its lock is free again.
Leave(w) ==
  /\ pc[w] # "idle"
  /\ holder' = [holder EXCEPT ![TableOf[w]] = Nobody]
  /\ Goto(w, "idle")
  /\ UNCHANGED <<clock, pref, updated, base, target, counter, last>>

Tick ==
  /\ clock' \in 1 .. MaxTime
  /\ clock' = clock + 1 \/ (ClockMayGoBack /\ clock' < clock)
  /\ UNCHANGED <<pref, updated, holder, pc, base, target, counter, last>>

Step(w) ==
  \/ Acquire(w) \/ GetBase(w) \/ FindRow(w) \/ PutRow(w) \/ Draw(w) \/ Leave(w)

Next == Tick \/ \E w \in Worker : Step(w)

Spec == Init /\ [][Next]_vars

-----------------------------------------------------------------------------
Less(u, v) == u.base < v.base \/ (u.base = v.base /\ u.counter < v.counter)

(* Sequence values order the log of a table as its operations happened: each  *)
(* one drawn is greater than all drawn before it for that table, whatever the *)
(* clock does and wherever operations fail.  DataManager takes the entries    *)
(* after a client's last one to be those with greater values.                 *)
SequencesIncrease ==
  [][\A w \in Worker :
       Draw(w) => Less(last[TableOf[w]], last'[TableOf[w]])]_vars
=============================================================================
