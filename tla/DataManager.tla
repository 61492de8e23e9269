----------------------------- MODULE DataManager -----------------------------
(***************************************************************************)
(* The rows of one ODK Tables table and the change log beside them, as     *)
(* DataManager keeps them in Postgres.  No database transaction spans an   *)
(* operation: each put or delete commits by itself, so an operation is a   *)
(* sequence of steps that may stop anywhere.  Atomicity is rebuilt from    *)
(* the pending data ETag in the table's entry and from the log, which is   *)
(* written first: the next operation to get the table's lock undoes what   *)
(* the log holds under the pending ETag (revertPendingChanges).            *)
(*                                                                         *)
(* Row ETags, data ETags (both UUIDs) and sequence values are tickets: one *)
(* number drawn when the code draws one.  That sequence values of a table  *)
(* grow in the order they are drawn under its lock is module Sequencer's   *)
(* concern.  The lock is module TaskLock's: here it is held by one request *)
(* at a time, unless LeaseMayExpire.  A crash is a step that fails (Fail): *)
(* the lock then frees itself when its lease ends.                         *)
(***************************************************************************)
EXTENDS Integers, Sequences, FiniteSets

CONSTANTS
  Request,         \* handlers at work on the table
  RowId, Value,
  Null,            \* no ETag
  Foreign,         \* a row ETag this table never issued
  TrustClients,    \* do rows always come without a row ETag or with their own?
  DistinctRows,    \* does a RowList name every row once?
  ReadsMayFail,    \* may a failed getEntity or query be taken for "not found"?
  LeaseMayExpire,  \* may the lock's lease end while its holder works?
  MaxChanges,      \* bound on the rows of one RowList
  MaxTicket,       \* bound on the tickets drawn
  MaxFailures      \* bound on the operations that fail

NoValue == "no value"
NoHolder == "nobody"

ASSUME DataManagerAssumption ==
  /\ {TrustClients, DistinctRows, ReadsMayFail, LeaseMayExpire} \subseteq BOOLEAN
  /\ {MaxChanges, MaxTicket, MaxFailures} \subseteq Nat
  /\ Null = 0 /\ Foreign = -1
  /\ NoHolder \notin Request

VARIABLES
  entry,     \* DbTableEntry: data ETag and pending data ETag
  row,       \* DbTable: the current version of each row
  log,       \* DbLogTable: a record per version, its row ETag the key
  holder,    \* the request that holds the table's lock
  job,       \* what each request is doing
  ticket,    \* the last ticket drawn
  failures   \* operations that failed so far

vars == <<entry, row, log, holder, job, ticket, failures>>

Ticket == 1 .. MaxTicket
ETag == Ticket \cup {Null}
Entry == [data : ETag, pending : ETag]
RowVersion == [etag : ETag, data : ETag, deleted : BOOLEAN,
               value : Value \cup {NoValue}]
LogEntry == [etag : Ticket, seq : Ticket, row : RowId, prev : ETag \cup {Foreign},
             data : Ticket, deleted : BOOLEAN, value : Value \cup {NoValue}]
Change == [row : RowId, base : ETag \cup {Foreign}, deleted : BOOLEAN, value : Value]

NoRow == [etag |-> Null, data |-> Null, deleted |-> FALSE,
          value |-> NoValue]
Exists(v) == v.etag # Null

(* A job: the operation, where it is, its copy of the entry, what a client   *)
(* sent, the log entries left to revert, and the writes left to do.          *)
IdleJob == [op |-> "none", pc |-> "idle", copy |-> [data |-> Null, pending |-> Null],
            changes |-> <<>>, todo |-> {}, logs |-> {}, puts |-> {}]

Init ==
  /\ entry = [data |-> Null, pending |-> Null]
  /\ row = [i \in RowId |-> NoRow]
  /\ log = {}
  /\ holder = NoHolder
  /\ job = [r \in Request |-> IdleJob]
  /\ ticket = 0
  /\ failures = 0

At(r, pc) == job[r].pc = pc
Set(r, j) == job' = [job EXCEPT ![r] = j]
Goto(r, pc) == job' = [job EXCEPT ![r].pc = pc]

Logged(t) == {e \in log : e.etag = t}
EntriesOf(d) == {e \in log : e.data = d}

-----------------------------------------------------------------------------
(* Taking the lock, with the operation and its input.                        *)

\* The row ETags a client may send for row i: none, or that of a version it was
\* served; and unless clients are trusted any text at all, the ETags of other
\* rows and of change sets included.
ClientETags(i) ==
  {Null} \cup {e.etag : e \in {f \in log : f.row = i /\ f.data # entry.pending}}
         \cup (IF TrustClients THEN {} ELSE {Foreign} \cup 1 .. ticket)

Changes(i) ==
  {c \in [row : {i}, base : ClientETags(i), deleted : BOOLEAN, value : Value] :
     c.deleted => c.value = CHOOSE v \in Value : TRUE}

RowLists ==
  {s \in UNION {[1 .. n -> UNION {Changes(i) : i \in RowId}] : n \in 1 .. MaxChanges} :
     DistinctRows => \A m, n \in DOMAIN s : s[m].row = s[n].row => m = n}

Enter(r, op, changes) ==
  Set(r, [IdleJob EXCEPT !.op = op, !.pc = "entry", !.changes = changes])

Acquire(r) ==
  /\ At(r, "idle") /\ holder = NoHolder
  /\ holder' = r
  /\ \/ Enter(r, "read", <<>>)
     \/ /\ ticket + 1 + MaxChanges <= MaxTicket
        /\ \/ \E s \in RowLists : Enter(r, "bulk", s)
           \/ \E i \in RowId : \E c \in Changes(i) :
                Enter(r, IF c.deleted THEN "delete" ELSE "upsert", <<c>>)
  /\ UNCHANGED <<entry, row, log, ticket, failures>>

\* insertOrUpdateRows is refused when its RowList has another data ETag than
\* the table; a list that carries the right one goes on.
ReadEntry(r) ==
  /\ At(r, "entry")
  /\ \/ Set(r, [job[r] EXCEPT !.pc = "query", !.copy = entry])
     \/ job[r].op = "bulk" /\ Goto(r, "release")
  /\ UNCHANGED <<entry, row, log, holder, ticket, failures>>

-----------------------------------------------------------------------------
(* revertPendingChanges.                                                     *)

AfterRevert(r) == IF job[r].op = "read" THEN "serve" ELSE "mark"

\* Faults: pending changes are left alone; only one of the entries is undone.
NothingToRevert(d) == {}
FirstToRevert(d) == {e \in EntriesOf(d) : \A f \in EntriesOf(d) : e.seq <= f.seq}

\* The log entries of the pending data ETag, if the entry has one.
ToRevert(d) == IF d = Null THEN {} ELSE EntriesOf(d)

\* What the query for them answers: when it fails, an empty list.
Found(d) == {ToRevert(d)} \cup (IF ReadsMayFail THEN {{}} ELSE {})

FindPending(r) ==
  /\ At(r, "query")
  /\ \E found \in Found(job[r].copy.pending) :
       Set(r, [job[r] EXCEPT !.todo = found,
                 !.pc = IF found = {} THEN AfterRevert(r) ELSE "revert"])
  /\ UNCHANGED <<entry, row, log, holder, ticket, failures>>

\* A version restored from the log.
FromLog(e) == [etag |-> e.etag, data |-> e.data, deleted |-> e.deleted,
               value |-> e.value]

\* Fault: the row is reset to what the entry itself holds.
SameEntry(e) == {e}

\* The log entry of the version that e replaced.
Prior(e) == Logged(e.prev)

\* Undo one entry: a row that did not exist before is deleted, another one is
\* put back to the version its previous row ETag names.
RestoreRow(r) ==
  /\ At(r, "revert")
  /\ \E e \in job[r].todo :
       /\ Set(r, [job[r] EXCEPT !.pc = "unlog", !.logs = {e}])
       /\ \/ /\ e.prev = Null
             /\ row' = [row EXCEPT ![e.row] = NoRow]
          \/ /\ e.prev = Null /\ ReadsMayFail  \* taken for "it was never created"
             /\ row' = row
          \/ /\ e.prev # Null /\ Exists(row[e.row])
             /\ \E p \in Prior(e) : row' = [row EXCEPT ![e.row] = FromLog(p)]
  /\ UNCHANGED <<entry, log, holder, ticket, failures>>

\* The row or its prior version is missing: the exception ends the operation.
RevertThrows(r) ==
  /\ At(r, "revert")
  /\ \E e \in job[r].todo :
       /\ e.prev # Null
       /\ ~ Exists(row[e.row]) \/ Prior(e) = {}
  /\ Goto(r, "release")
  /\ UNCHANGED <<entry, row, log, holder, ticket, failures>>

\* Remove the log entry of the row just restored.
DropEntry(r) ==
  /\ At(r, "unlog")
  /\ LET left == job[r].todo \ job[r].logs
     IN  /\ log' = log \ job[r].logs
         /\ Set(r, [job[r] EXCEPT !.todo = left, !.logs = {},
                      !.pc = IF left = {} THEN AfterRevert(r) ELSE "revert"])
  /\ UNCHANGED <<entry, row, holder, ticket, failures>>

-----------------------------------------------------------------------------
(* insertOrUpdateRows, insertOrUpdateRow and deleteRow, after the revert.    *)

\* Fault: the row ETag is not compared.
AcceptedBlindly(c, v) == Exists(v) \/ ~ c.deleted

\* May the change be applied to version v of its row?  A row that is not there
\* can be created but not deleted, another needs the ETag of its version.
Accepted(c, v) == IF Exists(v) THEN c.base = v.etag ELSE ~ c.deleted

\* Fault: a delete keeps the row ETag.
ReviseInPlace(c, v, t, tag) ==
  IF c.deleted
  THEN [v EXCEPT !.deleted = TRUE]
  ELSE [etag |-> t, data |-> tag, deleted |-> FALSE, value |-> c.value]

\* The new version: a delete only sets ROW_ETAG and DELETED.
Revise(c, v, t, tag) ==
  IF c.deleted
  THEN [v EXCEPT !.etag = t, !.deleted = TRUE]
  ELSE [etag |-> t, data |-> tag, deleted |-> FALSE, value |-> c.value]

\* Fault: the data ETag of the row is taken for its row ETag.
PreviousDataETag(c, v) == v.data

\* The ETag the log chains the new version to: the row's for a delete, else the
\* one the client sent.
PreviousETag(c, v) == IF c.deleted THEN v.etag ELSE c.base

\* Faults: the two row ETags are swapped; the previous one is read after the
\* row has its new one.
NewLogEntrySwapped(i, v, prev, tag) ==
  [etag |-> prev, seq |-> v.etag, row |-> i, prev |-> v.etag, data |-> tag,
   deleted |-> v.deleted, value |-> v.value]
NewLogEntryLate(i, v, prev, tag) ==
  [etag |-> v.etag, seq |-> v.etag, row |-> i, prev |-> v.etag, data |-> tag,
   deleted |-> v.deleted, value |-> v.value]

\* newLogEntity, the row ETag the key.
NewLogEntry(i, v, prev, tag) ==
  [etag |-> v.etag, seq |-> v.etag, row |-> i, prev |-> prev, data |-> tag,
   deleted |-> v.deleted, value |-> v.value]

\* The rows as the operation reads them: a failed read finds nothing.
Readings ==
  {row} \cup (IF ReadsMayFail THEN {[row EXCEPT ![i] = NoRow] : i \in RowId} ELSE {})

\* The changes of r that can be applied to the rows as seen.
Applicable(r, seen) ==
  {k \in DOMAIN job[r].changes :
     Accepted(job[r].changes[k], seen[job[r].changes[k].row])}

\* Mark the table's entry with a new pending data ETag, draw the row ETags and
\* sequence values, and prepare the log entries and the rows to write.
MarkPending(r, seen) ==
  LET tag == ticket + 1
      c == job[r].changes
      ok == Applicable(r, seen)
      Version(k) == Revise(c[k], seen[c[k].row], tag + k, tag)
  IN  /\ tag + Len(c) <= MaxTicket
      /\ entry' = [job[r].copy EXCEPT !.pending = tag]
      /\ ticket' = tag + Len(c)
      /\ Set(r, [job[r] EXCEPT
           !.pc = "log", !.copy = entry',
           !.logs = {NewLogEntry(c[k].row, Version(k),
                       PreviousETag(c[k], seen[c[k].row]), tag) : k \in ok},
           !.puts = {[row |-> c[k].row, version |-> Version(k),
                      insert |-> ~ Exists(seen[c[k].row])] : k \in ok}])

\* insertOrUpdateRows marks the entry first, even if it then refuses every row.
MarkBulk(r) ==
  /\ At(r, "mark") /\ job[r].op = "bulk"
  /\ \E seen \in Readings : MarkPending(r, seen)
  /\ UNCHANGED <<row, log, holder, failures>>

\* insertOrUpdateRow and deleteRow mark it once the row is found acceptable, ...
MarkOne(r) ==
  /\ At(r, "mark") /\ job[r].op \in {"upsert", "delete"}
  /\ \E seen \in Readings : Applicable(r, seen) # {} /\ MarkPending(r, seen)
  /\ UNCHANGED <<row, log, holder, failures>>

\* ... and end in an exception (or the row as it is) if it is not.
Refuse(r) ==
  /\ At(r, "mark") /\ job[r].op \in {"upsert", "delete"}
  /\ \E seen \in Readings : Applicable(r, seen) = {}
  /\ Goto(r, "release")
  /\ UNCHANGED <<entry, row, log, holder, ticket, failures>>

\* The log entries are committed first, in the order of the list, ...
PutLog(r) ==
  /\ At(r, "log")
  /\ \/ /\ job[r].logs = {}
        /\ Goto(r, "rows") /\ UNCHANGED log
     \/ \E e \in job[r].logs :
          /\ \A f \in job[r].logs : e.seq <= f.seq
          /\ log' = log \cup {e}
          /\ Set(r, [job[r] EXCEPT !.logs = @ \ {e}])
  /\ UNCHANGED <<entry, row, holder, ticket, failures>>

\* Updates are written before inserts, each group in the order of the list.
Precedes(p, q) ==
  IF p.insert = q.insert THEN p.version.etag <= q.version.etag ELSE q.insert

\* ... then the rows.  An UPDATE of a row that is gone changes nothing, an
\* INSERT of one that is there throws.
PutRow(r) ==
  /\ At(r, "rows")
  /\ \E p \in job[r].puts :
       /\ \A q \in job[r].puts : Precedes(p, q)
       /\ IF p.insert /\ Exists(row[p.row])
          THEN Goto(r, "release") /\ UNCHANGED row
          ELSE /\ row' = [row EXCEPT ![p.row] =
                            IF p.insert \/ Exists(@) THEN p.version ELSE @]
               /\ Set(r, [job[r] EXCEPT !.puts = @ \ {p}])
  /\ UNCHANGED <<entry, log, holder, ticket, failures>>

\* The change is committed by the entry: the pending data ETag becomes the
\* table's.
Commit(r) ==
  /\ At(r, "rows") /\ job[r].puts = {}
  /\ entry' = [data |-> job[r].copy.pending, pending |-> Null]
  /\ Goto(r, "release")
  /\ UNCHANGED <<row, log, holder, ticket, failures>>

-----------------------------------------------------------------------------
(* Reads, failures, and the lock.                                            *)

\* A read answers from what the revert has left.
Serve(r) ==
  /\ At(r, "serve")
  /\ Goto(r, "release")
  /\ UNCHANGED <<entry, row, log, holder, ticket, failures>>

Working == {"entry", "query", "revert", "unlog", "mark", "log", "rows", "serve"}

\* Any call to the database may throw, and the server may die.
Fail(r) ==
  /\ job[r].pc \in Working /\ failures < MaxFailures
  /\ failures' = failures + 1
  /\ Goto(r, "release")
  /\ UNCHANGED <<entry, row, log, holder, ticket>>

\* The finally block; a lock that was lost to another request stays theirs.
Release(r) ==
  /\ At(r, "release")
  /\ holder' = IF holder = r THEN NoHolder ELSE holder
  /\ Set(r, IdleJob)
  /\ UNCHANGED <<entry, row, log, ticket, failures>>

LeaseEnds ==
  /\ LeaseMayExpire /\ holder # NoHolder
  /\ holder' = NoHolder
  /\ UNCHANGED <<entry, row, log, job, ticket, failures>>

Step(r) ==
  \/ Acquire(r) \/ ReadEntry(r) \/ FindPending(r) \/ RestoreRow(r)
  \/ RevertThrows(r) \/ DropEntry(r) \/ MarkBulk(r) \/ MarkOne(r) \/ Refuse(r)
  \/ PutLog(r) \/ PutRow(r) \/ Commit(r) \/ Serve(r) \/ Fail(r) \/ Release(r)

Next == LeaseEnds \/ \E r \in Request : Step(r)

Spec == Init /\ [][Next]_vars

-----------------------------------------------------------------------------
(* What the rows are, were and will be.                                      *)

\* What clients are shown of a version.
Shown(v) == [etag |-> v.etag, deleted |-> v.deleted, value |-> v.value]

\* The committed version of row i: what undoing the log entries of the pending
\* data ETag would leave.
Pending(i) == {e \in EntriesOf(entry.pending) : e.row = i}
Committed(i) ==
  IF Pending(i) = {} THEN Shown(row[i])
  ELSE LET e == CHOOSE e \in Pending(i) : \A f \in Pending(i) : e.seq <= f.seq
       IN  IF e.prev = Null THEN Shown(NoRow)
           ELSE LET p == CHOOSE p \in log : p.etag = e.prev IN Shown(FromLog(p))

Table == INSTANCE RowTable WITH
           rows <- [i \in RowId |-> Committed(i)], tag <- entry.data,
           Absent <- Shown(NoRow)

(* Operations are atomic: the committed rows and the table's data ETag change *)
(* together, by whole change sets, and neither a failure between two writes,  *)
(* nor the revert, nor the operation that follows ever shows half of one.     *)
AtomicChangeSets == Table!Spec

TypeOK ==
  /\ entry \in Entry
  /\ row \in [RowId -> RowVersion]
  /\ log \subseteq LogEntry
  /\ holder \in Request \cup {NoHolder}
  /\ ticket \in 0 .. MaxTicket /\ failures \in 0 .. MaxFailures
  /\ \A r \in Request :
       /\ job[r].pc \in Working \cup {"idle", "release"}
       /\ job[r].copy \in Entry
       /\ job[r].todo \cup job[r].logs \subseteq LogEntry

(* Every version in the table is in the log, under its row ETag and with its  *)
(* content: DbLogTable's key is the row ETag of the row "who's state matches  *)
(* this log entry", and the next revert of that row relies on it.             *)
RowsAreLogged ==
  \A i \in RowId : Exists(row[i]) =>
    \E e \in log : e.row = i /\ Shown(FromLog(e)) = Shown(row[i])

(* A revert never throws: when the log names a previous version of a row that *)
(* is pending, the row and that version exist (DataManager.java:195-199).     *)
Revertible ==
  \A e \in EntriesOf(entry.pending) :
    e.prev = Null \/ (Exists(row[e.row]) /\ Logged(e.prev) # {})

(* The log chains the revisions of a row: every entry but the first names an  *)
(* earlier entry of its row, and no two entries name the same one, so no      *)
(* accepted change was made to a version other than the one it replaced.      *)
LinearHistory ==
  \A e \in log :
    /\ e.prev # Null => \E p \in log : p.etag = e.prev /\ p.row = e.row /\ p.seq < e.seq
    /\ \A f \in log : e.row = f.row /\ e.prev = f.prev => e = f

(* Walking the previous row ETags of the log always goes back in time, so it  *)
(* ends: whoever wrote them, and whether or not its lock had been lost        *)
(* meanwhile.  It stays within one row as long as clients send the row ETags  *)
(* of that row; what else they send with a new row is logged unchecked.       *)
ChainsGoBack ==
  \A e, p \in log : e.prev = p.etag =>
    p.seq < e.seq /\ (TrustClients => p.row = e.row)

(* A row ETag stands for one version wherever it is found, so a client whose  *)
(* row ETag matches has the content that the server has; and for a version of *)
(* one row, as long as clients send the row ETags of that row.                *)
ETagsNameVersions ==
  \A e \in log :
    /\ \A f \in log : e.etag = f.etag => e = f
    /\ \A i \in RowId : row[i].etag = e.etag =>
         Shown(row[i]) = Shown(FromLog(e)) /\ (TrustClients => e.row = i)

-----------------------------------------------------------------------------
(* What a client pulls: getRowsSince and getChangeSetRows.                   *)

\* The log entries after data ETag d: after the last entry of d, or all of them
\* when the log has none (buildRowsFromBeginningQuery).
Since(d) == {e \in log : \A f \in EntriesOf(d) : f.seq < e.seq}

\* Fault: the first entry of each row is kept.
DiffOfFirst(E) == {e \in E : \A f \in E : f.row = e.row => e.seq <= f.seq}

\* computeDiff: the last of the entries of each row.
Diff(E) == {e \in E : \A f \in E : f.row = e.row => f.seq <= e.seq}

\* The rows w of a client after it has taken the diff since d.
Pull(w, d) ==
  [i \in RowId |-> IF \E e \in Diff(Since(d)) : e.row = i
                   THEN Shown(FromLog(CHOOSE e \in Diff(Since(d)) : e.row = i))
                   ELSE w[i]]

\* The rows a client held when d was the table's data ETag: for each row the
\* last version of the change sets up to d.
RowsAt(d) ==
  LET upTo == {e \in log : e.data <= d}
  IN  [i \in RowId |-> IF \E e \in upTo : e.row = i
                       THEN Shown(FromLog(CHOOSE e \in Diff(upTo) : e.row = i))
                       ELSE Shown(NoRow)]

Current == [i \in RowId |-> Shown(row[i])]

Serving == \E r \in Request : At(r, "serve") /\ holder = r

(* A read never shows a change that was not committed: what it is served from *)
(* holds nothing of the pending change set, in the log or in the rows.        *)
ReadsSeeNothingPending ==
  Serving =>
    /\ EntriesOf(entry.pending) = {}
    /\ \A i \in RowId : row[i].data # Null => row[i].data <= entry.data

(* A client that pulls from nothing, or from any data ETag the table has had, *)
(* ends with exactly the rows of the table.                                   *)
PullsConverge ==
  Serving =>
    /\ Pull([i \in RowId |-> Shown(NoRow)], Null) = Current
    /\ \A d \in {e.data : e \in log} : Pull(RowsAt(d), d) = Current
=============================================================================
