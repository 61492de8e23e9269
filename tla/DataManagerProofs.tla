-------------------------- MODULE DataManagerProofs --------------------------
(***************************************************************************)
(* What holds of the rows and the log of a table whatever goes wrong: when *)
(* leases end under their holders, reads fail and are taken for answers,   *)
(* clients send row ETags the table never issued, and lists name a row     *)
(* twice.  Tickets are never drawn again, so what a ticket was drawn for   *)
(* is fixed once and for all (Dictionary).                                 *)
(***************************************************************************)
EXTENDS DataManager, WellFoundedInduction, TLAPS

Op == {"none", "read", "bulk", "upsert", "delete"}
PutOf == [row : RowId, version : RowVersion, insert : BOOLEAN]
Job == [op : Op, pc : Working \cup {"idle", "release"}, copy : Entry, changes : Seq(Change),
        todo : SUBSET LogEntry, logs : SUBSET LogEntry, puts : SUBSET PutOf]

\* The types of everything a job holds.
Types ==
  /\ TypeOK
  /\ job \in [Request -> Job]

-----------------------------------------------------------------------------
(* Types.                                                                    *)

LEMMA Numbers ==
  /\ Null = 0 /\ Foreign = -1 /\ MaxTicket \in Nat
  /\ Ticket = ETag \ {0} /\ ETag = Ticket \cup {0}
  /\ \A t \in Ticket : t \in Nat /\ t > 0 /\ t <= MaxTicket
  /\ \A t \in ETag : t \in Nat /\ t <= MaxTicket
  /\ Types => ticket \in Nat /\ ticket <= MaxTicket
<1>1. Null = 0 /\ Foreign = -1 /\ MaxTicket \in Nat
  BY DataManagerAssumption
<1>2. Types => ticket \in Nat /\ ticket <= MaxTicket
  BY <1>1 DEF Types, TypeOK
<1> QED
  BY <1>1, <1>2 DEF Ticket, ETag

LEMMA Later ==
  ASSUME NEW t \in Nat, NEW n \in Nat
  PROVE  /\ t <= t + 1 + n
         /\ t + 1 <= t + 1 + n
         /\ \A b \in Int, k \in Nat : b <= t => b <= t + 1 + n /\ b < t + 1 + k
  OBVIOUS

LEMMA IdleJobType == IdleJob \in Job
  BY DataManagerAssumption DEF IdleJob, Job, Op, Entry, ETag

LEMMA NoRowType == NoRow \in RowVersion /\ Null \in ETag
  BY DEF NoRow, RowVersion, ETag

LEMMA InitTypes == Init => Types
<1> SUFFICES ASSUME Init PROVE Types
  OBVIOUS
<1>1. job \in [Request -> Job] /\ \A r \in Request : job[r] = IdleJob
  BY IdleJobType DEF Init
<1>2. ticket \in 0 .. MaxTicket /\ failures \in 0 .. MaxFailures
  BY DataManagerAssumption DEF Init
<1>3. row \in [RowId -> RowVersion] /\ entry \in Entry /\ log \subseteq LogEntry
      /\ holder \in Request \cup {NoHolder}
  BY NoRowType DEF Init, Entry
<1>4. \A r \in Request : /\ job[r].pc \in Working \cup {"idle", "release"}
                          /\ job[r].copy \in Entry
                          /\ job[r].todo \cup job[r].logs \subseteq LogEntry
  BY <1>1, NoRowType DEF IdleJob, Entry
<1> QED
  BY <1>1, <1>2, <1>3, <1>4 DEF Types, TypeOK

\* A job is replaced as a whole, ...
LEMMA SetJob ==
  ASSUME Types, NEW r \in Request, NEW j \in Job, Set(r, j)
  PROVE  /\ job' \in [Request -> Job]
         /\ job'[r] = j
         /\ \A v \in Request \ {r} : job'[v] = job[v]
  BY DEF Set, Types

\* ... or goes to another place.
LEMMA GotoJob ==
  ASSUME Types, NEW r \in Request, NEW pc \in Working \cup {"idle", "release"}, Goto(r, pc)
  PROVE  /\ job' \in [Request -> Job]
         /\ job'[r] = [job[r] EXCEPT !.pc = pc]
         /\ \A v \in Request \ {r} : job'[v] = job[v]
  BY DEF Goto, Types, Job

LEMMA JobFields ==
  ASSUME Types, NEW r \in Request
  PROVE  /\ job[r] \in Job
         /\ job[r].op \in Op
         /\ job[r].pc \in Working \cup {"idle", "release"}
         /\ job[r].copy \in Entry
         /\ job[r].changes \in Seq(Change)
         /\ job[r].todo \subseteq LogEntry
         /\ job[r].logs \subseteq LogEntry
         /\ job[r].puts \subseteq PutOf
  BY DEF Types, Job

LEMMA ChangesType ==
  ASSUME Types, NEW i \in RowId
  PROVE  Changes(i) \subseteq Change
<1>1. 1 .. ticket \subseteq ETag
  BY Numbers DEF ETag, Ticket
<1>2. \A e \in log : e.etag \in ETag
  BY DEF Types, TypeOK, LogEntry, ETag
<1>3. ClientETags(i) \subseteq ETag \cup {Foreign}
  BY <1>1, <1>2 DEF ClientETags, ETag
<1> QED
  BY <1>3 DEF Changes, Change

LEMMA RowListsType ==
  ASSUME Types
  PROVE  RowLists \subseteq Seq(Change)
<1> SUFFICES ASSUME NEW s \in RowLists PROVE s \in Seq(Change)
  OBVIOUS
<1>1. PICK n \in 1 .. MaxChanges : s \in [1 .. n -> UNION {Changes(i) : i \in RowId}]
  BY DEF RowLists
<1>2. s \in [1 .. n -> Change]
  BY <1>1, ChangesType
<1> QED
  BY <1>2, DataManagerAssumption

LEMMA ReadingsType ==
  ASSUME Types
  PROVE  Readings \subseteq [RowId -> RowVersion]
<1>1. row \in [RowId -> RowVersion]
  BY DEF Types, TypeOK
<1>2. \A i \in RowId : [row EXCEPT ![i] = NoRow] \in [RowId -> RowVersion]
  BY <1>1, NoRowType
<1> QED
  BY <1>1, <1>2 DEF Readings

\* What one change of a list makes of the row it was compared with.
LEMMA RevisionType ==
  ASSUME Types, NEW c \in Change, NEW v \in RowVersion, NEW t \in Ticket, NEW tag \in Ticket
  PROVE  /\ Revise(c, v, t, tag) \in RowVersion
         /\ Revise(c, v, t, tag).etag = t
         /\ PreviousETag(c, v) \in ETag \cup {Foreign}
         /\ NewLogEntry(c.row, Revise(c, v, t, tag), PreviousETag(c, v), tag) \in LogEntry
<1>1. /\ Revise(c, v, t, tag) \in RowVersion
      /\ Revise(c, v, t, tag).etag = t
  BY DEF Revise, RowVersion, Change, ETag
<1>2. PreviousETag(c, v) \in ETag \cup {Foreign}
  BY DEF PreviousETag, RowVersion, Change
<1> QED
  BY <1>1, <1>2 DEF NewLogEntry, LogEntry, RowVersion, Change

\* The tickets MarkPending draws.
LEMMA NewTickets ==
  ASSUME Types, NEW r \in Request, NEW seen, MarkPending(r, seen)
  PROVE  /\ Len(job[r].changes) \in Nat
         /\ ticket \in Nat /\ ticket' \in Nat
         /\ ticket + 1 \in Ticket
         /\ ticket' = ticket + 1 + Len(job[r].changes)
         /\ ticket' \in 0 .. MaxTicket
         /\ \A k \in DOMAIN job[r].changes :
              ticket + 1 + k \in Ticket /\ k \in 1 .. Len(job[r].changes)
         /\ \A k \in DOMAIN job[r].changes : job[r].changes[k] \in Change
<1>1. job[r].changes \in Seq(Change)
  BY JobFields
<1>2. Len(job[r].changes) \in Nat /\ DOMAIN job[r].changes = 1 .. Len(job[r].changes)
  BY <1>1
<1>3. ticket' = ticket + 1 + Len(job[r].changes) /\ ticket + 1 + Len(job[r].changes) <= MaxTicket
  BY DEF MarkPending
<1>4. ticket \in Nat /\ MaxTicket \in Nat
  BY DataManagerAssumption DEF Types, TypeOK
<1>5. /\ ticket + 1 \in Ticket /\ ticket' \in 0 .. MaxTicket
      /\ \A k \in 1 .. Len(job[r].changes) : ticket + 1 + k \in Ticket
  BY <1>2, <1>3, <1>4 DEF Ticket
<1>6. \A k \in DOMAIN job[r].changes : job[r].changes[k] \in Change
  BY <1>1
<1>7. ticket' \in Nat
  BY <1>4, <1>5
<1> QED
  BY <1>2, <1>3, <1>4, <1>5, <1>6, <1>7

\* What MarkPending prepares has the right types, and carries the new tickets.
LEMMA Prepared ==
  ASSUME Types, NEW r \in Request, NEW seen \in Readings, MarkPending(r, seen)
  PROVE  /\ entry' \in Entry
         /\ job' \in [Request -> Job]
         /\ \A v \in Request \ {r} : job'[v] = job[v]
         /\ job'[r] = [job[r] EXCEPT !.pc = "log", !.copy = entry',
                         !.logs = job'[r].logs, !.puts = job'[r].puts]
         /\ \A k \in Applicable(r, seen) :
              LET c == job[r].changes[k]
                  v == Revise(c, seen[c.row], ticket + 1 + k, ticket + 1)
              IN  /\ c \in Change /\ seen[c.row] \in RowVersion
                  /\ k \in 1 .. Len(job[r].changes) /\ ticket + 1 + k \in Ticket
                  /\ v \in RowVersion /\ v.etag = ticket + 1 + k
                  /\ NewLogEntry(c.row, v, PreviousETag(c, seen[c.row]), ticket + 1)
                       \in LogEntry
         /\ job'[r].logs =
              {NewLogEntry(job[r].changes[k].row,
                 Revise(job[r].changes[k], seen[job[r].changes[k].row],
                        ticket + 1 + k, ticket + 1),
                 PreviousETag(job[r].changes[k], seen[job[r].changes[k].row]),
                 ticket + 1) : k \in Applicable(r, seen)}
         /\ job'[r].puts =
              {[row |-> job[r].changes[k].row,
                version |-> Revise(job[r].changes[k], seen[job[r].changes[k].row],
                                   ticket + 1 + k, ticket + 1),
                insert |-> ~ Exists(seen[job[r].changes[k].row])] :
                 k \in Applicable(r, seen)}
<1> DEFINE c(k) == job[r].changes[k]
           v(k) == Revise(c(k), seen[c(k).row], ticket + 1 + k, ticket + 1)
           e(k) == NewLogEntry(c(k).row, v(k), PreviousETag(c(k), seen[c(k).row]), ticket + 1)
           p(k) == [row |-> c(k).row, version |-> v(k), insert |-> ~ Exists(seen[c(k).row])]
           ok == Applicable(r, seen)
           E == [job[r].copy EXCEPT !.pending = ticket + 1]
           J == [job[r] EXCEPT !.pc = "log", !.copy = E,
                   !.logs = {e(k) : k \in ok}, !.puts = {p(k) : k \in ok}]
<1>1. \A k \in ok : /\ c(k) \in Change /\ seen[c(k).row] \in RowVersion
                     /\ k \in 1 .. Len(job[r].changes) /\ ticket + 1 + k \in Ticket
  BY NewTickets, ReadingsType DEF Applicable, Change
<1>2. \A k \in ok : v(k) \in RowVersion /\ v(k).etag = ticket + 1 + k /\ e(k) \in LogEntry
  BY <1>1, NewTickets, RevisionType
<1>3. \A k \in ok : p(k) \in PutOf
  BY <1>1, <1>2 DEF PutOf, Change, Exists
<1>4. entry' = E /\ E \in Entry
  <2>1. entry' = E
    BY DEF MarkPending
  <2>2. job[r].copy \in Entry /\ ticket + 1 \in ETag
    BY JobFields, NewTickets DEF ETag
  <2>3. E \in Entry
    BY <2>2 DEF Entry
  <2> QED
    BY <2>1, <2>3
<1>5. Set(r, J)
  BY <1>4 DEF MarkPending
<1>6. job[r] \in Job
  BY JobFields
<1>7. J \in Job /\ J.logs = {e(k) : k \in ok} /\ J.puts = {p(k) : k \in ok}
  <2>1. {e(k) : k \in ok} \in SUBSET LogEntry /\ {p(k) : k \in ok} \in SUBSET PutOf
    BY <1>2, <1>3
  <2>2. "log" \in Working
    BY DEF Working
  <2> HIDE DEF c, v, e, p, ok, E
  <2> QED
    BY <1>4, <1>6, <2>1, <2>2 DEF Job
<1>8. /\ job' \in [Request -> Job] /\ job'[r] = J
      /\ \A u \in Request \ {r} : job'[u] = job[u]
  BY <1>5, <1>7, SetJob
<1>9. job'[r] = [job[r] EXCEPT !.pc = "log", !.copy = entry',
                   !.logs = job'[r].logs, !.puts = job'[r].puts]
  <2> HIDE DEF c, v, e, p, ok, E
  <2> QED
    BY <1>4, <1>6, <1>7, <1>8 DEF Job
<1> QED
  BY <1>1, <1>2, <1>4, <1>7, <1>8, <1>9

-----------------------------------------------------------------------------
\* Every step keeps the types.
LEMMA TypesStep ==
  ASSUME Types, [Next]_vars
  PROVE  Types'
<1> USE DataManagerAssumption
<1> DEFINE Places == Working \cup {"idle", "release"}
<1>0. ASSUME entry' \in Entry, row' \in [RowId -> RowVersion], log' \subseteq LogEntry,
             holder' \in Request \cup {NoHolder}, ticket' \in 0 .. MaxTicket,
             failures' \in 0 .. MaxFailures, job' \in [Request -> Job]
      PROVE  Types'
  <2>1. \A r \in Request : /\ job'[r].pc \in Places
                            /\ job'[r].copy \in Entry
                            /\ job'[r].todo \cup job'[r].logs \subseteq LogEntry
    BY <1>0 DEF Job
  <2> QED
    BY <1>0, <2>1 DEF Types, TypeOK
<1>1. /\ entry \in Entry /\ row \in [RowId -> RowVersion] /\ log \subseteq LogEntry
      /\ holder \in Request \cup {NoHolder} /\ ticket \in 0 .. MaxTicket
      /\ failures \in 0 .. MaxFailures /\ job \in [Request -> Job]
  BY DEF Types, TypeOK
<1>2. CASE UNCHANGED vars
  BY <1>0, <1>1, <1>2 DEF vars
<1>3. CASE LeaseEnds
  BY <1>0, <1>1, <1>3 DEF LeaseEnds
<1>4. ASSUME NEW r \in Request, Step(r) PROVE Types'
  <2>0. /\ job[r] \in Job /\ job[r].pc \in Places /\ job[r].copy \in Entry
        /\ job[r].todo \subseteq LogEntry /\ job[r].logs \subseteq LogEntry
        /\ job[r].puts \subseteq PutOf
    BY JobFields
  <2>1. CASE Acquire(r)
    <3>1. ASSUME NEW op \in Op, NEW s \in Seq(Change), Enter(r, op, s)
          PROVE  job' \in [Request -> Job]
      <4>1. [IdleJob EXCEPT !.op = op, !.pc = "entry", !.changes = s] \in Job
        BY IdleJobType DEF Job, Working
      <4> QED
        BY <3>1, <4>1, SetJob DEF Enter
    <3>2. CASE Enter(r, "read", <<>>)
      <4>1. <<>> \in Seq(Change) /\ "read" \in Op
        BY DEF Op
      <4>2. job' \in [Request -> Job]
        BY <3>1, <3>2, <4>1
      <4> QED
        BY <1>0, <1>1, <2>1, <4>2 DEF Acquire
    <3>3. ASSUME NEW s \in RowLists, Enter(r, "bulk", s) PROVE Types'
      <4>1. s \in Seq(Change) /\ "bulk" \in Op
        BY RowListsType DEF Op
      <4>2. job' \in [Request -> Job]
        BY <3>1, <3>3, <4>1
      <4> QED
        BY <1>0, <1>1, <2>1, <4>2 DEF Acquire
    <3>4. ASSUME NEW i \in RowId, NEW c \in Changes(i),
                 Enter(r, IF c.deleted THEN "delete" ELSE "upsert", <<c>>)
          PROVE  Types'
      <4>1. <<c>> \in Seq(Change)
        BY ChangesType
      <4> QED
        BY <1>0, <1>1, <2>1, <3>1, <3>4, <4>1 DEF Acquire, Op
    <3> QED
      BY <2>1, <3>2, <3>3, <3>4 DEF Acquire
  <2>2. CASE ReadEntry(r)
    <3>1. [job[r] EXCEPT !.pc = "query", !.copy = entry] \in Job
      BY <1>1, <2>0 DEF Job, Working
    <3>2. job' \in [Request -> Job]
      BY <2>2, <3>1, SetJob, GotoJob DEF ReadEntry
    <3> QED
      BY <1>0, <1>1, <2>2, <3>2 DEF ReadEntry
  <2>3. CASE FindPending(r)
    <3>1. /\ \A found \in Found(job[r].copy.pending) : found \subseteq LogEntry
          /\ AfterRevert(r) \in Places
      BY <1>1 DEF Found, ToRevert, EntriesOf, AfterRevert, Working
    <3>2. ASSUME NEW d \in SUBSET LogEntry, NEW pc \in Places
          PROVE  [job[r] EXCEPT !.todo = d, !.pc = pc] \in Job
      BY <2>0 DEF Job
    <3>3. job' \in [Request -> Job]
      BY <2>3, <3>1, <3>2, SetJob DEF FindPending, Working
    <3> QED
      BY <1>0, <1>1, <2>3, <3>3 DEF FindPending
  <2>4. CASE RestoreRow(r)
    <3>1. PICK e \in job[r].todo :
            /\ Set(r, [job[r] EXCEPT !.pc = "unlog", !.logs = {e}])
            /\ \/ row' = [row EXCEPT ![e.row] = NoRow]
               \/ row' = row
               \/ \E p \in Prior(e) : row' = [row EXCEPT ![e.row] = FromLog(p)]
      BY <2>4 DEF RestoreRow
    <3>2. [job[r] EXCEPT !.pc = "unlog", !.logs = {e}] \in Job
      BY <2>0 DEF Job, Working
    <3>3. \A p \in Prior(e) : FromLog(p) \in RowVersion
      BY <1>1 DEF Prior, Logged, FromLog, LogEntry, RowVersion, ETag
    <3>4. row' \in [RowId -> RowVersion]
      BY <1>1, <3>1, <3>3, NoRowType
    <3> QED
      BY <1>0, <1>1, <2>4, <3>1, <3>2, <3>4, SetJob DEF RestoreRow
  <2>5. CASE RevertThrows(r)
    BY <1>0, <1>1, <2>5, GotoJob DEF RevertThrows
  <2>6. CASE DropEntry(r)
    <3>1. ASSUME NEW d \in SUBSET LogEntry, NEW pc \in Places
          PROVE  [job[r] EXCEPT !.todo = d, !.logs = {}, !.pc = pc] \in Job
      BY <2>0 DEF Job
    <3>2. AfterRevert(r) \in Places /\ "revert" \in Places
      BY DEF AfterRevert, Working
    <3>3. job[r].todo \ job[r].logs \in SUBSET LogEntry
      BY <2>0
    <3>4. job' \in [Request -> Job]
      BY <2>6, <3>1, <3>2, <3>3, SetJob DEF DropEntry
    <3> QED
      BY <1>0, <1>1, <2>6, <3>4 DEF DropEntry
  <2>7. CASE MarkBulk(r)
    BY <1>0, <1>1, <2>7, Prepared, NewTickets DEF MarkBulk
  <2>8. CASE MarkOne(r)
    BY <1>0, <1>1, <2>8, Prepared, NewTickets DEF MarkOne
  <2>9. CASE Refuse(r)
    BY <1>0, <1>1, <2>9, GotoJob DEF Refuse
  <2>10. CASE PutLog(r)
    <3>1. CASE job[r].logs = {} /\ Goto(r, "rows") /\ UNCHANGED log
      BY <1>0, <1>1, <2>10, <3>1, GotoJob DEF PutLog, Working
    <3>2. ASSUME NEW e \in job[r].logs, log' = log \cup {e},
                 Set(r, [job[r] EXCEPT !.logs = @ \ {e}])
          PROVE  Types'
      <4>1. [job[r] EXCEPT !.logs = @ \ {e}] \in Job
        BY <2>0 DEF Job
      <4> QED
        BY <1>0, <1>1, <2>0, <2>10, <3>2, <4>1, SetJob DEF PutLog
    <3> QED
      BY <2>10, <3>1, <3>2 DEF PutLog
  <2>11. CASE PutRow(r)
    <3>1. PICK p \in job[r].puts :
            \/ Goto(r, "release") /\ UNCHANGED row
            \/ /\ row' = [row EXCEPT ![p.row] =
                            IF p.insert \/ Exists(@) THEN p.version ELSE @]
               /\ Set(r, [job[r] EXCEPT !.puts = @ \ {p}])
      BY <2>11 DEF PutRow
    <3>2. p.row \in RowId /\ p.version \in RowVersion
      BY <2>0 DEF PutOf
    <3>3. row' \in [RowId -> RowVersion]
      BY <1>1, <3>1, <3>2
    <3>4. [job[r] EXCEPT !.puts = @ \ {p}] \in Job
      BY <2>0 DEF Job
    <3>5. job' \in [Request -> Job]
      BY <3>1, <3>4, SetJob, GotoJob
    <3> QED
      BY <1>0, <1>1, <2>11, <3>3, <3>5 DEF PutRow
  <2>12. CASE Commit(r)
    <3>1. [data |-> job[r].copy.pending, pending |-> Null] \in Entry
      BY <2>0, NoRowType DEF Entry
    <3> QED
      BY <1>0, <1>1, <2>12, <3>1, GotoJob DEF Commit
  <2>13. CASE Serve(r)
    BY <1>0, <1>1, <2>13, GotoJob DEF Serve
  <2>14. CASE Fail(r)
    <3>1. failures' \in 0 .. MaxFailures
      BY <1>1, <2>14 DEF Fail
    <3>2. job' \in [Request -> Job]
      BY <2>14, GotoJob DEF Fail
    <3> QED
      BY <1>0, <1>1, <2>14, <3>1, <3>2 DEF Fail
  <2>15. CASE Release(r)
    BY <1>0, <1>1, <2>15, IdleJobType, SetJob DEF Release
  <2> QED
    BY <1>4, <2>1, <2>2, <2>3, <2>4, <2>5, <2>6, <2>7, <2>8, <2>9, <2>10, <2>11, <2>12,
       <2>13, <2>14, <2>15 DEF Step
<1> QED
  BY <1>2, <1>3, <1>4 DEF Next

(* The variables keep their types, whatever fails: the inductive invariant    *)
(* Types adds what is in a job.                                               *)
THEOREM TypeCorrect == Spec => []TypeOK
<1>1. Spec => []Types
  BY InitTypes, TypesStep, PTL DEF Spec
<1>2. Types => TypeOK
  BY DEF Types
<1> QED
  BY <1>1, <1>2, PTL

-----------------------------------------------------------------------------
(* What tickets stand for.  A dictionary d says which log entry was made      *)
(* under each row ETag up to ticket n; whatever the table, the log and the    *)
(* jobs hold, now or later, agrees with it.                                   *)

Dictionaries == [Ticket -> LogEntry \cup {NoRow}]

\* The previous row ETag b of a version of row i: drawn earlier, and if clients
\* are trusted, for a version of the same row.
Earlier(d, n, i, b) == b <= n /\ (TrustClients /\ b \in Ticket => d[b].row = i)

Recorded(d, n, e) ==
  /\ e.etag <= n /\ e.seq = e.etag /\ d[e.etag] = e
  /\ e.data < e.etag /\ e.prev < e.etag /\ Earlier(d, n, e.row, e.prev)

\* Version v of row i, unless it is none, is that of the entry under its ETag.
Shows(d, n, i, v) ==
  v.etag \in Ticket =>
    /\ v.etag <= n /\ Shown(FromLog(d[v.etag])) = Shown(v)
    /\ TrustClients => d[v.etag].row = i

AgreesJob(d, n, j) ==
  /\ \A e \in j.todo \cup j.logs : Recorded(d, n, e)
  /\ \A p \in j.puts : Shows(d, n, p.row, p.version)
  /\ \A k \in DOMAIN j.changes : Earlier(d, n, j.changes[k].row, j.changes[k].base)

Agrees(d) ==
  /\ \A e \in log : Recorded(d, ticket, e)
  /\ \A i \in RowId : Shows(d, ticket, i, row[i])
  /\ \A r \in Request : AgreesJob(d, ticket, job[r])

TicketsMeanOneThing == Types /\ \E d \in Dictionaries : Agrees(d)

\* A dictionary that grows still agrees with what it agreed with.
Grows(d, n, g, m) == n <= m /\ \A t \in Ticket : t <= n => g[t] = d[t]

LEMMA GrowsRecorded ==
  ASSUME NEW d \in Dictionaries, NEW g \in Dictionaries, NEW n \in Nat, NEW m \in Nat,
         Grows(d, n, g, m), NEW e \in LogEntry, Recorded(d, n, e)
  PROVE  Recorded(g, m, e)
  BY DataManagerAssumption DEF Grows, Recorded, Earlier, LogEntry, Ticket, ETag

LEMMA GrowsShows ==
  ASSUME NEW d \in Dictionaries, NEW g \in Dictionaries, NEW n \in Nat, NEW m \in Nat,
         Grows(d, n, g, m), NEW i, NEW v, Shows(d, n, i, v)
  PROVE  Shows(g, m, i, v)
  BY DataManagerAssumption DEF Grows, Shows, Ticket

LEMMA GrowsJob ==
  ASSUME NEW d \in Dictionaries, NEW g \in Dictionaries, NEW n \in Nat, NEW m \in Nat,
         Grows(d, n, g, m), NEW j \in Job, AgreesJob(d, n, j)
  PROVE  AgreesJob(g, m, j)
<1>1. \A e \in j.todo \cup j.logs : e \in LogEntry
  BY DEF Job
<1>2. \A k \in DOMAIN j.changes : j.changes[k] \in Change
  BY DEF Job
<1>3. \A k \in DOMAIN j.changes : Earlier(g, m, j.changes[k].row, j.changes[k].base)
  BY <1>2, DataManagerAssumption DEF AgreesJob, Grows, Earlier, Change, ETag, Ticket
<1>4. \A e \in j.todo \cup j.logs : Recorded(g, m, e)
  BY <1>1, GrowsRecorded DEF AgreesJob
<1>5. \A p \in j.puts : Shows(g, m, p.row, p.version)
  BY GrowsShows DEF AgreesJob
<1> QED
  BY <1>3, <1>4, <1>5 DEF AgreesJob

\* What a client sends was drawn before, and served to it from the log if it is
\* trusted.
LEMMA SentIsEarlier ==
  ASSUME Types, NEW d \in Dictionaries, Agrees(d), NEW i \in RowId, NEW c \in Changes(i)
  PROVE  c \in Change /\ Earlier(d, ticket, c.row, c.base)
<1>1. c \in Change /\ c.row = i /\ c.base \in ClientETags(i)
  BY ChangesType DEF Changes
<1>2. ticket \in Nat
  BY DEF Types, TypeOK
<1>3. CASE c.base \in {Null, Foreign}
  BY <1>1, <1>2, <1>3, DataManagerAssumption DEF Earlier, Ticket
<1>4. CASE \E e \in log : e.row = i /\ c.base = e.etag
  BY <1>1, <1>4 DEF Agrees, Recorded, Earlier
<1>5. CASE ~ TrustClients /\ c.base \in 1 .. ticket
  BY <1>1, <1>2, <1>5 DEF Earlier
<1> QED
  BY <1>1, <1>3, <1>4, <1>5 DEF ClientETags

\* The operations' own versions, under tickets never drawn before.
LEMMA MarkedAgrees ==
  ASSUME Types, NEW d \in Dictionaries, Agrees(d), NEW r \in Request, NEW seen \in Readings,
         MarkPending(r, seen), UNCHANGED <<row, log>>
  PROVE  \E g \in Dictionaries : Agrees(g)'
<1> DEFINE c(k) == job[r].changes[k]
           v(k) == Revise(c(k), seen[c(k).row], ticket + 1 + k, ticket + 1)
           e(k) == NewLogEntry(c(k).row, v(k), PreviousETag(c(k), seen[c(k).row]), ticket + 1)
           p(k) == [row |-> c(k).row, version |-> v(k), insert |-> ~ Exists(seen[c(k).row])]
           ok == Applicable(r, seen)
           G == [t \in Ticket |-> IF t - (ticket + 1) \in ok THEN e(t - (ticket + 1)) ELSE d[t]]
<1>1. /\ ticket \in Nat /\ ticket' \in Nat /\ Len(job[r].changes) \in Nat
      /\ ticket' = ticket + 1 + Len(job[r].changes)
  BY NewTickets
<1>2. \A k \in ok : /\ c(k) \in Change /\ seen[c(k).row] \in RowVersion
                     /\ k \in 1 .. Len(job[r].changes) /\ ticket + 1 + k \in Ticket
                     /\ v(k) \in RowVersion /\ v(k).etag = ticket + 1 + k
                     /\ e(k) \in LogEntry
  BY Prepared
<1>3. /\ job'[r].logs = {e(k) : k \in ok} /\ job'[r].puts = {p(k) : k \in ok}
      /\ job'[r].todo = job[r].todo /\ job'[r].changes = job[r].changes
      /\ job' \in [Request -> Job]
      /\ \A u \in Request \ {r} : job'[u] = job[u]
  <2>1. job'[r] = [job[r] EXCEPT !.pc = "log", !.copy = entry',
                     !.logs = job'[r].logs, !.puts = job'[r].puts]
    BY Prepared
  <2>2. job'[r].todo = job[r].todo /\ job'[r].changes = job[r].changes
    BY <2>1, JobFields DEF Job
  <2> QED
    BY <2>2, Prepared
<1>4. \A k \in ok : /\ e(k).row = c(k).row /\ e(k).etag = ticket + 1 + k
                     /\ e(k).seq = ticket + 1 + k /\ e(k).data = ticket + 1
                     /\ e(k).prev = PreviousETag(c(k), seen[c(k).row])
                     /\ Shown(FromLog(e(k))) = Shown(v(k))
  BY <1>2 DEF NewLogEntry, FromLog, Shown
<1>5. PICK g \in Dictionaries : g = G
  <2>1. \A t \in Ticket : (IF t - (ticket + 1) \in ok THEN e(t - (ticket + 1)) ELSE d[t])
                            \in LogEntry \cup {NoRow}
    BY <1>2 DEF Dictionaries
  <2>2. G \in Dictionaries
    BY <2>1 DEF Dictionaries
  <2> HIDE DEF G
  <2> QED
    BY <2>2
<1>6. \A k \in ok : g[ticket + 1 + k] = e(k)
  <2> SUFFICES ASSUME NEW k \in ok PROVE g[ticket + 1 + k] = e(k)
    OBVIOUS
  <2>1. (ticket + 1 + k) - (ticket + 1) = k /\ ticket + 1 + k \in Ticket
    BY <1>1, <1>2
  <2> HIDE DEF ok, e
  <2> QED
    BY <1>5, <2>1
<1>7. Grows(d, ticket, g, ticket')
  <2>1. ASSUME NEW t \in Ticket, t <= ticket PROVE g[t] = d[t]
    <3>1. t \in Nat
      BY Numbers
    <3>2. \A k \in ok : k \in Nat /\ k > 0
      BY <1>1, <1>2
    <3> HIDE DEF ok, e
    <3>3. t - (ticket + 1) \notin ok
      BY <1>1, <2>1, <3>1, <3>2
    <3> QED
      BY <1>5, <3>3
  <2>2. ticket <= ticket'
    BY Later, <1>1
  <2> QED
    BY <2>1, <2>2 DEF Grows
<1>8. \A k \in ok : LET b == PreviousETag(c(k), seen[c(k).row])
                     IN  b <= ticket /\ b < ticket + 1 + k /\ Earlier(g, ticket', c(k).row, b)
  <2> SUFFICES ASSUME NEW k \in ok
               PROVE  LET b == PreviousETag(c(k), seen[c(k).row])
                      IN  b <= ticket /\ b < ticket + 1 + k
                          /\ Earlier(g, ticket', c(k).row, b)
    OBVIOUS
  <2> DEFINE b == PreviousETag(c(k), seen[c(k).row])
  <2>1. Earlier(d, ticket, c(k).row, c(k).base)
    BY DEF Agrees, AgreesJob, Applicable
  <2>2. c(k).row \in RowId /\ c(k).base \in ETag \cup {Foreign}
    BY <1>2 DEF Change
  <2>3. seen[c(k).row] \in {row[c(k).row], NoRow}
    BY <2>2 DEF Readings, Types, TypeOK
  <2>4. Shows(d, ticket, c(k).row, row[c(k).row]) /\ row[c(k).row].etag \in ETag
    BY <2>2 DEF Agrees, Types, TypeOK, RowVersion
  <2>5. Earlier(d, ticket, c(k).row, seen[c(k).row].etag) /\ seen[c(k).row].etag \in ETag
    <3> PICK i \in RowId : i = c(k).row
      BY <2>2
    <3>1. Earlier(d, ticket, i, row[i].etag) /\ row[i].etag \in ETag
      BY <1>1, <2>4, Numbers DEF Shows, Earlier
    <3>2. Earlier(d, ticket, i, NoRow.etag) /\ NoRow.etag \in ETag
      BY <1>1, Numbers DEF Earlier, NoRow
    <3>3. seen[i] \in {row[i], NoRow}
      BY <2>3
    <3>4. Earlier(d, ticket, i, seen[i].etag) /\ seen[i].etag \in ETag
      BY <3>1, <3>2, <3>3
    <3> QED
      BY <3>4
  <2>6. b \in ETag \cup {Foreign} /\ Earlier(d, ticket, c(k).row, b)
    BY <2>1, <2>2, <2>5 DEF PreviousETag
  <2>7. b <= ticket /\ b \in Int /\ (b \in Ticket => g[b] = d[b])
    <3> HIDE DEF b
    <3> QED
      BY <1>7, <2>6, Numbers DEF Earlier, Grows
  <2>8. b < ticket + 1 + k /\ b <= ticket'
    <3>1. k \in Nat
      BY <1>1, <1>2
    <3> HIDE DEF b
    <3>2. b <= ticket /\ b \in Int
      BY <2>7
    <3> QED
      BY <1>1, <3>1, <3>2, Later
  <2>9. Earlier(g, ticket', c(k).row, b)
    <3> HIDE DEF b
    <3> QED
      BY <2>6, <2>7, <2>8 DEF Earlier
  <2> QED
    BY <2>7, <2>8, <2>9
<1>9. \A k \in ok : Recorded(g, ticket', e(k)) /\ Shows(g, ticket', c(k).row, v(k))
  <2> SUFFICES ASSUME NEW k \in ok
               PROVE  Recorded(g, ticket', e(k)) /\ Shows(g, ticket', c(k).row, v(k))
    OBVIOUS
  <2>1. ticket + 1 + k <= ticket' /\ ticket + 1 < ticket + 1 + k
    <3>1. k \in 1 .. Len(job[r].changes)
      BY <1>2
    <3> QED
      BY <1>1, <3>1
  <2>2. /\ e(k).row = c(k).row /\ e(k).etag = ticket + 1 + k /\ e(k).seq = ticket + 1 + k
        /\ e(k).data = ticket + 1 /\ e(k).prev = PreviousETag(c(k), seen[c(k).row])
        /\ Shown(FromLog(e(k))) = Shown(v(k)) /\ v(k).etag = ticket + 1 + k
        /\ g[ticket + 1 + k] = e(k)
    BY <1>2, <1>4, <1>6
  <2>3. LET b == PreviousETag(c(k), seen[c(k).row])
        IN  b < ticket + 1 + k /\ Earlier(g, ticket', c(k).row, b)
    BY <1>8
  <2> HIDE DEF e, v, c
  <2> QED
    BY <2>1, <2>2, <2>3 DEF Recorded, Shows
<1>10. \A u \in Request : AgreesJob(g, ticket', job[u])
  <2> SUFFICES ASSUME NEW u \in Request PROVE AgreesJob(g, ticket', job[u])
    OBVIOUS
  <2>1. job[u] \in Job
    BY JobFields
  <2>2. AgreesJob(d, ticket, job[u])
    BY DEF Agrees
  <2>3. ticket \in Nat /\ ticket' \in Nat
    BY <1>1
  <2> QED
    BY <1>7, <2>1, <2>2, <2>3, GrowsJob, Zenon
<1>11. AgreesJob(g, ticket', job'[r])
  <2>1. \A x \in job'[r].logs : Recorded(g, ticket', x)
    <3> HIDE DEF e, ok
    <3> QED
      BY <1>3, <1>9
  <2>2. \A x \in job'[r].puts : Shows(g, ticket', x.row, x.version)
    <3> HIDE DEF v, c, ok
    <3> QED
      BY <1>3, <1>9
  <2> HIDE DEF e, v, c, ok, p
  <2> QED
    BY <1>3, <1>10, <2>1, <2>2 DEF AgreesJob
<1>12. \A x \in log' : Recorded(g, ticket', x)
  <2> SUFFICES ASSUME NEW x \in log PROVE Recorded(g, ticket', x)
    OBVIOUS
  <2>1. x \in LogEntry /\ Recorded(d, ticket, x)
    BY DEF Agrees, Types, TypeOK
  <2> QED
    BY <1>1, <1>7, <2>1, GrowsRecorded
<1>13. \A i \in RowId : Shows(g, ticket', i, row'[i])
  <2> SUFFICES ASSUME NEW i \in RowId PROVE Shows(g, ticket', i, row[i])
    OBVIOUS
  <2>1. Shows(d, ticket, i, row[i])
    BY DEF Agrees
  <2> QED
    BY <1>1, <1>7, <2>1, GrowsShows
<1>14. \A u \in Request : AgreesJob(g, ticket', job'[u])
  BY <1>3, <1>10, <1>11
<1>15. Agrees(g)'
  BY <1>12, <1>13, <1>14 DEF Agrees
<1> QED
  BY <1>5, <1>15

LEMMA InitTickets == Init => TicketsMeanOneThing
<1> SUFFICES ASSUME Init PROVE TicketsMeanOneThing
  OBVIOUS
<1>1. PICK d \in Dictionaries : d = [t \in Ticket |-> NoRow]
  BY DEF Dictionaries
<1>2. Agrees(d)
  <2>1. \A i \in RowId : Shows(d, ticket, i, row[i])
    BY Numbers DEF Init, Shows, NoRow
  <2>2. \A r \in Request : AgreesJob(d, ticket, job[r])
    BY DEF Init, IdleJob, AgreesJob
  <2> QED
    BY <2>1, <2>2 DEF Agrees, Init
<1> QED
  BY <1>2, InitTypes DEF TicketsMeanOneThing

\* No step but MarkPending draws tickets; what it moves about agreed before.
LEMMA StepAgrees ==
  ASSUME Types, NEW d \in Dictionaries, Agrees(d), NEW r \in Request, Step(r),
         UNCHANGED ticket
  PROVE  Agrees(d)'
<1>0. ASSUME NEW J, Set(r, J), J \in Job, AgreesJob(d, ticket, J),
             \A e \in log' : Recorded(d, ticket, e),
             \A i \in RowId : Shows(d, ticket, i, row'[i])
      PROVE  Agrees(d)'
  <2>1. \A u \in Request : AgreesJob(d, ticket', job'[u])
    BY <1>0, SetJob DEF Agrees
  <2> QED
    BY <1>0, <2>1 DEF Agrees
<1>1. /\ \A e \in log : Recorded(d, ticket, e)
      /\ \A i \in RowId : Shows(d, ticket, i, row[i])
      /\ AgreesJob(d, ticket, job[r]) /\ job[r] \in Job
  BY JobFields DEF Agrees
<1>2. ASSUME NEW pc \in Working \cup {"idle", "release"}, Goto(r, pc), UNCHANGED <<row, log>>
      PROVE  Agrees(d)'
  <2>1. \A u \in Request : AgreesJob(d, ticket', job'[u])
    <3>1. job'[r] = [job[r] EXCEPT !.pc = pc] /\ \A u \in Request \ {r} : job'[u] = job[u]
      BY <1>2, GotoJob
    <3>2. AgreesJob(d, ticket, [job[r] EXCEPT !.pc = pc])
      BY <1>1 DEF AgreesJob, Job
    <3> QED
      BY <3>1, <3>2 DEF Agrees
  <2> QED
    BY <1>1, <1>2, <2>1 DEF Agrees
<1>3. CASE Acquire(r)
  <2>1. ASSUME NEW op \in Op, NEW s \in Seq(Change), Enter(r, op, s),
               \A k \in DOMAIN s : Earlier(d, ticket, s[k].row, s[k].base)
        PROVE  Agrees(d)'
    <3> DEFINE J == [IdleJob EXCEPT !.op = op, !.pc = "entry", !.changes = s]
    <3>1. J \in Job /\ J.changes = s /\ J.todo = {} /\ J.logs = {} /\ J.puts = {}
      BY IdleJobType DEF Job, Working, IdleJob
    <3>2. AgreesJob(d, ticket, J)
      <4> HIDE DEF J
      <4> QED
        BY <2>1, <3>1 DEF AgreesJob
    <3>3. Set(r, J)
      BY <2>1 DEF Enter
    <3> HIDE DEF J
    <3> QED
      BY <1>0, <1>1, <1>3, <3>1, <3>2, <3>3 DEF Acquire
  <2>2. CASE Enter(r, "read", <<>>)
    <3>1. <<>> \in Seq(Change) /\ "read" \in Op /\ DOMAIN <<>> = {}
      BY DEF Op
    <3> QED
      BY <2>1, <2>2, <3>1
  <2>3. ASSUME NEW s \in RowLists, Enter(r, "bulk", s) PROVE Agrees(d)'
    <3>1. s \in Seq(Change) /\ "bulk" \in Op
      BY RowListsType DEF Op
    <3>2. \A k \in DOMAIN s : \E i \in RowId : s[k] \in Changes(i)
      BY DEF RowLists
    <3>3. \A k \in DOMAIN s : Earlier(d, ticket, s[k].row, s[k].base)
      BY <3>2, SentIsEarlier
    <3> QED
      BY <2>1, <2>3, <3>1, <3>3
  <2>4. ASSUME NEW i \in RowId, NEW c \in Changes(i),
               Enter(r, IF c.deleted THEN "delete" ELSE "upsert", <<c>>)
        PROVE  Agrees(d)'
    <3>1. c \in Change /\ Earlier(d, ticket, c.row, c.base)
      BY SentIsEarlier
    <3>2. <<c>> \in Seq(Change) /\ DOMAIN <<c>> = {1} /\ <<c>>[1] = c
      BY <3>1
    <3> QED
      BY <2>1, <2>4, <3>1, <3>2 DEF Op
  <2> QED
    BY <1>3, <2>2, <2>3, <2>4 DEF Acquire
<1>4. CASE ReadEntry(r)
  <2>1. ASSUME Set(r, [job[r] EXCEPT !.pc = "query", !.copy = entry])
        PROVE  Agrees(d)'
    <3>1. entry \in Entry
      BY DEF Types, TypeOK
    <3>2. [job[r] EXCEPT !.pc = "query", !.copy = entry] \in Job
      BY <1>1, <3>1 DEF Job, Working
    <3>3. AgreesJob(d, ticket, [job[r] EXCEPT !.pc = "query", !.copy = entry])
      BY <1>1 DEF Job, AgreesJob
    <3> QED
      BY <1>0, <1>1, <1>4, <2>1, <3>2, <3>3 DEF ReadEntry
  <2> QED
    BY <1>2, <1>4, <2>1 DEF ReadEntry
<1>5. CASE FindPending(r)
  <2>0. PICK found \in Found(job[r].copy.pending) :
          Set(r, [job[r] EXCEPT !.todo = found,
                    !.pc = IF found = {} THEN AfterRevert(r) ELSE "revert"])
    BY <1>5 DEF FindPending
  <2> DEFINE pc == IF found = {} THEN AfterRevert(r) ELSE "revert"
  <2>1. /\ Set(r, [job[r] EXCEPT !.todo = found, !.pc = pc])
        /\ found \subseteq log
        /\ pc \in Working \cup {"idle", "release"}
    BY <2>0 DEF Found, ToRevert, EntriesOf, AfterRevert, Working
  <2> HIDE DEF pc
  <2>2. found \in SUBSET LogEntry
    BY <2>1 DEF Types, TypeOK
  <2>3. [job[r] EXCEPT !.todo = found, !.pc = pc] \in Job
    BY <1>1, <2>1, <2>2 DEF Job
  <2>4. AgreesJob(d, ticket, [job[r] EXCEPT !.todo = found, !.pc = pc])
    BY <1>1, <2>1 DEF Job, AgreesJob
  <2> QED
    BY <1>0, <1>1, <1>5, <2>1, <2>3, <2>4 DEF FindPending
<1>6. CASE RestoreRow(r)
  <2>1. PICK e \in job[r].todo :
          /\ Set(r, [job[r] EXCEPT !.pc = "unlog", !.logs = {e}])
          /\ \/ row' = [row EXCEPT ![e.row] = NoRow]
             \/ row' = row
             \/ /\ e.prev # Null
                /\ \E p \in Prior(e) : row' = [row EXCEPT ![e.row] = FromLog(p)]
    BY <1>6 DEF RestoreRow
  <2>2. e \in LogEntry /\ Recorded(d, ticket, e)
    BY <1>1 DEF AgreesJob, Job
  <2>3. [job[r] EXCEPT !.pc = "unlog", !.logs = {e}] \in Job
    BY <1>1, <2>2 DEF Job, Working
  <2>4. AgreesJob(d, ticket, [job[r] EXCEPT !.pc = "unlog", !.logs = {e}])
    BY <1>1, <2>2 DEF Job, AgreesJob
  <2>5. \A i \in RowId : Shows(d, ticket, i, NoRow)
    BY Numbers DEF Shows, NoRow
  <2>6. \A p \in Prior(e) : Shows(d, ticket, e.row, FromLog(p))
    <3> SUFFICES ASSUME NEW p \in Prior(e) PROVE Shows(d, ticket, e.row, FromLog(p))
      OBVIOUS
    <3>1. p \in log /\ p \in LogEntry /\ p.etag = e.prev /\ p.etag \in Ticket
      BY DEF Prior, Logged, Types, TypeOK, LogEntry
    <3>2. p.etag <= ticket /\ d[p.etag] = p /\ (TrustClients => d[p.etag].row = e.row)
      BY <1>1, <2>2, <3>1 DEF Recorded, Earlier
    <3> QED
      BY <3>1, <3>2 DEF Shows, FromLog, Shown
  <2>7. row \in [RowId -> RowVersion]
    BY DEF Types, TypeOK
  <2>8. \A i \in RowId : Shows(d, ticket, i, row'[i])
    BY <1>1, <2>1, <2>5, <2>6, <2>7
  <2> QED
    BY <1>0, <1>1, <1>6, <2>1, <2>3, <2>4, <2>8 DEF RestoreRow
<1>7. CASE RevertThrows(r)
  BY <1>2, <1>7 DEF RevertThrows
<1>8. CASE DropEntry(r)
  <2> DEFINE left == job[r].todo \ job[r].logs
  <2>1. PICK pc \in Working \cup {"idle", "release"} :
          Set(r, [job[r] EXCEPT !.todo = left, !.logs = {}, !.pc = pc])
    BY <1>8 DEF DropEntry, AfterRevert, Working
  <2>2. [job[r] EXCEPT !.todo = left, !.logs = {}, !.pc = pc] \in Job
    BY <1>1 DEF Job
  <2>3. AgreesJob(d, ticket, [job[r] EXCEPT !.todo = left, !.logs = {}, !.pc = pc])
    BY <1>1 DEF Job, AgreesJob
  <2> QED
    BY <1>0, <1>1, <1>8, <2>1, <2>2, <2>3 DEF DropEntry
<1>9. CASE MarkBulk(r) \/ MarkOne(r)
  <2>1. PICK seen \in Readings : MarkPending(r, seen)
    BY <1>9 DEF MarkBulk, MarkOne
  <2> QED
    BY <2>1, NewTickets
<1>10. CASE Refuse(r)
  BY <1>2, <1>10 DEF Refuse
<1>11. CASE PutLog(r)
  <2>1. ASSUME NEW e \in job[r].logs, log' = log \cup {e},
               Set(r, [job[r] EXCEPT !.logs = @ \ {e}])
        PROVE  Agrees(d)'
    <3>1. [job[r] EXCEPT !.logs = @ \ {e}] \in Job
      BY <1>1 DEF Job
    <3>2. AgreesJob(d, ticket, [job[r] EXCEPT !.logs = @ \ {e}])
      BY <1>1 DEF Job, AgreesJob
    <3>3. Recorded(d, ticket, e)
      BY <1>1 DEF AgreesJob
    <3> QED
      BY <1>0, <1>1, <1>11, <2>1, <3>1, <3>2, <3>3 DEF PutLog
  <2> QED
    BY <1>2, <1>11, <2>1 DEF PutLog, Working
<1>12. CASE PutRow(r)
  <2>1. ASSUME NEW p \in job[r].puts,
               row' = [row EXCEPT ![p.row] = IF p.insert \/ Exists(@) THEN p.version ELSE @],
               Set(r, [job[r] EXCEPT !.puts = @ \ {p}])
        PROVE  Agrees(d)'
    <3>1. [job[r] EXCEPT !.puts = @ \ {p}] \in Job
      BY <1>1 DEF Job
    <3>2. AgreesJob(d, ticket, [job[r] EXCEPT !.puts = @ \ {p}])
      BY <1>1 DEF Job, AgreesJob
    <3>3. Shows(d, ticket, p.row, p.version)
      BY <1>1 DEF AgreesJob
    <3>4. row \in [RowId -> RowVersion]
      BY DEF Types, TypeOK
    <3>5. \A i \in RowId : \/ row'[i] = row[i]
                               \/ /\ i = p.row
                                  /\ row'[i] = p.version
      BY <2>1, <3>4
    <3>6. \A i \in RowId : Shows(d, ticket, i, row'[i])
      BY <1>1, <3>3, <3>5
    <3> QED
      BY <1>0, <1>1, <1>12, <2>1, <3>1, <3>2, <3>6 DEF PutRow
  <2> QED
    BY <1>2, <1>12, <2>1 DEF PutRow
<1>13. CASE Commit(r)
  BY <1>2, <1>13 DEF Commit
<1>14. CASE Serve(r)
  BY <1>2, <1>14 DEF Serve
<1>15. CASE Fail(r)
  BY <1>2, <1>15 DEF Fail
<1>16. CASE Release(r)
  <2>1. AgreesJob(d, ticket, IdleJob)
    BY DEF AgreesJob, IdleJob
  <2> QED
    BY <1>0, <1>1, <1>16, <2>1, IdleJobType DEF Release
<1> QED
  BY <1>3, <1>4, <1>5, <1>6, <1>7, <1>8, <1>9, <1>10, <1>11, <1>12, <1>13, <1>14, <1>15,
     <1>16 DEF Step

LEMMA TicketsStep ==
  ASSUME TicketsMeanOneThing, [Next]_vars
  PROVE  TicketsMeanOneThing'
<1>1. Types /\ Types'
  BY TypesStep DEF TicketsMeanOneThing
<1>2. PICK d \in Dictionaries : Agrees(d)
  BY DEF TicketsMeanOneThing
<1>3. CASE UNCHANGED vars
  <2>1. Agrees(d)'
    BY <1>2, <1>3 DEF vars, Agrees
  <2> QED
    BY <1>1, <2>1 DEF TicketsMeanOneThing
<1>4. CASE LeaseEnds
  <2>1. Agrees(d)'
    BY <1>2, <1>4 DEF LeaseEnds, Agrees
  <2> QED
    BY <1>1, <2>1 DEF TicketsMeanOneThing
<1>5. ASSUME NEW r \in Request, Step(r)
      PROVE  TicketsMeanOneThing'
  <2>1. CASE MarkBulk(r) \/ MarkOne(r)
    <3>1. PICK seen \in Readings : MarkPending(r, seen)
      BY <2>1 DEF MarkBulk, MarkOne
    <3>2. UNCHANGED <<row, log>>
      BY <2>1 DEF MarkBulk, MarkOne
    <3> QED
      BY <1>1, <1>2, <3>1, <3>2, MarkedAgrees DEF TicketsMeanOneThing
  <2>2. CASE ~ (MarkBulk(r) \/ MarkOne(r))
    <3>1. UNCHANGED ticket
      BY <1>5, <2>2 DEF Step, Acquire, ReadEntry, FindPending, RestoreRow, RevertThrows,
         DropEntry, Refuse, PutLog, PutRow, Commit, Serve, Fail, Release
    <3>2. Agrees(d)'
      BY <1>1, <1>2, <1>5, <3>1, StepAgrees
    <3> QED
      BY <1>1, <3>2 DEF TicketsMeanOneThing
  <2> QED
    BY <2>1, <2>2
<1> QED
  BY <1>3, <1>4, <1>5 DEF Next

LEMMA TicketsHold == Spec => []TicketsMeanOneThing
  BY InitTickets, TicketsStep, PTL DEF Spec

(* A row ETag names one version in the table and in the log, whatever the     *)
(* leases, the reads and the clients do, and of one row if clients send the   *)
(* ETags of that row only: MarkPending takes every one from tickets never     *)
(* drawn before, and a revert restores a version with its ETag.               *)
THEOREM RowETagsNameVersions == Spec => []ETagsNameVersions
<1>1. TicketsMeanOneThing => ETagsNameVersions
  <2> SUFFICES ASSUME TicketsMeanOneThing PROVE ETagsNameVersions
    OBVIOUS
  <2>1. PICK d \in Dictionaries : Agrees(d)
    BY DEF TicketsMeanOneThing
  <2>2. \A e \in log : e.etag \in Ticket /\ d[e.etag] = e
    BY <2>1 DEF Agrees, Recorded, TicketsMeanOneThing, Types, TypeOK, LogEntry
  <2>3. \A i \in RowId : Shows(d, ticket, i, row[i])
    BY <2>1 DEF Agrees
  <2> QED
    BY <2>2, <2>3 DEF ETagsNameVersions, Shows
<1> QED
  BY <1>1, TicketsHold, PTL

(* The previous row ETags of the log lead back in time, whatever row ETags    *)
(* clients send and whatever fails: MarkPending chains to an ETag versions    *)
(* that are drawn after the client has sent it.  They stay within one row if  *)
(* clients send the ETags of that row only.                                   *)
THEOREM LogChainsGoBack == Spec => []ChainsGoBack
<1>1. TicketsMeanOneThing => ChainsGoBack
  <2> SUFFICES ASSUME TicketsMeanOneThing, NEW e \in log, NEW p \in log, e.prev = p.etag
               PROVE  p.seq < e.seq /\ (TrustClients => p.row = e.row)
    BY DEF ChainsGoBack
  <2>1. PICK d \in Dictionaries : Agrees(d)
    BY DEF TicketsMeanOneThing
  <2>2. p.etag \in Ticket
    BY DEF TicketsMeanOneThing, Types, TypeOK, LogEntry
  <2>3. Recorded(d, ticket, e) /\ Recorded(d, ticket, p)
    BY <2>1 DEF Agrees
  <2> QED
    BY <2>2, <2>3 DEF Recorded, Earlier
<1> QED
  BY <1>1, TicketsHold, PTL

-----------------------------------------------------------------------------
(***************************************************************************)
(* Operations on a table are atomic, however many of them fail: as long as *)
(* leases do not end under their holders, reads and queries answer what is *)
(* there, and a row comes without a row ETag or with one of its own        *)
(* (Sound).                                                                *)
(***************************************************************************)
Sound == TrustClients /\ ~ ReadsMayFail /\ ~ LeaseMayExpire

\* The log without and with the entries of the pending data ETag.
Settled == {e \in log : e.data # entry.pending}
Unsettled == EntriesOf(entry.pending)

\* In a set S of entries: p is the last of its row; v is what S makes of row i;
\* e was made from what S makes of its row.
Newest(S, p) == p \in S /\ \A f \in S : f.row = p.row => f.etag <= p.etag
Base(S, i, v) ==
  \/ (\A f \in S : f.row # i) /\ v = Shown(NoRow)
  \/ \E p \in S : p.row = i /\ Newest(S, p) /\ v = Shown(FromLog(p))
Based(S, e) ==
  \/ e.prev = Null /\ \A f \in S : f.row # e.row
  \/ \E p \in S : p.row = e.row /\ Newest(S, p) /\ e.prev = p.etag

\* A row is as the settled log has it, or already as entry e does.
AtBase(i) == Base(Settled, i, Shown(row[i])) /\ row[i].data <= entry.data
Written(i, e) ==
  e.row = i /\ Shown(row[i]) = Shown(FromLog(e)) /\ row[i].data <= entry.pending

\* The lock is held while a request works.
Exclusive == \A r \in Request : ~ At(r, "idle") => holder = r

\* Data ETags and row ETags are issued in turn.
Order ==
  /\ entry.pending # Null => entry.data < entry.pending
  /\ entry.data <= ticket /\ entry.pending <= ticket
  /\ \A e \in Settled :
       e.data <= entry.data /\ (entry.pending # Null => e.etag < entry.pending)
  /\ \A e, f \in log : e.data < f.data => e.etag < f.data

\* Pending changes are made from the settled log, which chains its own.
Chained ==
  /\ \A e \in Unsettled : Based(Settled, e)
  /\ \A e \in Settled : e.prev # Null => \E p \in Settled : p.etag = e.prev /\ p.row = e.row

Rows == \A i \in RowId : AtBase(i) \/ \E e \in Unsettled : Written(i, e)

OnePerRow(S) == \A e, f \in S : e.row = f.row => e = f
OneChain(S) == \A e, f \in S : e.row = f.row /\ e.prev = f.prev => e = f
Single == DistinctRows => OnePerRow(Unsettled) /\ OneChain(Settled)

Tidy == Order /\ Chained /\ Rows /\ Single

\* A put left to do is of a change whose entry is in the log or comes to it.
Queued(p, j) ==
  /\ \E e \in Unsettled \cup j.logs :
       e.row = p.row /\ e.etag = p.version.etag /\ Shown(FromLog(e)) = Shown(p.version)
  /\ p.version.data <= entry.pending
  /\ row[p.row].etag < p.version.etag
  /\ p.insert <=> \A e \in Settled : e.row # p.row

\* A job between its mark and its commit.
Applying(j) ==
  /\ entry.pending # Null
  /\ \A e \in j.logs : Based(Settled, e) /\ e.data = entry.pending
  /\ \A p \in j.puts : Queued(p, j)
  /\ \A p, q \in j.puts : p.version.etag = q.version.etag => p = q
  /\ \A e \in Unsettled \cup j.logs :
       row[e.row].etag >= e.etag \/ \E p \in j.puts : p.version.etag = e.etag
  /\ DistinctRows => OnePerRow(Unsettled \cup j.logs)

\* What a client sent goes with the settled log.
Served(j) ==
  /\ \A k \in DOMAIN j.changes :
       j.changes[k].base # Null =>
         \E p \in Settled : p.row = j.changes[k].row /\ p.etag = j.changes[k].base
  /\ DistinctRows =>
       \A k, l \in DOMAIN j.changes : j.changes[k].row = j.changes[l].row => k = l

Place(j) ==
  /\ j.pc \in {"entry", "query", "revert", "unlog", "mark"} => Served(j)
  /\ j.pc \in {"query", "revert", "unlog", "mark", "log", "rows"} => j.copy = entry
  /\ j.pc \in {"revert", "unlog"} => j.todo = Unsettled
  /\ j.pc = "unlog" => \A e \in j.logs : e \in j.todo /\ AtBase(e.row)
  /\ j.pc \in {"mark", "serve"} => Unsettled = {}
  /\ j.pc \in {"log", "rows"} => Applying(j)
  /\ j.pc = "rows" => j.logs = {}

Inv ==
  /\ TicketsMeanOneThing
  /\ Exclusive
  /\ Tidy
  /\ \A r \in Request : Place(job[r])

-----------------------------------------------------------------------------
(* What the entries and the rows are like.                                   *)

LEMMA EntryFacts ==
  ASSUME TicketsMeanOneThing, NEW r \in Request
  PROVE  /\ \A e \in log \cup job[r].logs :
              /\ e \in LogEntry /\ e.seq = e.etag
              /\ e.etag \in Nat /\ e.etag > 0 /\ e.etag <= ticket
              /\ e.data \in Nat /\ e.data > 0 /\ e.data < e.etag
              /\ e.prev \in Int /\ e.prev < e.etag
         /\ \A e, f \in log \cup job[r].logs :
              /\ e.etag = f.etag => e = f
              /\ TrustClients /\ e.prev = f.etag => e.row = f.row
<1>1. PICK d \in Dictionaries : Agrees(d)
  BY DEF TicketsMeanOneThing
<1>2. \A e \in log \cup job[r].logs : e \in LogEntry /\ Recorded(d, ticket, e)
  BY <1>1 DEF Agrees, AgreesJob, TicketsMeanOneThing, Types, TypeOK
<1>3. \A e \in LogEntry : /\ e.etag \in Ticket /\ e.etag \in Nat /\ e.etag > 0
                          /\ e.data \in Nat /\ e.data > 0
                          /\ e.prev \in Int
  BY Numbers DEF LogEntry
<1> QED
  BY <1>2, <1>3 DEF Recorded, Earlier

LEMMA LogFacts ==
  ASSUME TicketsMeanOneThing
  PROVE  /\ \A e \in log :
              /\ e \in LogEntry /\ e.seq = e.etag /\ e.data # Null
              /\ e.etag \in Nat /\ e.etag > 0 /\ e.etag <= ticket
              /\ e.data \in Nat /\ e.data > 0 /\ e.data < e.etag
              /\ e.prev \in Int /\ e.prev < e.etag
         /\ \A e, f \in log :
              /\ e.etag = f.etag => e = f
              /\ TrustClients /\ e.prev = f.etag => e.row = f.row
<1>1. PICK d \in Dictionaries : Agrees(d)
  BY DEF TicketsMeanOneThing
<1>2. \A e \in log : e \in LogEntry /\ Recorded(d, ticket, e)
  BY <1>1 DEF Agrees, TicketsMeanOneThing, Types, TypeOK
<1>3. \A e \in LogEntry : /\ e.etag \in Ticket /\ e.etag \in Nat /\ e.etag > 0
                          /\ e.data \in Nat /\ e.data > 0 /\ e.data # Null
                          /\ e.prev \in Int
  BY Numbers DEF LogEntry
<1> QED
  BY <1>2, <1>3 DEF Recorded, Earlier

LEMMA StateTypes ==
  ASSUME Types
  PROVE  /\ entry \in Entry /\ entry.data \in Nat /\ entry.pending \in Nat
         /\ ticket \in Nat
         /\ row \in [RowId -> RowVersion]
         /\ \A i \in RowId : /\ row[i] \in RowVersion
                             /\ row[i].etag \in Nat /\ row[i].data \in Nat
  BY Numbers DEF Types, TypeOK, Entry, RowVersion

\* Every entry is settled or unsettled.
LEMMA Parts ==
  ASSUME TicketsMeanOneThing
  PROVE  /\ log = Settled \cup Unsettled
         /\ Settled \cap Unsettled = {}
         /\ entry.pending = Null => Unsettled = {} /\ Settled = log
  BY LogFacts DEF Settled, Unsettled, EntriesOf

\* What a set of entries makes of a row is one version.
LEMMA OneBase ==
  ASSUME NEW S, \A e \in S : e.etag \in Nat,
         \A e, f \in S : e.etag = f.etag => e = f,
         NEW i, NEW v, NEW w, Base(S, i, v), Base(S, i, w)
  PROVE  v = w
<1>1. CASE \A f \in S : f.row # i
  BY <1>1 DEF Base
<1>2. CASE \E f \in S : f.row = i
  <2>1. PICK p \in S : p.row = i /\ Newest(S, p) /\ v = Shown(FromLog(p))
    BY <1>2 DEF Base
  <2>2. PICK q \in S : q.row = i /\ Newest(S, q) /\ w = Shown(FromLog(q))
    BY <1>2 DEF Base
  <2>3. p.etag <= q.etag /\ q.etag <= p.etag /\ p.etag \in Nat /\ q.etag \in Nat
    BY <2>1, <2>2 DEF Newest
  <2>4. p = q
    BY <2>1, <2>2, <2>3
  <2> QED
    BY <2>1, <2>2, <2>4
<1> QED
  BY <1>1, <1>2

\* A row at its base exists when the settled log has it, and has its last ETag.
LEMMA BaseETag ==
  ASSUME TicketsMeanOneThing, NEW i \in RowId, AtBase(i)
  PROVE  /\ ~ Exists(row[i]) => (\A e \in Settled : e.row # i) /\ row[i].etag = 0
         /\ Exists(row[i]) => \E p \in Settled : /\ p.row = i /\ Newest(Settled, p)
                                                 /\ p.etag = row[i].etag
         /\ Exists(row[i]) <=> \E e \in Settled : e.row = i
<1>1. \A v : Shown(v).etag = v.etag
  BY DEF Shown
<1>2. \A e : FromLog(e).etag = e.etag
  BY DEF FromLog
<1>3. CASE (\A f \in Settled : f.row # i) /\ Shown(row[i]) = Shown(NoRow)
  <2>1. row[i].etag = 0 /\ ~ Exists(row[i])
    BY <1>1, <1>3, Numbers DEF NoRow, Exists
  <2> QED
    BY <1>3, <2>1
<1>4. ASSUME NEW p \in Settled, p.row = i, Newest(Settled, p),
             Shown(row[i]) = Shown(FromLog(p))
      PROVE  Exists(row[i]) /\ p.etag = row[i].etag
  <2>1. row[i].etag = p.etag
    BY <1>1, <1>2, <1>4
  <2>2. p \in log
    BY DEF Settled
  <2>3. p.etag \in Nat /\ p.etag > 0
    BY <2>2, LogFacts
  <2> QED
    BY <2>1, <2>3, Numbers DEF Exists
<1> QED
  BY <1>3, <1>4 DEF AtBase, Base

\* A row exists as soon as the settled log has it.
LEMMA RowIsThere ==
  ASSUME TicketsMeanOneThing, Rows, NEW i \in RowId, \E e \in Settled : e.row = i
  PROVE  Exists(row[i])
<1>1. CASE AtBase(i)
  BY <1>1, BaseETag
<1>2. ASSUME NEW e \in Unsettled, Written(i, e) PROVE Exists(row[i])
  <2>1. row[i].etag = e.etag
    BY <1>2 DEF Written, Shown, FromLog
  <2>2. e \in log
    BY DEF Unsettled, EntriesOf
  <2>3. e.etag > 0 /\ e.etag \in Nat
    BY <2>2, LogFacts
  <2> QED
    BY <2>1, <2>3, Numbers DEF Exists
<1> QED
  BY <1>1, <1>2 DEF Rows

-----------------------------------------------------------------------------
(* Steps that leave the table, its log and its entry alone.                  *)

LEMMA SameTidy ==
  ASSUME Tidy, UNCHANGED <<entry, row, log, ticket>>
  PROVE  Tidy'
<1>1. UNCHANGED <<Settled, Unsettled>>
  BY DEF Settled, Unsettled, EntriesOf
<1> QED
  BY <1>1 DEF Tidy, Order, Chained, Rows, Single, AtBase, Written

LEMMA SamePlace ==
  ASSUME UNCHANGED <<entry, row, log>>, NEW j
  PROVE  Place(j) <=> Place(j)'
<1>1. UNCHANGED <<Settled, Unsettled>>
  BY DEF Settled, Unsettled, EntriesOf
<1>2. Served(j) <=> Served(j)'
  BY <1>1 DEF Served
<1>3. Applying(j) <=> Applying(j)'
  BY <1>1 DEF Applying, Queued
<1> QED
  BY <1>1, <1>2, <1>3 DEF Place, AtBase

\* While r works, the others wait for the lock.
LEMMA OthersIdle ==
  ASSUME Types, Exclusive, NEW r \in Request, ~ At(r, "idle"),
         \A u \in Request \ {r} : job'[u] = job[u]
  PROVE  /\ holder = r
         /\ \A u \in Request \ {r} : At(u, "idle") /\ Place(job[u])'
         /\ UNCHANGED holder => Exclusive'
<1>1. holder = r /\ \A u \in Request \ {r} : At(u, "idle")
  BY DEF Exclusive
<1>2. \A u \in Request \ {r} : Place(job[u])'
  BY <1>1 DEF At, Place
<1>3. UNCHANGED holder => Exclusive'
  BY <1>1 DEF Exclusive, At
<1> QED
  BY <1>1, <1>2, <1>3

\* A step of r that moves only its job keeps the invariant if the job does.
LEMMA JobStep ==
  ASSUME Inv, TicketsMeanOneThing', NEW r \in Request, NEW j \in Job, Set(r, j),
         UNCHANGED <<entry, row, log, ticket>>, Place(j), Exclusive'
  PROVE  Inv'
<1>1. job'[r] = j /\ \A u \in Request \ {r} : job'[u] = job[u]
  BY SetJob DEF Inv, TicketsMeanOneThing
<1>2. \A u \in Request : Place(job'[u])
  BY <1>1 DEF Inv
<1>3. \A u \in Request : Place(job[u])'
  BY <1>2, SamePlace
<1>4. Tidy'
  BY SameTidy DEF Inv
<1> QED
  BY <1>3, <1>4 DEF Inv

\* Going where nothing is promised of the job.
LEMMA GoStep ==
  ASSUME Inv, TicketsMeanOneThing', NEW r \in Request, NEW pc \in {"release", "entry"},
         Goto(r, pc), ~ At(r, "idle"), UNCHANGED <<entry, row, log, ticket, holder>>,
         pc = "entry" => Served(job[r])
  PROVE  Inv'
<1>1. job[r] \in Job
  BY JobFields DEF Inv, TicketsMeanOneThing
<1>2. [job[r] EXCEPT !.pc = pc] \in Job /\ [job[r] EXCEPT !.pc = pc].pc = pc
      /\ [job[r] EXCEPT !.pc = pc].changes = job[r].changes
  BY <1>1 DEF Job, Working
<1>3. Set(r, [job[r] EXCEPT !.pc = pc])
  BY DEF Goto, Set, Types, Inv, TicketsMeanOneThing
<1>4. Place([job[r] EXCEPT !.pc = pc])
  BY <1>2 DEF Place, Served
<1>5. Exclusive'
  BY <1>2, <1>3, SetJob, OthersIdle DEF Inv, TicketsMeanOneThing
<1> QED
  BY <1>2, <1>3, <1>4, <1>5, JobStep

\* What is enumerated for a client is served from the settled log.
LEMMA ChangesServed ==
  ASSUME Sound, TicketsMeanOneThing, NEW i \in RowId, NEW c \in Changes(i)
  PROVE  /\ c \in Change /\ c.row = i
         /\ c.base # Null => \E p \in Settled : p.row = c.row /\ p.etag = c.base
<1>1. c \in Change /\ c.row = i /\ c.base \in ClientETags(i)
  BY ChangesType DEF Changes, TicketsMeanOneThing
<1> QED
  BY <1>1 DEF ClientETags, Settled, Sound

LEMMA AcquireStep ==
  ASSUME Sound, Inv, TicketsMeanOneThing', NEW r \in Request, Acquire(r)
  PROVE  Inv'
<1>0. Types
  BY DEF Inv, TicketsMeanOneThing
<1>1. ASSUME NEW op \in Op, NEW s \in Seq(Change), Enter(r, op, s),
             \A k \in DOMAIN s : s[k].base # Null =>
               \E p \in Settled : p.row = s[k].row /\ p.etag = s[k].base,
             DistinctRows => \A k, l \in DOMAIN s : s[k].row = s[l].row => k = l
      PROVE  Inv'
  <2> DEFINE j == [IdleJob EXCEPT !.op = op, !.pc = "entry", !.changes = s]
  <2>1. j \in Job /\ j.pc = "entry" /\ j.changes = s
    BY IdleJobType DEF Job, Working, IdleJob
  <2>2. Set(r, j)
    BY <1>1 DEF Enter
  <2> HIDE DEF j
  <2>3. Place(j)
    BY <1>1, <2>1 DEF Place, Served
  <2>4. Exclusive'
    <3>1. \A u \in Request : At(u, "idle")
      BY DataManagerAssumption DEF Acquire, Inv, Exclusive
    <3>2. holder' = r /\ \A u \in Request \ {r} : job'[u] = job[u]
      BY <1>0, <2>1, <2>2, SetJob DEF Acquire
    <3> QED
      BY <3>1, <3>2 DEF Exclusive, At
  <2> QED
    BY <2>1, <2>2, <2>3, <2>4, JobStep DEF Acquire
<1>2. CASE Enter(r, "read", <<>>)
  <2>1. <<>> \in Seq(Change) /\ "read" \in Op /\ DOMAIN <<>> = {}
    BY DEF Op
  <2> QED
    BY <1>1, <1>2, <2>1
<1>3. ASSUME NEW s \in RowLists, Enter(r, "bulk", s) PROVE Inv'
  <2>1. s \in Seq(Change) /\ "bulk" \in Op
    BY <1>0, RowListsType DEF Op
  <2>2. \A k \in DOMAIN s : \E i \in RowId : s[k] \in Changes(i)
    BY DEF RowLists
  <2>3. \A k \in DOMAIN s : s[k].base # Null =>
          \E p \in Settled : p.row = s[k].row /\ p.etag = s[k].base
    BY <2>2, ChangesServed DEF Inv
  <2>4. DistinctRows => \A k, l \in DOMAIN s : s[k].row = s[l].row => k = l
    BY DEF RowLists
  <2> QED
    BY <1>1, <1>3, <2>1, <2>3, <2>4
<1>4. ASSUME NEW i \in RowId, NEW c \in Changes(i),
             Enter(r, IF c.deleted THEN "delete" ELSE "upsert", <<c>>)
      PROVE  Inv'
  <2>1. c \in Change
        /\ (c.base # Null => \E p \in Settled : p.row = c.row /\ p.etag = c.base)
    BY ChangesServed DEF Inv
  <2>2. <<c>> \in Seq(Change) /\ DOMAIN <<c>> = {1} /\ <<c>>[1] = c
    BY <2>1
  <2> QED
    BY <1>1, <1>4, <2>1, <2>2 DEF Op
<1> QED
  BY <1>2, <1>3, <1>4 DEF Acquire

LEMMA ReadEntryStep ==
  ASSUME Inv, TicketsMeanOneThing', NEW r \in Request, ReadEntry(r)
  PROVE  Inv'
<1>0. Types /\ ~ At(r, "idle")
  BY DEF Inv, TicketsMeanOneThing, ReadEntry, At
<1>1. CASE Goto(r, "release")
  BY <1>0, <1>1, GoStep DEF ReadEntry
<1>2. ASSUME Set(r, [job[r] EXCEPT !.pc = "query", !.copy = entry])
      PROVE  Inv'
  <2> DEFINE j == [job[r] EXCEPT !.pc = "query", !.copy = entry]
  <2>1. job[r] \in Job /\ entry \in Entry
    BY <1>0, JobFields, StateTypes
  <2>2. j \in Job /\ j.pc = "query" /\ j.copy = entry /\ j.changes = job[r].changes
    BY <2>1 DEF Job, Working
  <2>3. Served(job[r])
    BY DEF Inv, Place, ReadEntry, At
  <2> HIDE DEF j
  <2>4. Place(j)
    BY <2>2, <2>3 DEF Place, Served
  <2>5. Set(r, j)
    BY <1>2 DEF j
  <2>6. Exclusive'
    BY <1>0, <2>2, <2>5, SetJob, OthersIdle DEF ReadEntry, Inv
  <2> QED
    BY <2>2, <2>4, <2>5, <2>6, JobStep DEF ReadEntry
<1> QED
  BY <1>1, <1>2 DEF ReadEntry

LEMMA FindPendingStep ==
  ASSUME Sound, Inv, TicketsMeanOneThing', NEW r \in Request, FindPending(r)
  PROVE  Inv'
<1>0. Types /\ ~ At(r, "idle")
  BY DEF Inv, TicketsMeanOneThing, FindPending, At
<1> DEFINE found == ToRevert(job[r].copy.pending)
           pc == IF found = {} THEN AfterRevert(r) ELSE "revert"
           j == [job[r] EXCEPT !.todo = found, !.pc = pc]
<1>1. job[r] \in Job /\ log \subseteq LogEntry
  BY <1>0, JobFields DEF Types, TypeOK
<1>2. Served(job[r]) /\ job[r].copy = entry
  BY DEF Inv, Place, FindPending, At
<1>3. found = Unsettled
  BY <1>2, Parts DEF ToRevert, Unsettled, Inv
<1>4. found \in SUBSET LogEntry
  BY <1>1, <1>3 DEF Unsettled, EntriesOf
<1>5. /\ pc \in Working /\ pc \in {"revert", "mark", "serve"}
      /\ pc \in {"mark", "serve"} => found = {}
  BY DEF AfterRevert, Working
<1>6. Set(r, j)
  BY DEF FindPending, Found, Sound
<1> HIDE DEF found, pc
<1>7. /\ j \in Job /\ j.pc = pc /\ j.todo = found /\ j.copy = job[r].copy
      /\ j.changes = job[r].changes
  BY <1>1, <1>4, <1>5 DEF Job
<1> HIDE DEF j
<1>8. Place(j)
  BY <1>2, <1>3, <1>5, <1>7 DEF Place, Served
<1>9. Exclusive'
  BY <1>0, <1>6, <1>7, SetJob, OthersIdle DEF FindPending, Inv
<1> QED
  BY <1>6, <1>7, <1>8, <1>9, JobStep DEF FindPending

LEMMA ReleaseStep ==
  ASSUME Inv, TicketsMeanOneThing', NEW r \in Request, Release(r)
  PROVE  Inv'
<1>0. Types /\ ~ At(r, "idle")
  BY DEF Inv, TicketsMeanOneThing, Release, At
<1>1. IdleJob \in Job /\ Set(r, IdleJob) /\ IdleJob.pc = "idle"
  BY IdleJobType DEF Release, IdleJob
<1>2. Place(IdleJob)
  BY <1>1 DEF Place
<1>3. job'[r] = IdleJob /\ \A u \in Request \ {r} : job'[u] = job[u]
  BY <1>0, <1>1, SetJob
<1>4. \A u \in Request \ {r} : At(u, "idle")
  BY <1>0, <1>3, OthersIdle DEF Inv
<1>5. Exclusive'
  BY <1>1, <1>3, <1>4 DEF Exclusive, At
<1> QED
  BY <1>1, <1>2, <1>5, JobStep DEF Release

-----------------------------------------------------------------------------
(* The revert.                                                               *)

\* What is left to show of a step of r that writes.
LEMMA WorkStep ==
  ASSUME Inv, TicketsMeanOneThing', NEW r \in Request, ~ At(r, "idle"), UNCHANGED holder,
         \A u \in Request \ {r} : job'[u] = job[u], Tidy', Place(job[r])'
  PROVE  Inv'
<1>1. Exclusive' /\ \A u \in Request \ {r} : Place(job[u])'
  BY OthersIdle DEF Inv, TicketsMeanOneThing
<1> QED
  BY <1>1 DEF Inv

LEMMA RestoreRowStep ==
  ASSUME Sound, Inv, TicketsMeanOneThing', NEW r \in Request, RestoreRow(r)
  PROVE  Inv'
<1>0. Types /\ ~ At(r, "idle") /\ job[r].pc = "revert" /\ TicketsMeanOneThing
  BY DEF Inv, TicketsMeanOneThing, RestoreRow, At
<1>1. Served(job[r]) /\ job[r].copy = entry /\ job[r].todo = Unsettled
  BY <1>0 DEF Inv, Place
<1>2. PICK e \in Unsettled :
        /\ Set(r, [job[r] EXCEPT !.pc = "unlog", !.logs = {e}])
        /\ \/ e.prev = Null /\ row' = [row EXCEPT ![e.row] = NoRow]
           \/ e.prev # Null /\ \E p \in Prior(e) : row' = [row EXCEPT ![e.row] = FromLog(p)]
  BY <1>1 DEF RestoreRow, Sound
<1>3. job[r] \in Job /\ log \subseteq LogEntry /\ e \in log /\ e.row \in RowId
  BY <1>0, JobFields DEF Types, TypeOK, Unsettled, EntriesOf, LogEntry
<1>4. UNCHANGED <<entry, log, holder, ticket, Settled, Unsettled>>
  BY DEF RestoreRow, Settled, Unsettled, EntriesOf
<1>5. Tidy
  BY DEF Inv
<1>6. row \in [RowId -> RowVersion] /\ entry.data \in Nat
  BY <1>0, StateTypes
<1>7. Based(Settled, e)
  BY <1>5 DEF Tidy, Chained
<1>8. Base(Settled, e.row, Shown(row'[e.row])) /\ row'[e.row].data <= entry.data
  <2>1. CASE e.prev = Null /\ row' = [row EXCEPT ![e.row] = NoRow]
    <3>1. row'[e.row] = NoRow
      BY <1>3, <1>6, <2>1
    <3>2. \A p \in Settled : p.etag # Null
      BY <1>0, LogFacts, Numbers DEF Settled
    <3>3. \A f \in Settled : f.row # e.row
      BY <1>7, <2>1, <3>2 DEF Based
    <3> QED
      BY <1>6, <3>1, <3>3, Numbers DEF Base, NoRow
  <2>2. ASSUME e.prev # Null, NEW p \in Prior(e), row' = [row EXCEPT ![e.row] = FromLog(p)]
        PROVE  Base(Settled, e.row, Shown(row'[e.row])) /\ row'[e.row].data <= entry.data
    <3>1. row'[e.row] = FromLog(p)
      BY <1>3, <1>6, <2>2
    <3>2. p \in log /\ p.etag = e.prev
      BY DEF Prior, Logged
    <3>3. PICK q \in Settled : q.row = e.row /\ Newest(Settled, q) /\ e.prev = q.etag
      BY <1>7, <2>2 DEF Based
    <3>4. p = q
      BY <1>0, <3>2, <3>3, LogFacts DEF Settled
    <3>5. FromLog(p).data <= entry.data
      BY <1>5, <3>3, <3>4 DEF FromLog, Tidy, Order
    <3> QED
      BY <3>1, <3>3, <3>4, <3>5 DEF Base
  <2> QED
    BY <1>2, <2>1, <2>2
<1>9. AtBase(e.row)'
  BY <1>4, <1>8 DEF AtBase
<1>10. \A i \in RowId : i # e.row => row'[i] = row[i]
  BY <1>2, <1>6
<1>11. Rows'
  BY <1>4, <1>5, <1>9, <1>10 DEF Tidy, Rows, AtBase, Written
<1>12. Tidy'
  BY <1>4, <1>5, <1>11 DEF Tidy, Order, Chained, Single
<1> DEFINE j == [job[r] EXCEPT !.pc = "unlog", !.logs = {e}]
<1>13. /\ j \in Job /\ j.pc = "unlog" /\ j.logs = {e} /\ j.todo = job[r].todo
       /\ j.copy = job[r].copy /\ j.changes = job[r].changes
  BY <1>3 DEF Job, Working
<1>14. Set(r, j)
  BY <1>2
<1> HIDE DEF j
<1>15. job'[r] = j /\ \A u \in Request \ {r} : job'[u] = job[u]
  BY <1>0, <1>13, <1>14, SetJob
<1>16. Place(job[r])'
  <2>1. Served(job[r])'
    BY <1>1, <1>4, <1>13, <1>15 DEF Served
  <2> QED
    BY <1>1, <1>4, <1>9, <1>13, <1>15, <2>1 DEF Place
<1> QED
  BY <1>0, <1>4, <1>12, <1>15, <1>16, WorkStep

LEMMA DropEntryStep ==
  ASSUME Inv, TicketsMeanOneThing', NEW r \in Request, DropEntry(r)
  PROVE  Inv' /\ UNCHANGED <<Settled, entry>>
<1>0. Types /\ ~ At(r, "idle") /\ job[r].pc = "unlog" /\ TicketsMeanOneThing
  BY DEF Inv, TicketsMeanOneThing, DropEntry, At
<1>1. /\ Served(job[r]) /\ job[r].copy = entry /\ job[r].todo = Unsettled
      /\ \A e \in job[r].logs : e \in Unsettled /\ AtBase(e.row)
  BY <1>0 DEF Inv, Place
<1> DEFINE left == Unsettled \ job[r].logs
           pc == IF left = {} THEN AfterRevert(r) ELSE "revert"
           j == [job[r] EXCEPT !.todo = left, !.logs = {}, !.pc = pc]
<1>2. log' = log \ job[r].logs /\ Set(r, j) /\ UNCHANGED <<entry, row, holder, ticket>>
  BY <1>1 DEF DropEntry
<1>3. Settled' = Settled /\ Unsettled' = left /\ log' \subseteq log
  BY <1>1, <1>2 DEF Settled, Unsettled, EntriesOf
<1>4. Tidy
  BY DEF Inv
<1>5. Rows'
  BY <1>1, <1>2, <1>3, <1>4 DEF Tidy, Rows, AtBase, Written
<1>6. Tidy'
  <2>1. Order' /\ Chained'
    BY <1>2, <1>3, <1>4 DEF Tidy, Order, Chained
  <2>2. Single'
    BY <1>3, <1>4 DEF Tidy, Single, OnePerRow
  <2> QED
    BY <1>5, <2>1, <2>2 DEF Tidy
<1>7. /\ pc \in Working /\ pc \in {"revert", "mark", "serve"}
      /\ pc \in {"mark", "serve"} => left = {}
  BY DEF AfterRevert, Working
<1>8. job[r] \in Job /\ left \in SUBSET LogEntry
  BY <1>0, JobFields DEF Types, TypeOK, Unsettled, EntriesOf
<1> HIDE DEF left, pc
<1>9. /\ j \in Job /\ j.pc = pc /\ j.todo = left
      /\ j.copy = job[r].copy /\ j.changes = job[r].changes
  BY <1>7, <1>8 DEF Job
<1> HIDE DEF j
<1>10. job'[r] = j /\ \A u \in Request \ {r} : job'[u] = job[u]
  BY <1>0, <1>2, <1>9, SetJob
<1>11. Place(job[r])'
  <2>1. Served(job[r])'
    BY <1>1, <1>3, <1>9, <1>10 DEF Served
  <2> QED
    BY <1>1, <1>2, <1>3, <1>7, <1>9, <1>10, <2>1 DEF Place
<1> QED
  BY <1>0, <1>2, <1>3, <1>6, <1>10, <1>11, WorkStep

-----------------------------------------------------------------------------
(* The writes.                                                               *)

LEMMA PutLogStep ==
  ASSUME Inv, TicketsMeanOneThing', NEW r \in Request, PutLog(r)
  PROVE  Inv' /\ UNCHANGED <<Settled, entry>>
<1>0. Types /\ ~ At(r, "idle") /\ job[r].pc = "log" /\ TicketsMeanOneThing /\ job[r] \in Job
  BY JobFields DEF Inv, TicketsMeanOneThing, PutLog, At
<1>1. Applying(job[r]) /\ job[r].copy = entry
  BY <1>0 DEF Inv, Place
<1>2. CASE job[r].logs = {} /\ Goto(r, "rows") /\ UNCHANGED log
  <2> DEFINE j == [job[r] EXCEPT !.pc = "rows"]
  <2>1. /\ j \in Job /\ j.pc = "rows" /\ j.logs = job[r].logs /\ j.puts = job[r].puts
        /\ j.copy = job[r].copy
    BY <1>0 DEF Job, Working
  <2>2. Set(r, j)
    BY <1>0, <1>2 DEF Goto, Set, Types
  <2> HIDE DEF j
  <2>3. Applying(j)
    BY <1>1, <2>1 DEF Applying, Queued
  <2>4. Place(j)
    BY <1>1, <1>2, <2>1, <2>3 DEF Place
  <2>5. Exclusive'
    BY <1>0, <2>1, <2>2, SetJob, OthersIdle DEF PutLog, Inv
  <2>6. UNCHANGED <<Settled, entry>>
    BY <1>2 DEF PutLog, Settled
  <2> QED
    BY <1>2, <2>1, <2>2, <2>4, <2>5, <2>6, JobStep DEF PutLog
<1>3. ASSUME NEW e \in job[r].logs, log' = log \cup {e},
             Set(r, [job[r] EXCEPT !.logs = @ \ {e}])
      PROVE  Inv' /\ UNCHANGED <<Settled, entry>>
  <2>1. UNCHANGED <<entry, row, holder, ticket>>
    BY DEF PutLog
  <2>2. e.data = entry.pending /\ Based(Settled, e)
    BY <1>1 DEF Applying
  <2>3. Settled' = Settled /\ Unsettled' = Unsettled \cup {e}
    BY <1>3, <2>1, <2>2 DEF Settled, Unsettled, EntriesOf
  <2>4. Tidy
    BY DEF Inv
  <2>5. Order'
    <3>1. \A f, g \in log' : f.data < g.data => f.etag < g.data
      <4> SUFFICES ASSUME NEW f \in log', NEW g \in log', f.data < g.data
                   PROVE  f.etag < g.data
        OBVIOUS
      <4>1. /\ f.data \in Nat /\ g.data \in Nat /\ f.etag \in Nat
            /\ entry.data \in Nat /\ entry.pending \in Nat
            /\ entry.data < entry.pending /\ entry.pending # Null
        BY <1>0, <1>1, <1>3, <2>4, LogFacts, EntryFacts, StateTypes DEF Applying, Tidy, Order
      <4>2. CASE f \in log /\ g \in log
        BY <2>4, <4>2 DEF Tidy, Order
      <4>3. \A h \in log' : h.data <= entry.pending
        BY <1>0, <1>3, <2>2, <2>4, <4>1, Parts, LogFacts DEF Tidy, Order, Unsettled, EntriesOf
      <4>4. CASE g = e
        <5>1. f \in log /\ f \in Settled
          BY <1>3, <2>2, <4>1, <4>4 DEF Settled
        <5> QED
          BY <2>2, <2>4, <4>1, <4>4, <5>1 DEF Tidy, Order
      <4>5. CASE f = e
        BY <2>2, <4>1, <4>3, <4>5
      <4> QED
        BY <1>3, <4>2, <4>4, <4>5
    <3> QED
      BY <2>1, <2>3, <2>4, <3>1 DEF Tidy, Order
  <2>6. Chained'
    BY <2>2, <2>3, <2>4 DEF Tidy, Chained
  <2>7. Rows'
    BY <2>1, <2>3, <2>4 DEF Tidy, Rows, AtBase, Written
  <2>8. Single'
    BY <1>1, <2>3, <2>4 DEF Tidy, Single, OnePerRow, Applying
  <2> DEFINE j == [job[r] EXCEPT !.logs = @ \ {e}]
  <2>9. /\ j \in Job /\ j.pc = "log" /\ j.logs = job[r].logs \ {e} /\ j.puts = job[r].puts
        /\ j.copy = job[r].copy
    BY <1>0 DEF Job
  <2>10. Set(r, j)
    BY <1>3
  <2> HIDE DEF j
  <2>11. job'[r] = j /\ \A u \in Request \ {r} : job'[u] = job[u]
    BY <1>0, <2>9, <2>10, SetJob
  <2>12. Unsettled' \cup j.logs = Unsettled \cup job[r].logs
    BY <2>3, <2>9
  <2>13. Applying(job[r])'
    BY <1>1, <2>1, <2>3, <2>9, <2>11, <2>12 DEF Applying, Queued
  <2>14. Place(job[r])'
    BY <1>1, <2>1, <2>9, <2>11, <2>13 DEF Place
  <2> QED
    BY <1>0, <2>1, <2>3, <2>5, <2>6, <2>7, <2>8, <2>11, <2>14, WorkStep DEF Tidy
<1> QED
  BY <1>2, <1>3 DEF PutLog

LEMMA PutRowStep ==
  ASSUME Inv, TicketsMeanOneThing', NEW r \in Request, PutRow(r)
  PROVE  Inv'
<1>0. Types /\ ~ At(r, "idle") /\ job[r].pc = "rows" /\ TicketsMeanOneThing /\ job[r] \in Job
  BY JobFields DEF Inv, TicketsMeanOneThing, PutRow, At
<1>1. Applying(job[r]) /\ job[r].copy = entry /\ job[r].logs = {} /\ Tidy
  BY <1>0 DEF Inv, Place
<1>2. UNCHANGED <<entry, log, holder, ticket, Settled, Unsettled>>
  BY DEF PutRow, Settled, Unsettled, EntriesOf
<1>3. PICK p \in job[r].puts :
        /\ \A q \in job[r].puts : Precedes(p, q)
        /\ IF p.insert /\ Exists(row[p.row])
           THEN Goto(r, "release") /\ UNCHANGED row
           ELSE /\ row' = [row EXCEPT ![p.row] =
                             IF p.insert \/ Exists(@) THEN p.version ELSE @]
                /\ Set(r, [job[r] EXCEPT !.puts = @ \ {p}])
  BY DEF PutRow
<1>4. CASE p.insert /\ Exists(row[p.row])
  BY <1>0, <1>2, <1>3, <1>4, GoStep
<1>5. CASE ~ (p.insert /\ Exists(row[p.row]))
  <2>1. /\ p.row \in RowId /\ p.version \in RowVersion /\ p.version.etag \in Nat
        /\ \A q \in job[r].puts : q.row \in RowId /\ q.version.etag \in Nat
    BY <1>0, Numbers DEF Job, PutOf, RowVersion
  <2>2. row \in [RowId -> RowVersion] /\ \A i \in RowId : row[i].etag \in Nat
    BY <1>0, StateTypes
  <2>3. /\ p.version.data <= entry.pending /\ row[p.row].etag < p.version.etag
        /\ p.insert <=> \A e \in Settled : e.row # p.row
    BY <1>1 DEF Applying, Queued
  <2>4. PICK e \in Unsettled : e.row = p.row /\ e.etag = p.version.etag
                               /\ Shown(FromLog(e)) = Shown(p.version)
    BY <1>1 DEF Applying, Queued
  <2>5. row'[p.row] = p.version /\ \A i \in RowId : i # p.row => row'[i] = row[i]
    <3>1. p.insert \/ Exists(row[p.row])
      BY <1>0, <1>1, <2>1, <2>3, RowIsThere DEF Tidy
    <3> QED
      BY <1>3, <1>5, <2>1, <2>2, <3>1
  <2>6. Written(p.row, e)'
    BY <1>2, <2>3, <2>4, <2>5 DEF Written
  <2>7. Rows'
    BY <1>1, <1>2, <2>5, <2>6 DEF Tidy, Rows, AtBase, Written
  <2>8. Tidy'
    BY <1>1, <1>2, <2>7 DEF Tidy, Order, Chained, Single
  <2> DEFINE j == [job[r] EXCEPT !.puts = @ \ {p}]
  <2>9. /\ j \in Job /\ j.pc = "rows" /\ j.logs = {} /\ j.puts = job[r].puts \ {p}
        /\ j.copy = job[r].copy
    BY <1>0, <1>1 DEF Job
  <2>10. Set(r, j)
    BY <1>3, <1>5
  <2> HIDE DEF j
  <2>11. job'[r] = j /\ \A u \in Request \ {r} : job'[u] = job[u]
    BY <1>0, <2>9, <2>10, SetJob
  <2>12. \A q \in j.puts : row'[q.row].etag < q.version.etag
    <3> SUFFICES ASSUME NEW q \in j.puts PROVE row'[q.row].etag < q.version.etag
      OBVIOUS
    <3>1. q \in job[r].puts /\ q # p
      BY <2>9
    <3>2. CASE q.row = p.row
      <4>1. q.insert = p.insert
        <5>1. /\ q.insert \in BOOLEAN /\ p.insert \in BOOLEAN
          BY <1>0, <3>1 DEF Job, PutOf
        <5>2. q.insert <=> \A f \in Settled : f.row # q.row
          BY <1>1, <3>1 DEF Applying, Queued
        <5> QED
          BY <2>3, <3>2, <5>1, <5>2
      <4>2. p.version.etag <= q.version.etag
        BY <1>3, <3>1, <4>1 DEF Precedes
      <4>3. p.version.etag # q.version.etag
        BY <1>1, <3>1 DEF Applying
      <4> QED
        BY <2>1, <2>5, <3>1, <3>2, <4>2, <4>3
    <3>3. CASE q.row # p.row
      BY <1>1, <2>1, <2>5, <3>1, <3>3 DEF Applying, Queued
    <3> QED
      BY <3>2, <3>3
  <2>13. \A f \in Unsettled :
           row'[f.row].etag >= f.etag \/ \E q \in j.puts : q.version.etag = f.etag
    <3> SUFFICES ASSUME NEW f \in Unsettled
                 PROVE  row'[f.row].etag >= f.etag
                        \/ \E q \in j.puts : q.version.etag = f.etag
      OBVIOUS
    <3>0. e \in log /\ f \in log /\ f.etag \in Nat /\ f.row \in RowId
      BY <1>0, LogFacts DEF Unsettled, EntriesOf, LogEntry
    <3>1. CASE row[f.row].etag >= f.etag
      BY <2>1, <2>2, <2>3, <2>5, <3>0, <3>1
    <3>2. ASSUME NEW q \in job[r].puts, q.version.etag = f.etag
          PROVE  row'[f.row].etag >= f.etag \/ \E x \in j.puts : x.version.etag = f.etag
      <4>1. CASE q # p
        BY <2>9, <3>2, <4>1
      <4>2. CASE q = p
        <5>1. f = e
          BY <1>0, <2>4, <3>0, <3>2, <4>2, LogFacts
        <5> QED
          BY <2>1, <2>4, <2>5, <5>1
      <4> QED
        BY <4>1, <4>2
    <3> QED
      BY <1>1, <3>1, <3>2 DEF Applying
  <2>14. \A q \in j.puts : Queued(q, job[r])'
    BY <1>1, <1>2, <2>9, <2>11, <2>12 DEF Applying, Queued
  <2>15. Applying(job[r])'
    BY <1>1, <1>2, <2>9, <2>11, <2>13, <2>14 DEF Applying
  <2>16. Place(job[r])'
    BY <1>1, <1>2, <2>9, <2>11, <2>15 DEF Place
  <2> QED
    BY <1>0, <1>2, <2>8, <2>11, <2>16, WorkStep
<1> QED
  BY <1>4, <1>5

\* When every change is written, each row is what the whole log makes of it.
LEMMA AllWritten ==
  ASSUME TicketsMeanOneThing, Tidy, NEW r \in Request, Applying(job[r]),
         job[r].logs = {}, job[r].puts = {}, NEW i \in RowId
  PROVE  Base(log, i, Shown(row[i])) /\ row[i].data <= entry.pending
<1>0. /\ entry.data \in Nat /\ entry.pending \in Nat /\ row[i].data \in Nat
      /\ row[i].etag \in Nat /\ entry.data < entry.pending
  BY StateTypes DEF TicketsMeanOneThing, Tidy, Order, Applying
<1>1. \A f \in Unsettled : row[f.row].etag >= f.etag
  BY DEF Applying
<1>2. \A f \in Settled : f.etag < entry.pending
  BY DEF Tidy, Order, Applying
<1>3. \A f \in Unsettled : entry.pending < f.etag
  BY LogFacts DEF Unsettled, EntriesOf
<1>4. /\ log = Settled \cup Unsettled
      /\ \A f \in log : f.etag \in Nat
  BY Parts, LogFacts
<1>5. CASE AtBase(i)
  <2>1. \A f \in Unsettled : f.row # i
    <3> SUFFICES ASSUME NEW f \in Unsettled, f.row = i PROVE FALSE
      OBVIOUS
    <3>1. row[i].etag >= f.etag /\ f.etag > entry.pending /\ f.etag \in Nat
      BY <1>0, <1>1, <1>3, <1>4
    <3>2. row[i].etag < entry.pending
      BY <1>0, <1>2, <1>5, BaseETag
    <3> QED
      BY <1>0, <3>1, <3>2
  <2>2. Base(log, i, Shown(row[i]))
    BY <1>4, <1>5, <2>1 DEF AtBase, Base, Newest
  <2> QED
    BY <1>0, <1>5, <2>2 DEF AtBase
<1>6. ASSUME NEW e \in Unsettled, Written(i, e)
      PROVE  Base(log, i, Shown(row[i])) /\ row[i].data <= entry.pending
  <2>1. row[i].etag = e.etag /\ e.row = i
    BY <1>6 DEF Written, Shown, FromLog
  <2>2. \A f \in log : f.row = i => f.etag <= e.etag
    BY <1>0, <1>1, <1>2, <1>3, <1>4, <2>1
  <2> QED
    BY <1>4, <1>6, <2>1, <2>2 DEF Written, Base, Newest
<1> QED
  BY <1>5, <1>6 DEF Tidy, Rows

LEMMA CommitStep ==
  ASSUME Inv, TicketsMeanOneThing', NEW r \in Request, Commit(r)
  PROVE  /\ Inv'
         /\ Settled' = log
         /\ entry'.data = entry.pending /\ entry.pending # Null
<1>0. Types /\ ~ At(r, "idle") /\ job[r].pc = "rows" /\ TicketsMeanOneThing /\ job[r] \in Job
  BY JobFields DEF Inv, TicketsMeanOneThing, Commit, At
<1>1. /\ Applying(job[r]) /\ job[r].copy = entry /\ job[r].logs = {} /\ job[r].puts = {}
      /\ Tidy
  BY <1>0 DEF Inv, Place, Commit
<1>2. /\ UNCHANGED <<row, log, holder, ticket>>
      /\ entry'.data = entry.pending /\ entry'.pending = Null
      /\ Goto(r, "release")
  BY <1>1 DEF Commit
<1>3. Settled' = log /\ Unsettled' = {}
  BY <1>0, <1>2, LogFacts DEF Settled, Unsettled, EntriesOf
<1>4. /\ entry.data \in Nat /\ entry.pending \in Nat /\ entry.data < entry.pending
      /\ entry.pending # Null /\ log = Settled \cup Unsettled
  BY <1>0, <1>1, StateTypes, Parts DEF Applying, Tidy, Order
<1>5. Order'
  <2>1. \A e \in log : e.data <= entry.pending
    BY <1>0, <1>1, <1>4, LogFacts DEF Tidy, Order, Unsettled, EntriesOf
  <2>2. entry'.pending <= ticket
    BY <1>0, <1>2, Numbers, StateTypes
  <2> QED
    BY <1>1, <1>2, <1>3, <2>1, <2>2 DEF Tidy, Order
<1>6. Chained'
  BY <1>1, <1>3, <1>4 DEF Tidy, Chained, Based
<1>7. Rows'
  BY <1>0, <1>1, <1>2, <1>3, AllWritten DEF Rows, AtBase
<1>8. Single'
  <2> SUFFICES ASSUME DistinctRows PROVE OneChain(log)
    BY <1>3 DEF Single, OnePerRow
  <2>1. OnePerRow(Unsettled) /\ OneChain(Settled)
    BY <1>1 DEF Tidy, Single
  <2>2. ASSUME NEW e \in Settled, NEW f \in Unsettled, e.row = f.row, e.prev = f.prev
        PROVE  FALSE
    <3>1. PICK p \in Settled : p.row = f.row /\ Newest(Settled, p) /\ f.prev = p.etag
      BY <1>1, <2>2 DEF Tidy, Chained, Based
    <3>2. e.prev < e.etag /\ e.etag <= p.etag /\ e.etag \in Nat /\ p.etag \in Nat
      BY <1>0, <1>4, <2>2, <3>1, LogFacts DEF Newest
    <3> QED
      BY <2>2, <3>1, <3>2
  <2> QED
    BY <1>4, <2>1, <2>2 DEF OneChain, OnePerRow
<1>9. Tidy'
  BY <1>5, <1>6, <1>7, <1>8 DEF Tidy
<1>10. job'[r].pc = "release" /\ \A u \in Request \ {r} : job'[u] = job[u]
  <2>1. job'[r] = [job[r] EXCEPT !.pc = "release"]
        /\ \A u \in Request \ {r} : job'[u] = job[u]
    BY <1>0, <1>2, GotoJob
  <2> QED
    BY <1>0, <2>1 DEF Job
<1>11. Place(job[r])'
  BY <1>10 DEF Place
<1> QED
  BY <1>0, <1>2, <1>3, <1>4, <1>9, <1>10, <1>11, WorkStep

LEMMA MarkStep ==
  ASSUME Sound, Inv, TicketsMeanOneThing', NEW r \in Request, At(r, "mark"),
         NEW seen \in Readings, MarkPending(r, seen), UNCHANGED <<row, log, holder, failures>>
  PROVE  Inv' /\ UNCHANGED Settled /\ entry'.data = entry.data
<1> DEFINE c(k) == job[r].changes[k]
           v(k) == Revise(c(k), row[c(k).row], ticket + 1 + k, ticket + 1)
           e(k) == NewLogEntry(c(k).row, v(k), PreviousETag(c(k), row[c(k).row]), ticket + 1)
           p(k) == [row |-> c(k).row, version |-> v(k), insert |-> ~ Exists(row[c(k).row])]
           ok == Applicable(r, row)
<1>0. Types /\ ~ At(r, "idle") /\ job[r].pc = "mark" /\ TicketsMeanOneThing /\ Tidy
      /\ job[r] \in Job
  BY JobFields DEF Inv, TicketsMeanOneThing, At
<1>1. seen = row
  BY DEF Readings, Sound
<1>2. Served(job[r]) /\ job[r].copy = entry /\ Unsettled = {}
  BY <1>0 DEF Inv, Place
<1>3. Settled = log
  BY <1>0, <1>2, Parts
<1>4. \A i \in RowId : AtBase(i)
  BY <1>0, <1>2 DEF Tidy, Rows
<1>5. /\ ticket \in Nat /\ entry \in Entry /\ entry.data \in Nat /\ entry.pending \in Nat
      /\ \A i \in RowId : row[i].etag \in Nat /\ row[i].data \in Nat
      /\ ticket' \in Nat /\ ticket + 1 <= ticket'
  <2>1. ticket' = ticket + 1 + Len(job[r].changes) /\ Len(job[r].changes) \in Nat
        /\ ticket' \in Nat /\ ticket \in Nat
    BY <1>0, NewTickets
  <2>2. ticket + 1 <= ticket'
    BY <2>1, Later
  <2> QED
    BY <1>0, <2>1, <2>2, StateTypes
<1>6. entry'.data = entry.data /\ entry'.pending = ticket + 1
  BY <1>2, <1>5 DEF MarkPending, Entry
<1>7. Settled' = Settled /\ Unsettled' = {}
  <2>1. \A x \in log : x.data # ticket + 1
    BY <1>0, <1>5, LogFacts
  <2> QED
    BY <1>3, <1>6, <2>1 DEF Settled, Unsettled, EntriesOf
<1>8. entry.data < ticket + 1 /\ ticket + 1 # Null /\ \A x \in log : x.etag < ticket + 1
  BY <1>0, <1>5, LogFacts, Numbers DEF Tidy, Order
<1>9. Tidy'
  <2>1. Order'
    BY <1>0, <1>3, <1>5, <1>6, <1>7, <1>8 DEF Tidy, Order
  <2>2. Chained' /\ Rows'
    BY <1>0, <1>4, <1>6, <1>7 DEF Tidy, Chained, Rows, AtBase
  <2>3. Single'
    BY <1>0, <1>7 DEF Tidy, Single, OnePerRow
  <2> QED
    BY <2>1, <2>2, <2>3 DEF Tidy
<1>10. \A k \in ok : /\ c(k) \in Change /\ c(k).row \in RowId
                     /\ k \in 1 .. Len(job[r].changes) /\ k \in DOMAIN job[r].changes
                     /\ v(k).etag = ticket + 1 + k
                     /\ Accepted(c(k), row[c(k).row])
                     /\ k \in Nat /\ k > 0
  <2>1. Len(job[r].changes) \in Nat
    BY <1>0, NewTickets
  <2>2. \A k \in ok : c(k) \in Change /\ k \in 1 .. Len(job[r].changes)
                      /\ v(k).etag = ticket + 1 + k
    BY <1>0, <1>1, Prepared
  <2>3. \A k \in ok : k \in DOMAIN job[r].changes /\ Accepted(c(k), row[c(k).row])
    BY DEF Applicable
  <2>4. \A k \in ok : k \in Nat /\ k > 0
    BY <2>1, <2>2
  <2> HIDE DEF ok, v
  <2> QED
    BY <2>2, <2>3, <2>4 DEF Change
<1>11. /\ job'[r].logs = {e(k) : k \in ok} /\ job'[r].puts = {p(k) : k \in ok}
       /\ job'[r].pc = "log" /\ job'[r].copy = entry'
       /\ \A u \in Request \ {r} : job'[u] = job[u]
  <2>1. job'[r] = [job[r] EXCEPT !.pc = "log", !.copy = entry',
                     !.logs = job'[r].logs, !.puts = job'[r].puts]
    BY <1>0, <1>1, Prepared
  <2>2. job'[r].pc = "log" /\ job'[r].copy = entry'
    BY <1>0, <2>1 DEF Job
  <2> QED
    BY <1>0, <1>1, <2>2, Prepared
<1>12. \A k \in ok : /\ e(k).row = c(k).row /\ e(k).etag = ticket + 1 + k
                     /\ e(k).prev = PreviousETag(c(k), row[c(k).row])
                     /\ e(k).data = ticket + 1
                     /\ Shown(FromLog(e(k))) = Shown(v(k))
  BY <1>10 DEF NewLogEntry, FromLog, Shown
<1>13. \A k \in ok : Based(Settled, e(k))
  <2> SUFFICES ASSUME NEW k \in ok PROVE Based(Settled, e(k))
    OBVIOUS
  <2>0. PICK i \in RowId : i = c(k).row
    BY <1>10
  <2>1. AtBase(i) /\ Accepted(c(k), row[i]) /\ e(k).row = i
        /\ e(k).prev = PreviousETag(c(k), row[i])
    BY <1>4, <1>10, <1>12, <2>0
  <2>2. CASE Exists(row[i])
    <3>1. e(k).prev = row[i].etag
      BY <2>1, <2>2 DEF Accepted, PreviousETag
    <3>2. PICK q \in Settled : q.row = i /\ Newest(Settled, q) /\ q.etag = row[i].etag
      BY <1>0, <2>1, <2>2, BaseETag
    <3> HIDE DEF e, c
    <3> QED
      BY <2>1, <3>1, <3>2 DEF Based
  <2>3. CASE ~ Exists(row[i])
    <3>1. e(k).prev = c(k).base
      BY <2>1, <2>3 DEF Accepted, PreviousETag
    <3>2. \A f \in Settled : f.row # i
      BY <1>0, <2>1, <2>3, BaseETag
    <3>3. c(k).base = Null
      BY <1>2, <1>10, <2>0, <3>2 DEF Served
    <3> HIDE DEF e, c
    <3> QED
      BY <2>1, <3>1, <3>2, <3>3 DEF Based
  <2> QED
    BY <2>2, <2>3
<1>14. \A x \in job'[r].puts :
         /\ \E k \in ok : x = p(k) /\ x.version.etag = ticket + 1 + k
         /\ Queued(x, job[r])'
  <2> SUFFICES ASSUME NEW x \in job'[r].puts
               PROVE  /\ \E k \in ok : x = p(k) /\ x.version.etag = ticket + 1 + k
                      /\ Queued(x, job[r])'
    OBVIOUS
  <2>1. PICK k \in ok : x = p(k)
    BY <1>11
  <2>2. x.row = c(k).row /\ x.version = v(k) /\ (x.insert <=> ~ Exists(row[c(k).row]))
    BY <2>1
  <2>3. PICK i \in RowId : i = c(k).row
    BY <1>10
  <2>4. x.version.etag = ticket + 1 + k
    BY <1>10, <2>2
  <2>5. \E f \in job'[r].logs : f.row = x.row /\ f.etag = x.version.etag
                                /\ Shown(FromLog(f)) = Shown(x.version)
    <3>1. e(k) \in job'[r].logs
      BY <1>11
    <3>2. e(k).row = x.row /\ e(k).etag = x.version.etag
          /\ Shown(FromLog(e(k))) = Shown(x.version)
      BY <1>12, <2>2, <2>4
    <3> QED
      BY <3>1, <3>2
  <2>6. x.version.data <= ticket + 1
    <3>1. c(k).deleted => v(k).data = row[i].data
      BY <1>0, <2>3, StateTypes DEF Revise, RowVersion
    <3>2. ~ c(k).deleted => v(k).data = ticket + 1
      BY DEF Revise
    <3>3. row[i].data <= ticket + 1
      BY <1>4, <1>5, <1>8 DEF AtBase
    <3> HIDE DEF v
    <3> QED
      BY <1>5, <2>2, <3>1, <3>2, <3>3
  <2>7. row[i].etag < ticket + 1
    <3>1. CASE Exists(row[i])
      BY <1>0, <1>3, <1>4, <1>8, <3>1, BaseETag
    <3>2. CASE ~ Exists(row[i])
      BY <1>5, <3>2, Numbers DEF Exists
    <3> QED
      BY <3>1, <3>2
  <2>8. row[i].etag < x.version.etag
    BY <1>5, <1>10, <2>4, <2>7
  <2>9. x.insert <=> \A f \in Settled : f.row # i
    BY <1>0, <1>4, <2>2, <2>3, BaseETag
  <2>10. x.row = i
    BY <2>2, <2>3
  <2> HIDE DEF ok, c, v, p, e
  <2>11. Queued(x, job[r])'
    BY <1>6, <1>7, <2>5, <2>6, <2>8, <2>9, <2>10 DEF Queued
  <2> QED
    BY <2>1, <2>4, <2>11
<1>15. \A f \in job'[r].logs :
         /\ Based(Settled, f) /\ f.data = ticket + 1
         /\ \E k \in ok : f = e(k) /\ f.row = c(k).row
         /\ \E x \in job'[r].puts : x.version.etag = f.etag
  <2> SUFFICES ASSUME NEW k \in ok
               PROVE  /\ Based(Settled, e(k)) /\ e(k).data = ticket + 1
                      /\ e(k).row = c(k).row
                      /\ \E x \in job'[r].puts : x.version.etag = e(k).etag
    BY <1>11
  <2>1. p(k) \in job'[r].puts /\ p(k).version.etag = e(k).etag
    BY <1>10, <1>11, <1>12
  <2> HIDE DEF ok, c, v, p, e
  <2> QED
    BY <1>12, <1>13, <2>1
<1> HIDE DEF c, v, e, p
<1>16. \A x, y \in job'[r].puts : x.version.etag = y.version.etag => x = y
  <2> SUFFICES ASSUME NEW x \in job'[r].puts, NEW y \in job'[r].puts,
                      x.version.etag = y.version.etag
               PROVE  x = y
    OBVIOUS
  <2>1. PICK k \in ok : x = p(k) /\ x.version.etag = ticket + 1 + k
    BY <1>14
  <2>2. PICK l \in ok : y = p(l) /\ y.version.etag = ticket + 1 + l
    BY <1>14
  <2>3. k = l
    BY <1>5, <1>10, <2>1, <2>2
  <2> QED
    BY <2>1, <2>2, <2>3
<1>17. DistinctRows => OnePerRow(job'[r].logs)
  <2> SUFFICES ASSUME DistinctRows, NEW f \in job'[r].logs, NEW g \in job'[r].logs,
                      f.row = g.row
               PROVE  f = g
    BY DEF OnePerRow
  <2>1. PICK k \in ok : f = e(k) /\ f.row = c(k).row
    BY <1>15
  <2>2. PICK l \in ok : g = e(l) /\ g.row = c(l).row
    BY <1>15
  <2>3. k \in DOMAIN job[r].changes /\ l \in DOMAIN job[r].changes
    BY <1>10
  <2>4. k = l
    BY <1>2, <2>1, <2>2, <2>3 DEF Served, c
  <2> QED
    BY <2>1, <2>2, <2>4
<1>18. Applying(job[r])'
  <2>1. entry'.pending # Null
    BY <1>6, <1>8
  <2> HIDE DEF ok
  <2>2. \A f \in job'[r].logs : Based(Settled, f)' /\ f.data = entry'.pending
    BY <1>6, <1>7, <1>15
  <2>3. \A f \in Unsettled' \cup job'[r].logs :
           \E x \in job'[r].puts : x.version.etag = f.etag
    BY <1>7, <1>15
  <2>4. Unsettled' \cup job'[r].logs = job'[r].logs
    BY <1>7
  <2> QED
    BY <1>14, <1>16, <1>17, <2>1, <2>2, <2>3, <2>4 DEF Applying
<1>19. Place(job[r])'
  BY <1>11, <1>18 DEF Place
<1> QED
  BY <1>0, <1>6, <1>7, <1>9, <1>11, <1>19, WorkStep

-----------------------------------------------------------------------------
(* The inductive invariant.                                                  *)

LEMMA InitInv == Init => Inv
<1> SUFFICES ASSUME Init PROVE Inv
  OBVIOUS
<1>1. TicketsMeanOneThing
  BY InitTickets
<1>2. Settled = {} /\ Unsettled = {}
  BY DEF Init, Settled, Unsettled, EntriesOf
<1>3. \A r \in Request : job[r].pc = "idle"
  BY DEF Init, IdleJob
<1>4. Exclusive /\ \A r \in Request : Place(job[r])
  BY <1>3 DEF Exclusive, At, Place
<1>5. Order /\ Chained /\ Single
  BY <1>2, Numbers DEF Init, Order, Chained, Single, OnePerRow, OneChain
<1>6. Rows
  BY <1>2, Numbers DEF Init, Rows, AtBase, Base, NoRow
<1> QED
  BY <1>1, <1>4, <1>5, <1>6 DEF Inv, Tidy

\* A step commits, or leaves the settled log and the table's data ETag alone.
LEMMA InvStep ==
  ASSUME Sound, Inv, [Next]_vars
  PROVE  /\ Inv'
         /\ \/ UNCHANGED Settled /\ entry'.data = entry.data
            \/ Settled' = log /\ entry'.data = entry.pending /\ entry.pending # Null
<1>0. TicketsMeanOneThing /\ TicketsMeanOneThing'
  BY TicketsStep DEF Inv
<1>1. CASE UNCHANGED vars
  <2>1. UNCHANGED <<Settled, Exclusive>>
    BY <1>1 DEF vars, Settled, Exclusive, At
  <2>2. Tidy'
    BY <1>1, SameTidy DEF vars, Inv
  <2>3. \A r \in Request : Place(job[r])'
    BY <1>1, SamePlace DEF vars, Inv
  <2> QED
    BY <1>0, <1>1, <2>1, <2>2, <2>3 DEF vars, Inv
<1>2. CASE LeaseEnds
  BY <1>2 DEF LeaseEnds, Sound
<1>3. ASSUME NEW r \in Request, Step(r)
      PROVE  /\ Inv'
             /\ \/ UNCHANGED Settled /\ entry'.data = entry.data
                \/ Settled' = log /\ entry'.data = entry.pending /\ entry.pending # Null
  <2>1. CASE Commit(r)
    BY <1>0, <2>1, CommitStep
  <2>2. CASE DropEntry(r)
    BY <1>0, <2>2, DropEntryStep
  <2>3. CASE PutLog(r)
    BY <1>0, <2>3, PutLogStep
  <2>4. CASE MarkBulk(r) \/ MarkOne(r)
    <3>1. At(r, "mark") /\ UNCHANGED <<row, log, holder, failures>>
      BY <2>4 DEF MarkBulk, MarkOne
    <3>2. PICK seen \in Readings : MarkPending(r, seen)
      BY <2>4 DEF MarkBulk, MarkOne
    <3> QED
      BY <1>0, <3>1, <3>2, MarkStep
  <2>5. ASSUME UNCHANGED <<entry, log>>, Inv'
        PROVE  Inv' /\ UNCHANGED Settled /\ entry'.data = entry.data
    BY <2>5 DEF Settled
  <2>6. CASE Acquire(r)
    BY <1>0, <2>5, <2>6, AcquireStep DEF Acquire
  <2>7. CASE ReadEntry(r)
    BY <1>0, <2>5, <2>7, ReadEntryStep DEF ReadEntry
  <2>8. CASE FindPending(r)
    BY <1>0, <2>5, <2>8, FindPendingStep DEF FindPending
  <2>9. CASE RestoreRow(r)
    BY <1>0, <2>5, <2>9, RestoreRowStep DEF RestoreRow
  <2>10. CASE PutRow(r)
    BY <1>0, <2>5, <2>10, PutRowStep DEF PutRow
  <2>11. CASE Release(r)
    BY <1>0, <2>5, <2>11, ReleaseStep DEF Release
  <2>12. CASE RevertThrows(r) \/ Refuse(r) \/ Serve(r) \/ Fail(r)
    <3>1. /\ Goto(r, "release") /\ ~ At(r, "idle")
          /\ UNCHANGED <<entry, row, log, ticket, holder>>
      BY <2>12 DEF RevertThrows, Refuse, Serve, Fail, At, Working
    <3> QED
      BY <1>0, <2>5, <3>1, GoStep
  <2> QED
    BY <1>3, <2>1, <2>2, <2>3, <2>4, <2>6, <2>7, <2>8, <2>9, <2>10, <2>11, <2>12 DEF Step
<1> QED
  BY <1>1, <1>2, <1>3 DEF Next

LEMMA InvHolds == Sound => (Spec => []Inv)
<1> SUFFICES ASSUME Sound PROVE Spec => []Inv
  OBVIOUS
<1>1. Inv /\ [Next]_vars => Inv'
  BY InvStep
<1> QED
  BY <1>1, InitInv, PTL DEF Spec

-----------------------------------------------------------------------------
(* What follows from it.                                                     *)

(* Every version in the table is in the log under its row ETag, and with its  *)
(* content, at every step of every operation: the log is written first, and   *)
(* the revert restores a row before it drops the entry.                       *)
THEOREM EveryRowIsLogged == Sound => (Spec => []RowsAreLogged)
<1> SUFFICES ASSUME Sound PROVE Spec => []RowsAreLogged
  OBVIOUS
<1>1. Inv => RowsAreLogged
  <2> SUFFICES ASSUME Inv, NEW i \in RowId, Exists(row[i])
               PROVE  \E e \in log : e.row = i /\ Shown(FromLog(e)) = Shown(row[i])
    BY DEF RowsAreLogged
  <2>1. CASE AtBase(i)
    <3>1. \E e \in Settled : e.row = i
      BY <2>1, BaseETag DEF Inv
    <3> QED
      BY <2>1, <3>1 DEF AtBase, Base, Settled
  <2>2. CASE \E e \in Unsettled : Written(i, e)
    BY <2>2 DEF Written, Unsettled, EntriesOf
  <2> QED
    BY <2>1, <2>2 DEF Inv, Tidy, Rows
<1> QED
  BY <1>1, InvHolds, PTL

(* A revert never throws: what is pending was made from versions that the log *)
(* still has, of rows that are there (DataManager.java:195-199).              *)
THEOREM RevertsSucceed == Sound => (Spec => []Revertible)
<1> SUFFICES ASSUME Sound PROVE Spec => []Revertible
  OBVIOUS
<1>1. Inv => Revertible
  <2> SUFFICES ASSUME Inv, NEW e \in Unsettled, e.prev # Null
               PROVE  Exists(row[e.row]) /\ Logged(e.prev) # {}
    BY DEF Revertible, Unsettled
  <2>1. PICK p \in Settled : p.row = e.row /\ e.prev = p.etag
    BY DEF Inv, Tidy, Chained, Based
  <2>2. e.row \in RowId
    BY LogFacts DEF Inv, Unsettled, EntriesOf, LogEntry
  <2>3. Exists(row[e.row])
    BY <2>1, <2>2, RowIsThere DEF Inv, Tidy
  <2> QED
    BY <2>1, <2>3 DEF Settled, Logged
<1> QED
  BY <1>1, InvHolds, PTL

(* The log of a row is one chain, as long as no list names a row twice: no    *)
(* accepted change was made to a version other than the one it replaced, and  *)
(* what failed in between leaves no trace.                                    *)
THEOREM HistoryIsLinear == Sound /\ DistinctRows => (Spec => []LinearHistory)
<1> SUFFICES ASSUME Sound, DistinctRows PROVE Spec => []LinearHistory
  OBVIOUS
<1>1. Inv => LinearHistory
  <2> SUFFICES ASSUME Inv PROVE LinearHistory
    OBVIOUS
  <2>1. log = Settled \cup Unsettled
    BY Parts DEF Inv
  <2>2. \A e \in log : e.prev # Null => \E p \in Settled : p.etag = e.prev /\ p.row = e.row
    BY <2>1 DEF Inv, Tidy, Chained, Based
  <2>3. \A e \in log : e.prev # Null =>
          \E p \in log : p.etag = e.prev /\ p.row = e.row /\ p.seq < e.seq
    BY <2>1, <2>2, LogFacts DEF Inv
  <2>4. ASSUME NEW e \in Settled, NEW f \in Unsettled, e.row = f.row, e.prev = f.prev
        PROVE  FALSE
    <3>1. PICK p \in Settled : p.row = f.row /\ Newest(Settled, p) /\ f.prev = p.etag
      BY <2>4 DEF Inv, Tidy, Chained, Based
    <3>2. e.prev < e.etag /\ e.etag <= p.etag /\ e.etag \in Nat /\ p.etag \in Nat
      BY <2>1, <2>4, <3>1, LogFacts DEF Newest, Inv
    <3> QED
      BY <2>4, <3>1, <3>2
  <2>5. \A e, f \in log : e.row = f.row /\ e.prev = f.prev => e = f
    BY <2>1, <2>4 DEF Inv, Tidy, Single, OnePerRow, OneChain
  <2> QED
    BY <2>3, <2>5 DEF LinearHistory
<1> QED
  BY <1>1, InvHolds, PTL

\* When a read is served, nothing is pending: the log is all settled.
LEMMA ServingIsSettled ==
  ASSUME Inv, Serving
  PROVE  Unsettled = {} /\ Settled = log /\ \A i \in RowId : AtBase(i)
<1>1. Unsettled = {}
  BY DEF Serving, Inv, Place, At
<1>2. Settled = log
  BY <1>1, Parts DEF Inv
<1> QED
  BY <1>1, <1>2 DEF Inv, Tidy, Rows

(* A read is served nothing of a change set that was not committed, whatever  *)
(* the operation before it left behind.                                       *)
THEOREM ReadsAreCommitted == Sound => (Spec => []ReadsSeeNothingPending)
<1> SUFFICES ASSUME Sound PROVE Spec => []ReadsSeeNothingPending
  OBVIOUS
<1>1. Inv => ReadsSeeNothingPending
  BY ServingIsSettled DEF ReadsSeeNothingPending, AtBase, Unsettled
<1> QED
  BY <1>1, InvHolds, PTL

\* The last entry of its row in the log is what computeDiff keeps of it.
LEMMA DiffKeepsNewest ==
  ASSUME TicketsMeanOneThing, NEW S, S \subseteq log, NEW p \in S, Newest(log, p)
  PROVE  /\ \E e \in Diff(S) : e.row = p.row
         /\ (CHOOSE e \in Diff(S) : e.row = p.row) = p
<1>1. \A e \in log : e.seq = e.etag /\ e.etag \in Nat
  BY LogFacts
<1>2. p \in Diff(S)
  BY <1>1 DEF Diff, Newest
<1>3. ASSUME NEW e \in Diff(S), e.row = p.row PROVE e = p
  <2>1. e \in S /\ p.seq <= e.seq /\ e.seq <= p.seq
    BY <1>2, <1>3 DEF Diff
  <2>2. e \in log /\ p \in log /\ e.etag = p.etag
    BY <1>1, <2>1
  <2> QED
    BY <2>2, LogFacts
<1> QED
  BY <1>2, <1>3

\* A pull since d gives a row that the log makes v, if the client has v already
\* when the log says nothing of that row since d.
LEMMA PullGives ==
  ASSUME TicketsMeanOneThing, NEW d, NEW i \in RowId, NEW v, Base(log, i, v), NEW w,
         (\A e \in Since(d) : e.row # i) => w[i] = v
  PROVE  Pull(w, d)[i] = v
<1>1. \A e \in log : e.seq = e.etag /\ e.etag \in Nat
  BY LogFacts
<1>2. CASE \A e \in Since(d) : e.row # i
  <2>1. ~ \E e \in Diff(Since(d)) : e.row = i
    BY <1>2 DEF Diff
  <2> QED
    BY <1>2, <2>1 DEF Pull
<1>3. ASSUME NEW x \in Since(d), x.row = i PROVE Pull(w, d)[i] = v
  <2>1. x \in log /\ \A f \in EntriesOf(d) : f.seq < x.seq
    BY DEF Since
  <2>2. PICK p \in log : p.row = i /\ Newest(log, p) /\ v = Shown(FromLog(p))
    BY <1>3, <2>1 DEF Base
  <2>3. x.seq <= p.seq
    BY <1>1, <1>3, <2>1, <2>2 DEF Newest
  <2>4. p \in Since(d)
    <3>1. \A f \in EntriesOf(d) : f.seq < p.seq
      BY <1>1, <2>1, <2>2, <2>3 DEF EntriesOf
    <3> QED
      BY <2>2, <3>1 DEF Since
  <2>5. Since(d) \subseteq log
    BY DEF Since
  <2>6. (\E e \in Diff(Since(d)) : e.row = i) /\ (CHOOSE e \in Diff(Since(d)) : e.row = i) = p
    BY <2>2, <2>4, <2>5, DiffKeepsNewest
  <2> QED
    BY <2>2, <2>6 DEF Pull
<1> QED
  BY <1>2, <1>3

(* A client that pulls, from nothing or from any data ETag the table ever     *)
(* had, ends with the rows of the table: later entries of the log have later  *)
(* sequence values, and no change set is interleaved with another.            *)
THEOREM EveryPullConverges == Sound => (Spec => []PullsConverge)
<1> SUFFICES ASSUME Sound PROVE Spec => []PullsConverge
  OBVIOUS
<1>1. Inv => PullsConverge
  <2> SUFFICES ASSUME Inv, Serving
               PROVE  /\ Pull([i \in RowId |-> Shown(NoRow)], Null) = Current
                      /\ \A d \in {e.data : e \in log} : Pull(RowsAt(d), d) = Current
    BY DEF PullsConverge
  <2>0. TicketsMeanOneThing /\ Tidy
    BY DEF Inv
  <2>1. \A i \in RowId : Base(log, i, Shown(row[i]))
    BY ServingIsSettled DEF AtBase
  <2>2. \A e \in log : /\ e.seq = e.etag /\ e.etag \in Nat /\ e.data # Null
                       /\ e.data \in Nat /\ e.data < e.etag
    BY <2>0, LogFacts
  <2>3. ASSUME NEW w, NEW d,
               \A i \in RowId : (\A e \in Since(d) : e.row # i) => w[i] = Shown(row[i])
        PROVE  Pull(w, d) = Current
    <3>1. \A i \in RowId : Pull(w, d)[i] = Shown(row[i])
      BY <2>0, <2>1, <2>3, PullGives
    <3>2. Pull(w, d) = [i \in RowId |-> Pull(w, d)[i]]
      BY DEF Pull
    <3> QED
      BY <3>1, <3>2 DEF Current
  <2>4. Pull([i \in RowId |-> Shown(NoRow)], Null) = Current
    <3>1. Since(Null) = log
      BY <2>2 DEF Since, EntriesOf
    <3>2. ASSUME NEW i \in RowId, \A e \in Since(Null) : e.row # i
          PROVE  [j \in RowId |-> Shown(NoRow)][i] = Shown(row[i])
      BY <2>1, <3>1, <3>2 DEF Base
    <3> QED
      BY <2>3, <3>2
  <2>5. ASSUME NEW g \in log PROVE Pull(RowsAt(g.data), g.data) = Current
    <3>1. ASSUME NEW i \in RowId, \A e \in Since(g.data) : e.row # i
          PROVE  RowsAt(g.data)[i] = Shown(row[i])
      <4> DEFINE upTo == {e \in log : e.data <= g.data}
      <4>1. CASE (\A f \in log : f.row # i) /\ Shown(row[i]) = Shown(NoRow)
        BY <4>1 DEF RowsAt
      <4>2. ASSUME NEW p \in log, p.row = i, Newest(log, p), Shown(row[i]) = Shown(FromLog(p))
            PROVE  RowsAt(g.data)[i] = Shown(row[i])
        <5>1. PICK f \in EntriesOf(g.data) : ~ (f.seq < p.seq)
          BY <3>1, <4>2 DEF Since
        <5>2. f \in log /\ f.data = g.data
          BY DEF EntriesOf
        <5>3. p.data <= g.data
          BY <2>0, <2>2, <5>1, <5>2 DEF Tidy, Order
        <5>4. p \in upTo /\ upTo \subseteq log
          BY <5>3
        <5>5. (CHOOSE e \in Diff(upTo) : e.row = i) = p
          BY <2>0, <4>2, <5>4, DiffKeepsNewest
        <5>6. \E e \in upTo : e.row = i
          BY <4>2, <5>4
        <5> QED
          BY <4>2, <5>5, <5>6 DEF RowsAt
      <4> QED
        BY <2>1, <4>1, <4>2 DEF Base
    <3> QED
      BY <2>3, <3>1
  <2> QED
    BY <2>4, <2>5
<1> QED
  BY <1>1, InvHolds, PTL

-----------------------------------------------------------------------------
(* The refinement of RowTable.                                               *)

\* A set of numbers has a least one.
LEMMA Least ==
  ASSUME NEW S, S \subseteq Nat, S # {}
  PROVE  \E n \in S : \A m \in S : n <= m
<1>1. IsWellFoundedOn(OpToRel(<,Nat), Nat)
  BY NatLessThanWellFounded, Zenon
<1>2. \E n \in S : \A m \in S : ~ (<<m, n>> \in OpToRel(<,Nat))
  BY <1>1, WFMin, Zenon
<1>3. PICK n \in S : \A m \in S : ~ (<<m, n>> \in OpToRel(<,Nat))
  BY <1>2, Zenon
<1>4. \A m \in S : ~ (m < n)
  BY <1>3, Zenon DEF OpToRel
<1> QED
  BY <1>4

\* The committed version of a row is what the settled log makes of it.
LEMMA CommittedIsBase ==
  ASSUME Inv, NEW i \in RowId
  PROVE  Base(Settled, i, Committed(i))
<1>1. Pending(i) = {e \in Unsettled : e.row = i}
  BY DEF Pending, Unsettled
<1>2. CASE Pending(i) = {}
  <2>1. AtBase(i)
    BY <1>1, <1>2 DEF Inv, Tidy, Rows, Written
  <2> QED
    BY <1>2, <2>1 DEF Committed, AtBase
<1>3. CASE Pending(i) # {}
  <2> DEFINE e == CHOOSE e \in Pending(i) : \A f \in Pending(i) : e.seq <= f.seq
  <2>1. e \in Pending(i)
    <3>1. Pending(i) \subseteq log
      BY DEF Pending, EntriesOf
    <3>2. \A f \in Pending(i) : f.seq \in Nat
      BY <3>1, LogFacts DEF Inv
    <3>3. PICK n \in {f.seq : f \in Pending(i)} : \A m \in {f.seq : f \in Pending(i)} : n <= m
      <4>1. {f.seq : f \in Pending(i)} \subseteq Nat /\ {f.seq : f \in Pending(i)} # {}
        BY <1>3, <3>2
      <4> QED
        BY <4>1, Least
    <3>4. \E f \in Pending(i) : \A g \in Pending(i) : f.seq <= g.seq
      BY <3>3
    <3> QED
      BY <3>4
  <2>2. e \in Unsettled /\ e.row = i
    BY <1>1, <2>1
  <2> HIDE DEF e
  <2>3. Committed(i) = IF e.prev = Null THEN Shown(NoRow)
                       ELSE LET p == CHOOSE p \in log : p.etag = e.prev IN Shown(FromLog(p))
    BY <1>3 DEF Committed, e
  <2>4. Based(Settled, e)
    BY <2>2 DEF Inv, Tidy, Chained
  <2>5. \A p \in Settled : p \in log /\ p.etag # Null
    BY LogFacts, Numbers DEF Inv, Settled
  <2>6. CASE e.prev = Null
    <3>1. \A f \in Settled : f.row # i
      BY <2>2, <2>4, <2>5, <2>6 DEF Based
    <3> QED
      BY <2>3, <2>6, <3>1 DEF Base
  <2>7. CASE e.prev # Null
    <3>1. PICK p \in Settled : p.row = i /\ Newest(Settled, p) /\ e.prev = p.etag
      BY <2>2, <2>4, <2>7 DEF Based
    <3>2. (CHOOSE q \in log : q.etag = e.prev) = p
      BY <2>5, <3>1, LogFacts DEF Inv
    <3> QED
      BY <2>3, <2>7, <3>1, <3>2 DEF Base
  <2> QED
    BY <2>6, <2>7
<1> QED
  BY <1>2, <1>3

(* The table refines RowTable: a commit puts a whole change set into effect,  *)
(* and no other step, failed or not, changes what is committed.               *)
THEOREM OperationsAreAtomic == Sound => (Spec => AtomicChangeSets)
<1> SUFFICES ASSUME Sound PROVE Spec => AtomicChangeSets
  OBVIOUS
<1>1. Init => Table!Init
  <2> SUFFICES ASSUME Init PROVE Table!Init
    OBVIOUS
  <2>1. \A i \in RowId : Committed(i) = Shown(NoRow)
    BY DEF Init, Committed, Pending, EntriesOf
  <2>2. entry.data = 0
    BY Numbers DEF Init
  <2> QED
    BY <2>1, <2>2 DEF Table!Init
<1>2. Inv => \A i \in RowId : Base(Settled, i, Committed(i))
  BY CommittedIsBase
<1>3. Inv /\ [Next]_vars =>
        [Table!ChangeSet]_<<[i \in RowId |-> Committed(i)], entry.data>>
  <2> SUFFICES ASSUME Inv, [Next]_vars
               PROVE  [Table!ChangeSet]_<<[i \in RowId |-> Committed(i)], entry.data>>
    OBVIOUS
  <2>0. Inv'
    BY InvStep
  <2>1. \A i \in RowId : Base(Settled, i, Committed(i)) /\ Base(Settled', i, Committed(i)')
    <3>1. \A i \in RowId : Base(Settled, i, Committed(i))
      BY CommittedIsBase
    <3>2. (Inv => \A i \in RowId : Base(Settled, i, Committed(i)))'
      BY <1>2, PTL
    <3> QED
      BY <2>0, <3>1, <3>2
  <2>2. /\ \A e \in log : e.etag \in Nat
        /\ \A e, f \in log : e.etag = f.etag => e = f
        /\ Settled \subseteq log
    BY LogFacts DEF Inv, Settled
  <2>3. CASE UNCHANGED Settled /\ entry'.data = entry.data
    <3>1. \A i \in RowId : Committed(i)' = Committed(i)
      BY <2>1, <2>2, <2>3, OneBase
    <3> QED
      BY <2>3, <3>1
  <2>4. CASE Settled' = log /\ entry'.data = entry.pending /\ entry.pending # Null
    <3>1. entry'.data > entry.data
      BY <2>4, StateTypes DEF Inv, Tidy, Order, TicketsMeanOneThing
    <3>2. ASSUME NEW i \in RowId, Committed(i)' # Committed(i)
          PROVE  Committed(i)'.etag > entry'.data
      <4>1. log = Settled \cup Unsettled
        BY Parts DEF Inv
      <4>2. PICK f \in Unsettled : f.row = i
        <5>1. ASSUME \A f \in Unsettled : f.row # i PROVE FALSE
          <6>1. Base(log, i, Committed(i))
            BY <2>1, <4>1, <5>1 DEF Base, Newest
          <6>2. Base(log, i, Committed(i)')
            BY <2>1, <2>4
          <6> QED
            BY <2>2, <3>2, <6>1, <6>2, OneBase
        <5> QED
          BY <5>1
      <4>3. f \in log /\ f.data = entry.pending /\ f.data < f.etag /\ f.data \in Nat
        BY LogFacts DEF Inv, Unsettled, EntriesOf
      <4>4. PICK p \in log : Newest(log, p) /\ p.row = i /\ Committed(i)' = Shown(FromLog(p))
        BY <2>1, <2>4, <4>2, <4>3 DEF Base
      <4>5. f.etag <= p.etag /\ Committed(i)'.etag = p.etag
        BY <4>2, <4>3, <4>4 DEF Newest, Shown, FromLog
      <4> QED
        BY <2>2, <2>4, <4>3, <4>4, <4>5
    <3> QED
      BY <3>1, <3>2 DEF Table!ChangeSet
  <2> QED
    BY <2>3, <2>4, InvStep
<1> QED
  BY <1>1, <1>3, InvHolds, PTL DEF Spec, AtomicChangeSets, Table!Spec

===============================================================================
