---------------------------- MODULE TableLifecycle ----------------------------
(***************************************************************************)
(* How TableManager creates and deletes the table of one table id.  A      *)
(* table is an entry, a definition, a record per column, two relations     *)
(* (rows and log), attachments and ACLs, and each is written or removed by *)
(* a commit of its own.  The entry says how far things are: the pending    *)
(* schema ETag names a schema that is being built, the schema ETag the one *)
(* in use, the stale schema ETag one that is being removed.  Whoever gets  *)
(* the table's lock next goes on from there.                               *)
(*                                                                         *)
(* Schema ETags (UUIDs) are numbered as they are drawn.  The row data is   *)
(* module DataManager's: here a change set is one step that gives the      *)
(* entry its next data ETag, and the pending data ETag is left out.  The   *)
(* lock is module TaskLock's, held by one request at a time.               *)
(***************************************************************************)
EXTENDS Naturals, FiniteSets

CONSTANTS
  Request,       \* handlers at work on the table id
  Column,
  Schemas,       \* the sets of columns that clients ask for
  Items,         \* the columns that hold the items of an array column
  Others,        \* relations of other tables whose names this one may want
  RequestsRace,  \* may a request use what it read of the entry before it had
                 \* the lock, though the entry has changed since?
  MaxSchema,     \* bound on the schema ETags drawn
  MaxData,       \* bound on the change sets of a table
  MaxFailures    \* bound on the operations and reads that fail

NoHolder == "nobody"
Name == Nat
Kind == {"data", "log"}

ASSUME TableLifecycleAssumption ==
  /\ Schemas \subseteq SUBSET Column
  /\ Items \in [Column -> SUBSET Column]
  /\ \A s \in Schemas : \A c \in s : Items[c] \subseteq s
  /\ RequestsRace \in BOOLEAN
  /\ {MaxSchema, MaxData, MaxFailures} \subseteq Nat
  /\ Others \subseteq [name : Name, kind : Kind] /\ IsFiniteSet(Others)
  /\ NoHolder \notin Request

VARIABLES
  entry,       \* DbTableEntry: the record of the table id
  definition,  \* DbTableDefinitions: schema ETag and physical name
  column,      \* DbColumnDefinitions: schema ETag and column
  relation,    \* the physical relations, by name and kind
  attachment,  \* the schemas under which attachments were stored
  acl,         \* DbTableAcl: who has a role on the table
  holder,      \* the request that holds the table's lock
  job,         \* what each request is doing
  ticket,      \* the last schema ETag drawn
  committed,   \* the data ETag of the last change set of this table
  failures,    \* operations and reads that failed so far
  misread      \* history: reads that failed and were taken for "there is none"

store == <<definition, column, relation, attachment, acl>>
faults == <<failures, misread>>
vars == <<entry, store, holder, job, ticket, committed, faults>>

Null == 0

ETag == 0 .. MaxSchema
Entry == [exists : BOOLEAN, schema : ETag, pending : ETag, stale : ETag,
          data : 0 .. MaxData]
NoEntry == [exists |-> FALSE, schema |-> Null, pending |-> Null, stale |-> Null,
            data |-> 0]

Role == {"owner", "other"}

\* What may be misread: the entry by a creation, the definition and columns of
\* a schema, the ACLs.
Reading == {"entry", "schema", "acls"}

(* A job: the operation, where it is, its copy of the entry, the columns asked *)
(* for, and the columns or ACLs left to write or to remove.                    *)
IdleJob == [op |-> "none", pc |-> "idle", copy |-> NoEntry, want |-> {}, todo |-> {}]

Init ==
  /\ entry = NoEntry
  /\ definition = {} /\ column = {} /\ relation = Others
  /\ attachment = {} /\ acl = {}
  /\ holder = NoHolder
  /\ job = [r \in Request |-> IdleJob]
  /\ ticket = 0 /\ committed = 0 /\ failures = 0 /\ misread = {}

At(r, pc) == job[r].pc = pc
Set(r, j) == job' = [job EXCEPT ![r] = j]
Goto(r, pc) == job' = [job EXCEPT ![r].pc = pc]
GotoWith(r, pc, todo) == job' = [job EXCEPT ![r].pc = pc, ![r].todo = todo]

Live == entry.exists /\ entry.schema # Null
ColumnsOf(e) == {c.column : c \in {d \in column : d.schema = e}}
NamesOf(e) == {d.name : d \in {f \in definition : f.schema = e}}
Relations(n) == {[name |-> n, kind |-> k] : k \in Kind}

\* DbColumnDefinitions.query follows every array column to its items, and fails
\* when one is not there (markUnitOfRetention).
Readable(cols) == \A c \in cols : Items[c] \subseteq cols

\* A query answers with what there is; one that fails, with nothing.
Answers(truth) == {truth, {}}

\* A read is answered truly, or fails and misleads its reader.
Heard(reading, truly) ==
  IF truly THEN UNCHANGED faults
  ELSE /\ failures < MaxFailures
       /\ failures' = failures + 1
       /\ misread' = misread \cup {reading}

\* An UPDATE of every field by primary key: it changes nothing when the record
\* is gone.
Put(e) == entry' = IF entry.exists THEN e ELSE entry

\* What a request read of the entry before it had the lock still holds.
Fresh(r) == RequestsRace \/ entry = job[r].copy

-----------------------------------------------------------------------------
(* Requests, the lock, failures.                                             *)

\* createTable takes the lock first; the others read the entry before.
Begin(r) ==
  /\ At(r, "idle")
  /\ \/ \E s \in Schemas : Set(r, [IdleJob EXCEPT !.op = "create", !.pc = "lock", !.want = s])
     \/ /\ entry.exists
        /\ \E op \in {"delete", "offices", "acl"} :
             Set(r, [IdleJob EXCEPT !.op = op, !.pc = IF op = "acl" THEN "grant" ELSE "lock",
                                    !.copy = entry])
     \/ /\ Live
        /\ Set(r, [IdleJob EXCEPT !.op = "attach", !.pc = "attach", !.copy = entry])
  /\ UNCHANGED <<entry, store, holder, ticket, committed, faults>>

FirstStep(op) == CASE op = "create" -> "read" [] op = "delete" -> "stale" [] op = "offices" -> "put"

Lock(r) ==
  /\ At(r, "lock") /\ holder = NoHolder
  /\ IF job[r].op = "create" THEN ticket < MaxSchema ELSE Fresh(r)
  /\ holder' = r
  /\ Goto(r, FirstStep(job[r].op))
  /\ UNCHANGED <<entry, store, ticket, committed, faults>>

\* acquire gives up, and the request is answered with ODKTaskLockException; or,
\* unless RequestsRace, a request without the lock has been overtaken.
GiveUp(r) ==
  /\ At(r, "lock") \/ (job[r].pc \in {"grant", "attach"} /\ ~Fresh(r))
  /\ Set(r, IdleJob)
  /\ UNCHANGED <<entry, store, holder, ticket, committed, faults>>

\* The finally block, after an answer ("done") or an exception ("release").
Release(r) ==
  /\ job[r].pc \in {"done", "release"}
  /\ holder' = IF holder = r THEN NoHolder ELSE holder
  /\ Set(r, IdleJob)
  /\ UNCHANGED <<entry, store, ticket, committed, faults>>

Working == {"read", "stale", "dropData", "dropLog", "clear", "dropColumns", "dropDefinition",
            "next", "acls", "dropAcls", "dropEntry", "dropOwner", "oldAcls", "clearAcls",
            "putOwner", "putEntry", "putDefinition", "putColumns", "makeData", "makeLog",
            "goLive", "put", "grant", "attach"}

\* Any call to the database may throw, and the server may die.
Fail(r) ==
  /\ job[r].pc \in Working /\ failures < MaxFailures
  /\ failures' = failures + 1
  /\ Goto(r, "release")
  /\ UNCHANGED <<entry, store, holder, ticket, committed, misread>>

-----------------------------------------------------------------------------
(* deleteVersionedTable, with deleteCurrent: the stale schema is removed, then *)
(* what was pending or in use is made stale and the same is done again.        *)

\* The columns and the definition of the stale schema are read; without a
\* definition there is nothing to remove.
RemoveStale(r) ==
  LET s == job[r].copy.stale
  IN  /\ At(r, "stale")
      /\ \/ s = Null /\ Goto(r, "next") /\ UNCHANGED faults
         \/ /\ s # Null
            /\ \E cols \in Answers(ColumnsOf(s)), names \in Answers(NamesOf(s)) :
                 /\ Heard("schema", cols = ColumnsOf(s) /\ names = NamesOf(s))
                 /\ \/ ~Readable(cols) /\ Goto(r, "release")
                    \/ Readable(cols) /\ names # {} /\ GotoWith(r, "dropData", cols)
                    \/ /\ Readable(cols) /\ names = {}
                       /\ Set(r, [job[r] EXCEPT !.copy.stale = Null, !.pc = "next"])
      /\ UNCHANGED <<entry, store, holder, ticket, committed>>

StaleName(r) == CHOOSE n \in NamesOf(job[r].copy.stale) : TRUE

\* getRelation makes a relation that is not there, and it is dropped at once.
Drop(r, kind) == relation' = relation \ {[name |-> StaleName(r), kind |-> kind]}

DropData(r) ==
  /\ At(r, "dropData")
  /\ Drop(r, "data") /\ Goto(r, "dropLog")
  /\ UNCHANGED <<entry, definition, column, attachment, acl, holder, ticket, committed, faults>>

DropLog(r) ==
  /\ At(r, "dropLog")
  /\ Drop(r, "log") /\ Goto(r, "clear")
  /\ UNCHANGED <<entry, definition, column, attachment, acl, holder, ticket, committed, faults>>

\* Fault: the attachments stay.
Kept == attachment

\* What is left of the attachments.
Cleared == {}

\* The manifest ETags, the blob store of the rows' attachments, and the
\* table-level files, all of them by table id.
ClearAttachments(r) ==
  /\ At(r, "clear")
  /\ attachment' = Cleared /\ Goto(r, "dropColumns")
  /\ UNCHANGED <<entry, definition, column, relation, acl, holder, ticket, committed, faults>>

\* Column by column, in the order a query returned them; then the definition.
DropColumn(r) ==
  /\ At(r, "dropColumns")
  /\ \E c \in job[r].todo :
       /\ column' = column \ {[schema |-> job[r].copy.stale, column |-> c]}
       /\ GotoWith(r, "dropColumns", job[r].todo \ {c})
  /\ UNCHANGED <<entry, definition, relation, attachment, acl, holder, ticket, committed, faults>>

DropDefinition(r) ==
  /\ At(r, "dropColumns") /\ job[r].todo = {}
  /\ definition' = {d \in definition : d.schema # job[r].copy.stale}
  /\ Set(r, [job[r] EXCEPT !.copy.stale = Null, !.pc = "next"])
  /\ UNCHANGED <<entry, column, relation, attachment, acl, holder, ticket, committed, faults>>

\* Faults: the pending schema stays pending; the schema stays in use meanwhile.
StillPending(e) ==
  IF e.pending # Null THEN [e EXCEPT !.stale = e.pending]
  ELSE [e EXCEPT !.stale = e.schema, !.schema = Null]
StillInUse(e) ==
  IF e.pending # Null THEN [e EXCEPT !.stale = e.pending, !.pending = Null]
  ELSE [e EXCEPT !.stale = e.schema]

\* What the entry names next: the pending schema, or else the one in use.
Doomed(e) ==
  IF e.pending # Null THEN [e EXCEPT !.stale = e.pending, !.pending = Null]
  ELSE [e EXCEPT !.stale = e.schema, !.schema = Null]

MakeStale(r) ==
  LET e == Doomed(job[r].copy)
  IN  /\ At(r, "next")
      /\ IF e.stale # Null
         THEN Put(e) /\ Set(r, [job[r] EXCEPT !.copy = e, !.pc = "stale"])
         ELSE UNCHANGED entry /\ Set(r, [job[r] EXCEPT !.copy = e, !.pc = "acls"])
      /\ UNCHANGED <<store, holder, ticket, committed, faults>>

\* Fault: the owner's ACL goes with the others.
NoneHeldBack == {}

\* The owner's ACL is held back until the entry is gone, so that the owner may
\* try again.
HeldBack == {"owner"}

FindAcls(r) ==
  /\ At(r, "acls")
  /\ \E found \in Answers(acl) :
       Heard("acls", found = acl) /\ GotoWith(r, "dropAcls", found)
  /\ UNCHANGED <<entry, store, holder, ticket, committed>>

DropAcl(r) ==
  /\ At(r, "dropAcls")
  /\ \E a \in job[r].todo \ HeldBack :
       acl' = acl \ {a} /\ GotoWith(r, "dropAcls", job[r].todo \ {a})
  /\ UNCHANGED <<entry, definition, column, relation, attachment, holder, ticket, committed, faults>>

DropEntry(r) ==
  /\ At(r, "dropAcls") /\ job[r].todo \subseteq HeldBack
  /\ entry' = NoEntry /\ committed' = 0
  /\ Goto(r, "dropOwner")
  /\ UNCHANGED <<store, holder, ticket, faults>>

\* What was held back: nothing, when the ACLs were misread.
DropOwner(r) ==
  /\ At(r, "dropOwner")
  /\ acl' = acl \ job[r].todo
  /\ Goto(r, IF job[r].op = "create" THEN "oldAcls" ELSE "done")
  /\ UNCHANGED <<entry, definition, column, relation, attachment, holder, ticket, committed, faults>>

-----------------------------------------------------------------------------
(* createTable.                                                              *)

\* Fault: columns that were asked for may be missing.
NoneUnknown(cols, want) == cols \subseteq want

\* As many columns as were asked for, and each of them matches.
SameColumns(cols, want) == cols = want

\* A table that is live answers for itself: it must have the columns asked for.
\* Anything else that is there is removed first.  Where no entry is found, or
\* getEntity fails, a new table is begun.
ReadEntry(r) ==
  /\ At(r, "read")
  /\ \/ /\ Live
        /\ \E cols \in Answers(ColumnsOf(entry.schema)), names \in Answers(NamesOf(entry.schema)) :
             /\ Heard("schema", cols = ColumnsOf(entry.schema) /\ names = NamesOf(entry.schema))
             /\ Goto(r, IF names # {} /\ SameColumns(cols, job[r].want) THEN "done" ELSE "release")
     \/ /\ entry.exists /\ ~Live
        /\ Set(r, [job[r] EXCEPT !.copy = entry, !.pc = "stale"]) /\ UNCHANGED faults
     \/ Heard("entry", ~entry.exists) /\ Goto(r, "oldAcls")
  /\ UNCHANGED <<entry, store, holder, ticket, committed>>

\* "late clean-up": ACLs of a table that is no more.
FindOldAcls(r) ==
  /\ At(r, "oldAcls")
  /\ \E found \in Answers(acl) :
       Heard("acls", found = acl) /\ GotoWith(r, "clearAcls", found)
  /\ UNCHANGED <<entry, store, holder, ticket, committed>>

ClearAcl(r) ==
  /\ At(r, "clearAcls")
  /\ \E a \in job[r].todo :
       acl' = acl \ {a} /\ GotoWith(r, "clearAcls", job[r].todo \ {a})
  /\ UNCHANGED <<entry, definition, column, relation, attachment, holder, ticket, committed, faults>>

PutOwner(r) ==
  /\ At(r, "clearAcls") /\ job[r].todo = {}
  /\ acl' = acl \cup {"owner"}
  /\ Goto(r, "putEntry")
  /\ UNCHANGED <<entry, definition, column, relation, attachment, holder, ticket, committed, faults>>

\* An INSERT: the entry is there from here on, with its schema pending; an
\* entry that is there after all makes it fail.
PutEntry(r) ==
  LET e == [NoEntry EXCEPT !.exists = TRUE, !.pending = ticket + 1]
  IN  /\ At(r, "putEntry")
      /\ IF entry.exists
         THEN Goto(r, "release") /\ UNCHANGED <<entry, misread>>
         ELSE /\ entry' = e /\ Set(r, [job[r] EXCEPT !.copy = e, !.pc = "putDefinition"])
              /\ misread' = misread \ {"entry"}  \* another table begins
      /\ ticket' = ticket + 1
      /\ UNCHANGED <<store, holder, committed, failures>>

\* Fault: nobody looks whether the name is taken.
AnyName == 0

\* The first name that no relation has, as a row or as a log relation.
FreeName ==
  LET Free(n) == Relations(n) \cap relation = {}
  IN  CHOOSE n \in 0 .. Cardinality(relation) :
        Free(n) /\ \A m \in 0 .. n - 1 : ~Free(m)

PutDefinition(r) ==
  /\ At(r, "putDefinition")
  /\ definition' = definition \cup {[schema |-> job[r].copy.pending, name |-> FreeName]}
  /\ GotoWith(r, "putColumns", job[r].want)
  /\ UNCHANGED <<entry, column, relation, attachment, acl, holder, ticket, committed, faults>>

PutColumn(r) ==
  /\ At(r, "putColumns")
  /\ \E c \in job[r].todo :
       /\ column' = column \cup {[schema |-> job[r].copy.pending, column |-> c]}
       /\ GotoWith(r, "putColumns", job[r].todo \ {c})
  /\ UNCHANGED <<entry, definition, relation, attachment, acl, holder, ticket, committed, faults>>

Make(r, kind) ==
  LET n == CHOOSE n \in NamesOf(job[r].copy.pending) : TRUE
  IN  relation' = relation \cup {[name |-> n, kind |-> kind]}

\* Fault: the log relation is left for later.
MakeDataOnly(r) ==
  /\ At(r, "putColumns") /\ job[r].todo = {}
  /\ Make(r, "data") /\ Goto(r, "goLive")
  /\ UNCHANGED <<entry, definition, column, attachment, acl, holder, ticket, committed, faults>>

MakeData(r) ==
  /\ At(r, "putColumns") /\ job[r].todo = {}
  /\ Make(r, "data") /\ Goto(r, "makeLog")
  /\ UNCHANGED <<entry, definition, column, attachment, acl, holder, ticket, committed, faults>>

MakeLog(r) ==
  /\ At(r, "makeLog")
  /\ Make(r, "log") /\ Goto(r, "goLive")
  /\ UNCHANGED <<entry, definition, column, attachment, acl, holder, ticket, committed, faults>>

GoLive(r) ==
  LET e == [job[r].copy EXCEPT !.schema = job[r].copy.pending, !.pending = Null]
  IN  /\ At(r, "goLive")
      /\ Put(e) /\ Goto(r, "done")
      /\ UNCHANGED <<store, holder, ticket, committed, faults>>

-----------------------------------------------------------------------------
(* The other handlers that act on the entry, and row changes.                *)

\* updateOffices: all of the entry is written back, with its offices changed.
PutOffices(r) ==
  /\ At(r, "put")
  /\ Put(job[r].copy) /\ Goto(r, "done")
  /\ UNCHANGED <<store, holder, ticket, committed, faults>>

\* TableAclManager.setAcl, which has no lock ("tableId may be in the process of
\* being deleted").
GrantAcl(r) ==
  /\ At(r, "grant") /\ Fresh(r)
  /\ acl' = acl \cup {"other"}
  /\ Goto(r, "done")
  /\ UNCHANGED <<entry, definition, column, relation, attachment, holder, ticket, committed, faults>>

\* InstanceFileManager.putFile, under a lock for some rows of the table id.
Attach(r) ==
  /\ At(r, "attach") /\ Fresh(r)
  /\ attachment' = attachment \cup {job[r].copy.schema}
  /\ Goto(r, "done")
  /\ UNCHANGED <<entry, definition, column, relation, acl, holder, ticket, committed, faults>>

\* Fault: the bound is not looked at.
ChangeRowsAlways ==
  /\ Live /\ holder = NoHolder
  /\ entry' = [entry EXCEPT !.data = @ + 1]
  /\ committed' = entry.data + 1
  /\ UNCHANGED <<store, holder, job, ticket, faults>>

\* A whole change set of DataManager, which has the table's lock meanwhile.
ChangeRows ==
  /\ Live /\ holder = NoHolder /\ entry.data < MaxData
  /\ entry' = [entry EXCEPT !.data = @ + 1]
  /\ committed' = entry.data + 1
  /\ UNCHANGED <<store, holder, job, ticket, faults>>

Delete(r) ==
  \/ RemoveStale(r) \/ DropData(r) \/ DropLog(r) \/ ClearAttachments(r) \/ DropColumn(r)
  \/ DropDefinition(r) \/ MakeStale(r) \/ FindAcls(r) \/ DropAcl(r) \/ DropEntry(r)
  \/ DropOwner(r)

Create(r) ==
  \/ ReadEntry(r) \/ FindOldAcls(r) \/ ClearAcl(r) \/ PutOwner(r) \/ PutEntry(r)
  \/ PutDefinition(r) \/ PutColumn(r) \/ MakeData(r) \/ MakeLog(r) \/ GoLive(r)

\* The steps a handler takes by itself once it has begun.
Work(r) ==
  Lock(r) \/ Delete(r) \/ Create(r) \/ PutOffices(r) \/ GrantAcl(r) \/ Attach(r)
  \/ Release(r)

Next == ChangeRows \/ \E r \in Request : Begin(r) \/ GiveUp(r) \/ Fail(r) \/ Work(r)

Spec == Init /\ [][Next]_vars

\* The thread of a request runs on; acquire ends, with the lock or without it.
FairSpec == Spec /\ \A r \in Request : WF_(job[r])(Work(r) \/ GiveUp(r))

-----------------------------------------------------------------------------
(* Properties.                                                               *)

TypeOK ==
  /\ entry \in Entry
  /\ definition \subseteq [schema : ETag, name : Name]
  /\ column \subseteq [schema : ETag, column : Column]
  /\ relation \subseteq [name : Name, kind : Kind]
  /\ attachment \subseteq ETag /\ acl \subseteq Role
  /\ holder \in Request \cup {NoHolder}
  /\ ticket \in ETag /\ committed \in 0 .. MaxData
  /\ failures \in 0 .. MaxFailures /\ misread \subseteq Reading
  /\ \A r \in Request :
       /\ job[r].op \in {"none", "create", "delete", "offices", "acl", "attach"}
       /\ job[r].pc \in Working \cup {"idle", "lock", "done", "release"}
       /\ job[r].copy \in Entry
       /\ job[r].want \subseteq Column /\ job[r].todo \subseteq Column \cup Role

Registry == INSTANCE TableRegistry WITH
              table <- IF Live THEN {ColumnsOf(entry.schema)} ELSE {}

(* Whatever fails and wherever it stops, clients see a table appear with all  *)
(* of its columns in one step, keep them, and go in one step: the entry is    *)
(* the commit record of the many writes behind it.                            *)
AppearsWhole == Registry!Spec

(* A table in use has its definition, and both of its relations, whatever    *)
(* reads fail and are taken for an answer.                                    *)
LiveHasRelations ==
  Live => \E n \in NamesOf(entry.schema) : Relations(n) \subseteq relation

(* What a stopped creation or deletion leaves is found again: a definition or *)
(* a column belongs to a schema the entry still names ("we need to remove the *)
(* state corresponding to the stale ETag", DbTableEntry.java:44), a relation   *)
(* to a table that has a definition.                                          *)
Named == IF entry.exists THEN {entry.schema, entry.pending, entry.stale} \ {Null} ELSE {}
LeftoversAreFound ==
  /\ \A d \in definition : d.schema \in Named
  /\ \A c \in column : NamesOf(c.schema) # {}
  /\ \A e \in relation : e \in Others \/ \E d \in definition : d.name = e.name

(* Nothing is left where no later clean-up would find it, unless a query for   *)
(* the definition or the columns of a schema has failed; and no relation of    *)
(* another table is ever dropped.                                              *)
NothingIsLost == ("schema" \notin misread => LeftoversAreFound) /\ Others \subseteq relation

(* The owner keeps a role on the table as long as there is an entry, so it can *)
(* delete what a failed deletion left behind; unless a creation has failed to  *)
(* read the entry.                                                             *)
OwnerKeepsTable == entry.exists /\ "entry" \notin misread => "owner" \in acl

(* A new table shows no attachment that was stored for an earlier table of     *)
(* the same id, unless a query for that table's definition has failed.         *)
NoOldAttachments ==
  Live /\ "schema" \notin misread => attachment \subseteq {entry.schema}

(* A client that is told its table exists has the columns it asked for, and    *)
(* one that is told the table is deleted has left nothing, whatever earlier    *)
(* requests left half done; unless a query for a definition or columns failed. *)
AnswersAreTrue ==
  "schema" \notin misread => \A r \in Request : At(r, "done") =>
    CASE job[r].op = "create" -> Live /\ ColumnsOf(entry.schema) = job[r].want
      [] job[r].op = "delete" -> ~entry.exists /\ definition = {} /\ column = {} /\ attachment = {}
      [] OTHER -> TRUE

(* Creating a table that is there is an "idempotent action" (TableManager.java *)
(* :358): it takes nobody's role on a table in use away.                       *)
CreationKeepsRoles == [][Live /\ Live' => acl \subseteq acl']_vars

(* An entry is read under the lock before it is written (DbTableEntry.java     *)
(* :39-42), so no change set loses the data ETag it gave the table, ...        *)
DataETagKept == Live => entry.data = committed

(* ... and a deletion that answers has removed the table that is there.        *)
DeletionIsWhole ==
  \A r \in Request : job[r].op = "delete" /\ At(r, "done") => definition = {} /\ column = {}

(* What is left of a table half built can be removed (TableManager.java        *)
(* :423-425): when no request is at work, the columns of a schema that the     *)
(* next createTable or deleteTable has to remove can be read.                  *)
CleanUpIsPossible ==
  holder = NoHolder => \A e \in {entry.pending, entry.stale} \ {Null} : Readable(ColumnsOf(e))

(* Every request ends: the recursion of deleteVersionedTable does.             *)
RequestsEnd == \A r \in Request : ~At(r, "idle") ~> At(r, "idle")
=============================================================================
