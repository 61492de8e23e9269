# odk-hamster: a verification development

odk-hamster is the ODK 2.0 Sync Endpoint: a REST server that keeps *tables* of
rows in PostgreSQL and synchronises them with mobile devices.  This directory
holds TLA+ models of the parts of the server whose correctness depends on
several actors, on failures between two writes, or on order; TLC checks them on
small instances and TLAPS proves the central results for every instance.

Paths below are relative to `src/src/main/java/org/opendatakit/`.

## 1. Inventory

### 1.1 Components

| Component | State it keeps | Operations | Depends on |
|---|---|---|---|
| Task lock: `persistence/engine/pgres/TaskLockImpl`, `odktables/OdkTablesLockTemplate` | table `_task_lock`: lock id, resource, expiration | acquire, release (bounded retries), obtainLock, renewLock, releaseLock | datastore |
| Row data: `odktables/DataManager`, `relation/DbTable`, `DbLogTable`, `EntityCreator` | rows, change log, the data ETag and pending data ETag of the table entry | insertOrUpdateRows, insertOrUpdateRow, deleteRow, getRows, getRowsSince, getChangeSetsSince, getChangeSetRows, and revertPendingChanges inside each | task lock, sequencer |
| Sequencer: `odktables/Sequencer`, `persistence/table/ServerPreferencesPropertiesTable` | one preference: the last sequence base | new Sequencer, getNextSequenceValue | datastore, clock |
| Table life cycle: `odktables/TableManager`, `DbTableEntry`, `DbTableDefinitions`, `DbColumnDefinitions` | schema ETag and pending schema ETag, definitions, the physical relations | createTable, deleteTable, updateOffices, getTables | task lock, sequencer, ACLs |
| Files and manifests: `odktables/FileManager`, `FileManifestManager`, `api/odktables/FileManifestService`, `DbManifestETags`, `DbTableFileInfo` | an entry per file and client version; one cached manifest ETag per table id | putFile, deleteFile, getFile; a device's conditional GET of a manifest | task lock, binary content |
| Binary content: `datamodel/BinaryContentManipulator`, `DeleteHelper`, `ermodel/AbstractBlobRelationSet`, `odktables/InstanceFileManager` | per file a content record, references and parts; the attachments a request keeps in memory | putFile, postFiles, getFile, remove | datastore, task lock |
| Table permissions: `odktables/TableAclManager`, `odktables/security` | ACL entries per table and scope; one record per user | setAcl, deleteAcl, permission checks, creation of user permissions under a lock | task lock |
| Users and roles: `security`, `persistence/table/*Authority*`, `SecurityRevisionsTable` | users, granted authorities, revision dates; in each server a map of reachable roles and a map of active users, with the times of the last check and the last full fetch | getReachableGrantedAuthorities, refresh, reloadPermissions; setStandardSiteAccessConfiguration; merge at start-up | task lock |
| Datastore: `persistence` | relations in PostgreSQL | getEntity, putEntity, batchAlterData, deleteEntity, queries by page with resume points | PostgreSQL |
| Entity model: `ermodel` | none | typed access to relations | datastore |
| REST API: `api` | none (two services compare manifest ETags) | one manager call per request | managers |
| Configuration, utilities: `configuration`, `context`, `utils`, `boot` | none | wiring, formatting | |

The managers share no memory but the copies of users and roles: they meet in the
database.  Every operation on a table runs between
`OdkTablesLockTemplate.acquire()` and `release()`, and inside it **each put or
delete is a database transaction of its own** - the only multi-statement
transaction of the program is the one in `TaskLockImpl`.

### 1.2 What is hard, and what must hold

* **The lock** is a row with an expiration, won by arbitration among rows that
  several servers insert.  It should be exclusive while its lease runs - which it
  is but for one race - it must not let a dead holder block a table, and attempts
  must end.
* **Atomicity by log**: log entries are written first, then rows, then the
  table's entry; whoever comes next undoes what is pending.  An operation that
  stops between any two writes - or whose *undoing* stops - must leave no trace.
* **Order**: clients pull "the entries after the last one of this data ETag", so
  sequence values must order a table's log, and the last entry of a row wins;
  and a reading by pages must meet every row once while rows come and go.
* **Sequences of commits**: a table, a file entry with its blob, a blob in parts.
  Whoever repeats an operation that stopped has to cope with what it left.
* **Failures that are taken for answers**: a failed `getEntity` is reported as
  "not found", a failed query as one without results, a failed lock transaction
  is swallowed.  Some of these answers only make a request fail, others make it
  remove what is in use, or forget what is left.
* **Stale copies**: entries read before a lock, rows compared before a list is
  applied, leases that end while their holder works, cached manifest ETags,
  roles and users that another server has changed, time stamps of two clocks.

The full list, line by line, is `hazards` in `PROJECT.json`.  Smaller hazards
that are known and not listed there: the ETag of a row's own manifest
(`InstanceFileService.java:147`); the parts of a record without a hash stay when
it is removed (`BinaryContentManipulator.java:684`); an empty file is stored and
then answered with 404 (`InstanceFileManager.java:127`); a user whose lookup
fails is cached as a guess (`UserServiceImpl.java:234`); an empty row list
divides by zero after its commit (`DataManager.java:1168`); the start-up lock
(`RoleHierarchyImpl.java:194`); two table ids that want one physical name at the
same time (`TableManager.java:476`).

## 2. Modules

| Module | Models | Kind |
|---|---|---|
| `TaskLock` | the task lock and the lock template | state machine |
| `TaskLockProofs` | types, one row per resource, who can remove a holder's row and let a second holder in, expired rows | proofs |
| `RowTable` | what a table promises its clients: versions that change by whole change sets | abstract specification |
| `DataManager` | row writes, log, revert, pulls | state machine, implements `RowTable` |
| `DataManagerProofs` | types and ETags whatever fails and whatever clients send; logged rows, reverts, history, reads, pulls and the refinement of `RowTable` without the hazards of 2.0 | proofs |
| `Sequencer` | the shared sequence base | state machine |
| `SequencerProofs` | sequence values increase when one table draws them | proofs |
| `TableRegistry` | what clients see of a table id: no table, or one with its columns | abstract specification |
| `TableLifecycle` | creating and deleting the table of one id, step by step | state machine, implements `TableRegistry` |
| `TableLifecycleProofs` | types and the owner even when requests race; whole tables, clean-up, honest answers and the refinement of `TableRegistry` when they do not; failed reads included | proofs |
| `ManifestCache` | the files of a table id, their manifests and the cached ETag | state machine |
| `ManifestCacheProofs` | one entry per path, ETags stored in time are true, confirmed writes are listed | proofs |
| `BlobStore` | one set of files, stored and removed in parts | state machine |
| `BlobStoreProofs` | hashed files are whole, posted files are served and can be posted again, removals are complete | proofs |
| `QueryPaging` | reading a changing relation page by page, in both directions | state machine |
| `QueryPagingProofs` | every row once, pages adjoin, page sizes | proofs |
| `RoleCache` | a server's copies of roles and users, and their refreshing | state machine |
| `RoleCacheProofs` | how old the copies can be, and which flags are noticed | proofs |
| `MC*` | instances for TLC | |

The models meet in what one takes for granted of another: all but `TaskLock` have
a lock that is one variable; `DataManager` has sequence values in order, which is
`Sequencer`'s subject; `TableLifecycle` takes change sets for atomic, which is
what `DataManager` shows; `ManifestCache` takes adding and removing a blob for
one step, which rests on `BlobStore`.

Definitions called a *fault* in a comment are deliberately wrong variants of the
definition that follows them; nothing uses them.  Putting one in its place is
how each property was tried: TLC finds every property violated by at least one.

### 2.0 Settings that switch a hazard on

Several hazards break a property, and the code does nothing about them.  The
models contain them.  Three of them have a run with the expectation *violation*
and are findings; for the others this section says how to make TLC show them.

A constant switches a hazard off in the run.  Setting it the other way, TLC finds
the violations:

| Module | Setting | Violated |
|---|---|---|
| `DataManager` | `TrustClients = FALSE`: a new row comes with any row ETag: an unknown one, another row's, a data ETag | `RowsAreLogged`, `Revertible`, `LinearHistory`, `PullsConverge`; `AtomicChangeSets` says nothing then (`Committed` is not defined for such a row); `ReadsSeeNothingPending` was not seen violated |
| `DataManager` | `LeaseMayExpire = TRUE`: a lease ends while its holder works | `RowsAreLogged`, `Revertible`, `LinearHistory`, `PullsConverge`, `ReadsSeeNothingPending`, `AtomicChangeSets` |
| `DataManager` | `DistinctRows = FALSE`: a list names a row twice | `LinearHistory` (the other five hold) |
| `DataManager` | `ReadsMayFail = TRUE`: a failed read of a row is taken for "not found", a failed query for pending changes for "nothing pending" | the six that `LeaseMayExpire` violates (`Revertible` with 9 tickets) |
| `TableLifecycle` | `RequestsRace = TRUE`: the entry changes between a request's read and its lock | `DataETagKept`, `DeletionIsWhole`, `LiveHasRelations`, `NothingIsLost`, `NoOldAttachments`, `AnswersAreTrue`, `AppearsWhole` (`OwnerKeepsTable` holds) |
| `TableLifecycle` | `Schemas <- MCArraySchemas`, `Items <- MCArrayItems`: a creation stops between an array column and its items | `CleanUpIsPossible` |
| `Sequencer` | `TableOf <- MCTwoTables`: two tables draw from one base | `SequencesIncrease`: run `Sequencer_tables` |
| `ManifestCache` | `QueriesMayFail = TRUE`: a failed query is taken for one without results | `OneEntryPerPath`, `ConfirmedIsListed`, `TimelyETagsAreTrue` |

Where a hazard cannot be switched off without losing others of its kind, it is
always there, a history variable notes where it bites, and the property says
what it excludes.  The unconditional claim is a definition of its own, which TLC
finds violated in the instance of the module's passing run:

| Module | History | What it excludes | Unconditional claim |
|---|---|---|---|
| `TaskLock` | `overtaken` | a holder whose row a rival with an earlier `NOW()` came before | `MutualExclusion`: run `TaskLock_mutex` |
| `TableLifecycle` | `misread` | reads of the entry, or of a definition and columns, that failed and were taken for "there is none" | `CreationKeepsRoles` (an action property), `LeftoversAreFound` |
| `ManifestCache` | `late` | ETags stored after a write overtook their manifest | `DevicesCatchUp`: run `ManifestCache_stale` |
| `BlobStore` | `overrun`, `skipped`, `misread` | leases that ended, rows that could not be deleted or read | |
| `BlobStore` | `posted` | repetitions of an upload that stopped | `RefusedMeansDifferent` |
| `QueryPaging` | `lost`, `altered` | cursors whose row has gone, queries that failed; cursors that changed their value | `AllAreReached` (for `altered`; with `QueriesFail = FALSE`) |
| `RoleCache` | `flag.hidden` | flags whose date is not later than a time stamp | `ChangesAreNoticed` |

### 2.1 TaskLock

A *request* is one `OdkTablesLockTemplate`, with a lock id of its own.
`expiry[r]` is the expiration in its row of `_task_lock` (`NoRow`: no row),
`pc[r]` its place in `acquire`, the work, `release`, or inside `doTransaction`,
`stamp[r]` the `NOW()` of the transaction under way.

PostgreSQL fixes `NOW()` when a transaction begins; `LOCK TABLE ... IN ACCESS
EXCLUSIVE MODE` is granted later, and in any order.  `Begin` and `Renew` are the
former, `ObtainTransaction` and `RenewTransaction` the latter together with INSERT
or UPDATE and the three DELETEs, which nobody can observe separately.  The DELETEs
are the operators `WithoutStale`, `WithoutNewer`, `WithoutOwnCollision`; their
composition is `Arbitrate`.  `TransactionFails` is the swallowed exception:
`getEntity` then decides alone (`Confirm`, `Declined`).  A retry uses the same
lock id, so its INSERT may collide with the row an earlier attempt left.

The lock is not the "database-mediated global mutex" of `Datastore.java:216`.  The row
that expires first wins, and expirations are `NOW()` plus the lease.  So a request
that began earlier and is granted the table later removes the row of a holder
whose lease is running, and holds the resource too: that is the run `TaskLock_mutex`.
What the code does guarantee is that this is the only way.  `Overtakes` notes in
`overtaken` the rivals whose rows expire later than the row that is being written;
`HolderKeepsRow` says that nothing but that removes the row of a running lease, and
`ExclusiveUnlessOvertaken` that two running leases coexist only after it: failures,
lost answers, retries, renewals and crashes in any number never do it.

`renewLock` is modelled although nothing in the program calls it.  The settle
time of `ITaskLockType` is not used by `TaskLockImpl` and not modelled.

### 2.2 DataManager and RowTable

The state is one table: its `entry` (data ETag, pending data ETag), its `row`s,
its `log`, the `holder` of its lock, and per request a `job`: operation, place,
its in-memory copy of the entry, and the writes that are left.  One action is
one database write, or a read whose result is used later: `ReadEntry`,
`FindPending`, `RestoreRow` and `DropEntry` (the revert, one entry at a time, in
any order), `MarkBulk` / `MarkOne` / `Refuse`, `PutLog`, `PutRow`, `Commit`,
`Serve`, `Release`.  `Fail` is an exception or a dead server at any of them.

What a client sends for a row is one of `ClientETags`: no row ETag, or one that it
was served for that row.  The code compares a sent ETag only with a row that
exists; for a new row it takes any text (`DataManager.java:1101`, `1376`).  So
unless `TrustClients` it is an ETag the table never issued (`Foreign`), or any
ticket drawn so far: the ETag of another row's version, of a pending version, or a
data ETag.  `Found` is what the query for pending changes answers: the truth, or
an empty list when `ReadsMayFail` (`Query.execute` makes one of a failed query).

Abstractions:

* UUIDs and sequence values are *tickets*, numbers drawn in order.  That sequence
  values are drawn in increasing order is what module `Sequencer` is about.
* A `Value` is a row's content.  That a client's row with another ETag but equal
  content is answered with success, and permissions, only decide whether a
  change is refused: `Accepted` keeps the ETag comparison.
* The data ETag check of insertOrUpdateRows passes or fails nondeterministically
  (`ReadEntry`).
* A batch is written row by row, and may stop after any row.
* The lock is one variable: `TaskLock` is where it is studied.  `LeaseEnds`
  takes it away from a holder at work.

Constants switch the hazards on: `TrustClients`, `DistinctRows`, `ReadsMayFail`,
`LeaseMayExpire`.  Without them the design works, and that is what
`DataManager_atomic` shows.  `DataManager_faults` has failing reads and queries and
ending leases and shows what holds even then.  Section 2.0 says what breaks: one row
ETag of a client's own, and a failure, and no later operation can undo the change
(`Revertible`).  That the log's chains go back holds with any client; that they stay
with one row does not, so `ChainsGoBack` and `ETagsNameVersions` state that part for
trusted clients only.

`RowTable` has the versions clients can see and the data ETag.  Its only action
replaces the ETag and any set of rows, which get row ETags issued for that
change set.  The refinement mapping is `Committed`: a row without a pending log
entry is what the table holds, another one is what undoing its entry would give.
So the abstract step happens at `Commit`, and all of `PutLog`, `PutRow`,
`RestoreRow` and `DropEntry` must map to stuttering: that is the atomicity.

### 2.3 Sequencer

A worker holds its table's lock, reads the preference (`GetBase`), computes the
next base and looks for the row to write (`FindRow`), writes it (`PutRow`) and
draws (`Draw`).  Bases are numbers for ISO 8601 texts of fixed width, a sequence
value is the pair of base and counter.  A worker may stop at any step (`Leave`).
The preference may have one row per worker that found none: the reader takes the
one updated last, the writer any.

### 2.4 TableLifecycle and TableRegistry

The state is what the database holds for one table id: the `entry`, the
`definition`s and `column`s with the schema ETag they were written under, the
physical `relation`s by name and kind, the schemas under which an `attachment`
was stored, the `acl`s; and per request a `job` with its in-memory copy of the
entry.  `Create` has the steps of `createTable`, `Delete` those of
`deleteVersionedTable`, which `createTable` enters too when it finds an entry
without a schema in use.  Its recursion is a loop: `MakeStale` moves the pending
schema, or else the one in use, to the stale ETag, and `RemoveStale` starts
again.  One action is one commit; the columns of a schema go one by one, in any
order.  `Put` is an UPDATE of the whole record by primary key, as
`DatastoreImpl.putEntity` does it: it does nothing when the record is gone, and
writes all fields of the copy when it is there.

`deleteTable`, `updateOffices`, `setAcl` and an upload read the entry before
they have a lock (the last two never have the table's).  `RequestsRace` says
whether the entry may change in between.  The run excludes it: `updateOffices` then
overwrites the data ETag of a change set with an older one (`DataETagKept`), and
`deleteTable` removes the entry of a table created meanwhile and leaves its relations
(`DeletionIsWhole`).

Three readings of the code take a failed read for "there is none", and the model
has each of them.  `misread` notes which have failed:

* `"entry"`: `createTable` takes any failed `getEntity` for a table that does not
  exist (`TableManager.java:369`) and removes the ACLs of the table that does
  (`CreationKeepsRoles` says it does not).  The INSERT of a second entry then fails,
  so the table itself stays; only `OwnerKeepsTable` has to exclude this.  It is
  forgotten when the entry of another table is put.
* `"schema"`: the definition or the columns of a schema
  (`DbTableDefinitions.java:147`, `DbColumnDefinitions.java:263`).  A clean-up goes on
  as if there were nothing to remove and drops what led to it (`LeftoversAreFound`
  says it does not); `NothingIsLost`, `NoOldAttachments` and `AnswersAreTrue` exclude
  it.  `LiveHasRelations` and `AppearsWhole` hold nevertheless.
* `"acls"`: the ACLs (`Query.java:493`).  No property has to exclude it: ACLs that stay
  are cleared by the next creation.

The INSERT, UPDATE and DELETE of `Put` and its likes either happen or throw; they
are not misread.

Abstractions: a column is a model value and matches or does not; lists of
columns are sets; `Items` says which columns an array column refers to, and
`Readable` is the walk of `markUnitOfRetention` through them.  Physical names are
numbers, 0 for the converted table id and n for the n-th alternative; `Others`
are relations of other tables.  Manifest ETags, blob relations and table-level
files go in one step (`ClearAttachments`): each is keyed by the table id and
removing it again is harmless.  A change set of rows is one step (`ChangeRows`),
which is what `AtomicChangeSets` shows of `DataManager`; the pending data ETag is
left out, and with it the step of `deleteVersionedTable` that clears it.  A query
for table-level files or for a manifest ETag that fails unnoticed leaves those
(`DbTableFileInfo.java:301`); their entries are `ManifestCache`'s state, not this
module's, and a table that is created again finds them.  ACLs are cleared by pages
of 2000, which is taken to be all of them.

`TableRegistry` is the promise: a table appears with all its columns and goes as
a whole.  The mapping reads the columns of the entry's schema ETag, so that the
abstract steps are `GoLive` and the `MakeStale` that takes the schema out of use,
and every other write of a creation or deletion, and of one that failed or misread
something, must be invisible.

### 2.5 ManifestCache

Writers are `putFile` and `deleteFile` under the table's lock, devices are GETs
of a manifest with `If-None-Match`.  The state is the table of file `entries`,
their `blobs`, the one `etag` row of the table id, the lock's `holder`, what a
writer puts and has `found`, and what a device has `seen` and `computed` and
holds (`known`).  A writer goes through `ClearETag`, `FindEntries`, `RemoveBlob`
and `DropEntry` for each entry found, `AddBlob`, `PutEntry`, `Release`, one
commit each; `deleteFile` finds the entries first and clears the ETag only if
there are any.  `Fail` ends it anywhere.  A device reads the ETag row without
the lock (`ReadETag`), is told 304 or computes the manifest under the lock
(`ComputeManifest`), and writes the ETag after it has released it: an INSERT, an
UPDATE by primary key, or a collision (`Written`, `StoreFails`).

Abstractions: the hash of a manifest is the manifest, a set of pairs of path and
content, which is finer than the code's MD5 only by collisions.  A blob set is
made under a new URI and no entry names it before it is complete; its removal
takes the content record away first: one step each.  The application-level files
are the files of one more table id.

### 2.6 BlobStore

One blob set: the attachments of a row, or one file of a table.  `records`, `refs` and
`blobs` are the three tables; `view` is the list of attachments that an
`AbstractBlobRelationSet` keeps in memory after its first query.  An upload is
`ReadRecords`, then for each file `SkipFile` (it is there, and differs or not) or
`PutRecord`, `PutBlob` and `PutRef` for each part, `PutHash`; a removal collects the
keys (`Collect`), deletes them in reverse, goes on after a delete that fails
(`SkipDelete`) and then deletes all of them once more one by one, where a row it
cannot read counts as deleted (`Misread`).  The list of keys is the set `plan` with
the order `Precedes` in which the code collects them; `left` are those a pass has not
come to, and `Deletion` is the one it deletes next.  `Fetch` is what a GET makes of
the tables, with every check that `BlobManipulator` and `updateAttachments` make.
`LeaseEnds` lets another request in.

The branches of `setValueFromByteArray` for a record that is there already are
not modelled: no caller reaches them.  That is why a file whose upload stopped before
its hash cannot be uploaded again: the repetition finds a record without a hash and
is refused as different, against the words of `InstanceFileManager.java:68`
(`RefusedMeansDifferent`).  `RepeatsSucceed` is what holds: an upload that was answered
with success, and whose answer a client did not get, can be repeated.
After a removal that succeeded the caller forgets the set; the next one has a URI
of its own, and parts left behind by the old one are garbage, not state.

### 2.7 QueryPaging

A client reads a relation sorted by one attribute and by URI.  A page is a set of
rows; their order is `Before` in the page's direction.  `Fetch` is
`QueryImpl.executeQuery`: the continuation filter in SQL (`Beyond`, which no null
passes), the skipping of rows up to the one the cursor names (`Rest`), the cut at the
fetch limit and the two cursors of the page.  `Continue` and `TurnBack` are the
client's next requests; in between rows are inserted, updated and deleted.
`FollowThrows` is a cursor without a value, `QueryFails` the page that `Query.execute`
makes of a failed query.  `got`, `stable`, `twice`, `oneWay`, `lost` and `altered` are
history.

Values are integers in the order the database has them.  In a cursor a value goes to
the client as text and comes back through `parseCursorParameter`, which trims text and
takes an empty one for no value (`WebCursorUtils.java:173`).  `Parsed` is that
function, and any function: sequence values and creation dates with their milliseconds
come back as they were, texts without outer blanks do, the others do not.  When a
value has changed, the continuation filter may exclude the very row the cursor names;
the rest of the relation is then skipped in search of it (`AllAreReached`, with values
such as those of `MCParsed`).  `EachRowOnce` and `BackwardAdjoins` are about cursors
that keep their values.  The URI in a cursor is trimmed by the same code; URIs of the
program's own making have no blanks, and a row id with outer blanks that a client has
chosen is not modelled.

### 2.8 RoleCache

Threads of one server ask for reachable roles (`getReachableGrantedAuthorities`)
and share `rolesMap`, the active `user`s, `lastCheck` and `lastUpdate` without a
lock.  `Authenticate` begins a request: the user's authorities are read
(`UserDetailsServiceImpl.java:189`).  They are `held` by the request, and when it finds
no active user, perhaps long after and after another thread has cleared the users,
`GetUser` puts them there (`UserServiceImpl.java:203-251`).  `Start` decides as the code
does: everything is fetched when the update interval is over (`Build`, `Install`,
`Reload`, `Stamp`), the revision dates are read when the check interval is
(`ReadRevision`, `Decide`, `Forget`), or neither.  Another server's administrator
changes the hierarchy and the users and flags each change with a revision date
afterwards (`ChangeHierarchy`, `ChangeUsers`, `ReadDate`, `PutRevision`); any of these
statements may fail, and the `finally` block flags again (`WriteFails`).

The content of the tables is the number of changes so far.  `until` in a copy, the
time in `user` and `held` are history: when the database ceased to hold it.
`MaxWork` bounds how long a request takes, from its authentication to its end.
`now` is this server's clock; a revision date is `new Date()` on the administrator's
server (`SecurityRevisionsTable.java:118`), and off from it by one of `Skews`.

*How old a copy can be.*  The hierarchy: an update interval and two requests, one
that fetched late and one that published an older map after it.  The users: an
update interval and two requests as well, the one that fetched and cleared the
users and the one that was authenticated before that and put its user after it.  A
request whose own fetch failed answers from what there is and is excluded.

*Which flags are seen.*  The code means every flag to be seen by the next check
(`RoleHierarchyImpl.java:63`, stated as `ChangesAreNoticed`), and it is not: a revision
date is compared with a time stamp that other requests write, by another clock.
`flag` is the last change that was flagged; it is `hidden` when

* the last check had been stamped with its date or later when it was put: in the
  same millisecond, after a write that took its time, or by a faster clock than the
  administrator's;
* a check or a fetch was then between its reading and its time stamp (`Hidden`);
* or a fetch has failed since, which sets the last check to half a check interval
  ago (`RoleHierarchyImpl.java:259-261`), and that is the date or later.

`FlagsAreNoticed` says that any other flag is in the roles of every request that
begins a check interval after its revision date, or later, and whose own check and
fetch have not failed.

## 3. What TLC checks

| Run | Expect | Shows |
|---|---|---|
| `TaskLock_safety` | pass | with LOCK TABLE granted in any order: `OneRowPerResource`, `HolderKeepsRow`, `ExclusiveUnlessOvertaken`, `ExpiredRowsNeverBlock`, `TypeOK`, and `RequestsReturn` under fairness |
| `TaskLock_mutex` | violation | `MutualExclusion`: a request that began earlier and is granted the table later removes the row of a running lease |
| `DataManager_atomic` | pass | `AtomicChangeSets` (refinement of `RowTable`), `RowsAreLogged`, `Revertible`, `LinearHistory`, `PullsConverge`, `ReadsSeeNothingPending`, `TypeOK` |
| `DataManager_faults` | pass | `ChainsGoBack`, `ETagsNameVersions` with two requests at work at once and failing reads and queries |
| `Sequencer_lock` | pass | `SequencesIncrease` on one table, whatever the clock does |
| `Sequencer_tables` | violation | `SequencesIncrease` with two tables |
| `TableLifecycle_crash` | pass | `AppearsWhole` (refinement of `TableRegistry`), `LiveHasRelations`, `NothingIsLost`, `OwnerKeepsTable`, `NoOldAttachments`, `AnswersAreTrue`, `TypeOK`, and `RequestsEnd` under fairness, with two requests, one of which stops or misreads something anywhere |
| `ManifestCache_files` | pass | `OneEntryPerPath`, `ConfirmedIsListed`, `TimelyETagsAreTrue`, `TypeOK`, and `CatchUpUnlessMisled` under fairness, with devices of two client versions and writers that stop |
| `ManifestCache_stale` | violation | `DevicesCatchUp`: a manifest computed before a write and stored after it is confirmed with 304 for ever |
| `BlobStore_files` | pass | `StoredIsWhole`, `PostedIsServed`, `RemovedMeansGone`, `RepeatsSucceed`, `TypeOK` |
| `QueryPaging_pages` | pass | `EachRowOnce`, `BackwardAdjoins`; that the types are kept is only proved |
| `RoleCache_refresh` | pass | `RolesAreRecent`, `UsersAreRecent`, `FlagsAreNoticed`, `TypeOK` |

The violations are disagreements between the code and its own comments; each is
described under `findings` in `PROJECT.json` with the line it contradicts.  The claims
of 2.0 that have no run contradict comments too: `DataManager.java:195` (`Revertible`),
`DbTableEntry.java:41` (`DataETagKept`, `DeletionIsWhole`), `TableManager.java:424`
(`CleanUpIsPossible`), `TableManager.java:358` (`CreationKeepsRoles`),
`DbTableEntry.java:44` (`LeftoversAreFound`), `InstanceFileManager.java:68`
(`RefusedMeansDifferent`), `QueryResumePoint.java:30` (`AllAreReached`) and
`RoleHierarchyImpl.java:63` (`ChangesAreNoticed`).

### 3.1 Bounds

* `TaskLock_safety`: two requests on one resource, a lease of 2 ticks and a clock up
  to 5, so that a lease can start, expire and be followed by another that is
  confirmed, renewed and overtaken; 3 tries, so that first attempt, retries and
  giving up all occur.  Resources do not interact but in the statement that deletes
  stale rows; the proofs cover any number of requests and any `ResourceOf`.
  `TaskLock_mutex` needs 2 tries and a clock up to 4.
* `DataManager_atomic`: one request suffices while the lock is exclusive (a
  request is idle between two operations, so one request does any sequence of
  operations); two rows and lists of up to two, so that a list can be half
  written; two values; 8 tickets, enough for create, update or delete, and a
  third write; two failures, so that a write fails and then its revert does.
* `DataManager_faults`: two requests, so that one can be at work when the other
  takes the lock; single changes, 5 tickets (two writes), one failure.
* `TableLifecycle_crash`: two requests, so that an upload, a grant or a second
  creation waits or works beside a deletion; two schema ETags, so that a table is
  removed and created again; one failure, of the creation or deletion, of the
  clean-up after another one's, or of a read; sets of one and two columns, one
  inside the other; the first two names taken by other tables, one by a row and one
  by a log relation.  The proofs cover any number of failures.
* `Sequencer`: two workers, three clock values, two draws each.
* `ManifestCache_files`: one writer suffices, because the lock lets one at a time
  in and a writer is idle between two writes; two devices, one for each client
  version, so that they overwrite each other's ETag; one path under two versions,
  two contents; three writes, so that a file is put, replaced and deleted, or
  left half written, replaced and read; one failure.  The proofs cover any
  number of each.  `ManifestCache_stale` needs one device and no failure.
* `BlobStore`: two requests, so that one outlives its lease beside another; a
  content of one part and one of two; an upload of two files, whose second can
  fail; two records in `BlobStore_files`; three failures, the fewest after which
  a set cannot be read by its own removal (`CollectThrows`).
* `QueryPaging`: up to five rows in pages of two, so that there are full pages, a
  last page with one row, and an exactly full last one; null, a blank, a letter and
  the letter with a blank after it, so that a page begins or ends among equal values
  and a cursor keeps its value, changes it or loses it; one change between two pages.
* `RoleCache`: two threads, an update interval of 1 unit, checks whenever the clock
  has moved on, a request that may take one unit, an administrator's clock that is
  fast by one, and a clock up to 4: old authorities can be put just before an interval
  begins and be answered from at its end, and with one `MaxWork` instead of two TLC
  finds `UsersAreRecent` violated.  `RolesAreRecent` would need a clock of 5 for that.
  A slow clock is, for this server, a flag that was put late, which the run has.  One
  change of hierarchy and users, one failure.  The proofs cover any intervals, clocks
  and numbers.

Model bounds (`MaxTime`, `MaxTicket`, `MaxFailures`, `MaxBase`, `MaxCount`,
`MaxChanges`, `MaxSchema`, `MaxData`, `MaxWrites`, `MaxRecords`) end behaviours
that in the program go on, so the configurations say `CHECK_DEADLOCK FALSE`: at
its bounds the system stops.

Row ids in `DataManager_atomic`, row ids and requests in `DataManager_faults`, and
requests in `BlobStore_files` and `RoleCache_refresh` are symmetric: the specification
mentions them only through quantifiers, and the runs that use symmetry check no
liveness.

### 3.2 Fairness

`TaskLock_safety`, `TableLifecycle_crash` and `ManifestCache_files` use fairness.
A thread of a live server runs on, so the steps of `acquire` and `release` are
weakly fair; work under a lock is finite, so a request that is at work again and
again after renewals eventually leaves (strong fairness of `Leave`).  Nothing is
assumed of failures, crashes or the clock: a request may fail every time, and
still returns.  `Confirm` and `Declined` are fair together, because either may be
the outcome of the read.  In `TableLifecycle` the steps of a request that has
begun are weakly fair together with giving up the lock, which is what
`RequestsReturn` shows of `acquire`; each of these steps changes the request's
own job, so the fairness names that.  A failure is never forced, and `RequestsEnd`
does not need one.  In `ManifestCache` a writer that has begun goes on, and a
device polls for ever; writes are bounded, so from some time on the lock is free,
and weak fairness of a device's steps is enough.  No writer is made to begin, and
none to fail.

## 4. What is proved

`TaskLockProofs`, for any requests, resources, lease and number of tries:

* `TypeCorrect`: `[]TypeOK`.
* `OneRow`: `[]OneRowPerResource`, what the comment at `TaskLockImpl.java:224`
  asserts.  Three lemmas carry it: `Arbitrate` keeps the type of the table, never
  gives a request a row or a later expiration (`ArbitrateKeeps`), and leaves one
  row of the resource at most (`ArbitrateLeavesOne`: of two rows that survive
  `WithoutNewer` neither is later, so they are equal, and then the third DELETE
  removes the own row).  Other steps only remove rows.
* `HolderKeepsItsRow` and `Mutex`, in whatever order the table is granted.
  `HolderKeepsRow` is not inductive: `LeaseInv` adds that time stamps lie in the past,
  that no row and no lease runs longer than a lease from now, and that a lease under
  renewal ends before the new one.  If what a rival writes does not expire earlier
  than the holder's row, the second DELETE spares that row, and at a tie the third
  removes the rival's (`TransactionSparesHolder`); if it does, `Overtakes` has noted
  the holder.  `Mutex` follows with `OneRow`: two running leases that were not overtaken
  would be two rows.
* `LeftRowsExpire`: the action property `ExpiredRowsNeverBlock`.  Rows that have
  expired go in the first DELETE, so the own row is the only one the others see.

`SequencerProofs`, for any workers, clock and bounds: types, and under the
hypothesis `OneTable` that sequence values increase.  The invariant says that
whoever is at work holds the lock, that there is one preference row at most, and
that the saved base bounds every value drawn.  The hypothesis is exactly what
the code lacks when it serves two tables.

`ManifestCacheProofs`, for any devices, writers, client versions, paths, contents
and failures:

* `TypeCorrect`: `[]TypeOK`, with `Places`: a request is at a place of its own
  code, and a writer at work has the lock.
* `OneEntry`, under `OnlyTrue` (a failed query is not taken for an empty one):
  `OneEntryPerPath` is not inductive, because `PutEntry` adds an entry without
  looking.  `Sole` adds that what a writer has found is exactly what there is of
  its path until it has removed it, and that nothing is left when it adds.
* `ETagsAreTrue`, under `OnlyTrue`: `Timely` adds that a manifest that was
  computed and that no write has overtaken is the current one, and that there is
  no timely ETag while a writer is past clearing it.
* `Confirmed`, under `OnlyTrue`: the longest argument. `Whole` says that no two
  entries share an id, that entries and blobs belong to writes that have begun,
  and that the id of the write under way is not in use yet; `Settled` that a
  path whose last write succeeded shows exactly that content, and that a writer
  about to release has made its own path so. Steps of the writer of one path
  leave what other paths show alone (`SettledElsewhere`).

`RoleCacheProofs`, for any number of threads, any intervals and any time a
request may take; nothing but linear arithmetic on time stamps is needed:

* `TypeCorrect`, with `Clocks`: stamps lie in the past, and a request is over
  `MaxWork` after it began.
* `RolesRecent` and `UsersRecent`.  `Recent` follows a copy from its building to
  the answer: a map built by a request is as recent as the request's start; a map
  published by an older request while another fetches can be one request older;
  so the map is never older than the last fetch less two requests.  Nor is the user:
  the authorities a request holds are as recent as its own start, and it may put
  them while another one is between clearing the users and its time stamp.
* `FlagsNoticed`.  `Flagged`: while a flagged change is not in the map and not hidden,
  the last check is older than its revision date; whoever is about to decide has read
  that date, and whoever is about to publish has fetched the change; and whoever is
  done leaves a last check that is not older than its own beginning by more than a
  check interval.  So a request that began later than that after the date cannot be
  done while the change is missing.  Nothing is asked of the clocks.

`DataManagerProofs`, for any requests, rows, values, list lengths, tickets and
failures:

* Whatever fails, races or expires, with every setting of section 2.0:
  `TypeCorrect`, `RowETagsNameVersions` (`ETagsNameVersions`) and
  `LogChainsGoBack` (`ChainsGoBack`); what they say of one row's ETags, they say if
  `TrustClients`.  Neither property is inductive: a ticket may
  wait in a job while others use the table.  `TicketsMeanOneThing` says that there
  is one *dictionary*: a record of what each ticket drawn so far was drawn for,
  with which the log, the rows and all that the jobs are still going to write
  agree.  The dictionary is a witness, not a variable; every step extends it.
* Under `Sound` (clients send the row ETags of their row, no failed read or query is
  taken for an answer, no lease ends under its holder): `EveryRowIsLogged`,
  `RevertsSucceed`, `ReadsAreCommitted`, `EveryPullConverges` and `OperationsAreAtomic`,
  the refinement of `RowTable`; with `DistinctRows` besides, `HistoryIsLinear`.  One
  invariant carries all of them: `Exclusive` (only the holder is at work), `Tidy` and
  `Place`.  `Tidy` is about the settled log, the one without the entries of the
  pending data ETag: it is ordered by data ETag and row ETag (`Order`), it has the
  entry before each entry, and pending entries are made from it (`Chained`); a row is
  what it makes of that row, or already what a pending entry makes of it (`Rows`);
  with `DistinctRows` a row has one pending entry and one chain (`Single`).  `Place`
  says of each step of a request how far its writing or its undoing has come.
* The refinement shows that `Committed` changes at `Commit` only.  `CommittedIsBase`
  identifies it with what the settled log makes of a row, in which no pending
  entry and no half-written row occurs.

Section 2.0 names the properties that TLC finds violated without each hypothesis.
`TrustClients` is what the refinement mapping asks for: `Committed` is not defined for a
pending change whose revert throws or restores another row's version.

`TableLifecycleProofs`, for any requests, columns, names, relations of other
tables, schema ETags and failures:

* Even if requests race: `TypeCorrect` and `OwnerIsKept` (`OwnerKeepsTable`).  Types
  include that `FreeName` finds a name: of the names that are tried, one more than
  there are relations, one is free (`FreeNameIsFree`, by the pigeonhole principle),
  and the least such number exists.  The owner's role goes last and comes first.
* Under `~RequestsRace`, failed reads included: `LiveTablesAreComplete` and
  `TablesAppearWhole`, the refinement of `TableRegistry`.  `Core` says what a schema in
  use has, and of a request's steps only what does not depend on its reading the
  truth.
* Under `~RequestsRace`: `NothingGetsLost`, `AttachmentsAreNew` and `AnswersAreHonest`,
  each up to a query for a definition or columns that fails (`Clean`, part of these
  properties).  Until then `Store` holds: the entry names one schema, in use, pending
  or stale (`OneSchema`), there is one definition at most and it is of that schema
  (`OneDefinition`), every column and relation is of that definition or another
  table's (`Parts`), and whose attachments there are.  `Place` says what a clean-up has
  removed and a creation has built when it gets to a step.  A crash leaves `Store` as
  it is: that is why the next request can clean up.

`BlobStoreProofs`, for any requests, files, parts and failures:

* `TypeCorrect`.
* `HashedIsWhole` (`StoredIsWhole`), also when leases end and two requests write at
  once: `Fresh` says that URIs are not used twice, `Writer` and `Progress` which
  parts a record has that is being written, `Planned` that a record that is still
  there and whose parts are to be deleted is to be deleted before them.
* `RemovalsAreComplete` (`RemovedMeansGone`), `UploadsCanBeRepeated`
  (`RepeatsSucceed`) and, under `NoEmptyFile`, `UploadsAreServed` (`PostedIsServed`):
  `ServeInv` adds that the lock is exclusive until a lease ends, that attachments are
  numbered without gaps, and that no two have one path; so a path that was posted has
  one record, and a refusal (`RepeatInv`) is for a file that was not.  `NoEmptyFile`
  is needed because `getFile` answers 404 for a file without content
  (`InstanceFileManager.java:127`).

`QueryPagingProofs`, for any relation, sort values, page size, changes and conversion
of values (`Parsed`), without hypotheses:

* `TypeCorrect`: a page has at most `FetchLimit` rows, because the ranks of its rows
  are different numbers below it (`LimitedSize`).
* `PagesAdjoin` (`BackwardAdjoins`): the backward cursor is at the first row of its
  page (`PageInv`), and what follows a cursor whose row has not changed is all
  that is beyond it (`RestIsBeyond`).
* `EveryRowOnce` (`EachRowOnce`): `OnwardInv` says that a client has had no row
  beyond its cursor, and every row that stays is had or beyond the cursor, as long as
  cursors have kept their values.  Rows
  with equal values and nulls are no special case: `Order` shows that the order is
  strict and total in both directions.

The assumptions on constants are what the types of the code say, and that a null
or a missing holder is none of the values.  Three say more: sort values and keys
are ordered (`PagingAssumption`), the relations of other tables are finitely many
(`TableLifecycleAssumption`), and the items of an array column are columns of the
same definition.  `NoHolder` and `Nobody` are no requests.

Model-checked only: liveness (`RequestsReturn`, `RequestsEnd`,
`CatchUpUnlessMisled`), because TLAPS has no rules for fairness and `ENABLED`.
Every invariant and every action property of the passing runs is a theorem, and
so are both refinements.

## 5. Not modelled

* Permissions on rows and tables, ACL entries and their lookups by scope, the
  creation of user permissions under their lock: planned below.
* The merge of users and authorities at start-up, authentication.
* Table-level files and manifest ETags that a deletion leaves because a query failed;
  row ids with blanks before or after them, which a cursor trims.
* Listings of tables and files; the manifest of a single row's attachments.
* Renaming and overwriting an attachment: no caller reaches them.
* The conversion of values between JSON, Java and SQL, and the text of statements.
* REST decoding, Spring wiring, utilities: no state of their own.

## 6. Plan

Done: `TaskLock`, `DataManager` with `RowTable`, `Sequencer`, `TableLifecycle` with
`TableRegistry`, `ManifestCache`, `BlobStore`, `QueryPaging`, `RoleCache`, and the
proofs of section 4.  Next, in this order:

1. Proofs of what is left of `RowsAreLogged` and `PullsConverge` when leases end or
   reads fail, in place of excluding these.  Eight modules hold the proofs, one for
   each state machine; so far every property but liveness has one.
2. The pending data ETag as a composition of `TableLifecycle` with `DataManager`:
   `deleteVersionedTable` clears it without undoing its changes.
3. A composition of a client's sync loop with `DataManager`: failed answers,
   retries with a stale data ETag, change sets (`getChangeSetsSince`,
   `getChangeSetRows` with isActive).
4. `AccessControl`: ACL lookups by scope, the creation of user permissions under
   the lock, and the merge of granted authorities at start-up.
5. The manifest and ETag of one row's attachments, over `BlobStore`.
