---------------------------- MODULE ManifestCache ----------------------------
(***************************************************************************)
(* The files of one table id (or of the application) and the cached ETag   *)
(* of their manifest.  FileManager.putFile and deleteFile change the files *)
(* under the table's lock and clear the ETag first; a device's GET reads   *)
(* the ETag before it has the lock, computes the manifest under the lock,  *)
(* and writes the ETag after it has released it.                           *)
(*                                                                         *)
(* There is one ETag row per table id, while files belong to a client      *)
(* version.  The hash of a manifest is the manifest itself: a set of pairs *)
(* of path and content, for any client version.                            *)
(*                                                                         *)
(* A blob set is made under a new URI and is named by no entry before it   *)
(* is complete; removing it takes its content record away first.  Adding   *)
(* and removing one is therefore a single step here.  Tables are sets of   *)
(* rows.                                                                   *)
(***************************************************************************)
EXTENDS Integers

CONSTANTS
  Device,          \* devices, each polling the manifest of its client version
  Writer,          \* requests that put and delete files
  Version,         \* odkClientVersion
  VersionOf,       \* the client version of each device
  Path, Content,
  QueriesMayFail,  \* may a failed query be taken for one without results?
  MaxWrites,       \* bound on the files put and deleted
  MaxFailures      \* bound on the operations that fail

Nothing == "nothing"
Unsure == "unsure"
Nobody == "nobody"

ASSUME ManifestAssumption ==
  /\ VersionOf \in [Device -> Version]
  /\ Version # {} /\ Path # {}
  /\ QueriesMayFail \in BOOLEAN
  /\ MaxWrites \in Nat /\ MaxFailures \in Nat
  /\ Nothing \notin Content /\ Unsure \notin Content
  /\ Nobody \notin Writer /\ Device \cap Writer = {}

VARIABLES
  entries,   \* TABLE_FILE_INFO
  blobs,     \* the attachments of the blob sets, by the id of their entry
  etag,      \* MANIFEST_ETAGS: the row of this table id, or none
  holder,    \* the writer that has the table's lock
  pc,        \* where each device and writer is
  op,        \* what each writer puts: version, path, and content or Nothing
  found,     \* the entries a writer has found and not yet removed
  writes,    \* the number of writes begun so far
  failures,  \* the number of operations that failed
  seen,      \* the ETag row each device has read
  computed,  \* the manifest it was given
  late,      \* has a write begun since it was?  (history)
  known,     \* the manifest it holds, with its ETag
  confirmed  \* what each path holds after a write that succeeded (history)

reading == <<seen, computed, late, known>>
vars == <<entries, blobs, etag, holder, pc, op, found, writes, failures, reading, confirmed>>

Id == 1 .. MaxWrites
Key == Version \X Path
Manifest == SUBSET (Path \X Content)
Entry == [id : Id, key : Key]
Blob == [id : Id, content : Content]
Write == [key : Key, content : Content \cup {Nothing}]
\* by and late are history: for whom the row was stored, and was it late?
ETag == [hash : Manifest, by : Version, late : BOOLEAN]

WriterStage == {"idle", "clear", "find", "remove", "drop", "add", "put", "release"}
DeviceStage == {"idle", "told", "compute", "store"}

TypeOK ==
  /\ entries \subseteq Entry
  /\ blobs \subseteq Blob
  /\ etag \subseteq ETag
  /\ holder \in Writer \cup {Nobody}
  /\ pc \in [Writer \cup Device -> WriterStage \cup DeviceStage]
  /\ op \in [Writer -> Write]
  /\ found \in [Writer -> SUBSET Entry]
  /\ writes \in 0 .. MaxWrites
  /\ failures \in 0 .. MaxFailures
  /\ seen \in [Device -> SUBSET ETag]
  /\ computed \in [Device -> Manifest]
  /\ late \in [Device -> BOOLEAN]
  /\ known \in [Device -> SUBSET Manifest]
  /\ confirmed \in [Key -> Content \cup {Nothing, Unsure}]

NoOp == [key |-> CHOOSE k \in Key : TRUE, content |-> Nothing]

Init ==
  /\ entries = {} /\ blobs = {} /\ etag = {}
  /\ holder = Nobody
  /\ pc = [r \in Writer \cup Device |-> "idle"]
  /\ op = [w \in Writer |-> NoOp]
  /\ found = [w \in Writer |-> {}]
  /\ writes = 0 /\ failures = 0
  /\ seen = [d \in Device |-> {}]
  /\ computed = [d \in Device |-> {}]
  /\ late = [d \in Device |-> FALSE]
  /\ known = [d \in Device |-> {}]
  /\ confirmed = [k \in Key |-> Nothing]

Goto(r, stage) == pc' = [pc EXCEPT ![r] = stage]

\* getEntriesFromQuery: an entry without an attachment is skipped.
Listed(v) ==
  {file \in Path \X Content : \E e \in entries, b \in blobs :
     e.key = <<v, file[1]>> /\ b.id = e.id /\ b.content = file[2]}

\* Query.execute returns an empty list when the query fails.
Results(rows) == {rows} \cup (IF QueriesMayFail THEN {{}} ELSE {})

-----------------------------------------------------------------------------
(* FileManager: putFile and deleteFile.                                    *)

\* putFile clears the ETag before it looks for old entries, deleteFile after.
Acquire(w) ==
  /\ pc[w] = "idle" /\ holder = Nobody /\ writes < MaxWrites
  /\ writes' = writes + 1
  /\ holder' = w
  /\ \E k \in Key, c \in Content \cup {Nothing} :
       /\ op' = [op EXCEPT ![w] = [key |-> k, content |-> c]]
       /\ confirmed' = [confirmed EXCEPT ![k] = Unsure]
       /\ Goto(w, IF c = Nothing THEN "find" ELSE "clear")
  /\ UNCHANGED <<entries, blobs, etag, found, failures, reading>>

\* Where a write goes once it has removed all rows it found: it adds the new
\* file, or it is done.
AfterRemoval(w) == IF op[w].content = Nothing THEN "release" ELSE "add"

\* The ETag row is read and deleted; the manifests computed so far are outdated.
ClearETag(w) ==
  /\ pc[w] = "clear"
  /\ etag' \in {etag \ row : row \in Results(etag)}
  /\ late' = [d \in Device |-> late[d] \/ pc[d] = "store"]
  /\ Goto(w, IF op[w].content = Nothing THEN "remove" ELSE "find")
  /\ UNCHANGED <<entries, blobs, holder, op, found, writes, failures, seen, computed, known, confirmed>>

\* Fault: the query does not ask for the client version.
MatchingAnyVersion(key) == {e \in entries : e.key[2] = key[2]}

\* queryForEntity
Matching(key) == {e \in entries : e.key = key}

\* Faults: deleteFile leaves the ETag alone; putFile leaves the old entry.
AfterQueryUncleared(w, rows) == IF rows # {} THEN "remove" ELSE AfterRemoval(w)
AfterQueryKept(w, rows) ==
  IF rows = {} \/ op[w].content # Nothing THEN AfterRemoval(w) ELSE "clear"

\* putFile has cleared the ETag already, deleteFile does so if there is a file.
AfterQuery(w, rows) ==
  IF rows = {} THEN AfterRemoval(w)
  ELSE IF op[w].content = Nothing THEN "clear" ELSE "remove"

FindEntries(w) ==
  /\ pc[w] = "find"
  /\ \E rows \in Results(Matching(op[w].key)) :
       /\ found' = [found EXCEPT ![w] = rows]
       /\ Goto(w, AfterQuery(w, rows))
  /\ UNCHANGED <<entries, blobs, etag, holder, op, writes, failures, reading, confirmed>>

\* blobEntitySet.remove, and then entity.delete, for each entry found.
RemoveBlob(w) ==
  /\ pc[w] = "remove"
  /\ \E e \in found[w] : blobs' = {b \in blobs : b.id # e.id}
  /\ Goto(w, "drop")
  /\ UNCHANGED <<entries, etag, holder, op, found, writes, failures, reading, confirmed>>

DropEntry(w) ==
  /\ pc[w] = "drop"
  /\ \E e \in found[w] :
       /\ \A b \in blobs : b.id # e.id
       /\ entries' = entries \ {e}
       /\ found' = [found EXCEPT ![w] = @ \ {e}]
       /\ Goto(w, IF found[w] = {e} THEN AfterRemoval(w) ELSE "remove")
  /\ UNCHANGED <<blobs, etag, holder, op, writes, failures, reading, confirmed>>

\* Fault: path and client version are swapped.
NewEntrySwapped(w) == [id |-> writes, key |-> <<op[w].key[2], op[w].key[1]>>]

NewEntry(w) == [id |-> writes, key |-> op[w].key]

\* addBlob, under the URI of an entry that is not in the database yet: writes
\* are told apart by their number, and so are the URIs they make.
AddBlob(w) ==
  /\ pc[w] = "add"
  /\ blobs' = blobs \cup {[id |-> writes, content |-> op[w].content]}
  /\ found' = [found EXCEPT ![w] = {NewEntry(w)}]
  /\ Goto(w, "put")
  /\ UNCHANGED <<entries, etag, holder, op, writes, failures, reading, confirmed>>

\* tableFileInfoRow.put
PutEntry(w) ==
  /\ pc[w] = "put"
  /\ entries' = entries \cup found[w]
  /\ found' = [found EXCEPT ![w] = {}]
  /\ Goto(w, "release")
  /\ UNCHANGED <<blobs, etag, holder, op, writes, failures, reading, confirmed>>

\* The finally block, and the answer.
Release(w) ==
  /\ pc[w] = "release"
  /\ holder' = Nobody
  /\ confirmed' = [confirmed EXCEPT ![op[w].key] = op[w].content]
  /\ op' = [op EXCEPT ![w] = NoOp]
  /\ Goto(w, "idle")
  /\ UNCHANGED <<entries, blobs, etag, found, writes, failures, reading>>

\* A statement fails, or the server stops: the lock is released or expires.
Fail(w) ==
  /\ pc[w] \notin {"idle", "release"} /\ failures < MaxFailures
  /\ failures' = failures + 1
  /\ holder' = Nobody
  /\ found' = [found EXCEPT ![w] = {}]
  /\ op' = [op EXCEPT ![w] = NoOp]
  /\ Goto(w, "idle")
  /\ UNCHANGED <<entries, blobs, etag, writes, reading, confirmed>>

-----------------------------------------------------------------------------
(* FileManifestService.getTableIdFileManifest and getAppLevelFileManifest. *)

\* Fault: a device that sends an ETag while none is stored is taken to be current.
NotModifiedByDefault(d, row) == known[d] # {} /\ \A r \in row : r.hash \in known[d]

\* If-None-Match names the stored ETag.
NotModified(d, row) == \E r \in row : known[d] = {r.hash}

\* The ETag row is read, without a lock.
ReadETag(d) ==
  /\ pc[d] = "idle"
  /\ \E row \in Results(etag) :
       IF NotModified(d, row) THEN Goto(d, "told") /\ UNCHANGED seen
       ELSE Goto(d, "compute") /\ seen' = [seen EXCEPT ![d] = row]
  /\ UNCHANGED <<entries, blobs, etag, holder, op, found, writes, failures,
                 computed, late, known, confirmed>>

\* Status 304: the device keeps what it has, and polls again.
KeepManifest(d) ==
  /\ pc[d] = "told"
  /\ Goto(d, "idle")
  /\ UNCHANGED <<entries, blobs, etag, holder, op, found, writes, failures, reading, confirmed>>

\* getManifestForTable, under the table's lock.
ComputeManifest(d) ==
  /\ pc[d] = "compute" /\ holder = Nobody
  /\ \E rows \in Results(Listed(VersionOf[d])) : computed' = [computed EXCEPT ![d] = rows]
  /\ late' = [late EXCEPT ![d] = FALSE]
  /\ Goto(d, "store")
  /\ UNCHANGED <<entries, blobs, etag, holder, op, found, writes, failures, seen, known, confirmed>>

NewETag(d) == [hash |-> computed[d], by |-> VersionOf[d], late |-> late[d]]

\* put: an INSERT if no row was read (another one since is a failure), an UPDATE
\* by primary key if its ETag differs (of no row if it was deleted since).
Written(d) ==
  IF seen[d] = {} THEN {NewETag(d)}
  ELSE IF etag = {} \/ \A r \in seen[d] : r.hash = computed[d] THEN etag
  ELSE {NewETag(d)}

Finish(d) ==
  /\ Goto(d, "idle")
  /\ seen' = [seen EXCEPT ![d] = {}]
  /\ computed' = [computed EXCEPT ![d] = {}]
  /\ late' = [late EXCEPT ![d] = FALSE]
  /\ UNCHANGED <<entries, blobs, holder, op, found, writes, failures, confirmed>>

\* The ETag is written, without a lock, and answered with the manifest.
StoreETag(d) ==
  /\ pc[d] = "store"
  /\ seen[d] = {} => etag = {}
  /\ etag' = Written(d)
  /\ known' = [known EXCEPT ![d] = {computed[d]}]
  /\ Finish(d)

\* The INSERT collides with the row of another GET: status 500.
StoreFails(d) ==
  /\ pc[d] = "store"
  /\ seen[d] = {} /\ etag # {}
  /\ UNCHANGED <<etag, known>>
  /\ Finish(d)

WriterStep(w) ==
  \/ ClearETag(w) \/ FindEntries(w) \/ RemoveBlob(w) \/ DropEntry(w)
  \/ AddBlob(w) \/ PutEntry(w) \/ Release(w)
Answer(d) == ReadETag(d) \/ KeepManifest(d) \/ StoreETag(d) \/ StoreFails(d)

Next ==
  \/ \E w \in Writer : Acquire(w) \/ WriterStep(w) \/ Fail(w)
  \/ \E d \in Device : Answer(d) \/ ComputeManifest(d)

Spec == Init /\ [][Next]_vars

\* A request that has begun goes on; devices poll for ever.  Writes are bounded,
\* so the lock is free from some time on: nobody is kept from it for ever.
Fairness ==
  /\ \A w \in Writer : WF_vars(WriterStep(w))
  /\ \A d \in Device : WF_vars(Answer(d)) /\ WF_vars(ComputeManifest(d))

FairSpec == Spec /\ Fairness

-----------------------------------------------------------------------------
(* Properties.                                                             *)

(* FileManager.java:165, "We should only ever have one, as wholePath is the   *)
(* primary key": it is not, and only the lock and the clean-up before each    *)
(* put keep a client version from having two entries of one path.             *)
OneEntryPerPath ==
  \A e, f \in entries : e.key = f.key => e = f

(* What a write that succeeded put at a path, or removed there, is what the   *)
(* manifest of that client version lists until the next write of the path     *)
(* begins, whatever writes of other paths and versions fail in between.       *)
ConfirmedIsListed ==
  \A k \in Key : confirmed[k] # Unsure =>
    {c \in Content : <<k[2], c>> \in Listed(k[1])} = {confirmed[k]} \ {Nothing}

(* The cached ETag is the hash of the current manifest of the client version  *)
(* it was stored for, unless a write began between computing and storing it.  *)
TimelyETagsAreTrue ==
  \A r \in etag : ~r.late => r.hash = Listed(r.by)

\* A stored ETag that was late, or is another client version's.
Misleading(d) == \E r \in etag : r.late \/ r.by # VersionOf[d]

(* Once writes cease, a device that polls has the current manifest again and  *)
(* again, or a misleading ETag stays in the cache.                            *)
CatchUpUnlessMisled ==
  \A d \in Device : <>[]Misleading(d) \/ []<>(known[d] = {Listed(VersionOf[d])})

(* HTTP's promise to a device that polls: it gets to know the current files.  *)
DevicesCatchUp ==
  \A d \in Device : []<>(known[d] = {Listed(VersionOf[d])})
=============================================================================
