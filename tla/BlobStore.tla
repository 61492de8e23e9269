------------------------------ MODULE BlobStore ------------------------------
(***************************************************************************)
(* One blob set: the attachments of a row, or one file of a table id.  A   *)
(* file is a content record, and for each part of its content a blob and a *)
(* reference to it; all are written and deleted by statements of their     *)
(* own, without a transaction.                                             *)
(*                                                                         *)
(* Uploads are InstanceFileManager.putFile (one file) and postFiles (any   *)
(* number), which add what they do not find; FileManager.putFile adds one  *)
(* file to a new set.  The branches of setValueFromByteArray for a record  *)
(* that is there already are not modelled: an upload does not get to them  *)
(* when it finds its path, and a new set has no records.                   *)
(*                                                                         *)
(* Removals are BlobEntitySet.remove.  An upload does not follow a removal *)
(* that failed: FileManager removes the set again, and then makes another. *)
(***************************************************************************)
EXTENDS Integers, FiniteSets, SequencesExt

CONSTANTS
  Request,      \* the requests of a server
  Path, Content,
  Parts,        \* the number of parts of a content
  Uploads,      \* what may be uploaded: sequences of files
  MaxRecords,   \* bound on the content records made
  MaxFailures   \* bound on the statements and requests that fail, and on leases

Null == "null"
Nobody == "nobody"
Missing == "missing"
Broken == "broken"

File == [path : Path, content : Content]

ASSUME BlobAssumption ==
  /\ Parts \in [Content -> Nat]
  /\ Uploads \subseteq Seq(File)
  /\ MaxRecords \in Nat /\ MaxFailures \in Nat
  /\ Nobody \notin Request
  /\ {Null, Missing, Broken} \cap Content = {}

VARIABLES
  records,   \* the content records of the set (BinaryContent)
  refs,      \* the references to parts (BinaryContentRefBlob), of all sets
  blobs,     \* the parts (RefBlob), of all sets
  made,      \* the number of content records made: their URIs
  removing,  \* has a removal begun that has not succeeded?
  holder,    \* the request that has the lock
  pc,        \* where each request is
  files,     \* what it uploads
  done,      \* how many of these it has dealt with
  view,      \* the attachments it keeps in memory
  refused,   \* did it find a file that differs?
  part,      \* the part it writes
  plan,      \* the rows it is to delete
  left,      \* those it has not come to yet
  failed,    \* did one of its deletes fail?
  misread,   \* was a row it could not read taken for deleted?
  failures,  \* the number of failures so far
  posted,    \* the files of the uploads that succeeded (history)
  overrun,   \* has a request outlived its lease? (history)
  skipped    \* has a removal of this set gone on after a failed delete? (history)

rows == <<records, refs, blobs, made>>
uploading == <<files, done, view, refused, part>>
deleting == <<plan, left, failed, misread>>
history == <<posted, overrun, skipped>>
vars == <<rows, removing, holder, pc, uploading, deleting, failures, history>>

Uri == 1 .. MaxRecords
PartNr == {1} \cup UNION {1 .. Parts[c] : c \in Content}
Record == [uri : Uri, ord : Nat \ {0}, path : Path, hash : Content \cup {Null}]
Ref == [uri : Uri, part : PartNr]
Blob == [uri : Uri, part : PartNr, content : Content]
Key == [nth : Nat \ {0}, table : {"record", "ref", "blob"}, uri : Uri, part : PartNr \cup {0}]
Stage == {"idle", "read", "scan", "blob", "ref", "hash", "collect", "delete", "retry", "removed"}

TypeOK ==
  /\ records \subseteq Record /\ refs \subseteq Ref /\ blobs \subseteq Blob
  /\ made \in 0 .. MaxRecords
  /\ removing \in BOOLEAN
  /\ holder \in Request \cup {Nobody}
  /\ pc \in [Request -> Stage]
  /\ files \in [Request -> Uploads \cup {<<>>}]
  /\ done \in [Request -> Nat] /\ \A q \in Request : done[q] <= Len(files[q])
  /\ view \in [Request -> SUBSET Record]
  /\ refused \in [Request -> BOOLEAN]
  /\ part \in [Request -> PartNr]
  /\ plan \in [Request -> SUBSET Key]
  /\ left \in [Request -> SUBSET Key] /\ \A q \in Request : left[q] \subseteq plan[q]
  /\ failed \in [Request -> BOOLEAN] /\ misread \in [Request -> BOOLEAN]
  /\ failures \in 0 .. MaxFailures
  /\ posted \subseteq File
  /\ overrun \in BOOLEAN /\ skipped \in BOOLEAN

Init ==
  /\ records = {} /\ refs = {} /\ blobs = {} /\ made = 0
  /\ removing = FALSE /\ holder = Nobody
  /\ pc = [q \in Request |-> "idle"]
  /\ files = [q \in Request |-> <<>>]
  /\ done = [q \in Request |-> 0]
  /\ view = [q \in Request |-> {}]
  /\ refused = [q \in Request |-> FALSE]
  /\ part = [q \in Request |-> 1]
  /\ plan = [q \in Request |-> {}]
  /\ left = [q \in Request |-> {}]
  /\ failed = [q \in Request |-> FALSE]
  /\ misread = [q \in Request |-> FALSE]
  /\ failures = 0
  /\ posted = {} /\ overrun = FALSE /\ skipped = FALSE

-----------------------------------------------------------------------------
(* What a reader of the tables makes of them.                              *)

\* updateAttachments: the ordinals are 1, 2, ... in this order.
InOrder(rs) == {r.ord : r \in rs} = 1 .. Cardinality(rs)

PartsOf(r) == {f.part : f \in {g \in refs : g.uri = r.uri}}
BlobsOf(r) == {b \in blobs : b.uri = r.uri}

\* BlobManipulator: the references are 1, 2, ..., and each has its blob.
Readable(r) ==
  /\ PartsOf(r) = 1 .. Cardinality(PartsOf(r))
  /\ PartsOf(r) \subseteq {b.part : b \in BlobsOf(r)}

\* getFile: what it answers for a path, if it gets the lock.
Fetch(p) ==
  LET found == {r \in records : r.path = p} IN
  IF found = {} /\ InOrder(records) THEN Missing
  ELSE IF ~InOrder(records) \/ \E r \in found : ~Readable(r) THEN Broken
  ELSE LET r == CHOOSE x \in found : \A y \in found : x.ord <= y.ord
       IN IF r.hash = Null \/ Parts[r.hash] = 0 THEN Missing
          ELSE IF PartsOf(r) = 1 .. Parts[r.hash] /\ \A b \in BlobsOf(r) : b.content = r.hash
               THEN r.hash ELSE Broken

-----------------------------------------------------------------------------
Goto(q, stage) == pc' = [pc EXCEPT ![q] = stage]

\* release deletes the request's own lock row only.
Unlock(q) == holder' = IF holder = q THEN Nobody ELSE holder

\* The request ends, and with it what it keeps in memory.
Forget(q) ==
  /\ files' = [files EXCEPT ![q] = <<>>] /\ done' = [done EXCEPT ![q] = 0]
  /\ view' = [view EXCEPT ![q] = {}] /\ refused' = [refused EXCEPT ![q] = FALSE]
  /\ part' = [part EXCEPT ![q] = 1]
  /\ plan' = [plan EXCEPT ![q] = {}] /\ left' = [left EXCEPT ![q] = {}]
  /\ failed' = [failed EXCEPT ![q] = FALSE] /\ misread' = [misread EXCEPT ![q] = FALSE]

End(q) == Goto(q, "idle") /\ Unlock(q) /\ Forget(q)

\* An exception or a crash: a lease that is left behind expires.
Fail(q) ==
  /\ pc[q] \notin {"idle", "removed"} /\ failures < MaxFailures
  /\ failures' = failures + 1
  /\ End(q)
  /\ UNCHANGED <<rows, removing, history>>

\* The request goes on, but another may have the lock.
LeaseEnds(q) ==
  /\ holder = q /\ failures < MaxFailures
  /\ failures' = failures + 1
  /\ holder' = Nobody /\ overrun' = TRUE
  /\ UNCHANGED <<rows, removing, pc, uploading, deleting, posted, skipped>>

-----------------------------------------------------------------------------
(* Uploads.                                                                *)

BeginUpload(q) ==
  /\ pc[q] = "idle" /\ holder = Nobody /\ ~removing
  /\ \E u \in Uploads : files' = [files EXCEPT ![q] = u]
  /\ holder' = q
  /\ Goto(q, "read")
  /\ UNCHANGED <<rows, removing, done, view, refused, part, deleting, failures, history>>

\* The first getAttachmentCount; the attachments are then kept in memory.
ReadRecords(q) ==
  /\ pc[q] = "read" /\ InOrder(records)
  /\ view' = [view EXCEPT ![q] = records]
  /\ Goto(q, "scan")
  /\ UNCHANGED <<rows, removing, holder, files, done, refused, part, deleting, failures, history>>

ReadThrows(q) ==
  /\ pc[q] = "read" /\ ~InOrder(records)
  /\ End(q)
  /\ UNCHANGED <<rows, removing, failures, history>>

Current(q) == files[q][done[q] + 1]
Same(q) == {r \in view[q] : r.path = Current(q).path}

\* Fault: only the last file of a request decides on its answer.
RefusedNow(q) == \E r \in Same(q) : r.hash # Current(q).content

\* Fault: a file that is there is an error, whatever its content.
RefusedIfThere(q) == Same(q) # {}

\* A file that is there and differs is an error, and the next one is looked at.
Refused(q) == refused[q] \/ \E r \in Same(q) : r.hash # Current(q).content

SkipFile(q) ==
  /\ pc[q] = "scan" /\ done[q] < Len(files[q]) /\ Same(q) # {}
  /\ refused' = [refused EXCEPT ![q] = Refused(q)]
  /\ done' = [done EXCEPT ![q] = @ + 1]
  /\ UNCHANGED <<rows, removing, holder, pc, files, view, part, deleting, failures, history>>

NewRecord(q) ==
  [uri |-> made + 1, ord |-> Cardinality(view[q]) + 1, path |-> Current(q).path, hash |-> Null]

\* Fault: one part too many.
AfterPartTooFar(q, p) == IF p - 1 \in 0 .. Parts[Current(q).content] THEN "blob" ELSE "hash"

\* Is there a part p to be written?
AfterPart(q, p) == IF p \in 1 .. Parts[Current(q).content] THEN "blob" ELSE "hash"

\* Steps 0 and 1.  A new record has no parts, so that step 2 deletes nothing.
PutRecord(q) ==
  /\ pc[q] = "scan" /\ done[q] < Len(files[q]) /\ Same(q) = {} /\ made < MaxRecords
  /\ made' = made + 1
  /\ records' = records \cup {NewRecord(q)}
  /\ view' = [view EXCEPT ![q] = @ \cup {NewRecord(q)}]
  /\ part' = [part EXCEPT ![q] = 1]
  /\ Goto(q, AfterPart(q, 1))
  /\ UNCHANGED <<refs, blobs, removing, holder, files, done, refused, deleting, failures, history>>

Mine(q) == CHOOSE r \in view[q] : r.path = Current(q).path

\* Step 3: first the blob, then its reference.
PutBlob(q) ==
  /\ pc[q] = "blob"
  /\ blobs' = blobs \cup {[uri |-> Mine(q).uri, part |-> part[q], content |-> Current(q).content]}
  /\ Goto(q, "ref")
  /\ UNCHANGED <<records, refs, made, removing, holder, uploading, deleting, failures, history>>

PutRef(q) ==
  /\ pc[q] = "ref"
  /\ refs' = refs \cup {[uri |-> Mine(q).uri, part |-> part[q]]}
  /\ Goto(q, AfterPart(q, part[q] + 1))
  /\ part' = [part EXCEPT ![q] = IF AfterPart(q, @ + 1) = "blob" THEN @ + 1 ELSE 1]
  /\ UNCHANGED <<records, blobs, made, removing, holder, files, done, view, refused,
                 deleting, failures, history>>

Hashed(q, rs) ==
  {IF r.uri = Mine(q).uri THEN [r EXCEPT !.hash = Current(q).content] ELSE r : r \in rs}

\* Step 4; an UPDATE, of no row if the record was removed.
PutHash(q) ==
  /\ pc[q] = "hash"
  /\ records' = Hashed(q, records)
  /\ view' = [view EXCEPT ![q] = Hashed(q, @)]
  /\ done' = [done EXCEPT ![q] = @ + 1]
  /\ Goto(q, "scan")
  /\ UNCHANGED <<refs, blobs, made, removing, holder, files, refused, part, deleting, failures, history>>

Answer(q) ==
  /\ pc[q] = "scan" /\ done[q] = Len(files[q])
  /\ posted' = IF refused[q] THEN posted ELSE posted \cup ToSet(files[q])
  /\ End(q)
  /\ UNCHANGED <<rows, removing, failures, overrun, skipped>>

-----------------------------------------------------------------------------
(* Removals.                                                               *)

BeginRemoval(q) ==
  /\ pc[q] = "idle" /\ holder = Nobody /\ (removing \/ records # {})
  /\ holder' = q /\ removing' = TRUE
  /\ Goto(q, "collect")
  /\ UNCHANGED <<rows, uploading, deleting, failures, history>>

\* The attachments in the order of their ordinals, and where each then is.
Places ==
  {nth \in [records -> 1 .. Cardinality(records)] :
     \A r, s \in records : (r # s => nth[r] # nth[s]) /\ (r.ord < s.ord => nth[r] < nth[s])}

RowKey(n, table, uri, p) == [nth |-> n, table |-> table, uri |-> uri, part |-> p]

\* Blob and reference of each part; the parts of an incomplete file are not
\* looked for.
PartKeys(r, n) ==
  IF r.hash = Null THEN {}
  ELSE {RowKey(n, table, r.uri, p) : table \in {"blob", "ref"}, p \in PartsOf(r)}

Keys(nth) ==
  UNION {PartKeys(r, nth[r]) \cup {RowKey(nth[r], "record", r.uri, 0)} : r \in records}

\* The order in which they are retrieved: of each part the blob and the
\* reference, then the record.
Precedes(k, l) ==
  \/ k.nth < l.nth
  \/ k.nth = l.nth /\ k.table # "record" /\ l.table = "record"
  \/ /\ k.nth = l.nth /\ "record" \notin {k.table, l.table}
     /\ k.part < l.part \/ (k.part = l.part /\ k.table = "blob" /\ l.table = "ref")

\* Fault: the rows are deleted in the order in which they are retrieved.
DeletionForward(keys) == {k \in keys : \A l \in keys : ~Precedes(l, k)}

\* deleteEntities reverses the list: of these keys, the one to be deleted next.
Deletion(keys) == {k \in keys : \A l \in keys : ~Precedes(k, l)}

Collect(q) ==
  /\ pc[q] = "collect"
  /\ \A r \in records : r.hash # Null => Readable(r)
  /\ \E nth \in Places :
       /\ plan' = [plan EXCEPT ![q] = Keys(nth)]
       /\ left' = [left EXCEPT ![q] = Keys(nth)]
  /\ Goto(q, IF records = {} THEN "removed" ELSE "delete")
  /\ UNCHANGED <<rows, removing, holder, uploading, failed, misread, failures, history>>

CollectThrows(q) ==
  /\ pc[q] = "collect"
  /\ \E r \in records : r.hash # Null /\ ~Readable(r)
  /\ End(q)
  /\ UNCHANGED <<rows, removing, failures, history>>

Present(key) ==
  \/ key.table = "record" /\ \E r \in records : r.uri = key.uri
  \/ key.table = "ref" /\ \E r \in refs : r.uri = key.uri /\ r.part = key.part
  \/ key.table = "blob" /\ \E b \in blobs : b.uri = key.uri /\ b.part = key.part

Delete(key) ==
  /\ records' = IF key.table = "record" THEN {r \in records : r.uri # key.uri} ELSE records
  /\ refs' = IF key.table = "ref"
             THEN {r \in refs : r.uri # key.uri \/ r.part # key.part} ELSE refs
  /\ blobs' = IF key.table = "blob"
              THEN {b \in blobs : b.uri # key.uri \/ b.part # key.part} ELSE blobs
  /\ made' = made

\* Fault: the first exception is not remembered.
AfterLastForgetful(q, ok) == "removed"

\* Datastore.deleteEntities goes through the list, and then throws if a delete
\* failed; the rows are then deleted again, one by one.
AfterLast(q, ok) == IF pc[q] = "delete" /\ ~ok THEN "retry" ELSE "removed"

Advance(q, key, ok) ==
  IF left[q] # {key}
  THEN left' = [left EXCEPT ![q] = @ \ {key}] /\ UNCHANGED pc
  ELSE left' = [left EXCEPT ![q] = plan[q]] /\ Goto(q, AfterLast(q, ok))

DeleteNext(q) ==
  /\ pc[q] \in {"delete", "retry"}
  /\ \E key \in Deletion(left[q]) : Delete(key) /\ Advance(q, key, ~failed[q])
  /\ UNCHANGED <<removing, holder, uploading, plan, failed, misread, failures, history>>

\* A delete that fails does not keep the others from being tried.
SkipDelete(q) ==
  /\ pc[q] = "delete" /\ failures < MaxFailures
  /\ failures' = failures + 1
  /\ failed' = [failed EXCEPT ![q] = TRUE] /\ skipped' = TRUE
  /\ \E key \in Deletion(left[q]) : Advance(q, key, FALSE)
  /\ UNCHANGED <<rows, removing, holder, uploading, plan, misread, posted, overrun>>

\* getEntity takes a read that fails for a row that does not exist.
Misread(q) ==
  /\ pc[q] = "retry" /\ failures < MaxFailures
  /\ failures' = failures + 1
  /\ misread' = [misread EXCEPT ![q] = TRUE]
  /\ \E key \in Deletion(left[q]) : Advance(q, key, FALSE)
  /\ UNCHANGED <<rows, removing, holder, uploading, plan, failed, history>>

\* The caller forgets the set: what is left of it is found by nobody, and the
\* next set has a URI of its own.
EndRemoval(q) ==
  /\ pc[q] = "removed"
  /\ records' = {} /\ posted' = {} /\ removing' = FALSE /\ skipped' = FALSE
  /\ End(q)
  /\ UNCHANGED <<refs, blobs, made, failures, overrun>>

Upload(q) ==
  \/ BeginUpload(q) \/ ReadRecords(q) \/ ReadThrows(q) \/ SkipFile(q) \/ PutRecord(q)
  \/ PutBlob(q) \/ PutRef(q) \/ PutHash(q) \/ Answer(q)
Removal(q) ==
  \/ BeginRemoval(q) \/ Collect(q) \/ CollectThrows(q) \/ DeleteNext(q) \/ SkipDelete(q)
  \/ Misread(q) \/ EndRemoval(q)

Next == \E q \in Request : Upload(q) \/ Removal(q) \/ Fail(q) \/ LeaseEnds(q)

Spec == Init /\ [][Next]_vars

-----------------------------------------------------------------------------
(* Properties.                                                             *)

(* A record that has a hash has all the content of that hash, whatever        *)
(* crashes and whatever request outlives its lease.  So it is in the middle   *)
(* of a removal: DeleteHelper.java, "This ensures that we are able to         *)
(* recreate the deletion action".  Only a removal that goes on after a failed *)
(* delete breaks this.                                                        *)
StoredIsWhole ==
  \A r \in records : r.hash # Null /\ ~skipped =>
    /\ PartsOf(r) = 1 .. Parts[r.hash]
    /\ {[part |-> b.part, content |-> b.content] : b \in BlobsOf(r)}
         = {[part |-> p, content |-> r.hash] : p \in 1 .. Parts[r.hash]}

(* updateAttachments never finds a missing attachment or an extra copy, and   *)
(* the files of an upload that was answered with success can be fetched with  *)
(* the content that was sent, until the set is removed.                       *)
PostedIsServed ==
  ~overrun =>
    /\ ~skipped => InOrder(records)
    /\ ~removing => \A f \in posted : Fetch(f.path) = f.content

(* A removal that reports success has deleted all it was to delete, even if   *)
(* deletes failed on the way, unless a read failed.                           *)
RemovedMeansGone ==
  \A q \in Request : pc[q] = "removed" /\ ~misread[q] /\ ~overrun =>
    records = {} /\ \A key \in plan[q] : ~Present(key)

(* An upload that was answered with success can be repeated, by a client that *)
(* did not get the answer: what is there does not differ, whatever other      *)
(* uploads and removals have stopped or succeeded since.                      *)
RepeatsSucceed ==
  ~overrun =>
    \A q \in Request : refused[q] => \E i \in 1 .. done[q] : files[q][i] \notin posted

(* InstanceFileManager.java:68, "File on server does not match file being     *)
(* uploaded": an upload is refused because the server has another content.    *)
(* It is not so: a record that a stopped upload left has no hash.             *)
RefusedMeansDifferent ==
  \A q \in Request : refused[q] =>
    \E f \in ToSet(files[q]), r \in records :
      r.path = f.path /\ r.hash \in Content \ {f.content}
=============================================================================
