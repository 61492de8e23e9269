--------------------------- MODULE BlobStoreProofs ---------------------------
(***************************************************************************)
(* For any requests, paths, contents and uploads, with failures, crashes   *)
(* and requests that outlive their leases: the types, that what has a hash *)
(* is whole, that what was answered with success is served, and that a     *)
(* removal that reports success has removed everything.                    *)
(***************************************************************************)
EXTENDS BlobStore, FiniteSetTheorems, TLAPS

Writing(q) == pc[q] \in {"blob", "ref", "hash"}

\* What a request has in memory fits the place it is at.
Place(q) ==
  /\ pc[q] \in {"idle", "read"} => done[q] = 0
  /\ Writing(q) => done[q] < Len(files[q]) /\ Same(q) # {}
  /\ pc[q] \in {"delete", "retry"} => left[q] # {}
  /\ pc[q] \notin {"delete", "retry", "removed"} => plan[q] = {}

Typed ==
  /\ TypeOK
  /\ IsFiniteSet(records) /\ \A q \in Request : IsFiniteSet(view[q])
  /\ \A q \in Request : Place(q)

-----------------------------------------------------------------------------
(* What the operators of the model return.                                 *)

LEMMA FilesType ==
  ASSUME TypeOK, NEW q \in Request
  PROVE  files[q] \in Seq(File)
<1>1. files[q] \in Uploads \/ files[q] = <<>>
  BY DEF TypeOK
<1>2. Uploads \subseteq Seq(File) /\ <<>> \in Seq(File)
  BY BlobAssumption
<1> QED
  BY <1>1, <1>2

LEMMA CurrentType ==
  ASSUME TypeOK, NEW q \in Request, done[q] < Len(files[q])
  PROVE  /\ Current(q) \in File
         /\ Current(q).path \in Path /\ Current(q).content \in Content
         /\ Parts[Current(q).content] \in Nat
<1>1. files[q] \in Seq(File)
  BY FilesType
<1>2. done[q] + 1 \in 1 .. Len(files[q])
  BY <1>1 DEF TypeOK
<1>3. Current(q) \in File
  BY <1>1, <1>2 DEF Current
<1> QED
  BY <1>3, BlobAssumption DEF File

LEMMA MineIsSame ==
  ASSUME NEW q \in Request, Same(q) # {}
  PROVE  Mine(q) \in view[q] /\ Mine(q).path = Current(q).path
<1>1. \E r \in view[q] : r.path = Current(q).path
  BY DEF Same
<1> QED
  BY <1>1 DEF Mine

\* Is there another part, it is one a file can have.
LEMMA AfterPartType ==
  ASSUME TypeOK, NEW q \in Request, done[q] < Len(files[q]), NEW p \in Nat
  PROVE  /\ AfterPart(q, p) \in {"blob", "hash"}
         /\ AfterPart(q, p) = "blob" => p \in PartNr
<1>1. Current(q).content \in Content
  BY CurrentType
<1> QED
  BY <1>1 DEF AfterPart, PartNr

LEMMA PartNrType == PartNr \subseteq Nat \ {0}
<1>1. \A c \in Content : 1 .. Parts[c] \subseteq Nat \ {0}
  BY BlobAssumption
<1> QED
  BY <1>1 DEF PartNr

\* Setting the hash of one record leaves the others, and their number.
LEMMA HashedKeeps ==
  ASSUME NEW q, NEW rs, IsFiniteSet(rs),
         \A r, s \in rs : r.uri = s.uri => r = s,
         \A r \in rs : DOMAIN r = {"uri", "ord", "path", "hash"}
  PROVE  IsFiniteSet(Hashed(q, rs)) /\ Cardinality(Hashed(q, rs)) = Cardinality(rs)
<1> DEFINE f == [r \in rs |-> IF r.uri = Mine(q).uri
                              THEN [r EXCEPT !.hash = Current(q).content] ELSE r]
<1>1. \A r \in rs : f[r].uri = r.uri
  OBVIOUS
<1>2. \A r \in rs : f[r] \in Hashed(q, rs)
  BY DEF Hashed
<1>3. \A t \in Hashed(q, rs) : \E r \in rs : f[r] = t
  BY DEF Hashed
<1>4. f \in Surjection(rs, Hashed(q, rs))
  BY <1>2, <1>3 DEF Surjection
<1>5. \A r, t \in rs : f[r] = f[t] => r = t
  <2> SUFFICES ASSUME NEW r \in rs, NEW t \in rs, f[r] = f[t] PROVE r = t
    OBVIOUS
  <2>1. r.uri = t.uri
    BY <1>1
  <2> QED
    BY <2>1
<1>6. f \in [rs -> Hashed(q, rs)]
  BY <1>2
<1>7. f \in Injection(rs, Hashed(q, rs))
  BY <1>5, <1>6 DEF Injection, IsInjective
<1> QED
  BY <1>4, <1>7, FS_Surjection

LEMMA HashedType ==
  ASSUME NEW q, Current(q).content \in Content, NEW rs \in SUBSET Record
  PROVE  Hashed(q, rs) \in SUBSET Record
  BY DEF Hashed, Record

LEMMA HashedFinite ==
  ASSUME NEW q, NEW rs, IsFiniteSet(rs)
  PROVE  IsFiniteSet(Hashed(q, rs))
<1> DEFINE f == [r \in rs |-> IF r.uri = Mine(q).uri
                              THEN [r EXCEPT !.hash = Current(q).content] ELSE r]
<1>1. f \in Surjection(rs, Hashed(q, rs))
  BY DEF Hashed, Surjection
<1> QED
  BY <1>1, FS_Surjection

LEMMA KeysType ==
  ASSUME TypeOK, IsFiniteSet(records), NEW nth \in Places
  PROVE  Keys(nth) \in SUBSET Key
<1>1. Cardinality(records) \in Nat
  BY FS_CardinalityType
<1>2. \A r \in records : nth[r] \in Nat \ {0} /\ r.uri \in Uri
  BY <1>1 DEF Places, TypeOK, Record
<1>3. \A r \in records : PartsOf(r) \subseteq PartNr
  BY DEF PartsOf, TypeOK, Ref
<1>4. \A r \in records : PartKeys(r, nth[r]) \subseteq Key
  BY <1>2, <1>3 DEF PartKeys, RowKey, Key
<1>5. \A r \in records : RowKey(nth[r], "record", r.uri, 0) \in Key
  BY <1>2 DEF RowKey, Key
<1> QED
  BY <1>4, <1>5 DEF Keys

LEMMA DeleteShrinks ==
  ASSUME NEW key, Delete(key)
  PROVE  records' \subseteq records /\ refs' \subseteq refs /\ blobs' \subseteq blobs /\ made' = made
  BY DEF Delete

-----------------------------------------------------------------------------
(* Types.                                                                    *)

\* One request's steps.
Step(q) == Upload(q) \/ Removal(q) \/ Fail(q) \/ LeaseEnds(q)

\* What a step of one request leaves to another one.
Untouched(q) ==
  /\ pc'[q] = pc[q]
  /\ files'[q] = files[q] /\ done'[q] = done[q] /\ view'[q] = view[q]
  /\ refused'[q] = refused[q] /\ part'[q] = part[q]
  /\ plan'[q] = plan[q] /\ left'[q] = left[q]
  /\ failed'[q] = failed[q] /\ misread'[q] = misread[q]

LEMMA OthersUntouched ==
  ASSUME TypeOK, NEW p \in Request, Step(p), NEW q \in Request, q # p
  PROVE  Untouched(q)
<1> USE DEF TypeOK, Untouched, Goto, End, Forget, uploading, deleting, history, rows
<1>1. CASE Fail(p) \/ LeaseEnds(p)
  BY <1>1 DEF Fail, LeaseEnds
<1>2. CASE BeginUpload(p) \/ ReadRecords(p) \/ ReadThrows(p) \/ SkipFile(p)
  BY <1>2 DEF BeginUpload, ReadRecords, ReadThrows, SkipFile
<1>3. CASE PutRecord(p) \/ PutBlob(p)
  BY <1>3 DEF PutRecord, PutBlob
<1>4. CASE PutRef(p) \/ PutHash(p) \/ Answer(p)
  BY <1>4 DEF PutRef, PutHash, Answer
<1>5. CASE BeginRemoval(p) \/ Collect(p) \/ CollectThrows(p) \/ EndRemoval(p)
  BY <1>5 DEF BeginRemoval, Collect, CollectThrows, EndRemoval
<1>6. CASE DeleteNext(p)
  BY <1>6 DEF DeleteNext, Advance
<1>7. CASE SkipDelete(p)
  BY <1>7 DEF SkipDelete, Advance
<1>8. CASE Misread(p)
  BY <1>8 DEF Misread, Advance
<1> QED
  BY <1>1, <1>2, <1>3, <1>4, <1>5, <1>6, <1>7, <1>8 DEF Step, Upload, Removal

\* An untouched request keeps its place.
LEMMA PlaceKept ==
  ASSUME NEW q \in Request, Place(q), Untouched(q)
  PROVE  Place(q)'
  BY DEF Place, Untouched, Writing, Same, Current

\* A pass over the rows to be deleted moves on, or ends.
LEMMA AdvanceType ==
  ASSUME TypeOK, NEW q \in Request, NEW key \in left[q], NEW ok, Advance(q, key, ok)
  PROVE  /\ pc' \in [Request -> Stage]
         /\ left' \in [Request -> SUBSET Key] /\ left'[q] \subseteq plan[q]
         /\ \A p \in Request \ {q} : left'[p] = left[p]
         /\ left'[q] # {}
         /\ pc'[q] \in {pc[q], "retry", "removed"}
<1>1. CASE left[q] # {key}
  <2>1. left' = [left EXCEPT ![q] = @ \ {key}] /\ pc' = pc
    BY <1>1 DEF Advance
  <2>2. left[q] \ {key} # {}
    BY <1>1
  <2> QED
    BY <2>1, <2>2 DEF TypeOK
<1>2. CASE left[q] = {key}
  <2>1. left' = [left EXCEPT ![q] = plan[q]] /\ plan[q] # {}
    BY <1>2 DEF Advance, TypeOK
  <2>2. AfterLast(q, ok) \in {"retry", "removed"}
    BY DEF AfterLast
  <2>3. pc' = [pc EXCEPT ![q] = AfterLast(q, ok)]
    BY <1>2 DEF Advance, Goto
  <2>4. pc' \in [Request -> Stage] /\ pc'[q] \in {"retry", "removed"}
    BY <2>2, <2>3 DEF TypeOK, Stage
  <2> QED
    BY <2>1, <2>4 DEF TypeOK
<1> QED
  BY <1>1, <1>2

LEMMA DeletionType ==
  ASSUME NEW q, NEW key \in Deletion(left[q])
  PROVE  key \in left[q]
  BY DEF Deletion

LEMMA EndType ==
  ASSUME TypeOK, NEW q \in Request, End(q)
  PROVE  /\ holder' \in Request \cup {Nobody}
         /\ pc' \in [Request -> Stage]
         /\ files' \in [Request -> Uploads \cup {<<>>}]
         /\ done' \in [Request -> Nat] /\ \A p \in Request : done'[p] <= Len(files'[p])
         /\ view' \in [Request -> SUBSET Record]
         /\ refused' \in [Request -> BOOLEAN]
         /\ part' \in [Request -> PartNr]
         /\ plan' \in [Request -> SUBSET Key]
         /\ left' \in [Request -> SUBSET Key] /\ \A p \in Request : left'[p] \subseteq plan'[p]
         /\ failed' \in [Request -> BOOLEAN] /\ misread' \in [Request -> BOOLEAN]
         /\ pc'[q] = "idle" /\ done'[q] = 0 /\ view'[q] = {} /\ plan'[q] = {} /\ left'[q] = {}
<1> USE DEF End, Forget, Goto, Unlock, TypeOK
<1>1. pc' \in [Request -> Stage] /\ holder' \in Request \cup {Nobody}
  BY DEF Stage
<1>2. done' \in [Request -> Nat] /\ \A p \in Request : done'[p] <= Len(files'[p])
  OBVIOUS
<1>3. part' \in [Request -> PartNr]
  BY DEF PartNr
<1> QED
  BY <1>1, <1>2, <1>3

LEMMA InitTyped == Init => Typed
<1> SUFFICES ASSUME Init PROVE Typed
  OBVIOUS
<1> USE DEF Init
<1>a. records \subseteq Record /\ refs \subseteq Ref /\ blobs \subseteq Blob
  OBVIOUS
<1>b. made \in 0 .. MaxRecords /\ failures \in 0 .. MaxFailures
  BY BlobAssumption
<1>c. /\ pc \in [Request -> Stage] /\ part \in [Request -> PartNr]
      /\ files \in [Request -> Uploads \cup {<<>>}]
      /\ \A q \in Request : done[q] <= Len(files[q])
  BY DEF Stage, PartNr
<1>1. TypeOK
  BY <1>a, <1>b, <1>c DEF TypeOK
<1> QED
  BY <1>1, FS_EmptySet DEF Init, Typed, Place, Writing

LEMMA TypedStep == Typed /\ [Next]_vars => Typed'
<1> SUFFICES ASSUME Typed, [Next]_vars PROVE Typed'
  OBVIOUS
<1> USE BlobAssumption
<1>0. TypeOK /\ IsFiniteSet(records) /\ \A q \in Request : IsFiniteSet(view[q]) /\ Place(q)
  BY DEF Typed
<1>1. ASSUME NEW q \in Request, Step(q), TypeOK', IsFiniteSet(records'),
             IsFiniteSet(view'[q]), Place(q)'
      PROVE  Typed'
  <2>1. \A p \in Request : IsFiniteSet(view'[p]) /\ Place(p)'
    BY <1>0, <1>1, OthersUntouched, PlaceKept DEF Untouched
  <2> QED
    BY <1>1, <2>1 DEF Typed
<1>2. ASSUME NEW q \in Request, End(q), Step(q), IsFiniteSet(records'), records' \subseteq Record,
             UNCHANGED <<refs, blobs, made, overrun>>, removing' \in BOOLEAN,
             failures' \in 0 .. MaxFailures, posted' \subseteq File, skipped' \in BOOLEAN
      PROVE  Typed'
  <2>1. TypeOK'
    BY <1>0, <1>2, EndType DEF TypeOK
  <2>2. IsFiniteSet(view'[q]) /\ Place(q)'
    BY <1>0, <1>2, EndType, FS_EmptySet DEF Place, Writing
  <2> QED
    BY <1>1, <1>2, <2>1, <2>2
<1>3. ASSUME NEW q \in Request, Fail(q) PROVE Typed'
  <2>1. /\ End(q) /\ UNCHANGED <<records, refs, blobs, made, removing, posted, overrun, skipped>>
        /\ failures' \in 0 .. MaxFailures
    BY <1>0, <1>3 DEF Fail, rows, history, TypeOK
  <2>2. records' \subseteq Record /\ removing' \in BOOLEAN /\ posted' \subseteq File /\ skipped' \in BOOLEAN
    BY <1>0, <2>1 DEF TypeOK
  <2> QED
    BY <1>0, <1>2, <1>3, <2>1, <2>2 DEF Step
<1>4. ASSUME NEW q \in Request, LeaseEnds(q) PROVE Typed'
  <2>1. TypeOK'
    BY <1>0, <1>4 DEF LeaseEnds, rows, uploading, deleting, TypeOK
  <2> QED
    BY <1>0, <1>1, <1>4, <2>1
    DEF Step, LeaseEnds, rows, uploading, deleting, Place, Writing, Same, Current
<1>5. ASSUME NEW q \in Request, BeginUpload(q) PROVE Typed'
  <2>1. TypeOK'
    <3>1. done[q] = 0 /\ Uploads \subseteq Seq(File)
      BY <1>0, <1>5 DEF BeginUpload, Place
    <3>2. /\ files' \in [Request -> Uploads \cup {<<>>}]
          /\ \A p \in Request : done'[p] <= Len(files'[p])
      BY <1>0, <1>5, <3>1 DEF BeginUpload, TypeOK
    <3> QED
      BY <1>0, <1>5, <3>2 DEF BeginUpload, rows, deleting, history, TypeOK, Goto, Stage
  <2> QED
    BY <1>0, <1>1, <1>5, <2>1 DEF Step, Upload, BeginUpload, rows, deleting, Place, Writing, Goto, TypeOK
<1>6. ASSUME NEW q \in Request, ReadRecords(q) PROVE Typed'
  <2>1. TypeOK'
    BY <1>0, <1>6 DEF ReadRecords, rows, deleting, history, TypeOK, Goto, Stage
  <2> QED
    BY <1>0, <1>1, <1>6, <2>1 DEF Step, Upload, ReadRecords, rows, deleting, Place, Writing, Goto, TypeOK
<1>7. ASSUME NEW q \in Request, ReadThrows(q) PROVE Typed'
  BY <1>0, <1>2, <1>7 DEF Step, Upload, ReadThrows, rows, history, TypeOK
<1>8. ASSUME NEW q \in Request, SkipFile(q) PROVE Typed'
  <2>0. Refused(q) \in BOOLEAN
    BY <1>0 DEF Refused, TypeOK
  <2>1. TypeOK'
    BY <1>0, <1>8, <2>0 DEF SkipFile, rows, deleting, history, TypeOK
  <2> QED
    BY <1>0, <1>1, <1>8, <2>1 DEF Step, Upload, SkipFile, rows, deleting, Place, Writing, TypeOK
<1>9. ASSUME NEW q \in Request, PutRecord(q) PROVE Typed'
  <2>0. /\ Current(q).path \in Path /\ AfterPart(q, 1) \in {"blob", "hash"}
        /\ done[q] < Len(files[q])
    BY <1>0, <1>9, CurrentType, AfterPartType DEF PutRecord
  <2>1. NewRecord(q) \in Record
    <3>1. Cardinality(view[q]) \in Nat
      BY <1>0, FS_CardinalityType
    <3>2. made + 1 \in Uri
      BY <1>0, <1>9 DEF PutRecord, TypeOK, Uri
    <3> QED
      BY <2>0, <3>1, <3>2 DEF NewRecord, Record
  <2>2. TypeOK'
    <3>1. records' \subseteq Record /\ view' \in [Request -> SUBSET Record]
      BY <1>0, <1>9, <2>1 DEF PutRecord, TypeOK
    <3>2. made' \in 0 .. MaxRecords /\ part' \in [Request -> PartNr] /\ pc' \in [Request -> Stage]
      BY <1>0, <1>9, <2>0 DEF PutRecord, TypeOK, Goto, Stage, PartNr
    <3> QED
      BY <1>0, <1>9, <3>1, <3>2 DEF PutRecord, deleting, history, TypeOK
  <2>3. IsFiniteSet(records') /\ IsFiniteSet(view'[q])
    BY <1>0, <1>9, FS_AddElement DEF PutRecord, TypeOK
  <2>4. Same(q)' # {}
    <3>1. NewRecord(q) \in view'[q] /\ NewRecord(q).path = Current(q).path /\ Current(q)' = Current(q)
      BY <1>0, <1>9 DEF PutRecord, TypeOK, NewRecord, Current
    <3> QED
      BY <3>1 DEF Same
  <2>5. Place(q)'
    BY <1>0, <1>9, <2>0, <2>4 DEF PutRecord, deleting, Place, Writing, Goto, TypeOK
  <2> QED
    BY <1>1, <1>9, <2>2, <2>3, <2>5 DEF Step, Upload
<1>10. ASSUME NEW q \in Request, PutBlob(q) PROVE Typed'
  <2>1. Mine(q) \in Record /\ Current(q).content \in Content
    BY <1>0, <1>10, MineIsSame, CurrentType DEF PutBlob, Place, Writing, TypeOK
  <2>2. [uri |-> Mine(q).uri, part |-> part[q], content |-> Current(q).content] \in Blob
    BY <1>0, <2>1 DEF Record, Blob, TypeOK
  <2>3. TypeOK'
    BY <1>0, <1>10, <2>2 DEF PutBlob, uploading, deleting, history, Goto, Stage, TypeOK
  <2>4. Place(q)'
    <3>1. /\ pc'[q] = "ref" /\ Current(q)' = Current(q) /\ Same(q)' = Same(q)
          /\ UNCHANGED <<files, done, view, plan, left>>
      BY <1>0, <1>10 DEF PutBlob, uploading, deleting, Same, Current, Goto, TypeOK
    <3>2. Place(q) /\ pc[q] = "blob"
      BY <1>0, <1>10 DEF PutBlob
    <3> QED
      BY <3>1, <3>2 DEF Place, Writing
  <2>5. UNCHANGED <<records, view>>
    BY <1>10 DEF PutBlob, uploading
  <2> QED
    BY <1>0, <1>1, <1>10, <2>3, <2>4, <2>5 DEF Step, Upload
<1>11. ASSUME NEW q \in Request, PutRef(q) PROVE Typed'
  <2>a. done[q] < Len(files[q]) /\ Same(q) # {}
    BY <1>0, <1>11 DEF PutRef, Place, Writing
  <2>b. part[q] \in PartNr
    BY <1>0 DEF TypeOK
  <2>0. done[q] < Len(files[q]) /\ Same(q) # {} /\ part[q] + 1 \in Nat
    <3>0. part[q] \in Nat
      BY <2>b, PartNrType, Zenon
    <3>1. part[q] + 1 \in Nat
      BY ONLY <3>0
    <3> QED
      BY <2>a, <3>1
  <2>1. Mine(q) \in Record
    BY <1>0, <2>0, MineIsSame DEF TypeOK
  <2>2. [uri |-> Mine(q).uri, part |-> part[q]] \in Ref
    BY <1>0, <2>1 DEF Record, Ref, TypeOK
  <2>3. /\ AfterPart(q, part[q] + 1) \in {"blob", "hash"}
        /\ AfterPart(q, part[q] + 1) = "blob" => part[q] + 1 \in PartNr
    BY <1>0, <2>0, AfterPartType
  <2>4. pc' \in [Request -> Stage] /\ part' \in [Request -> PartNr] /\ pc'[q] \in {"blob", "hash"}
    BY <1>0, <1>11, <2>3 DEF PutRef, Goto, Stage, PartNr, TypeOK
  <2>5. TypeOK'
    BY <1>0, <1>11, <2>2, <2>4 DEF PutRef, deleting, history, TypeOK
  <2>6. Place(q)'
    <3>1. /\ Current(q)' = Current(q) /\ Same(q)' = Same(q)
          /\ UNCHANGED <<files, done, view, plan, left>>
      BY <1>11 DEF PutRef, deleting, Same, Current
    <3>2. Place(q) /\ pc[q] = "ref"
      BY <1>0, <1>11 DEF PutRef
    <3> QED
      BY <2>0, <2>4, <3>1, <3>2 DEF Place, Writing
  <2>7. UNCHANGED <<records, view>>
    BY <1>11 DEF PutRef
  <2> QED
    BY <1>0, <1>1, <1>11, <2>5, <2>6, <2>7 DEF Step, Upload
<1>12. ASSUME NEW q \in Request, PutHash(q) PROVE Typed'
  <2>0. done[q] < Len(files[q]) /\ Current(q).content \in Content
    BY <1>0, <1>12, CurrentType DEF PutHash, Place, Writing
  <2>1. /\ records' \subseteq Record /\ IsFiniteSet(records')
        /\ view' \in [Request -> SUBSET Record] /\ IsFiniteSet(view'[q])
    BY <1>0, <1>12, <2>0, HashedType, HashedFinite DEF PutHash, TypeOK
  <2>2. done' \in [Request -> Nat] /\ \A p \in Request : done'[p] <= Len(files'[p])
    BY <1>0, <1>12, <2>0 DEF PutHash, TypeOK
  <2>3. TypeOK'
    BY <1>0, <1>12, <2>1, <2>2 DEF PutHash, deleting, history, Goto, Stage, TypeOK
  <2> QED
    BY <1>0, <1>1, <1>12, <2>1, <2>3 DEF Step, Upload, PutHash, deleting, Place, Writing, Goto, TypeOK
<1>13. ASSUME NEW q \in Request, Answer(q) PROVE Typed'
  <2>1. posted' \subseteq File
    <3>1. files[q] \in Seq(File)
      BY <1>0, FilesType
    <3>2. ToSet(files[q]) \subseteq File
      BY <3>1 DEF ToSet
    <3> QED
      BY <1>0, <1>13, <3>2 DEF Answer, TypeOK
  <2>2. End(q) /\ UNCHANGED <<records, refs, blobs, made, removing, failures, overrun, skipped>>
    BY <1>13 DEF Answer, rows
  <2>3. records' \subseteq Record /\ removing' \in BOOLEAN /\ failures' \in 0 .. MaxFailures /\ skipped' \in BOOLEAN
    BY <1>0, <2>2 DEF TypeOK
  <2> QED
    BY <1>0, <1>2, <1>13, <2>1, <2>2, <2>3 DEF Step, Upload
<1>14. ASSUME NEW q \in Request, BeginRemoval(q) PROVE Typed'
  <2>1. TypeOK'
    BY <1>0, <1>14 DEF BeginRemoval, rows, uploading, deleting, history, TypeOK, Goto, Stage
  <2> QED
    BY <1>0, <1>1, <1>14, <2>1
    DEF Step, Removal, BeginRemoval, rows, uploading, deleting, Place, Writing, Goto, TypeOK
<1>15. ASSUME NEW q \in Request, Collect(q) PROVE Typed'
  <2>1. PICK nth \in Places : plan' = [plan EXCEPT ![q] = Keys(nth)] /\ left' = [left EXCEPT ![q] = Keys(nth)]
    BY <1>15 DEF Collect
  <2>2. Keys(nth) \in SUBSET Key
    BY <1>0, KeysType
  <2>3. records # {} => Keys(nth) # {}
    <3>1. \A r \in records : RowKey(nth[r], "record", r.uri, 0) \in Keys(nth)
      BY DEF Keys
    <3> QED
      BY <3>1
  <2>4. /\ plan' \in [Request -> SUBSET Key] /\ left' \in [Request -> SUBSET Key]
        /\ \A p \in Request : left'[p] \subseteq plan'[p]
    BY <1>0, <2>1, <2>2 DEF TypeOK
  <2>5. TypeOK'
    BY <1>0, <1>15, <2>4 DEF Collect, rows, uploading, history, TypeOK, Goto, Stage
  <2>6. pc'[q] = (IF records = {} THEN "removed" ELSE "delete") /\ left'[q] = Keys(nth)
    BY <1>0, <1>15, <2>1 DEF Collect, Goto, TypeOK
  <2> QED
    BY <1>0, <1>1, <1>15, <2>3, <2>5, <2>6
    DEF Step, Removal, Collect, rows, uploading, Place, Writing, TypeOK
<1>16. ASSUME NEW q \in Request, CollectThrows(q) PROVE Typed'
  <2>1. End(q) /\ UNCHANGED <<records, refs, blobs, made, removing, failures, posted, overrun, skipped>>
    BY <1>16 DEF CollectThrows, rows, history
  <2>2. /\ records' \subseteq Record /\ removing' \in BOOLEAN /\ failures' \in 0 .. MaxFailures
        /\ posted' \subseteq File /\ skipped' \in BOOLEAN
    BY <1>0, <2>1 DEF TypeOK
  <2> QED
    BY <1>0, <1>2, <1>16, <2>1, <2>2 DEF Step, Removal
<1>17. ASSUME NEW q \in Request, NEW key \in Deletion(left[q]), NEW ok, Advance(q, key, ok), Step(q),
              pc[q] \in {"delete", "retry"}, UNCHANGED <<removing, holder, uploading, plan, posted, overrun>>,
              records' \subseteq records, refs' \subseteq refs, blobs' \subseteq blobs, made' = made,
              failed' \in [Request -> BOOLEAN], misread' \in [Request -> BOOLEAN],
              failures' \in 0 .. MaxFailures, skipped' \in BOOLEAN
       PROVE  Typed'
  <2>1. /\ pc' \in [Request -> Stage]
        /\ left' \in [Request -> SUBSET Key] /\ left'[q] \subseteq plan[q]
        /\ \A p \in Request \ {q} : left'[p] = left[p]
        /\ left'[q] # {} /\ pc'[q] \in {"delete", "retry", "removed"}
    BY <1>0, <1>17, AdvanceType, DeletionType
  <2>2. \A p \in Request : left'[p] \subseteq plan'[p]
    BY <1>0, <1>17, <2>1 DEF TypeOK
  <2>3. TypeOK'
    BY <1>0, <1>17, <2>1, <2>2 DEF uploading, TypeOK
  <2>4. IsFiniteSet(records')
    BY <1>0, <1>17, FS_Subset
  <2> QED
    BY <1>0, <1>1, <1>17, <2>1, <2>3, <2>4 DEF uploading, Place, Writing
<1>18. ASSUME NEW q \in Request, DeleteNext(q) PROVE Typed'
  <2>1. PICK key \in Deletion(left[q]) : Delete(key) /\ Advance(q, key, ~failed[q])
    BY <1>18 DEF DeleteNext
  <2>2. /\ failed' \in [Request -> BOOLEAN] /\ misread' \in [Request -> BOOLEAN]
        /\ failures' \in 0 .. MaxFailures /\ skipped' \in BOOLEAN
    BY <1>0, <1>18 DEF DeleteNext, history, TypeOK
  <2> QED
    BY <1>17, <1>18, <2>1, <2>2, DeleteShrinks DEF DeleteNext, history, Step, Removal
<1>19. ASSUME NEW q \in Request, SkipDelete(q) PROVE Typed'
  <2>1. PICK key \in Deletion(left[q]) : Advance(q, key, FALSE)
    BY <1>19 DEF SkipDelete
  <2>2. /\ failed' \in [Request -> BOOLEAN] /\ misread' \in [Request -> BOOLEAN]
        /\ failures' \in 0 .. MaxFailures /\ skipped' \in BOOLEAN
    BY <1>0, <1>19 DEF SkipDelete, TypeOK
  <2> QED
    BY <1>17, <1>19, <2>1, <2>2 DEF SkipDelete, rows, Step, Removal
<1>20. ASSUME NEW q \in Request, Misread(q) PROVE Typed'
  <2>1. PICK key \in Deletion(left[q]) : Advance(q, key, FALSE)
    BY <1>20 DEF Misread
  <2>2. /\ failed' \in [Request -> BOOLEAN] /\ misread' \in [Request -> BOOLEAN]
        /\ failures' \in 0 .. MaxFailures /\ skipped' \in BOOLEAN
    BY <1>0, <1>20 DEF Misread, history, TypeOK
  <2> QED
    BY <1>17, <1>20, <2>1, <2>2 DEF Misread, rows, history, Step, Removal
<1>21. ASSUME NEW q \in Request, EndRemoval(q) PROVE Typed'
  BY <1>0, <1>2, <1>21, FS_EmptySet DEF EndRemoval, Step, Removal, TypeOK
<1>22. CASE UNCHANGED vars
  BY <1>0, <1>22 DEF vars, rows, uploading, deleting, history, Typed, TypeOK, Place, Writing, Same, Current
<1> QED
  BY <1>3, <1>4, <1>5, <1>6, <1>7, <1>8, <1>9, <1>10, <1>11, <1>12, <1>13, <1>14, <1>15, <1>16,
     <1>18, <1>19, <1>20, <1>21, <1>22
  DEF Next, Upload, Removal

(* Whatever fails, stops or outlives its lease: the tables and what the       *)
(* requests keep in memory have their types.                                  *)
THEOREM TypeCorrect == Spec => []TypeOK
<1>1. Typed => TypeOK
  BY DEF Typed
<1> QED
  BY <1>1, InitTyped, TypedStep, PTL DEF Spec

-----------------------------------------------------------------------------
(* What has a hash is whole.                                                 *)

\* The parts 1..n of file u are referenced, and 1..m stored with content c.
Stored(u, c, n, m) ==
  /\ \A f \in refs : f.uri = u => f.part \in 1 .. n
  /\ \A i \in 1 .. n : [uri |-> u, part |-> i] \in refs
  /\ \A b \in blobs : b.uri = u => b.part \in 1 .. m /\ b.content = c
  /\ \A i \in 1 .. m : [uri |-> u, part |-> i, content |-> c] \in blobs

\* A new record gets a URI that nothing has.
Fresh ==
  /\ \A r \in records : r.uri <= made
  /\ \A f \in refs : f.uri <= made
  /\ \A b \in blobs : b.uri <= made
  /\ \A q \in Request :
       (\A v \in view[q] : v.uri <= made) /\ (\A k \in plan[q] : k.uri <= made)
  /\ \A r, s \in records : r.uri = s.uri => r = s

\* The file that is being written has no hash, belongs to one request, and no
\* request is to delete its parts.
Writer(q) == Writing(q) =>
  /\ \A r \in records : r.uri = Mine(q).uri => r.hash = Null
  /\ \A p \in Request : \A k \in plan[p] : k.uri = Mine(q).uri => k.table = "record"
  /\ \A p \in Request : p # q /\ Writing(p) => Mine(p).uri # Mine(q).uri

\* How much of it is there.
RefsDone(q) == IF pc[q] = "hash" THEN Parts[Current(q).content] ELSE part[q] - 1
BlobsDone(q) ==
  CASE pc[q] = "blob" -> part[q] - 1
    [] pc[q] = "ref" -> part[q]
    [] OTHER -> Parts[Current(q).content]

Progress(q) == Writing(q) =>
  /\ pc[q] # "hash" => part[q] \in 1 .. Parts[Current(q).content]
  /\ Stored(Mine(q).uri, Current(q).content, RefsDone(q), BlobsDone(q))

\* What is to be deleted: a record that is still there is to be deleted before
\* its parts.
Planned(q) ==
  /\ \A k, l \in plan[q] : k.uri = l.uri => k.nth = l.nth
  /\ ~skipped => \A r \in records : (\E k \in plan[q] : k.uri = r.uri) =>
       pc[q] = "delete" /\ \E k \in left[q] : k.uri = r.uri /\ k.table = "record"

Whole == ~skipped =>
  \A r \in records : r.hash # Null => Stored(r.uri, r.hash, Parts[r.hash], Parts[r.hash])

StoreInv == Fresh /\ Whole /\ \A q \in Request : Writer(q) /\ Progress(q) /\ Planned(q)

\* The parts of one file.
Alike(u) ==
  /\ \A f : f.uri = u => (f \in refs' <=> f \in refs)
  /\ \A b : b.uri = u => (b \in blobs' <=> b \in blobs)

LEMMA StoredKept ==
  ASSUME NEW u, NEW c, NEW n, NEW m, Stored(u, c, n, m), Alike(u)
  PROVE  Stored(u, c, n, m)'
<1>1. \A f \in refs' : f.uri = u => f \in refs
  BY DEF Alike
<1>2. \A i \in 1 .. n : [uri |-> u, part |-> i] \in refs'
  BY DEF Alike, Stored
<1>3. \A b \in blobs' : b.uri = u => b \in blobs
  BY DEF Alike
<1>4. \A i \in 1 .. m : [uri |-> u, part |-> i, content |-> c] \in blobs'
  BY DEF Alike, Stored
<1> QED
  BY <1>1, <1>2, <1>3, <1>4 DEF Stored

LEMMA WriterKept ==
  ASSUME NEW q, Untouched(q)
  PROVE  /\ Mine(q)' = Mine(q) /\ Current(q)' = Current(q)
         /\ Writing(q)' <=> Writing(q)
  BY DEF Untouched, Mine, Current, Writing

LEMMA ProgressFrom ==
  ASSUME NEW q, NEW u, NEW c, NEW n, NEW m, Stored(u, c, n, m)',
         Mine(q)'.uri = u, Current(q)'.content = c, RefsDone(q)' = n, BlobsDone(q)' = m,
         pc'[q] # "hash" => part'[q] \in 1 .. Parts[c]
  PROVE  Progress(q)'
  BY DEF Progress, Stored

LEMMA ProgressKept ==
  ASSUME NEW q, Untouched(q), Progress(q), Writing(q) => Alike(Mine(q).uri)
  PROVE  Progress(q)'
<1>1. /\ Mine(q)' = Mine(q) /\ Current(q)' = Current(q)
      /\ pc'[q] = pc[q] /\ part'[q] = part[q]
  BY WriterKept DEF Untouched
<1>2. CASE ~Writing(q)
  BY <1>1, <1>2 DEF Progress, Writing
<1>3. CASE Writing(q)
  <2>1. PICK u, c, n, m :
          u = Mine(q).uri /\ c = Current(q).content /\ n = RefsDone(q) /\ m = BlobsDone(q)
    OBVIOUS
  <2>2. Stored(u, c, n, m) /\ Alike(u) /\ (pc[q] # "hash" => part[q] \in 1 .. Parts[c])
    BY <1>3, <2>1 DEF Progress
  <2>3. Stored(u, c, n, m)'
    BY <2>2, StoredKept
  <2>4. RefsDone(q)' = n /\ BlobsDone(q)' = m
    BY <1>1, <2>1 DEF RefsDone, BlobsDone
  <2> QED
    BY <1>1, <2>1, <2>2, <2>3, <2>4, ProgressFrom
<1> QED
  BY <1>2, <1>3

\* A step that leaves the rows of the tables alone, or forgets the set, and after
\* which its request neither writes nor has rows to delete.
LEMMA QuietStep ==
  ASSUME StoreInv, NEW q \in Request, \A p \in Request : p # q => Untouched(p),
         UNCHANGED <<refs, blobs, made>>,
         UNCHANGED <<records, skipped>> \/ records' = {},
         ~Writing(q)', plan'[q] = {}, \A v \in view'[q] : v.uri <= made
  PROVE  StoreInv'
<1>0. Fresh /\ Whole /\ \A p \in Request : Writer(p) /\ Progress(p) /\ Planned(p)
  BY DEF StoreInv
<1>1. \A p \in Request : p # q =>
        /\ plan'[p] = plan[p] /\ left'[p] = left[p] /\ view'[p] = view[p] /\ pc'[p] = pc[p]
        /\ Mine(p)' = Mine(p) /\ (Writing(p)' <=> Writing(p))
  BY WriterKept DEF Untouched
<1>2. Fresh'
  BY <1>0, <1>1 DEF Fresh
<1>3. Whole'
  BY <1>0 DEF Whole, Stored
<1>4. ASSUME NEW p \in Request PROVE Writer(p)' /\ Progress(p)' /\ Planned(p)'
  <2>1. CASE p = q
    BY <2>1 DEF Writer, Progress, Planned
  <2>2. CASE p # q
    <3>1. Writer(p)'
      BY <1>0, <1>1, <2>2 DEF Writer
    <3>2. Progress(p)'
      BY <1>0, <2>2, ProgressKept DEF Alike
    <3>3. Planned(p)'
      BY <1>0, <1>1, <2>2 DEF Planned
    <3> QED
      BY <3>1, <3>2, <3>3
  <2> QED
    BY <2>1, <2>2
<1> QED
  BY <1>2, <1>3, <1>4 DEF StoreInv

\* Statements that insert rows of the file its request writes, or set its hash.
LEMMA WriteStep ==
  ASSUME StoreInv, NEW q \in Request, \A p \in Request : p # q => Untouched(p),
         Writing(q), Writing(q)', Mine(q)' = Mine(q), Mine(q).uri <= made,
         UNCHANGED <<records, made, view, plan, left, skipped>>, plan[q] = {},
         \A u : u # Mine(q).uri => Alike(u),
         \A f \in refs' \ refs : f.uri = Mine(q).uri,
         \A b \in blobs' \ blobs : b.uri = Mine(q).uri,
         Progress(q)'
  PROVE  StoreInv'
<1>0. Fresh /\ Whole /\ \A p \in Request : Writer(p) /\ Progress(p) /\ Planned(p)
  BY DEF StoreInv
<1>1. \A p \in Request : p # q =>
        pc'[p] = pc[p] /\ Mine(p)' = Mine(p) /\ (Writing(p)' <=> Writing(p))
  BY WriterKept DEF Untouched
<1>2. Fresh'
  BY <1>0 DEF Fresh
<1>3. Whole'
  <2> SUFFICES ASSUME ~skipped', NEW r \in records', r.hash # Null
               PROVE  Stored(r.uri, r.hash, Parts[r.hash], Parts[r.hash])'
    BY DEF Whole
  <2>1. r.uri # Mine(q).uri
    BY <1>0 DEF Writer
  <2>2. Stored(r.uri, r.hash, Parts[r.hash], Parts[r.hash]) /\ Alike(r.uri)
    BY <1>0, <2>1 DEF Whole
  <2> QED
    BY <2>2, StoredKept
<1>4. ASSUME NEW p \in Request PROVE Writer(p)' /\ Progress(p)' /\ Planned(p)'
  <2>1. Writer(p)'
    BY <1>0, <1>1 DEF Writer
  <2>2. Planned(p)'
    BY <1>0, <1>1 DEF Planned
  <2>3. p # q => Progress(p)'
    <3>1. p # q /\ Writing(p) => Mine(p).uri # Mine(q).uri
      BY <1>0 DEF Writer
    <3> QED
      BY <1>0, <3>1, ProgressKept
  <2> QED
    BY <2>1, <2>2, <2>3
<1> QED
  BY <1>2, <1>3, <1>4 DEF StoreInv

LEMMA NewRecordStep ==
  ASSUME Typed, StoreInv, NEW q \in Request, PutRecord(q)
  PROVE  StoreInv'
<1> DEFINE new == NewRecord(q)
<1>0. /\ Fresh /\ Whole /\ \A p \in Request : Writer(p) /\ Progress(p) /\ Planned(p)
      /\ TypeOK /\ Place(q) /\ pc[q] = "scan" /\ plan[q] = {} /\ ~Writing(q)
  BY DEF StoreInv, Typed, PutRecord, Place, Writing
<1>1. \A p \in Request : p # q => Untouched(p)
  BY <1>0, OthersUntouched DEF Step, Upload
<1>2. \A p \in Request : p # q =>
        pc'[p] = pc[p] /\ Mine(p)' = Mine(p) /\ (Writing(p)' <=> Writing(p)) /\ view'[p] = view[p]
  BY <1>1, WriterKept DEF Untouched
<1>3. /\ new.uri = made + 1 /\ new.hash = Null /\ new.path = Current(q).path
      /\ made \in Nat /\ made' = made + 1
      /\ records' = records \cup {new} /\ view'[q] = view[q] \cup {new}
      /\ UNCHANGED <<refs, blobs, files, done, plan, left, skipped>>
      /\ pc' = [pc EXCEPT ![q] = AfterPart(q, 1)] /\ part'[q] = 1 /\ Same(q) = {}
      /\ done[q] < Len(files[q])
  BY <1>0 DEF NewRecord, PutRecord, TypeOK, deleting, history, Goto
<1>4. Mine(q)' = new /\ Current(q)' = Current(q)
  <2>1. Current(q)' = Current(q)
    BY <1>3 DEF Current
  <2>2. \A r \in view'[q] : r.path = Current(q).path <=> r = new
    BY <1>3 DEF Same
  <2>3. new \in view'[q]
    BY <1>3
  <2> QED
    BY <2>1, <2>2, <2>3 DEF Mine
<1>5. Fresh'
  <2>1. \A r \in records : r.uri <= made /\ r.uri # new.uri /\ r.uri <= made'
    BY <1>0, <1>3 DEF Fresh, TypeOK, Record, Uri
  <2>2. \A r \in records' : r.uri <= made'
    BY <1>3, <2>1
  <2>3. (\A f \in refs' : f.uri <= made') /\ (\A b \in blobs' : b.uri <= made')
    BY <1>0, <1>3 DEF Fresh, TypeOK, Ref, Blob, Uri
  <2>4. ASSUME NEW p \in Request
        PROVE  (\A v \in view'[p] : v.uri <= made') /\ (\A k \in plan'[p] : k.uri <= made')
    <3>1. \A v \in view[p] : v.uri <= made /\ v.uri \in Nat
      BY <1>0 DEF Fresh, TypeOK, Record, Uri
    <3>2. \A k \in plan[p] : k.uri <= made /\ k.uri \in Nat
      BY <1>0 DEF Fresh, TypeOK, Key, Uri
    <3>3. \A v \in view'[p] : v \in view[p] \/ v = new
      BY <1>2, <1>3
    <3> QED
      BY <1>3, <3>1, <3>2, <3>3
  <2>5. \A r, s \in records' : r.uri = s.uri => r = s
    BY <1>0, <1>3, <2>1 DEF Fresh
  <2> QED
    BY <2>2, <2>3, <2>4, <2>5 DEF Fresh
<1>6. Whole'
  BY <1>0, <1>3 DEF Whole, Stored
<1>7. \A p \in Request : p # q /\ Writing(p) => Mine(p).uri # new.uri
  <2> SUFFICES ASSUME NEW p \in Request, p # q, Writing(p) PROVE Mine(p).uri # new.uri
    OBVIOUS
  <2>1. Mine(p) \in view[p]
    BY MineIsSame DEF Typed, Place
  <2> QED
    BY <1>0, <1>3, <2>1 DEF Fresh, TypeOK, Record, Uri
<1>8. \A p \in Request : \A k \in plan'[p] : k.uri # new.uri
  BY <1>0, <1>3 DEF Fresh, TypeOK, Key, Uri
<1>9. Progress(q)'
  <2>1. PICK u, c : u = new.uri /\ c = Current(q).content
    OBVIOUS
  <2>2. c \in Content /\ Parts[c] \in Nat
    BY <1>0, <1>3, <2>1, CurrentType
  <2>3. \A f \in refs' : f.uri # u
    BY <1>0, <1>3, <2>1 DEF Fresh, TypeOK, Ref, Uri
  <2>4. \A b \in blobs' : b.uri # u
    BY <1>0, <1>3, <2>1 DEF Fresh, TypeOK, Blob, Uri
  <2>5. Stored(u, c, 0, 0)'
    BY <2>3, <2>4 DEF Stored
  <2>6. /\ AfterPart(q, 1) \in {"blob", "hash"}
        /\ AfterPart(q, 1) = "blob" => 1 \in 1 .. Parts[c]
        /\ AfterPart(q, 1) = "hash" => Parts[c] = 0
    BY <2>1, <2>2 DEF AfterPart
  <2>7. pc'[q] = AfterPart(q, 1)
    BY <1>0, <1>3 DEF TypeOK
  <2>8. RefsDone(q)' = 0 /\ BlobsDone(q)' = 0
    BY <1>3, <1>4, <2>1, <2>6, <2>7 DEF RefsDone, BlobsDone
  <2> QED
    BY <1>3, <1>4, <2>1, <2>5, <2>6, <2>7, <2>8, ProgressFrom
<1>10. ASSUME NEW p \in Request PROVE Writer(p)' /\ Progress(p)' /\ Planned(p)'
  <2>1. Writer(p)'
    <3>1. CASE p = q
      <4>1. \A r \in records' : r.uri = new.uri => r.hash = Null
        BY <1>0, <1>3 DEF Fresh, TypeOK, Record, Uri
      <4> QED
        BY <1>2, <1>4, <1>7, <1>8, <3>1, <4>1 DEF Writer
    <3>2. CASE p # q
      <4> SUFFICES ASSUME Writing(p)' PROVE Writer(p)'
        BY DEF Writer
      <4>1. Mine(p)' = Mine(p) /\ Mine(p).uri # new.uri /\ Writing(p)
        BY <1>2, <1>7, <3>2
      <4>2. \A r \in records' : r.uri = Mine(p).uri => r.hash = Null
        BY <1>0, <1>3, <4>1 DEF Writer
      <4>3. \A o \in Request : \A k \in plan'[o] : k.uri = Mine(p).uri => k.table = "record"
        BY <1>0, <1>3, <4>1 DEF Writer
      <4>4. \A o \in Request : o # p /\ Writing(o)' => Mine(o)'.uri # Mine(p).uri
        BY <1>0, <1>2, <1>4, <4>1 DEF Writer
      <4> QED
        BY <4>1, <4>2, <4>3, <4>4 DEF Writer
    <3> QED
      BY <3>1, <3>2
  <2>2. Planned(p)'
    BY <1>0, <1>2, <1>3, <1>8 DEF Planned
  <2>3. p # q => Progress(p)'
    BY <1>0, <1>1, <1>3, ProgressKept DEF Alike
  <2> QED
    BY <1>9, <2>1, <2>2, <2>3
<1> QED
  BY <1>5, <1>6, <1>10 DEF StoreInv

LEMMA HashStep ==
  ASSUME Typed, StoreInv, NEW q \in Request, PutHash(q)
  PROVE  StoreInv'
<1>0. /\ Fresh /\ Whole /\ \A p \in Request : Writer(p) /\ Progress(p) /\ Planned(p)
      /\ TypeOK /\ Place(q) /\ pc[q] = "hash" /\ plan[q] = {} /\ Writing(q)
  BY DEF StoreInv, Typed, PutHash, Place, Writing
<1>1. \A p \in Request : p # q => Untouched(p)
  BY <1>0, OthersUntouched DEF Step, Upload
<1>2. \A p \in Request : p # q =>
        pc'[p] = pc[p] /\ Mine(p)' = Mine(p) /\ (Writing(p)' <=> Writing(p)) /\ view'[p] = view[p]
  BY <1>1, WriterKept DEF Untouched
<1>3. PICK u, c : u = Mine(q).uri /\ c = Current(q).content
  OBVIOUS
<1>4. /\ records' = Hashed(q, records) /\ view'[q] = Hashed(q, view[q])
      /\ UNCHANGED <<refs, blobs, made, plan, left, skipped>> /\ pc'[q] = "scan"
  BY <1>0 DEF PutHash, TypeOK, deleting, history, Goto
<1>5. \A rs \in SUBSET Record : \A t \in Hashed(q, rs) :
        \E r \in rs : /\ t.uri = r.uri /\ t.ord = r.ord /\ t.path = r.path
                      /\ t.hash = (IF r.uri = u THEN c ELSE r.hash)
                      /\ r.uri # u => t = r
  BY <1>3 DEF Hashed, Record
<1>6. \A t \in records' : \E r \in records :
        /\ t.uri = r.uri /\ t.hash = (IF r.uri = u THEN c ELSE r.hash) /\ (r.uri # u => t = r)
  <2>1. records \in SUBSET Record
    BY <1>0 DEF TypeOK
  <2> QED
    BY <1>4, <1>5, <2>1
<1>7. Fresh'
  <2>1. \A r \in records' : r.uri <= made'
    BY <1>0, <1>4, <1>6 DEF Fresh
  <2>2. \A v \in view'[q] : v.uri <= made'
    <3>1. view[q] \in SUBSET Record
      BY <1>0 DEF TypeOK
    <3>2. \A t \in view'[q] : \E r \in view[q] : t.uri = r.uri
      BY <1>4, <1>5, <3>1
    <3> QED
      BY <1>0, <1>4, <3>2 DEF Fresh
  <2>3. \A r, s \in records' : r.uri = s.uri => r = s
    <3> SUFFICES ASSUME NEW r \in records', NEW s \in records', r.uri = s.uri PROVE r = s
      OBVIOUS
    <3>1. PICK x \in records : r = IF x.uri = Mine(q).uri THEN [x EXCEPT !.hash = Current(q).content] ELSE x
      BY <1>4 DEF Hashed
    <3>2. PICK y \in records : s = IF y.uri = Mine(q).uri THEN [y EXCEPT !.hash = Current(q).content] ELSE y
      BY <1>4 DEF Hashed
    <3>3. x.uri = r.uri /\ y.uri = s.uri
      BY <1>0, <3>1, <3>2 DEF TypeOK, Record
    <3>4. x = y
      BY <1>0, <3>3 DEF Fresh
    <3> QED
      BY <3>1, <3>2, <3>4
  <2> QED
    BY <1>0, <1>2, <1>4, <2>1, <2>2, <2>3 DEF Fresh
<1>8. Stored(u, c, Parts[c], Parts[c])
  BY <1>0, <1>3 DEF Progress, RefsDone, BlobsDone
<1>9. Whole'
  <2> SUFFICES ASSUME ~skipped', NEW t \in records', t.hash # Null
               PROVE  Stored(t.uri, t.hash, Parts[t.hash], Parts[t.hash])'
    BY DEF Whole
  <2>1. PICK r \in records :
          t.uri = r.uri /\ t.hash = (IF r.uri = u THEN c ELSE r.hash) /\ (r.uri # u => t = r)
    BY <1>6
  <2>2. Stored(t.uri, t.hash, Parts[t.hash], Parts[t.hash])
    BY <1>0, <1>4, <1>8, <2>1 DEF Whole
  <2> QED
    BY <1>4, <2>2 DEF Stored
<1>10. ASSUME NEW p \in Request PROVE Writer(p)' /\ Progress(p)' /\ Planned(p)'
  <2>1. Writer(p)'
    <3> SUFFICES ASSUME Writing(p)' PROVE Writer(p)'
      BY DEF Writer
    <3>1. p # q
      BY <1>4 DEF Writing
    <3>2. Mine(p).uri # u
      BY <1>0, <1>2, <1>3, <3>1 DEF Writer
    <3>3. \A t \in records' : t.uri = Mine(p).uri => t.hash = Null
      BY <1>0, <1>2, <1>6, <3>1, <3>2 DEF Writer
    <3>4. \A o \in Request : o # p /\ Writing(o)' => o # q
      BY <1>4 DEF Writing
    <3> QED
      BY <1>0, <1>2, <1>4, <3>1, <3>3, <3>4 DEF Writer
  <2>2. Planned(p)'
    <3>1. p # q => pc'[p] = pc[p]
      BY <1>2
    <3> QED
      BY <1>0, <1>4, <1>6, <3>1 DEF Planned
  <2>3. Progress(p)'
    BY <1>0, <1>1, <1>4, ProgressKept DEF Alike, Progress, Writing
  <2> QED
    BY <2>1, <2>2, <2>3
<1> QED
  BY <1>7, <1>9, <1>10 DEF StoreInv

\* A list of rows to delete has the record of each attachment, and the parts of
\* those that have a hash.
LEMMA KeysFacts ==
  ASSUME NEW nth \in Places
  PROVE  /\ \A k \in Keys(nth) : \E r \in records :
              k.uri = r.uri /\ k.nth = nth[r] /\ (k.table # "record" => r.hash # Null)
         /\ \A r \in records : \E k \in Keys(nth) : k.uri = r.uri /\ k.table = "record"
<1>1. ASSUME NEW k \in Keys(nth)
      PROVE  \E r \in records :
               k.uri = r.uri /\ k.nth = nth[r] /\ (k.table # "record" => r.hash # Null)
  <2>1. PICK r \in records :
          k \in PartKeys(r, nth[r]) \/ k = RowKey(nth[r], "record", r.uri, 0)
    BY DEF Keys
  <2> QED
    BY <2>1 DEF PartKeys, RowKey
<1>2. ASSUME NEW r \in records
      PROVE  \E k \in Keys(nth) : k.uri = r.uri /\ k.table = "record"
  <2>1. RowKey(nth[r], "record", r.uri, 0) \in Keys(nth)
    BY DEF Keys
  <2> QED
    BY <2>1 DEF RowKey
<1> QED
  BY <1>1, <1>2

LEMMA CollectStep ==
  ASSUME Typed, StoreInv, NEW q \in Request, Collect(q)
  PROVE  StoreInv'
<1>0. /\ Fresh /\ Whole /\ \A p \in Request : Writer(p) /\ Progress(p) /\ Planned(p)
      /\ TypeOK /\ pc[q] = "collect"
  BY DEF StoreInv, Typed, Collect
<1>1. \A p \in Request : p # q => Untouched(p)
  BY <1>0, OthersUntouched DEF Step, Removal
<1>2. \A p \in Request : p # q =>
        /\ plan'[p] = plan[p] /\ left'[p] = left[p] /\ view'[p] = view[p] /\ pc'[p] = pc[p]
        /\ Mine(p)' = Mine(p) /\ (Writing(p)' <=> Writing(p))
  BY <1>1, WriterKept DEF Untouched
<1>3. PICK nth \in Places : plan'[q] = Keys(nth) /\ left'[q] = Keys(nth)
  BY <1>0 DEF Collect, TypeOK
<1>4. /\ UNCHANGED <<records, refs, blobs, made, view, skipped>>
      /\ pc'[q] = (IF records = {} THEN "removed" ELSE "delete")
  BY <1>0 DEF Collect, rows, uploading, history, Goto, TypeOK
<1>5. \A k \in Keys(nth) : \E r \in records :
        k.uri = r.uri /\ k.nth = nth[r] /\ (k.table # "record" => r.hash # Null)
  BY KeysFacts
<1>6. Fresh'
  <2>1. \A k \in plan'[q] : k.uri <= made
    BY <1>0, <1>3, <1>5 DEF Fresh
  <2> QED
    BY <1>0, <1>2, <1>4, <2>1 DEF Fresh
<1>7. Whole'
  BY <1>0, <1>4 DEF Whole, Stored
<1>8. ~Writing(q)'
  BY <1>4 DEF Writing
<1>9. ASSUME NEW p \in Request PROVE Writer(p)' /\ Progress(p)' /\ Planned(p)'
  <2>1. CASE p = q
    <3>1. \A k, l \in plan'[q] : k.uri = l.uri => k.nth = l.nth
      BY <1>0, <1>3, <1>5 DEF Fresh
    <3>2. \A r \in records' : pc'[q] = "delete" /\ \E k \in left'[q] : k.uri = r.uri /\ k.table = "record"
      BY <1>3, <1>4, KeysFacts
    <3> QED
      BY <1>8, <2>1, <3>1, <3>2 DEF Writer, Progress, Planned
  <2>2. CASE p # q
    <3>1. Planned(p)'
      BY <1>0, <1>2, <1>4, <2>2 DEF Planned
    <3>2. Progress(p)'
      BY <1>0, <1>1, <1>4, <2>2, ProgressKept DEF Alike
    <3>3. Writer(p)'
      <4> SUFFICES ASSUME Writing(p)' PROVE Writer(p)'
        BY DEF Writer
      <4>1. Mine(p)' = Mine(p) /\ Writing(p)
        BY <1>2, <2>2
      <4>2. \A r \in records : r.uri = Mine(p).uri => r.hash = Null
        BY <1>0, <4>1 DEF Writer
      <4>3. \A k \in plan'[q] : k.uri = Mine(p).uri => k.table = "record"
        BY <1>3, <1>5, <4>2
      <4>4. \A o \in Request : \A k \in plan'[o] : k.uri = Mine(p).uri => k.table = "record"
        BY <1>0, <1>2, <4>1, <4>3 DEF Writer
      <4>5. \A o \in Request : o # p /\ Writing(o)' => Mine(o)'.uri # Mine(p).uri
        BY <1>0, <1>2, <1>8, <4>1 DEF Writer
      <4> QED
        BY <1>4, <4>1, <4>2, <4>4, <4>5 DEF Writer
    <3> QED
      BY <3>1, <3>2, <3>3
  <2> QED
    BY <2>1, <2>2
<1> QED
  BY <1>6, <1>7, <1>9 DEF StoreInv

\* A step of a removal: records and parts go, but no part of a record that stays.
LEMMA PassStep ==
  ASSUME Typed, StoreInv, NEW q \in Request, \A p \in Request : p # q => Untouched(p),
         pc[q] \in {"delete", "retry"}, pc'[q] \in {"delete", "retry", "removed"},
         UNCHANGED <<made, view, plan>>, records' \subseteq records,
         refs' \subseteq refs, blobs' \subseteq blobs,
         \A p \in Request : Writing(p) => Alike(Mine(p).uri),
         ~skipped' => ~skipped /\ \A r \in records' : Alike(r.uri),
         ~skipped' => \A r \in records' : (\E k \in plan[q] : k.uri = r.uri) =>
           pc'[q] = "delete" /\ \E k \in left'[q] : k.uri = r.uri /\ k.table = "record"
  PROVE  StoreInv'
<1>0. Fresh /\ Whole /\ \A p \in Request : Writer(p) /\ Progress(p) /\ Planned(p)
  BY DEF StoreInv
<1>1. \A p \in Request : p # q =>
        /\ left'[p] = left[p] /\ pc'[p] = pc[p]
        /\ Mine(p)' = Mine(p) /\ (Writing(p)' <=> Writing(p))
  BY WriterKept DEF Untouched
<1>2. ~Writing(q) /\ ~Writing(q)'
  BY DEF Writing
<1>3. Fresh'
  BY <1>0 DEF Fresh
<1>4. Whole'
  <2> SUFFICES ASSUME ~skipped', NEW r \in records', r.hash # Null
               PROVE  Stored(r.uri, r.hash, Parts[r.hash], Parts[r.hash])'
    BY DEF Whole
  <2>1. Stored(r.uri, r.hash, Parts[r.hash], Parts[r.hash]) /\ Alike(r.uri)
    BY <1>0 DEF Whole
  <2> QED
    BY <2>1, StoredKept
<1>5. ASSUME NEW p \in Request PROVE Writer(p)' /\ Progress(p)' /\ Planned(p)'
  <2>1. Writer(p)'
    BY <1>0, <1>1, <1>2 DEF Writer
  <2>2. Progress(p)'
    BY <1>0, <1>1, <1>2, ProgressKept DEF Progress
  <2>3. Planned(p)'
    BY <1>0, <1>1 DEF Planned
  <2> QED
    BY <2>1, <2>2, <2>3
<1> QED
  BY <1>3, <1>4, <1>5 DEF StoreInv

LEMMA DeleteStep ==
  ASSUME Typed, StoreInv, NEW q \in Request, DeleteNext(q)
  PROVE  StoreInv'
<1>0. /\ \A p \in Request : Writer(p) /\ Planned(p)
      /\ TypeOK /\ pc[q] \in {"delete", "retry"} /\ left[q] \subseteq plan[q]
      /\ UNCHANGED <<view, plan, skipped>>
  BY DEF StoreInv, Typed, TypeOK, DeleteNext, uploading, history
<1>1. \A p \in Request : p # q => Untouched(p)
  BY <1>0, OthersUntouched DEF Step, Removal
<1>2. PICK key \in Deletion(left[q]) : Delete(key) /\ Advance(q, key, ~failed[q])
  BY DEF DeleteNext
<1>3. key \in left[q] /\ key \in plan[q] /\ key \in Key
  BY <1>0, <1>2, DeletionType DEF TypeOK
<1>4. pc'[q] \in {"delete", "retry", "removed"}
  BY <1>0, <1>2, <1>3, AdvanceType
<1>5. \A u : key.table = "record" \/ u # key.uri => Alike(u)
  <2>1. CASE key.table = "record"
    BY <1>2, <2>1 DEF Delete, Alike
  <2>2. CASE key.table # "record"
    BY <1>2, <2>2 DEF Delete, Alike
  <2> QED
    BY <2>1, <2>2
<1>6. \A p \in Request : Writing(p) => Alike(Mine(p).uri)
  BY <1>0, <1>3, <1>5 DEF Writer
<1>7. \A r \in records' : r \in records /\ (key.table = "record" => r.uri # key.uri)
  BY <1>2 DEF Delete
<1>8. ASSUME ~skipped, NEW r \in records', NEW k \in plan[q], k.uri = r.uri
      PROVE  /\ pc[q] = "delete"
             /\ \E l \in left[q] : l # key /\ l.uri = r.uri /\ l.table = "record"
             /\ r.uri # key.uri
  <2>1. PICK l \in left[q] : l.uri = r.uri /\ l.table = "record"
    BY <1>0, <1>7, <1>8 DEF Planned
  <2>2. pc[q] = "delete"
    BY <1>0, <1>7, <1>8 DEF Planned
  <2>3. l # key
    BY <1>7, <2>1
  <2>4. r.uri # key.uri
    <3> SUFFICES ASSUME r.uri = key.uri PROVE FALSE
      OBVIOUS
    <3>1. key.table # "record" /\ l.nth = key.nth
      BY <1>0, <1>3, <1>7, <2>1 DEF Planned
    <3>2. Precedes(key, l)
      BY <2>1, <3>1 DEF Precedes
    <3> QED
      BY <1>2, <2>1, <3>2 DEF Deletion
  <2> QED
    BY <2>1, <2>2, <2>3, <2>4
<1>9. ~skipped' => \A r \in records' : Alike(r.uri)
  <2> SUFFICES ASSUME ~skipped, NEW r \in records' PROVE Alike(r.uri)
    BY <1>0
  <2>1. r.uri # key.uri
    BY <1>3, <1>8
  <2> QED
    BY <1>5, <2>1
<1>10. ~skipped' => \A r \in records' : (\E k \in plan[q] : k.uri = r.uri) =>
           pc'[q] = "delete" /\ \E k \in left'[q] : k.uri = r.uri /\ k.table = "record"
  <2> SUFFICES ASSUME ~skipped, NEW r \in records', NEW k \in plan[q], k.uri = r.uri
               PROVE  pc'[q] = "delete" /\ \E l \in left'[q] : l.uri = r.uri /\ l.table = "record"
    BY <1>0
  <2>1. PICK l \in left[q] : l # key /\ l.uri = r.uri /\ l.table = "record"
    BY <1>8
  <2>2. left'[q] = left[q] \ {key} /\ pc'[q] = pc[q]
    BY <1>0, <1>2, <2>1 DEF Advance, TypeOK
  <2> QED
    BY <1>8, <2>1, <2>2
<1>11. /\ records' \subseteq records /\ refs' \subseteq refs /\ blobs' \subseteq blobs
       /\ UNCHANGED <<made, view, plan>> /\ skipped' = skipped
  BY <1>0, <1>2, DeleteShrinks
<1> QED
  BY <1>0, <1>1, <1>4, <1>6, <1>9, <1>10, <1>11, PassStep

\* A delete that is not done: the removal notes that it left a row, or no record
\* of its list is there any more.
LEMMA UndoneStep ==
  ASSUME Typed, StoreInv, NEW q \in Request, SkipDelete(q) \/ Misread(q)
  PROVE  StoreInv'
<1>0. /\ \A p \in Request : Planned(p)
      /\ TypeOK /\ pc[q] \in {"delete", "retry"}
      /\ UNCHANGED <<records, refs, blobs, made, view, plan>>
      /\ skipped' \/ (skipped' = skipped /\ pc[q] = "retry")
  BY DEF StoreInv, Typed, TypeOK, SkipDelete, Misread, uploading, rows, history
<1>1. \A p \in Request : p # q => Untouched(p)
  BY <1>0, OthersUntouched DEF Step, Removal
<1>2. PICK key \in Deletion(left[q]) : Advance(q, key, FALSE)
  BY DEF SkipDelete, Misread
<1>3. pc'[q] \in {"delete", "retry", "removed"}
  BY <1>0, <1>2, AdvanceType, DeletionType
<1>4. \A u : Alike(u)
  BY <1>0 DEF Alike
<1>5. ~skipped' => \A r \in records' : ~ \E k \in plan[q] : k.uri = r.uri
  BY <1>0 DEF Planned
<1> QED
  BY <1>0, <1>1, <1>3, <1>4, <1>5, PassStep

LEMMA InitStore == Init => StoreInv
  BY DEF Init, StoreInv, Fresh, Whole, Writer, Progress, Planned, Writing

LEMMA StoreStep == Typed /\ StoreInv /\ [Next]_vars => StoreInv'
<1> SUFFICES ASSUME Typed, StoreInv, [Next]_vars PROVE StoreInv'
  OBVIOUS
<1>0. TypeOK /\ Fresh /\ \A p \in Request : Place(p) /\ Writer(p) /\ Progress(p) /\ Planned(p)
  BY DEF Typed, StoreInv
<1>1. ASSUME NEW q \in Request, Step(q), pc'[q] \in Stage, ~Writing(q)', plan'[q] = {},
             view'[q] \subseteq view[q] \cup records,
             UNCHANGED <<refs, blobs, made>>, UNCHANGED <<records, skipped>> \/ records' = {}
      PROVE  StoreInv'
  <2>1. \A p \in Request : p # q => Untouched(p)
    BY <1>0, <1>1, OthersUntouched
  <2>2. \A v \in view'[q] : v.uri <= made
    BY <1>0, <1>1 DEF Fresh
  <2> QED
    BY <1>1, <2>1, <2>2, QuietStep
<1>2. ASSUME NEW q \in Request, Step(q), End(q), UNCHANGED <<refs, blobs, made>>,
             UNCHANGED <<records, skipped>> \/ records' = {}
      PROVE  StoreInv'
  BY <1>0, <1>1, <1>2, EndType DEF Stage, Writing
<1>3. ASSUME NEW q \in Request, Fail(q) \/ ReadThrows(q) \/ Answer(q) \/ CollectThrows(q) PROVE StoreInv'
  BY <1>2, <1>3 DEF Step, Upload, Removal, Fail, ReadThrows, Answer, CollectThrows, rows, history
<1>4. ASSUME NEW q \in Request, EndRemoval(q) PROVE StoreInv'
  BY <1>2, <1>4 DEF Step, Removal, EndRemoval
<1>5. ASSUME NEW q \in Request, BeginUpload(q) \/ ReadRecords(q) \/ BeginRemoval(q) PROVE StoreInv'
  <2>1. plan[q] = {}
    BY <1>0, <1>5 DEF Place, BeginUpload, ReadRecords, BeginRemoval
  <2>2. pc'[q] \in {"read", "scan", "collect"}
    BY <1>0, <1>5 DEF BeginUpload, ReadRecords, BeginRemoval, Goto, TypeOK
  <2>3. /\ view'[q] \subseteq view[q] \cup records
        /\ UNCHANGED <<records, refs, blobs, made, plan, skipped>>
    BY <1>0, <1>5 DEF BeginUpload, ReadRecords, BeginRemoval, rows, uploading, deleting, history, TypeOK
  <2> QED
    BY <1>1, <1>5, <2>1, <2>2, <2>3 DEF Step, Upload, Removal, Stage, Writing
<1>6. ASSUME NEW q \in Request, SkipFile(q) PROVE StoreInv'
  <2>1. plan[q] = {} /\ pc[q] = "scan"
    BY <1>0, <1>6 DEF Place, SkipFile
  <2>2. UNCHANGED <<records, refs, blobs, made, plan, skipped, pc, view>>
    BY <1>6 DEF SkipFile, rows, deleting, history
  <2> QED
    BY <1>1, <1>6, <2>1, <2>2 DEF Step, Upload, Stage, Writing
<1>7. ASSUME UNCHANGED <<records, refs, blobs, made, skipped, pc, uploading, deleting>> PROVE StoreInv'
  <2>1. \A p \in Request : Untouched(p)
    BY <1>7 DEF Untouched, uploading, deleting
  <2>2. UNCHANGED <<view, plan, left>> /\ \A p \in Request :
          Mine(p)' = Mine(p) /\ (Writing(p)' <=> Writing(p))
    BY <1>7, <2>1, WriterKept DEF uploading, deleting
  <2>3. \A p \in Request : Progress(p)'
    BY <1>0, <1>7, <2>1, ProgressKept DEF Alike
  <2>4. \A p \in Request : Writer(p)' /\ Planned(p)'
    BY <1>0, <1>7, <2>2 DEF Writer, Planned
  <2>5. Fresh' /\ Whole'
    BY <1>7, <2>2 DEF StoreInv, Fresh, Whole, Stored
  <2> QED
    BY <2>3, <2>4, <2>5 DEF StoreInv
<1>8. ASSUME NEW q \in Request, LeaseEnds(q) PROVE StoreInv'
  BY <1>7, <1>8 DEF LeaseEnds, rows
<1>9. ASSUME NEW q \in Request, PutBlob(q) \/ PutRef(q) PROVE StoreInv'
  <2>0. /\ pc[q] \in {"blob", "ref"} /\ Writing(q) /\ plan[q] = {}
        /\ UNCHANGED <<records, made, files, done, view, plan, left, skipped>>
    BY <1>0, <1>9 DEF PutBlob, PutRef, Place, Writing, uploading, deleting, history
  <2>1. \A p \in Request : p # q => Untouched(p)
    BY <1>0, <1>9, OthersUntouched DEF Step, Upload
  <2>2. Mine(q)' = Mine(q) /\ Current(q)' = Current(q)
    BY <2>0 DEF Mine, Current
  <2>3. Mine(q) \in view[q] /\ Mine(q).uri <= made
    BY <1>0, <2>0, MineIsSame DEF Place, Fresh
  <2>4. PICK u, c, n : u = Mine(q).uri /\ c = Current(q).content /\ n = part[q]
    OBVIOUS
  <2>5. /\ n \in 1 .. Parts[c] /\ Parts[c] \in Nat
        /\ Stored(u, c, n - 1, IF pc[q] = "blob" THEN n - 1 ELSE n)
    <3>1. Parts[c] \in Nat
      BY <1>0, <2>0, <2>4, CurrentType DEF Place
    <3> QED
      BY <1>0, <2>0, <2>4, <3>1 DEF Progress, RefsDone, BlobsDone
  <2>6. CASE PutBlob(q)
    <3>1. /\ pc[q] = "blob" /\ pc'[q] = "ref" /\ part'[q] = n /\ refs' = refs
          /\ blobs' = blobs \cup {[uri |-> u, part |-> n, content |-> c]}
      BY <1>0, <2>4, <2>6 DEF PutBlob, uploading, Goto, TypeOK
    <3>2. Stored(u, c, n - 1, n)'
      <4>1. \A i \in 1 .. n : i \in 1 .. (n - 1) \/ i = n
        BY <2>5
      <4> QED
        BY <2>5, <3>1, <4>1 DEF Stored
    <3>3. RefsDone(q)' = n - 1 /\ BlobsDone(q)' = n
      BY <3>1 DEF RefsDone, BlobsDone
    <3>4. Progress(q)'
      BY <2>2, <2>4, <2>5, <3>1, <3>2, <3>3, ProgressFrom
    <3>5. (\A x : x # u => Alike(x)) /\ \A b \in blobs' \ blobs : b.uri = u
      BY <3>1 DEF Alike
    <3>6. Writing(q)'
      BY <3>1 DEF Writing
    <3> QED
      BY <2>0, <2>1, <2>2, <2>3, <2>4, <3>1, <3>4, <3>5, <3>6, WriteStep
  <2>7. CASE PutRef(q)
    <3>1. /\ pc[q] = "ref" /\ pc'[q] = AfterPart(q, n + 1) /\ blobs' = blobs
          /\ part'[q] = (IF AfterPart(q, n + 1) = "blob" THEN n + 1 ELSE 1)
          /\ refs' = refs \cup {[uri |-> u, part |-> n]}
      BY <1>0, <2>4, <2>7 DEF PutRef, Goto, TypeOK
    <3>2. /\ AfterPart(q, n + 1) \in {"blob", "hash"}
          /\ AfterPart(q, n + 1) = "blob" => n + 1 \in 1 .. Parts[c]
          /\ AfterPart(q, n + 1) = "hash" => n = Parts[c]
      BY <2>4, <2>5 DEF AfterPart
    <3>3. Stored(u, c, n, n)'
      <4>1. \A i \in 1 .. n : i \in 1 .. (n - 1) \/ i = n
        BY <2>5
      <4>2. \A i \in 1 .. (n - 1) : i \in 1 .. n
        BY <2>5
      <4> QED
        BY <2>5, <3>1, <4>1, <4>2 DEF Stored
    <3>4. RefsDone(q)' = n /\ BlobsDone(q)' = n
      BY <2>2, <2>4, <2>5, <3>1, <3>2 DEF RefsDone, BlobsDone
    <3>5. Progress(q)'
      BY <2>2, <2>4, <3>1, <3>2, <3>3, <3>4, ProgressFrom
    <3>6. (\A x : x # u => Alike(x)) /\ \A f \in refs' \ refs : f.uri = u
      BY <3>1 DEF Alike
    <3>7. Writing(q)'
      BY <3>1, <3>2 DEF Writing
    <3> QED
      BY <2>0, <2>1, <2>2, <2>3, <2>4, <3>1, <3>5, <3>6, <3>7, WriteStep
  <2> QED
    BY <1>9, <2>6, <2>7
<1>10. CASE UNCHANGED vars
  BY <1>7, <1>10 DEF vars, rows, history
<1> QED
  BY <1>3, <1>4, <1>5, <1>6, <1>8, <1>9, <1>10, NewRecordStep, HashStep, CollectStep, DeleteStep,
     UndoneStep
  DEF Next, Upload, Removal

LEMMA WholeIsStored == TypeOK /\ Whole => StoredIsWhole
<1> SUFFICES ASSUME TypeOK, NEW r \in records, r.hash # Null, ~skipped,
                    Stored(r.uri, r.hash, Parts[r.hash], Parts[r.hash])
             PROVE  /\ PartsOf(r) = 1 .. Parts[r.hash]
                    /\ {[part |-> b.part, content |-> b.content] : b \in BlobsOf(r)}
                         = {[part |-> p, content |-> r.hash] : p \in 1 .. Parts[r.hash]}
  BY DEF Whole, StoredIsWhole
<1>1. PartsOf(r) = 1 .. Parts[r.hash]
  <2>1. \A i \in 1 .. Parts[r.hash] : i \in PartsOf(r)
    <3> SUFFICES ASSUME NEW i \in 1 .. Parts[r.hash] PROVE i \in PartsOf(r)
      OBVIOUS
    <3>1. [uri |-> r.uri, part |-> i] \in refs
      BY DEF Stored
    <3> QED
      BY <3>1 DEF PartsOf
  <2> QED
    BY <2>1 DEF PartsOf, Stored
<1>2. ASSUME NEW x \in {[part |-> b.part, content |-> b.content] : b \in BlobsOf(r)}
      PROVE  x \in {[part |-> p, content |-> r.hash] : p \in 1 .. Parts[r.hash]}
  BY <1>2 DEF BlobsOf, Stored
<1>3. ASSUME NEW p \in 1 .. Parts[r.hash]
      PROVE  [part |-> p, content |-> r.hash]
               \in {[part |-> b.part, content |-> b.content] : b \in BlobsOf(r)}
  <2>1. [uri |-> r.uri, part |-> p, content |-> r.hash] \in BlobsOf(r)
    BY DEF BlobsOf, Stored
  <2> QED
    BY <2>1
<1> QED
  BY <1>1, <1>2, <1>3

(* A record that has a hash has all the content of that hash, and nothing     *)
(* else, whatever crashes and whatever request outlives its lease, unless a   *)
(* removal went on after a failed delete.                                     *)
THEOREM HashedIsWhole == Spec => []StoredIsWhole
<1>1. Typed /\ StoreInv => StoredIsWhole
  BY WholeIsStored DEF Typed, StoreInv
<1>2. Init => Typed /\ StoreInv
  BY InitTyped, InitStore
<1>3. Typed /\ StoreInv /\ [Next]_vars => (Typed /\ StoreInv)'
  BY TypedStep, StoreStep
<1> QED
  BY <1>1, <1>2, <1>3, PTL DEF Spec

-----------------------------------------------------------------------------
(* As long as no request has outlived its lease: what was answered with        *)
(* success is served, and a removal that reports success leaves nothing.       *)

\* The attachments are numbered, without gaps and extra copies.
Numbered == InOrder(records) /\ \A r, s \in records : r.ord = s.ord => r = s

\* An upload has the attachments in memory, and those it dealt with are there.
Uploader(q) == pc[q] \in {"read", "scan", "blob", "ref", "hash"} =>
  /\ ~removing
  /\ pc[q] # "read" => view[q] = records
  /\ pc[q] # "read" /\ ~refused[q] => \A i \in 1 .. done[q] :
       \E r \in records : r.path = files[q][i].path /\ r.hash = files[q][i].content

\* A removal has every record on its list, in the order of the ordinals.
Remover(q) ==
  /\ pc[q] \in {"collect", "delete", "retry", "removed"} => removing
  /\ pc[q] \in {"delete", "retry", "removed"} =>
       \A r \in records : \E k \in plan[q] : k.uri = r.uri /\ k.table = "record"
  /\ \A r, s \in records : \A k, l \in plan[q] :
       k.uri = r.uri /\ l.uri = s.uri /\ r.ord < s.ord => k.nth < l.nth

\* What a removal has come to in this pass is gone.
Gone(q) == ~misread[q] =>
  /\ (pc[q] = "delete" /\ ~failed[q]) \/ pc[q] = "retry" =>
       \A k \in plan[q] \ left[q] : ~Present(k)
  /\ pc[q] = "removed" => \A k \in plan[q] : ~Present(k)

Posted == \A f \in posted : \E r \in records : r.path = f.path /\ r.hash = f.content

OnePerPath == \A r, s \in records : r.path = s.path => r = s

ServeInv == ~overrun =>
  /\ \A q \in Request : pc[q] # "idle" => holder = q
  /\ skipped => removing
  /\ ~skipped => Numbered
  /\ OnePerPath
  /\ ~removing => Posted
  /\ \A q \in Request : Uploader(q) /\ Remover(q) /\ Gone(q)

\* A new attachment gets the next number.
LEMMA NumberedAdd ==
  ASSUME IsFiniteSet(records), Numbered, records \subseteq Record, NEW new,
         new.ord = Cardinality(records) + 1, records' = records \cup {new}
  PROVE  Numbered'
<1>1. PICK n \in Nat : n = Cardinality(records)
  BY FS_CardinalityType
<1>2. {r.ord : r \in records} = 1 .. n
  BY <1>1 DEF Numbered, InOrder
<1>3. \A r \in records : r.ord \in 1 .. n
  BY <1>2
<1>4. new \notin records
  BY <1>1, <1>3
<1>5. Cardinality(records') = n + 1
  BY <1>1, <1>4, FS_AddElement
<1>6. {r.ord : r \in records'} = 1 .. (n + 1)
  <2>1. \A i \in 1 .. n + 1 : i \in {r.ord : r \in records'}
    <3> SUFFICES ASSUME NEW i \in 1 .. n + 1 PROVE \E r \in records' : r.ord = i
      OBVIOUS
    <3>1. i \in 1 .. n \/ i = n + 1
      OBVIOUS
    <3> QED
      BY <1>1, <1>2, <3>1
  <2>2. \A r \in records' : r.ord \in 1 .. n + 1
    BY <1>1, <1>3
  <2> QED
    BY <2>1, <2>2
<1>7. \A r, s \in records' : r.ord = s.ord => r = s
  BY <1>1, <1>3 DEF Numbered
<1> QED
  BY <1>5, <1>6, <1>7 DEF Numbered, InOrder

\* The one with the highest number can go.
LEMMA NumberedRemove ==
  ASSUME IsFiniteSet(records), Numbered, NEW last \in records,
         \A r \in records : ~(last.ord < r.ord), records' = records \ {last}
  PROVE  Numbered'
<1>1. PICK n \in Nat : n = Cardinality(records)
  BY FS_CardinalityType
<1>2. {r.ord : r \in records} = 1 .. n
  BY <1>1 DEF Numbered, InOrder
<1>3. \A r \in records : r.ord \in 1 .. n
  BY <1>2
<1>4. Cardinality(records') = n - 1
  BY <1>1, FS_RemoveElement
<1>5. last.ord = n
  <2>1. n \in 1 .. n
    BY <1>3
  <2>2. PICK r \in records : r.ord = n
    BY <1>2, <2>1
  <2> QED
    BY <1>3, <2>2
<1>6. {r.ord : r \in records'} = 1 .. (n - 1)
  <2>1. \A i \in 1 .. n - 1 : \E r \in records' : r.ord = i
    <3> SUFFICES ASSUME NEW i \in 1 .. n - 1 PROVE \E r \in records' : r.ord = i
      OBVIOUS
    <3>1. i \in 1 .. n /\ i # n
      OBVIOUS
    <3>2. PICK r \in records : r.ord = i
      BY <1>2, <3>1
    <3> QED
      BY <1>5, <3>1, <3>2
  <2>2. \A r \in records' : r.ord \in 1 .. n - 1
    BY <1>3, <1>5 DEF Numbered
  <2> QED
    BY <2>1, <2>2
<1> QED
  BY <1>4, <1>6 DEF Numbered, InOrder

LEMMA InitServe == Init => ServeInv
<1> SUFFICES ASSUME Init PROVE ServeInv
  OBVIOUS
<1>1. Cardinality(records) = 0 /\ {r.ord : r \in records} = {}
  BY FS_EmptySet DEF Init
<1>2. Numbered
  BY <1>1 DEF Init, Numbered, InOrder
<1> QED
  BY <1>2 DEF Init, ServeInv, Uploader, Remover, Gone, Posted, OnePerPath

\* What is gone stays gone while rows are deleted.
LEMMA DeletePresent ==
  ASSUME NEW key, Delete(key)
  PROVE  /\ \A k : ~Present(k) => ~Present(k)'
         /\ key \in Key => ~Present(key)'
<1>1. records' \subseteq records /\ refs' \subseteq refs /\ blobs' \subseteq blobs
  BY DeleteShrinks
<1>2. \A k : ~Present(k) => ~Present(k)'
  BY <1>1 DEF Present
<1>3. ASSUME key \in Key PROVE ~Present(key)'
  <2>1. key.table \in {"record", "ref", "blob"}
    BY <1>3 DEF Key
  <2>2. CASE key.table = "record"
    BY <2>2 DEF Delete, Present
  <2>3. CASE key.table = "ref"
    BY <2>3 DEF Delete, Present
  <2>4. CASE key.table = "blob"
    BY <2>4 DEF Delete, Present
  <2> QED
    BY <2>1, <2>2, <2>3, <2>4
<1> QED
  BY <1>2, <1>3

\* While leases last, one request is at work.
LEMMA Alone ==
  ASSUME TypeOK, ServeInv, ~overrun, NEW q \in Request, pc[q] # "idle" \/ holder = Nobody
  PROVE  \A p \in Request : p # q => pc[p] = "idle"
  BY BlobAssumption DEF ServeInv

LEMMA AloneStep ==
  ASSUME Typed, Typed', ~overrun, NEW q \in Request, Step(q),
         \A p \in Request : p # q => pc[p] = "idle",
         pc'[q] # "idle" => holder' = q,
         skipped' => removing', ~skipped' => Numbered', OnePerPath', ~removing' => Posted',
         Uploader(q)', Remover(q)', Gone(q)'
  PROVE  ServeInv'
<1>1. \A p \in Request : p # q => pc'[p] = "idle"
  BY OthersUntouched DEF Typed, Untouched
<1>2. ASSUME NEW p \in Request PROVE (Uploader(p) /\ Remover(p) /\ Gone(p))'
  <2>1. CASE p = q
    BY <2>1
  <2>2. CASE p # q
    <3>1. pc'[p] = "idle" /\ plan'[p] = {}
      BY <1>1, <2>2 DEF Typed, Place
    <3> QED
      BY <3>1 DEF Uploader, Remover, Gone
  <2> QED
    BY <2>1, <2>2
<1> QED
  BY <1>1, <1>2 DEF ServeInv

LEMMA ServeUpload ==
  ASSUME Typed, Typed', StoreInv, ServeInv, ~overrun, NEW q \in Request, Upload(q)
  PROVE  ServeInv'
<1>0. /\ TypeOK /\ Place(q) /\ Fresh /\ \A p \in Request : Writer(p)
      /\ pc[q] # "idle" => holder = q
      /\ skipped => removing
      /\ ~skipped => Numbered
      /\ OnePerPath
      /\ ~removing => Posted
      /\ Uploader(q) /\ Remover(q) /\ Gone(q)
  BY DEF Typed, StoreInv, ServeInv
<1>1. ASSUME \A p \in Request : p # q => pc[p] = "idle",
             pc'[q] # "idle" => holder' = q,
             skipped' => removing', ~skipped' => Numbered', OnePerPath', ~removing' => Posted',
             Uploader(q)', plan'[q] = {}, pc'[q] \in {"idle", "read", "scan", "blob", "ref", "hash"}
      PROVE  ServeInv'
  <2>1. Remover(q)' /\ Gone(q)'
    BY <1>1 DEF Remover, Gone
  <2> QED
    BY <1>1, <2>1, AloneStep DEF Step
<1>2. ASSUME \A p \in Request : p # q => pc[p] = "idle",
             pc'[q] # "idle" => holder' = q,
             UNCHANGED <<records, removing, posted, skipped>>,
             Uploader(q)', plan'[q] = {}, pc'[q] \in {"idle", "read", "scan", "blob", "ref", "hash"}
      PROVE  ServeInv'
  BY <1>0, <1>1, <1>2 DEF Numbered, InOrder, OnePerPath, Posted
<1>3. CASE BeginUpload(q)
  <2>1. \A p \in Request : p # q => pc[p] = "idle"
    BY <1>0, <1>3, Alone DEF BeginUpload
  <2>2. /\ pc'[q] = "read" /\ holder' = q /\ ~removing /\ plan'[q] = {}
        /\ UNCHANGED <<records, removing, posted, skipped>>
    BY <1>0, <1>3 DEF BeginUpload, Goto, TypeOK, Place, deleting, rows, history
  <2> QED
    BY <1>2, <2>1, <2>2 DEF Uploader
<1>4. CASE ReadRecords(q)
  <2>1. \A p \in Request : p # q => pc[p] = "idle"
    BY <1>0, <1>4, Alone DEF ReadRecords
  <2>2. /\ pc'[q] = "scan" /\ holder' = q /\ ~removing /\ plan'[q] = {} /\ view'[q] = records
        /\ done'[q] = 0
        /\ UNCHANGED <<records, removing, posted, skipped>>
    BY <1>0, <1>4 DEF ReadRecords, Goto, TypeOK, Place, Uploader, deleting, rows, history
  <2> QED
    BY <1>2, <2>1, <2>2 DEF Uploader
<1>5. CASE ReadThrows(q)
  <2>1. \A p \in Request : p # q => pc[p] = "idle"
    BY <1>0, <1>5, Alone DEF ReadThrows
  <2>2. /\ pc'[q] = "idle" /\ plan'[q] = {} /\ UNCHANGED <<records, removing, posted, skipped>>
    BY <1>0, <1>5, EndType DEF ReadThrows, rows, history
  <2> QED
    BY <1>2, <2>1, <2>2 DEF Uploader
<1>6. CASE SkipFile(q)
  <2>1. \A p \in Request : p # q => pc[p] = "idle"
    BY <1>0, <1>6, Alone DEF SkipFile
  <2>2. /\ pc[q] = "scan" /\ pc' = pc /\ plan'[q] = {} /\ holder' = holder
        /\ UNCHANGED <<records, removing, posted, skipped, view, files>>
        /\ done'[q] = done[q] + 1 /\ refused'[q] = Refused(q) /\ Same(q) # {}
        /\ done[q] \in Nat
    BY <1>0, <1>6 DEF SkipFile, TypeOK, Place, deleting, rows, history
  <2>3. Uploader(q)'
    <3>1. ~removing /\ view[q] = records
      BY <1>0, <2>2 DEF Uploader
    <3>2. ASSUME ~refused'[q], NEW i \in 1 .. done'[q]
          PROVE  \E r \in records : r.path = files[q][i].path /\ r.hash = files[q][i].content
      <4>1. ~refused[q] /\ \A r \in Same(q) : r.hash = Current(q).content
        BY <2>2, <3>2 DEF Refused
      <4>2. CASE i \in 1 .. done[q]
        BY <1>0, <2>2, <4>1, <4>2 DEF Uploader
      <4>3. CASE i = done[q] + 1
        BY <2>2, <3>1, <4>1, <4>3 DEF Same, Current
      <4> QED
        BY <2>2, <4>2, <4>3
    <3> QED
      BY <2>2, <3>1, <3>2 DEF Uploader
  <2> QED
    BY <1>0, <1>2, <2>1, <2>2, <2>3
<1>7. CASE PutRecord(q)
  <2>1. \A p \in Request : p # q => pc[p] = "idle"
    BY <1>0, <1>7, Alone DEF PutRecord
  <2>2. ~removing /\ view[q] = records /\ ~skipped
    BY <1>0, <1>7 DEF PutRecord, Uploader
  <2>3. /\ records' = records \cup {NewRecord(q)} /\ view'[q] = records'
        /\ NewRecord(q).ord = Cardinality(records) + 1 /\ NewRecord(q).path = Current(q).path
        /\ pc'[q] = AfterPart(q, 1) /\ plan'[q] = {} /\ holder' = q
        /\ UNCHANGED <<removing, posted, skipped, files, done, refused>>
        /\ Same(q) = {} /\ pc[q] = "scan"
    BY <1>0, <1>7, <2>2 DEF PutRecord, NewRecord, Goto, TypeOK, Place, deleting, history
  <2>4. Numbered'
    BY <1>0, <2>2, <2>3, NumberedAdd DEF Typed, TypeOK
  <2>5. OnePerPath'
    BY <1>0, <2>2, <2>3 DEF OnePerPath, Same
  <2>6. Posted'
    BY <1>0, <2>2, <2>3 DEF Posted
  <2>7. pc'[q] \in {"blob", "hash"}
    BY <2>3 DEF AfterPart
  <2>8. Uploader(q)'
    BY <1>0, <2>2, <2>3 DEF Uploader
  <2> QED
    BY <1>1, <2>1, <2>2, <2>3, <2>4, <2>5, <2>6, <2>7, <2>8
<1>8. CASE PutBlob(q) \/ PutRef(q)
  <2>1. \A p \in Request : p # q => pc[p] = "idle"
    BY <1>0, <1>8, Alone DEF PutBlob, PutRef
  <2>2. /\ pc[q] \in {"blob", "ref"} /\ pc'[q] \in {"blob", "ref", "hash"} /\ plan'[q] = {} /\ holder' = holder
        /\ UNCHANGED <<records, removing, posted, skipped, view, files, done, refused>>
    BY <1>0, <1>8 DEF PutBlob, PutRef, AfterPart, Goto, TypeOK, Place, uploading, deleting, history
  <2>3. Uploader(q)'
    BY <1>0, <2>2 DEF Uploader
  <2> QED
    BY <1>0, <1>2, <2>1, <2>2, <2>3
<1>9. CASE PutHash(q)
  <2>1. \A p \in Request : p # q => pc[p] = "idle"
    BY <1>0, <1>9, Alone DEF PutHash
  <2>2. ~removing /\ view[q] = records /\ ~skipped /\ pc[q] = "hash" /\ Writing(q)
    BY <1>0, <1>9 DEF PutHash, Uploader, Writing
  <2>3. PICK u, c : u = Mine(q).uri /\ c = Current(q).content
    OBVIOUS
  <2>4. /\ records' = Hashed(q, records) /\ view'[q] = records'
        /\ pc'[q] = "scan" /\ plan'[q] = {} /\ holder' = q /\ done'[q] = done[q] + 1
        /\ UNCHANGED <<removing, posted, skipped, files, refused>> /\ done[q] \in Nat
    BY <1>0, <1>9, <2>2 DEF PutHash, Goto, TypeOK, Place, deleting, history
  <2>5. Mine(q) \in records /\ Mine(q).path = Current(q).path
    BY <1>0, <2>2, MineIsSame DEF Place
  <2>6. \A r \in records : r.uri = u => r.hash = Null
    BY <1>0, <2>2, <2>3 DEF Writer
  <2>7. c \in Content
    BY <1>0, <2>2, <2>3, CurrentType DEF Place
  <2>8. \A t \in records' : \E r \in records : t.ord = r.ord /\ t.path = r.path /\ t.uri = r.uri
    BY <1>0, <2>4 DEF Hashed, TypeOK, Record
  <2>9. \A r \in records : \E t \in records' :
          /\ t.ord = r.ord /\ t.path = r.path
          /\ r.uri # u => t.hash = r.hash
          /\ r.uri = u => t.hash = c
    <3> SUFFICES ASSUME NEW r \in records
                 PROVE  \E t \in records' : /\ t.ord = r.ord /\ t.path = r.path
                                            /\ r.uri # u => t.hash = r.hash
                                            /\ r.uri = u => t.hash = c
      OBVIOUS
    <3>1. (IF r.uri = Mine(q).uri THEN [r EXCEPT !.hash = Current(q).content] ELSE r) \in records'
      BY <2>4 DEF Hashed
    <3>2. r \in Record
      BY <1>0 DEF TypeOK
    <3> QED
      BY <2>3, <3>1, <3>2 DEF Record
  <2>10. \A t \in records' : \A s \in records' : t.uri = s.uri => t = s
    <3>1. \A r \in records : DOMAIN r = {"uri", "ord", "path", "hash"}
      BY <1>0 DEF TypeOK, Record
    <3> SUFFICES ASSUME NEW t \in records', NEW s \in records', t.uri = s.uri PROVE t = s
      OBVIOUS
    <3>2. PICK x \in records : t = IF x.uri = Mine(q).uri THEN [x EXCEPT !.hash = Current(q).content] ELSE x
      BY <2>4 DEF Hashed
    <3>3. PICK y \in records : s = IF y.uri = Mine(q).uri THEN [y EXCEPT !.hash = Current(q).content] ELSE y
      BY <2>4 DEF Hashed
    <3>4. x.uri = t.uri /\ y.uri = s.uri
      BY <1>0, <3>2, <3>3 DEF TypeOK, Record
    <3>5. x = y
      BY <1>0, <3>4 DEF Fresh
    <3> QED
      BY <3>2, <3>3, <3>5
  <2>11. Numbered'
    <3>1. Cardinality(records') = Cardinality(records)
      <4>1. \A r \in records : DOMAIN r = {"uri", "ord", "path", "hash"}
        BY <1>0 DEF TypeOK, Record
      <4>2. \A r, s \in records : r.uri = s.uri => r = s
        BY <1>0 DEF Fresh
      <4> QED
        BY <2>4, <4>1, <4>2, HashedKeeps DEF Typed
    <3>2. {t.ord : t \in records'} = {r.ord : r \in records}
      BY <2>8, <2>9
    <3>3. \A t, s \in records' : t.ord = s.ord => t.uri = s.uri
      BY <1>0, <2>2, <2>8 DEF Numbered
    <3> QED
      BY <1>0, <2>2, <2>10, <3>1, <3>2, <3>3 DEF Numbered, InOrder
  <2>12. OnePerPath'
    <3>1. \A t, s \in records' : t.path = s.path => t.uri = s.uri
      BY <1>0, <2>8 DEF OnePerPath
    <3> QED
      BY <2>10, <3>1 DEF OnePerPath
  <2>13. \A r \in records : r.hash # Null => \E t \in records' : t.path = r.path /\ t.hash = r.hash
    BY <2>6, <2>9
  <2>14. Null \notin Content
    BY BlobAssumption
  <2>15. Posted'
    <3>1. \A f \in posted : f.content # Null
      BY <1>0, <2>14 DEF TypeOK, File
    <3> QED
      BY <1>0, <2>2, <2>4, <2>13, <3>1 DEF Posted
  <2>16. Uploader(q)'
    <3>1. ASSUME ~refused[q], NEW i \in 1 .. done'[q]
          PROVE  \E t \in records' : t.path = files[q][i].path /\ t.hash = files[q][i].content
      <4>1. CASE i \in 1 .. done[q]
        <5>1. files[q] \in Seq(File) /\ i \in 1 .. Len(files[q])
          BY <1>0, <4>1, FilesType DEF TypeOK
        <5>2. files[q][i].content # Null
          <6>1. files[q][i] \in File
            BY <5>1
          <6> QED
            BY <2>14, <6>1 DEF File
        <5>3. PICK r \in records : r.path = files[q][i].path /\ r.hash = files[q][i].content
          BY <1>0, <2>2, <3>1, <4>1 DEF Uploader
        <5> QED
          BY <2>13, <5>2, <5>3
      <4>2. CASE i = done[q] + 1
        BY <2>3, <2>5, <2>9, <4>2 DEF Current
      <4> QED
        BY <2>4, <4>1, <4>2
    <3> QED
      BY <2>2, <2>4, <3>1 DEF Uploader
  <2> QED
    BY <1>1, <2>1, <2>2, <2>4, <2>11, <2>12, <2>15, <2>16
<1>10. CASE Answer(q)
  <2>1. \A p \in Request : p # q => pc[p] = "idle"
    BY <1>0, <1>10, Alone DEF Answer
  <2>2. /\ pc'[q] = "idle" /\ plan'[q] = {} /\ UNCHANGED <<records, removing, skipped>>
        /\ posted' = IF refused[q] THEN posted ELSE posted \cup ToSet(files[q])
        /\ pc[q] = "scan" /\ done[q] = Len(files[q])
    BY <1>0, <1>10, EndType DEF Answer, rows
  <2>3. ~removing => Posted'
    <3>1. \A i \in DOMAIN files[q] : i \in 1 .. done[q]
      BY <1>0, <2>2, FilesType
    <3>2. ~refused[q] => \A f \in ToSet(files[q]) :
            \E r \in records : r.path = f.path /\ r.hash = f.content
      BY <1>0, <2>2, <3>1 DEF Uploader, ToSet
    <3> QED
      BY <1>0, <2>2, <3>2 DEF Posted
  <2>4. Uploader(q)' /\ OnePerPath' /\ (~skipped => Numbered')
    BY <1>0, <2>2 DEF Uploader, OnePerPath, Numbered, InOrder
  <2> QED
    BY <1>0, <1>1, <2>1, <2>2, <2>3, <2>4
<1> QED
  BY <1>3, <1>4, <1>5, <1>6, <1>7, <1>8, <1>9, <1>10 DEF Upload

LEMMA ServeRemoval ==
  ASSUME Typed, Typed', StoreInv, ServeInv, ~overrun, NEW q \in Request, Removal(q)
  PROVE  ServeInv'
<1>0. /\ TypeOK /\ Place(q) /\ Fresh /\ Planned(q)
      /\ pc[q] # "idle" => holder = q
      /\ skipped => removing
      /\ ~skipped => Numbered
      /\ OnePerPath
      /\ ~removing => Posted
      /\ Uploader(q) /\ Remover(q) /\ Gone(q)
  BY DEF Typed, StoreInv, ServeInv
<1>1. \A p \in Request : p # q => pc[p] = "idle"
  <2>1. pc[q] # "idle" \/ holder = Nobody
    BY DEF Removal, BeginRemoval, Collect, CollectThrows, DeleteNext, SkipDelete, Misread, EndRemoval
  <2> QED
    BY <1>0, <2>1, Alone
\* A step of a removal that is under way.
<1>2. ASSUME removing', OnePerPath', ~skipped' => Numbered', holder' = q \/ pc'[q] = "idle",
             pc'[q] \in {"idle", "collect", "delete", "retry", "removed"}, Remover(q)', Gone(q)'
      PROVE  ServeInv'
  <2>1. Uploader(q)'
    BY <1>2 DEF Uploader
  <2> QED
    BY <1>1, <1>2, <2>1, AloneStep DEF Step
<1>3. CASE BeginRemoval(q)
  <2>1. /\ pc'[q] = "collect" /\ holder' = q /\ removing' /\ plan'[q] = {}
        /\ UNCHANGED <<records, skipped>>
    BY <1>0, <1>3 DEF BeginRemoval, Goto, TypeOK, Place, deleting, rows, history
  <2> QED
    BY <1>0, <1>2, <2>1 DEF OnePerPath, Numbered, InOrder, Remover, Gone
<1>4. CASE Collect(q)
  <2>1. PICK nth \in Places : plan'[q] = Keys(nth) /\ left'[q] = Keys(nth)
    BY <1>0, <1>4 DEF Collect, TypeOK
  <2>2. /\ pc'[q] = (IF records = {} THEN "removed" ELSE "delete") /\ holder' = q /\ removing' /\ removing
        /\ UNCHANGED <<records, skipped>>
    BY <1>0, <1>4 DEF Collect, Goto, TypeOK, Remover, rows, history
  <2>3. \A k \in Keys(nth) : \E r \in records : k.uri = r.uri /\ k.nth = nth[r]
    BY KeysFacts
  <2>4. \A r \in records : \A k \in Keys(nth) : k.uri = r.uri => k.nth = nth[r]
    BY <1>0, <2>3 DEF Fresh
  <2>5. Remover(q)'
    <3>1. \A r, s \in records : r.ord < s.ord => nth[r] < nth[s]
      BY DEF Places
    <3>2. \A r, s \in records' : \A k, l \in plan'[q] :
            k.uri = r.uri /\ l.uri = s.uri /\ r.ord < s.ord => k.nth < l.nth
      <4> SUFFICES ASSUME NEW r \in records, NEW s \in records, NEW k \in Keys(nth), NEW l \in Keys(nth),
                          k.uri = r.uri, l.uri = s.uri, r.ord < s.ord
                   PROVE  k.nth < l.nth
        BY <2>1, <2>2
      <4>1. k.nth = nth[r] /\ l.nth = nth[s] /\ nth[r] < nth[s]
        BY <2>4, <3>1
      <4> QED
        BY <4>1
    <3>3. \A r \in records' : \E k \in plan'[q] : k.uri = r.uri /\ k.table = "record"
      BY <2>1, <2>2, KeysFacts
    <3> QED
      BY <2>2, <3>2, <3>3 DEF Remover
  <2>6. Gone(q)'
    <3>1. records = {} => Keys(nth) = {}
      BY <2>3
    <3> QED
      BY <2>1, <2>2, <3>1 DEF Gone
  <2> QED
    BY <1>0, <1>2, <2>2, <2>5, <2>6 DEF OnePerPath, Numbered, InOrder
<1>5. CASE CollectThrows(q)
  <2>1. /\ pc'[q] = "idle" /\ plan'[q] = {} /\ removing' /\ UNCHANGED <<records, skipped>>
    BY <1>0, <1>5, EndType DEF CollectThrows, rows, history, Remover
  <2> QED
    BY <1>0, <1>2, <2>1 DEF OnePerPath, Numbered, InOrder, Remover, Gone
<1>6. CASE DeleteNext(q)
  <2>0. /\ pc[q] \in {"delete", "retry"} /\ left[q] \subseteq plan[q] /\ removing
        /\ plan[q] \in SUBSET Key
        /\ UNCHANGED <<removing, holder, plan, failed, misread, skipped>>
    BY <1>0, <1>6 DEF DeleteNext, uploading, history, Remover, TypeOK
  <2>1. PICK key \in Deletion(left[q]) : Delete(key) /\ Advance(q, key, ~failed[q])
    BY <1>6 DEF DeleteNext
  <2>2. key \in left[q] /\ key \in plan[q] /\ key \in Key
    BY <2>0, <2>1, DeletionType
  <2>3. pc'[q] \in {"delete", "retry", "removed"}
    BY <1>0, <2>0, <2>1, <2>2, AdvanceType
  <2>4. records' \subseteq records
    BY <2>1, DeleteShrinks
  <2>5. Remover(q)'
    BY <1>0, <2>0, <2>4 DEF Remover
  <2>6. OnePerPath'
    BY <1>0, <2>4 DEF OnePerPath
  <2>7. Gone(q)'
    <3> SUFFICES ASSUME ~misread[q] PROVE Gone(q)'
      BY <2>0 DEF Gone
    <3>1. (\A k : ~Present(k) => ~Present(k)') /\ ~Present(key)'
      BY <2>1, <2>2, DeletePresent
    <3>2. CASE left[q] # {key}
      <4>1. left'[q] = left[q] \ {key} /\ pc' = pc
        BY <1>0, <2>1, <3>2 DEF Advance, TypeOK
      <4> QED
        BY <1>0, <2>0, <3>1, <4>1 DEF Gone
    <3>3. CASE left[q] = {key}
      <4>1. left'[q] = plan[q] /\ pc'[q] = AfterLast(q, ~failed[q])
        BY <1>0, <2>1, <3>3 DEF Advance, TypeOK, Goto
      <4>2. pc'[q] # "delete"
        BY <4>1 DEF AfterLast
      <4>3. pc'[q] = "removed" => (pc[q] = "delete" /\ ~failed[q]) \/ pc[q] = "retry"
        BY <2>0, <4>1 DEF AfterLast
      <4>4. pc'[q] = "removed" => \A k \in plan[q] : ~Present(k)'
        BY <1>0, <3>1, <3>3, <4>3 DEF Gone
      <4> QED
        BY <2>0, <4>1, <4>2, <4>4 DEF Gone
    <3> QED
      BY <3>2, <3>3
  <2>8. ~skipped => Numbered'
    <3> SUFFICES ASSUME ~skipped PROVE Numbered'
      OBVIOUS
    <3>1. CASE records' = records
      BY <1>0, <3>1 DEF Numbered, InOrder
    <3>2. CASE records' # records
      <4>1. key.table = "record" /\ records' = {r \in records : r.uri # key.uri}
        BY <2>1, <3>2 DEF Delete
      <4>2. PICK last \in records : last.uri = key.uri
        BY <3>2, <4>1
      <4>3. records' = records \ {last}
        BY <1>0, <4>1, <4>2 DEF Fresh
      <4>4. ASSUME NEW r \in records, last.ord < r.ord PROVE FALSE
        <5>1. PICK k \in plan[q] : k.uri = r.uri
          BY <1>0, <2>0 DEF Remover
        <5>2. PICK l \in left[q] : l.uri = r.uri
          BY <1>0, <5>1 DEF Planned
        <5>3. key.nth < l.nth
          BY <1>0, <2>0, <2>2, <4>2, <4>4, <5>2 DEF Remover
        <5> QED
          BY <2>1, <5>2, <5>3 DEF Deletion, Precedes
      <4> QED
        BY <1>0, <4>3, <4>4, NumberedRemove DEF Typed
    <3> QED
      BY <3>1, <3>2
  <2> QED
    BY <1>0, <1>2, <2>0, <2>3, <2>5, <2>6, <2>7, <2>8
<1>7. CASE SkipDelete(q) \/ Misread(q)
  <2>0. /\ pc[q] \in {"delete", "retry"} /\ left[q] \subseteq plan[q] /\ removing
        /\ UNCHANGED <<records, refs, blobs, removing, holder, plan>>
        /\ ~skipped' => ~skipped
        /\ (pc[q] = "delete" /\ failed'[q] /\ misread' = misread) \/ (pc[q] = "retry" /\ misread'[q])
    BY <1>0, <1>7 DEF SkipDelete, Misread, uploading, rows, history, Remover, TypeOK
  <2>1. PICK key \in Deletion(left[q]) : Advance(q, key, FALSE)
    BY <1>7 DEF SkipDelete, Misread
  <2>2. pc'[q] \in {"delete", "retry", "removed"}
    BY <1>0, <2>0, <2>1, DeletionType, AdvanceType
  <2>3. Remover(q)'
    BY <1>0, <2>0, <2>2 DEF Remover
  <2>4. Gone(q)'
    <3> SUFFICES ASSUME pc[q] = "delete", failed'[q] PROVE Gone(q)'
      BY <2>0 DEF Gone
    <3>1. pc' = pc \/ (pc'[q] = "retry" /\ left'[q] = plan[q])
      BY <1>0, <2>1 DEF Advance, AfterLast, Goto, TypeOK
    <3> QED
      BY <2>0, <3>1 DEF Gone
  <2> QED
    BY <1>0, <1>2, <2>0, <2>2, <2>3, <2>4 DEF OnePerPath, Numbered, InOrder
<1>8. CASE EndRemoval(q)
  <2>1. pc'[q] = "idle" /\ plan'[q] = {} /\ records' = {} /\ posted' = {} /\ ~skipped' /\ ~removing'
    BY <1>0, <1>8, EndType DEF EndRemoval
  <2>2. Numbered'
    <3>1. Cardinality(records') = 0 /\ {r.ord : r \in records'} = {}
      BY <2>1, FS_EmptySet
    <3> QED
      BY <2>1, <3>1 DEF Numbered, InOrder
  <2>3. OnePerPath' /\ Posted' /\ Uploader(q)' /\ Remover(q)' /\ Gone(q)'
    BY <2>1 DEF OnePerPath, Posted, Uploader, Remover, Gone
  <2> QED
    BY <1>1, <1>8, <2>1, <2>2, <2>3, AloneStep DEF Step
<1> QED
  BY <1>3, <1>4, <1>5, <1>6, <1>7, <1>8 DEF Removal

LEMMA ServeStep == Typed /\ StoreInv /\ ServeInv /\ [Next]_vars => ServeInv'
<1> SUFFICES ASSUME Typed, Typed', StoreInv, ServeInv, [Next]_vars, ~overrun' PROVE ServeInv'
  BY TypedStep DEF ServeInv
<1>1. CASE overrun
  <2>1. overrun'
    BY <1>1 DEF Next, Upload, Removal, BeginUpload, ReadRecords, ReadThrows, SkipFile, PutRecord, PutBlob,
                PutRef, PutHash, Answer, BeginRemoval, Collect, CollectThrows, DeleteNext, SkipDelete,
                Misread, EndRemoval, Fail, LeaseEnds, vars, history
  <2> QED
    BY <2>1
<1>2. ASSUME ~overrun, NEW q \in Request, Fail(q) PROVE ServeInv'
  <2>1. \A p \in Request : p # q => pc[p] = "idle"
    BY <1>2, Alone DEF Typed, Fail
  <2>2. pc'[q] = "idle" /\ plan'[q] = {} /\ UNCHANGED <<records, removing, posted, skipped>>
    BY <1>2, EndType DEF Typed, Fail, rows, history
  <2>3. /\ skipped' => removing'
        /\ ~skipped' => Numbered'
        /\ OnePerPath'
        /\ ~removing' => Posted'
        /\ Uploader(q)' /\ Remover(q)' /\ Gone(q)'
    BY <1>2, <2>2 DEF ServeInv, OnePerPath, Posted, Numbered, InOrder, Uploader, Remover, Gone
  <2> QED
    BY <1>2, <2>1, <2>2, <2>3, AloneStep DEF Step
<1>3. ASSUME NEW q \in Request, LeaseEnds(q) PROVE FALSE
  BY <1>3 DEF LeaseEnds
<1>4. CASE UNCHANGED vars
  BY <1>4 DEF vars, rows, uploading, deleting, history, ServeInv, OnePerPath, Posted, Numbered, InOrder,
              Uploader, Remover, Gone, Present
<1> QED
  BY <1>1, <1>2, <1>3, <1>4, ServeUpload, ServeRemoval DEF Next

\* An empty file has no parts, and getFile answers 404 for it.
NoEmptyFile == \A c \in Content : Parts[c] # 0

\* A whole file can be read, and fetched if no other has its path.
LEMMA WholeIsFetched ==
  ASSUME TypeOK, NoEmptyFile, InOrder(records), OnePerPath, NEW r \in records, r.hash # Null,
         Stored(r.uri, r.hash, Parts[r.hash], Parts[r.hash])
  PROVE  Fetch(r.path) = r.hash
<1>1. r.hash \in Content /\ Parts[r.hash] \in Nat /\ Parts[r.hash] # 0
  BY BlobAssumption DEF TypeOK, Record, NoEmptyFile
<1>2. PartsOf(r) = 1 .. Parts[r.hash]
  <2>1. \A i \in 1 .. Parts[r.hash] : i \in PartsOf(r)
    <3> SUFFICES ASSUME NEW i \in 1 .. Parts[r.hash] PROVE i \in PartsOf(r)
      OBVIOUS
    <3>1. [uri |-> r.uri, part |-> i] \in refs
      BY DEF Stored
    <3> QED
      BY <3>1 DEF PartsOf
  <2> QED
    BY <2>1 DEF PartsOf, Stored
<1>3. Readable(r)
  <2>1. Cardinality(PartsOf(r)) = Parts[r.hash]
    BY <1>1, <1>2, FS_Interval
  <2>2. \A i \in 1 .. Parts[r.hash] : \E b \in BlobsOf(r) : b.part = i
    <3> SUFFICES ASSUME NEW i \in 1 .. Parts[r.hash] PROVE \E b \in BlobsOf(r) : b.part = i
      OBVIOUS
    <3>1. [uri |-> r.uri, part |-> i, content |-> r.hash] \in BlobsOf(r)
      BY DEF BlobsOf, Stored
    <3> QED
      BY <3>1
  <2> QED
    BY <1>2, <2>1, <2>2 DEF Readable
<1>4. \A b \in BlobsOf(r) : b.content = r.hash
  BY DEF BlobsOf, Stored
<1>5. {x \in records : x.path = r.path} = {r}
  BY DEF OnePerPath
<1>6. (CHOOSE x \in {r} : \A y \in {r} : x.ord <= y.ord) = r
  <2>1. r.ord <= r.ord
    BY DEF TypeOK, Record
  <2> QED
    BY <2>1
<1> QED
  BY <1>1, <1>2, <1>3, <1>4, <1>5, <1>6 DEF Fetch

LEMMA AllSteps == Spec => [](Typed /\ StoreInv /\ ServeInv)
<1>1. Init => Typed /\ StoreInv /\ ServeInv
  BY InitTyped, InitStore, InitServe
<1>2. Typed /\ StoreInv /\ ServeInv /\ [Next]_vars => (Typed /\ StoreInv /\ ServeInv)'
  BY TypedStep, StoreStep, ServeStep
<1> QED
  BY <1>1, <1>2, PTL DEF Spec

(* As long as no request outlives its lease and no file is empty: the         *)
(* attachments are numbered without gaps, and the files of every upload that  *)
(* was answered with success can be fetched with the content that was sent,   *)
(* until the set is removed, wherever other uploads and removals stop.        *)
THEOREM UploadsAreServed == NoEmptyFile => (Spec => []PostedIsServed)
<1> SUFFICES ASSUME NoEmptyFile PROVE Spec => []PostedIsServed
  OBVIOUS
<1>1. Typed /\ StoreInv /\ ServeInv => PostedIsServed
  <2> SUFFICES ASSUME Typed, StoreInv, ServeInv, ~overrun PROVE PostedIsServed
    BY DEF PostedIsServed
  <2>1. /\ TypeOK /\ Whole
        /\ skipped => removing
        /\ ~skipped => InOrder(records)
        /\ OnePerPath
        /\ ~removing => Posted
    BY DEF Typed, StoreInv, ServeInv, Numbered
  <2>2. ASSUME ~removing, NEW f \in posted PROVE Fetch(f.path) = f.content
    <3>1. PICK r \in records : r.path = f.path /\ r.hash = f.content
      BY <2>1, <2>2 DEF Posted
    <3>2. r.hash # Null
      BY <2>1, <3>1, BlobAssumption DEF TypeOK, File
    <3>3. InOrder(records) /\ Stored(r.uri, r.hash, Parts[r.hash], Parts[r.hash])
      BY <2>1, <2>2, <3>2 DEF Whole
    <3> QED
      BY <2>1, <3>1, <3>2, <3>3, WholeIsFetched
  <2> QED
    BY <2>1, <2>2 DEF PostedIsServed
<1> QED
  BY <1>1, AllSteps, PTL

(* As long as no request outlives its lease: a removal that reports success,  *)
(* and did not take a row it could not read for deleted, has left no record   *)
(* of the set, and none of the rows it was to delete, even if deletes failed. *)
THEOREM RemovalsAreComplete == Spec => []RemovedMeansGone
<1>1. Typed /\ StoreInv /\ ServeInv => RemovedMeansGone
  <2> SUFFICES ASSUME ServeInv, NEW q \in Request, pc[q] = "removed", ~misread[q], ~overrun
               PROVE  records = {} /\ \A k \in plan[q] : ~Present(k)
    BY DEF RemovedMeansGone
  <2>1. Remover(q) /\ Gone(q)
    BY DEF ServeInv
  <2>2. \A k \in plan[q] : ~Present(k)
    BY <2>1 DEF Gone
  <2>3. ASSUME NEW r \in records PROVE FALSE
    <3>1. PICK k \in plan[q] : k.uri = r.uri /\ k.table = "record"
      BY <2>1 DEF Remover
    <3> QED
      BY <2>2, <3>1 DEF Present
  <2> QED
    BY <2>2, <2>3
<1> QED
  BY <1>1, AllSteps, PTL

-----------------------------------------------------------------------------
(* What has been answered with success is not refused.                         *)

\* A request at rest has refused nothing; a request that has refused did so for
\* a file that no successful upload brought.
Fair(q) == refused[q] => pc[q] # "idle" /\ \E i \in 1 .. done[q] : files[q][i] \notin posted

RepeatInv == ~overrun => \A q \in Request : Fair(q)

\* The steps that begin a request, and those after which it goes on.
Begun(q) == BeginUpload(q) \/ BeginRemoval(q)
Going(q) ==
  \/ ReadRecords(q) \/ PutRecord(q) \/ PutBlob(q) \/ PutRef(q) \/ PutHash(q)
  \/ Collect(q) \/ DeleteNext(q) \/ SkipDelete(q) \/ Misread(q)

\* A step of q, while no other is at work, touches what q has refused only.
LEMMA FairStep ==
  ASSUME Typed, RepeatInv, ~overrun, NEW q \in Request, Step(q),
         \A p \in Request : p # q => pc[p] = "idle", Fair(q)'
  PROVE  RepeatInv'
<1>1. ASSUME NEW p \in Request, p # q PROVE Fair(p)'
  <2>1. ~refused[p]
    BY <1>1 DEF RepeatInv, Fair
  <2> QED
    BY <1>1, <2>1, OthersUntouched DEF Typed, Untouched, Fair
<1> QED
  BY <1>1 DEF RepeatInv

LEMMA RepeatStep == Typed /\ StoreInv /\ ServeInv /\ RepeatInv /\ [Next]_vars => RepeatInv'
<1> SUFFICES ASSUME Typed, Typed', StoreInv, ServeInv, RepeatInv, [Next]_vars, ~overrun'
             PROVE  RepeatInv'
  BY TypedStep DEF RepeatInv
<1>0. ~overrun /\ TypeOK
  <2>1. ASSUME overrun PROVE overrun'
    BY <2>1 DEF Next, Upload, Removal, BeginUpload, ReadRecords, ReadThrows, SkipFile, PutRecord, PutBlob,
                PutRef, PutHash, Answer, BeginRemoval, Collect, CollectThrows, DeleteNext, SkipDelete,
                Misread, EndRemoval, Fail, LeaseEnds, vars, history
  <2> QED
    BY <2>1 DEF Typed
<1>1. CASE UNCHANGED vars
  BY <1>1 DEF vars, uploading, history, RepeatInv, Fair
<1>2. ASSUME NEW q \in Request, Upload(q) \/ Removal(q) \/ Fail(q) PROVE RepeatInv'
  <2>0. Step(q) /\ Place(q) /\ Place(q)' /\ Uploader(q) /\ Fair(q) /\ OnePerPath /\ (~removing => Posted)
    BY <1>0, <1>2 DEF Step, Typed, ServeInv, RepeatInv
  <2>1. \A p \in Request : p # q => pc[p] = "idle"
    <3>1. pc[q] # "idle" \/ holder = Nobody
      BY <1>2 DEF Upload, Removal, BeginUpload, ReadRecords, ReadThrows, SkipFile, PutRecord, PutBlob,
                  PutRef, PutHash, Answer, BeginRemoval, Collect, CollectThrows, DeleteNext, SkipDelete,
                  Misread, EndRemoval, Fail
    <3> QED
      BY <1>0, <3>1, Alone
  <2>2. ASSUME pc'[q] = "idle" PROVE RepeatInv'
    <3>1. End(q)
      BY <1>0, <1>2, <2>2
      DEF Upload, Removal, BeginUpload, ReadRecords, ReadThrows, SkipFile, PutRecord, PutBlob, PutRef,
          PutHash, Answer, BeginRemoval, Collect, CollectThrows, DeleteNext, SkipDelete, Misread,
          EndRemoval, Fail, Goto, AfterPart, Advance, AfterLast, TypeOK
    <3>2. ~refused'[q]
      BY <1>0, <3>1 DEF End, Forget, TypeOK
    <3> QED
      BY <1>0, <2>0, <2>1, <3>2, FairStep DEF Fair
  <2>3. CASE SkipFile(q)
    <3>1. /\ pc[q] = "scan" /\ pc' = pc /\ UNCHANGED <<posted, files>>
          /\ done'[q] = done[q] + 1 /\ done[q] \in Nat /\ refused'[q] = Refused(q)
      BY <1>0, <2>3 DEF SkipFile, TypeOK, history
    <3>2. ASSUME refused[q] PROVE Fair(q)'
      <4>1. PICK i \in 1 .. done[q] : files[q][i] \notin posted
        BY <2>0, <3>2 DEF Fair
      <4>2. i \in 1 .. done'[q] /\ files'[q][i] \notin posted' /\ pc'[q] # "idle"
        BY <3>1, <4>1
      <4> QED
        BY <4>2 DEF Fair
    <3>3. ASSUME NEW r \in Same(q), r.hash # Current(q).content PROVE Fair(q)'
      <4>1. ~removing /\ r \in records /\ r.path = Current(q).path
        BY <2>0, <3>1, <3>3 DEF Uploader, Same
      <4>2. Current(q) \notin posted
        BY <2>0, <3>3, <4>1 DEF Posted, OnePerPath
      <4> QED
        BY <3>1, <4>2 DEF Fair, Current
    <3>4. Fair(q)'
      <4>1. CASE refused[q] \/ \E r \in Same(q) : r.hash # Current(q).content
        BY <3>2, <3>3, <4>1
      <4>2. CASE ~refused'[q]
        BY <4>2 DEF Fair
      <4> QED
        BY <3>1, <4>1, <4>2 DEF Refused
    <3> QED
      BY <1>0, <2>0, <2>1, <3>4, FairStep
  <2>4. ASSUME ~SkipFile(q), pc'[q] # "idle" PROVE RepeatInv'
    <3>1. Begun(q) \/ Going(q) \/ EndRemoval(q) \/ Fail(q) \/ Answer(q) \/ ReadThrows(q) \/ CollectThrows(q)
      BY <1>2, <2>4 DEF Upload, Removal, Begun, Going
    <3>2. ~(EndRemoval(q) \/ Fail(q) \/ Answer(q) \/ ReadThrows(q) \/ CollectThrows(q))
      BY <1>0, <2>4 DEF EndRemoval, Fail, Answer, ReadThrows, CollectThrows, End, Goto, TypeOK
    <3>3. CASE Begun(q)
      <4>1. refused' = refused /\ pc[q] = "idle"
        BY <3>3 DEF Begun, BeginUpload, BeginRemoval, uploading
      <4> QED
        BY <1>0, <2>0, <2>1, <4>1, FairStep DEF Fair
    <3>4. CASE Going(q)
      <4>1. UNCHANGED <<posted, files, refused>> /\ done[q] \in Nat /\ done'[q] \in {done[q], done[q] + 1}
        BY <1>0, <3>4 DEF Going, ReadRecords, PutRecord, PutBlob, PutRef, PutHash, Collect, DeleteNext,
                          SkipDelete, Misread, uploading, history, TypeOK
      <4>2. Fair(q)'
        BY <2>0, <2>4, <4>1 DEF Fair
      <4> QED
        BY <1>0, <2>0, <2>1, <4>2, FairStep
    <3> QED
      BY <3>1, <3>2, <3>3, <3>4
  <2> QED
    BY <2>2, <2>3, <2>4
<1>3. ASSUME NEW q \in Request, LeaseEnds(q) PROVE FALSE
  BY <1>3 DEF LeaseEnds
<1> QED
  BY <1>1, <1>2, <1>3 DEF Next

(* As long as no request outlives its lease: an upload that was answered with *)
(* success and is sent again is not refused, whatever has stopped since.      *)
THEOREM UploadsCanBeRepeated == Spec => []RepeatsSucceed
<1>1. Init => RepeatInv
  BY DEF Init, RepeatInv, Fair
<1>2. RepeatInv => RepeatsSucceed
  BY DEF RepeatInv, Fair, RepeatsSucceed
<1> QED
  BY <1>1, <1>2, AllSteps, RepeatStep, PTL DEF Spec
=============================================================================
