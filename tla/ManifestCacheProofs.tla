-------------------------- MODULE ManifestCacheProofs --------------------------
(***************************************************************************)
(* For any devices, writers, client versions, paths and contents, and any  *)
(* failures: the types; and, if queries do not fail unnoticed (OnlyTrue),  *)
(* that a path has one entry and that an ETag stored in time is true.      *)
(***************************************************************************)
EXTENDS ManifestCache, TLAPS

\* A query that fails is not taken for one without results.
OnlyTrue == QueriesMayFail = FALSE

\* A request is where its code can be; whoever writes has the lock.
Places ==
  /\ \A w \in Writer : pc[w] \in WriterStage
  /\ \A d \in Device : pc[d] \in DeviceStage
  /\ \A w \in Writer : pc[w] # "idle" => holder = w /\ writes > 0
  /\ \A w \in Writer : pc[w] \in {"add", "put"} => op[w].content # Nothing

Inv == TypeOK /\ Places

-----------------------------------------------------------------------------
(* Types.                                                                  *)

LEMMA NoOpType == NoOp \in Write
<1>1. PICK v \in Version, p \in Path : TRUE
  BY ManifestAssumption
<1>2. <<v, p>> \in Key
  BY DEF Key
<1>3. (CHOOSE k \in Key : TRUE) \in Key
  BY <1>2
<1> QED
  BY <1>3 DEF NoOp, Write

\* A manifest lists paths with their contents.
LEMMA ListedType ==
  ASSUME TypeOK, NEW v
  PROVE  Listed(v) \in Manifest
  BY DEF TypeOK, Listed, Manifest, Entry, Blob, Key

\* The answers of a query are rows of what was asked, or none.
LEMMA ResultsType ==
  ASSUME NEW S, NEW rows \in SUBSET S, NEW answer \in Results(rows)
  PROVE  answer \in SUBSET S
  BY DEF Results

LEMMA InitInv == Init => Inv
  BY NoOpType, ManifestAssumption
  DEF Init, Inv, TypeOK, Places, WriterStage, DeviceStage, Id, Manifest

LEMMA InvStep == Inv /\ [Next]_vars => Inv'
<1> SUFFICES ASSUME Inv, [Next]_vars PROVE Inv'
  OBVIOUS
<1> USE ManifestAssumption DEF Inv, TypeOK, Places, WriterStage, DeviceStage, Goto
<1>1. ASSUME NEW w \in Writer, Acquire(w) PROVE Inv'
  BY <1>1 DEF Acquire, reading, Write
<1>2. ASSUME NEW w \in Writer, ClearETag(w) PROVE Inv'
  BY <1>2 DEF ClearETag
<1>3. ASSUME NEW w \in Writer, FindEntries(w) PROVE Inv'
  <2>1. PICK rows \in Results(Matching(op[w].key)) :
          found' = [found EXCEPT ![w] = rows] /\ pc' = [pc EXCEPT ![w] = AfterQuery(w, rows)]
    BY <1>3 DEF FindEntries
  <2>2. rows \in SUBSET Entry
    BY ResultsType DEF Matching
  <2>3. /\ AfterQuery(w, rows) \in {"add", "release", "clear", "remove"}
        /\ AfterQuery(w, rows) = "add" => op[w].content # Nothing
    BY DEF AfterQuery, AfterRemoval
  <2> QED
    BY <1>3, <2>1, <2>2, <2>3 DEF FindEntries, reading
<1>4. ASSUME NEW w \in Writer, RemoveBlob(w) PROVE Inv'
  BY <1>4 DEF RemoveBlob, reading
<1>5. ASSUME NEW w \in Writer, DropEntry(w) PROVE Inv'
  BY <1>5 DEF DropEntry, reading, AfterRemoval
<1>6. ASSUME NEW w \in Writer, AddBlob(w) PROVE Inv'
  BY <1>6 DEF AddBlob, reading, NewEntry, Entry, Blob, Id, Write
<1>7. ASSUME NEW w \in Writer, PutEntry(w) PROVE Inv'
  BY <1>7 DEF PutEntry, reading
<1>8. ASSUME NEW w \in Writer, Release(w) PROVE Inv'
  BY <1>8, NoOpType DEF Release, reading, Write
<1>9. ASSUME NEW w \in Writer, Fail(w) PROVE Inv'
  BY <1>9, NoOpType DEF Fail, reading
<1>10. ASSUME NEW d \in Device, ReadETag(d) PROVE Inv'
  BY <1>10, ResultsType DEF ReadETag
<1>11. ASSUME NEW d \in Device, KeepManifest(d) PROVE Inv'
  BY <1>11 DEF KeepManifest, reading
<1>12. ASSUME NEW d \in Device, ComputeManifest(d) PROVE Inv'
  <2>1. PICK rows \in Results(Listed(VersionOf[d])) : computed' = [computed EXCEPT ![d] = rows]
    BY <1>12 DEF ComputeManifest
  <2>2. rows \in Manifest
    BY ListedType DEF Results, Manifest
  <2> QED
    BY <1>12, <2>1, <2>2 DEF ComputeManifest
<1>13. ASSUME NEW d \in Device, StoreETag(d) PROVE Inv'
  <2>1. NewETag(d) \in ETag
    BY DEF NewETag, ETag
  <2>2. Written(d) \subseteq ETag
    BY <2>1 DEF Written
  <2> QED
    BY <1>13, <2>2 DEF StoreETag, Finish, Manifest
<1>14. ASSUME NEW d \in Device, StoreFails(d) PROVE Inv'
  BY <1>14 DEF StoreFails, Finish, Manifest
<1>15. CASE UNCHANGED vars
  BY <1>15 DEF vars, reading
<1> QED
  BY <1>1, <1>2, <1>3, <1>4, <1>5, <1>6, <1>7, <1>8, <1>9, <1>10, <1>11, <1>12, <1>13, <1>14, <1>15
  DEF Next, WriterStep, Answer

\* Everything keeps its type, and who writes has the lock, whatever fails.
THEOREM TypeCorrect == Spec => []TypeOK
<1>1. Inv => TypeOK
  BY DEF Inv
<1> QED
  BY <1>1, InitInv, InvStep, PTL DEF Spec

-----------------------------------------------------------------------------
(* One entry per path.                                                     *)

\* A writer that knows which entries to remove, before it has removed them.
Removing(w) ==
  pc[w] \in {"remove", "drop"} \/ (pc[w] = "clear" /\ op[w].content = Nothing)

\* What a writer has found is what there is; when it adds there is nothing left.
Sole ==
  /\ OneEntryPerPath
  /\ \A w \in Writer : Removing(w) => Matching(op[w].key) = found[w]
  /\ \A w \in Writer : pc[w] \in {"add", "put"} => Matching(op[w].key) = {}
  /\ \A w \in Writer : pc[w] = "put" => found[w] = {NewEntry(w)}

LEMMA InitSole == Init => Sole
  BY DEF Init, Sole, Removing, OneEntryPerPath

\* Of two requests that write one has the lock, so there is no second one.
LEMMA OthersIdle ==
  ASSUME Inv, NEW w \in Writer, pc[w] # "idle"
  PROVE  \A v \in Writer \ {w} : pc[v] = "idle"
  BY DEF Inv, Places

\* While the lock is free no writer is at work.
LEMMA FreeMeansIdle ==
  ASSUME Inv, holder = Nobody, NEW w \in Writer
  PROVE  pc[w] = "idle"
  BY ManifestAssumption DEF Inv, Places

\* A step that neither touches the entries nor brings a writer to a new place
\* about which something is said.
LEMMA SoleKept ==
  ASSUME Inv, Sole, UNCHANGED <<entries, op, found, writes>>,
         \A w \in Writer : pc'[w] = pc[w] \/ pc'[w] \in {"idle", "find", "release"}
  PROVE  Sole'
  BY DEF Sole, Removing, OneEntryPerPath, Matching, NewEntry

LEMMA SoleStep == OnlyTrue /\ Inv /\ Sole /\ [Next]_vars => Sole'
<1> SUFFICES ASSUME OnlyTrue, Inv, Sole, [Next]_vars PROVE Sole'
  OBVIOUS
<1> USE ManifestAssumption DEF Goto, Removing
<1>a. /\ pc \in [Writer \cup Device -> WriterStage \cup DeviceStage]
      /\ op \in [Writer -> Write] /\ found \in [Writer -> SUBSET Entry]
  BY DEF Inv, TypeOK
<1>1. ASSUME NEW w \in Writer, Acquire(w) PROVE Sole'
  <2>1. \A v \in Writer : v # w => pc'[v] = "idle"
    BY <1>1, <1>a, FreeMeansIdle DEF Acquire
  <2>2. pc'[w] = "find" \/ (pc'[w] = "clear" /\ op'[w].content # Nothing)
    BY <1>1, <1>a DEF Acquire
  <2> QED
    BY <1>1, <2>1, <2>2 DEF Acquire, Sole, OneEntryPerPath
<1>2. ASSUME NEW w \in Writer, ClearETag(w) PROVE Sole'
  <2>1. \A v \in Writer : v # w => pc'[v] = "idle"
    BY <1>2, <1>a, OthersIdle DEF ClearETag
  <2>2. pc'[w] = IF op[w].content = Nothing THEN "remove" ELSE "find"
    BY <1>2, <1>a DEF ClearETag
  <2> QED
    BY <1>2, <2>1, <2>2 DEF ClearETag, Sole, OneEntryPerPath, Matching
<1>3. ASSUME NEW w \in Writer, FindEntries(w) PROVE Sole'
  <2>1. \A v \in Writer : v # w => pc'[v] = "idle"
    BY <1>3, <1>a, OthersIdle DEF FindEntries
  <2>2. /\ found'[w] = Matching(op[w].key)
        /\ pc'[w] = AfterQuery(w, Matching(op[w].key))
    BY <1>3, <1>a DEF FindEntries, Results, OnlyTrue
  <2>3. pc'[w] \in {"remove", "clear"} \/ (pc'[w] \in {"add", "release"} /\ Matching(op[w].key) = {})
    BY <2>2 DEF AfterQuery, AfterRemoval
  <2> QED
    BY <1>3, <2>1, <2>2, <2>3 DEF FindEntries, Sole, OneEntryPerPath, Matching
<1>4. ASSUME NEW w \in Writer, RemoveBlob(w) PROVE Sole'
  <2>1. \A v \in Writer : v # w => pc'[v] = "idle"
    BY <1>4, <1>a, OthersIdle DEF RemoveBlob
  <2>2. pc'[w] = "drop"
    BY <1>4, <1>a DEF RemoveBlob
  <2> QED
    BY <1>4, <2>1, <2>2 DEF RemoveBlob, Sole, OneEntryPerPath, Matching
<1>5. ASSUME NEW w \in Writer, DropEntry(w) PROVE Sole'
  <2>1. \A v \in Writer : v # w => pc'[v] = "idle"
    BY <1>5, <1>a, OthersIdle DEF DropEntry
  <2>2. PICK e \in found[w] :
          /\ entries' = entries \ {e}
          /\ found' = [found EXCEPT ![w] = @ \ {e}]
          /\ pc' = [pc EXCEPT ![w] = IF found[w] = {e} THEN AfterRemoval(w) ELSE "remove"]
    BY <1>5 DEF DropEntry
  <2>3. op' = op /\ pc[w] = "drop"
    BY <1>5 DEF DropEntry
  <2>4. Matching(op[w].key)' = found'[w]
    BY <1>a, <2>2, <2>3 DEF Sole, Matching
  <2>5. pc'[w] = "remove" \/ (pc'[w] \in {"add", "release"} /\ found'[w] = {})
    BY <1>a, <2>2 DEF AfterRemoval
  <2> QED
    BY <2>1, <2>2, <2>3, <2>4, <2>5 DEF Sole, OneEntryPerPath
<1>6. ASSUME NEW w \in Writer, AddBlob(w) PROVE Sole'
  <2>1. \A v \in Writer : v # w => pc'[v] = "idle"
    BY <1>6, <1>a, OthersIdle DEF AddBlob
  <2>2. pc'[w] = "put" /\ found'[w] = {NewEntry(w)}'
    BY <1>6, <1>a DEF AddBlob, NewEntry
  <2> QED
    BY <1>6, <2>1, <2>2 DEF AddBlob, Sole, OneEntryPerPath, Matching
<1>7. ASSUME NEW w \in Writer, PutEntry(w) PROVE Sole'
  <2>1. \A v \in Writer : pc'[v] \in {"idle", "release"}
    BY <1>7, <1>a, OthersIdle DEF PutEntry
  <2>2. entries' = entries \cup {NewEntry(w)} /\ Matching(NewEntry(w).key) = {}
    BY <1>7 DEF PutEntry, Sole, NewEntry
  <2>3. OneEntryPerPath'
    BY <2>2 DEF Sole, OneEntryPerPath, Matching
  <2> QED
    BY <2>1, <2>3 DEF Sole
<1>8. ASSUME NEW w \in Writer, Release(w) \/ Fail(w) PROVE Sole'
  <2>1. \A v \in Writer : pc'[v] = "idle"
    BY <1>8, <1>a, OthersIdle DEF Release, Fail
  <2> QED
    BY <1>8, <2>1 DEF Release, Fail, Sole, OneEntryPerPath
<1>9. ASSUME NEW d \in Device, Answer(d) \/ ComputeManifest(d) PROVE Sole'
  <2>1. \A w \in Writer : pc'[w] = pc[w]
    BY <1>9, <1>a
    DEF Answer, ReadETag, KeepManifest, StoreETag, StoreFails, Finish, ComputeManifest
  <2>2. UNCHANGED <<entries, op, found, writes>>
    BY <1>9 DEF Answer, ReadETag, KeepManifest, StoreETag, StoreFails, Finish, ComputeManifest
  <2> QED
    BY <2>1, <2>2, SoleKept
<1>10. CASE UNCHANGED vars
  BY <1>10, SoleKept DEF vars
<1> QED
  BY <1>1, <1>2, <1>3, <1>4, <1>5, <1>6, <1>7, <1>8, <1>9, <1>10 DEF Next, WriterStep

\* FileManager.java:165, proved: a client version never has two entries of one
\* path, with any number of writers, whatever stops them and wherever.
THEOREM OneEntry == OnlyTrue => (Spec => []OneEntryPerPath)
<1> SUFFICES ASSUME OnlyTrue PROVE Spec => []OneEntryPerPath
  OBVIOUS
<1>1. Sole => OneEntryPerPath
  BY DEF Sole
<1>2. Init => Inv /\ Sole
  BY InitInv, InitSole
<1>3. Inv /\ Sole /\ [Next]_vars => Inv' /\ Sole'
  BY InvStep, SoleStep
<1> QED
  BY <1>1, <1>2, <1>3, PTL DEF Spec

-----------------------------------------------------------------------------
(* ETags.                                                                  *)

\* A writer that has cleared the ETag and may change the files.
Cleared(w) ==
  pc[w] \in {"remove", "drop", "add", "put"} \/ (pc[w] = "find" /\ op[w].content # Nothing)

\* A manifest not outdated is the current one; once a writer has cleared the
\* ETag, every manifest and every ETag that still turns up is known to be late.
Timely ==
  /\ TimelyETagsAreTrue
  /\ \A d \in Device : pc[d] = "store" /\ ~late[d] => computed[d] = Listed(VersionOf[d])
  /\ \A w \in Writer : Cleared(w) =>
       /\ \A r \in etag : r.late
       /\ \A d \in Device : pc[d] = "store" => late[d]

LEMMA InitTimely == Init => Timely
  BY DEF Init, Timely, TimelyETagsAreTrue, Cleared

\* A step of a writer that leaves the manifests as they are.
LEMMA TimelyKept ==
  ASSUME Inv, Timely, UNCHANGED <<etag, late, computed, entries, blobs>>,
         \A d \in Device : pc'[d] = "store" => pc[d] = "store",
         \A w \in Writer : Cleared(w)' => Cleared(w)
  PROVE  Timely'
  BY DEF Timely, TimelyETagsAreTrue, Listed

\* A step of a writer that has cleared the ETag, whatever it does to the files.
LEMMA TimelyAfterClear ==
  ASSUME Inv, Timely, UNCHANGED <<etag, late, computed>>,
         NEW w \in Writer, Cleared(w),
         \A d \in Device : pc'[d] = "store" => pc[d] = "store"
  PROVE  Timely'
<1>1. (\A r \in etag : r.late) /\ \A d \in Device : pc[d] = "store" => late[d]
  BY DEF Timely
<1> QED
  BY <1>1 DEF Timely, TimelyETagsAreTrue

LEMMA TimelyStep == OnlyTrue /\ Inv /\ Timely /\ [Next]_vars => Timely'
<1> SUFFICES ASSUME OnlyTrue, Inv, Timely, [Next]_vars PROVE Timely'
  OBVIOUS
<1> USE ManifestAssumption DEF Goto, Cleared, reading
<1>a. /\ pc \in [Writer \cup Device -> WriterStage \cup DeviceStage]
      /\ op \in [Writer -> Write] /\ late \in [Device -> BOOLEAN]
      /\ computed \in [Device -> Manifest]
  BY DEF Inv, TypeOK
<1>1. ASSUME NEW w \in Writer, Acquire(w) PROVE Timely'
  <2>1. \A v \in Writer : ~Cleared(v)'
    <3>1. \A v \in Writer : v # w => pc'[v] = "idle"
      BY <1>1, <1>a, FreeMeansIdle DEF Acquire
    <3>2. (pc'[w] = "find" /\ op'[w].content = Nothing) \/ pc'[w] = "clear"
      BY <1>1, <1>a DEF Acquire
    <3> QED
      BY <3>1, <3>2
  <2>2. \A d \in Device : pc'[d] = pc[d]
    BY <1>1, <1>a DEF Acquire
  <2> QED
    BY <1>1, <2>1, <2>2, TimelyKept DEF Acquire
<1>2. ASSUME NEW w \in Writer, ClearETag(w) PROVE Timely'
  <2>1. etag' = {}
    BY <1>2 DEF ClearETag, Results, OnlyTrue
  <2>2. \A d \in Device : pc'[d] = pc[d]
    BY <1>2, <1>a DEF ClearETag
  <2>3. \A d \in Device : pc'[d] = "store" => late'[d]
    BY <1>2, <2>2 DEF ClearETag
  <2> QED
    BY <2>1, <2>3 DEF Timely, TimelyETagsAreTrue
<1>3. ASSUME NEW w \in Writer, FindEntries(w) PROVE Timely'
  <2>1. PICK rows : pc' = [pc EXCEPT ![w] = AfterQuery(w, rows)]
    BY <1>3 DEF FindEntries
  <2>2. \/ op[w].content # Nothing
        \/ AfterQuery(w, rows) \in {"release", "clear"}
    BY DEF AfterQuery, AfterRemoval
  <2>3. \A v \in Writer : Cleared(v)' => Cleared(v)
    BY <1>3, <1>a, <2>1, <2>2 DEF FindEntries
  <2>4. \A d \in Device : pc'[d] = pc[d]
    BY <1>a, <2>1
  <2> QED
    BY <1>3, <2>3, <2>4, TimelyKept DEF FindEntries
<1>4. ASSUME NEW w \in Writer, RemoveBlob(w) \/ DropEntry(w) \/ AddBlob(w) \/ PutEntry(w)
      PROVE  Timely'
  <2>1. Cleared(w)
    BY <1>4 DEF RemoveBlob, DropEntry, AddBlob, PutEntry
  <2>2. \A d \in Device : pc'[d] = pc[d]
    BY <1>4, <1>a DEF RemoveBlob, DropEntry, AddBlob, PutEntry
  <2>3. UNCHANGED <<etag, late, computed>>
    BY <1>4 DEF RemoveBlob, DropEntry, AddBlob, PutEntry
  <2> QED
    BY <2>1, <2>2, <2>3, TimelyAfterClear
<1>5. ASSUME NEW w \in Writer, Release(w) \/ Fail(w) PROVE Timely'
  <2>1. \A v \in Writer : Cleared(v)' => Cleared(v)
    BY <1>5, <1>a DEF Release, Fail
  <2>2. \A d \in Device : pc'[d] = pc[d]
    BY <1>5, <1>a DEF Release, Fail
  <2> QED
    BY <1>5, <2>1, <2>2, TimelyKept DEF Release, Fail
<1>6. ASSUME NEW d \in Device, ReadETag(d) \/ KeepManifest(d) PROVE Timely'
  <2>1. \A w \in Writer : pc'[w] = pc[w]
    BY <1>6, <1>a DEF ReadETag, KeepManifest
  <2>2. \A e \in Device : pc'[e] = "store" => pc[e] = "store"
    BY <1>6, <1>a DEF ReadETag, KeepManifest
  <2> QED
    BY <1>6, <2>1, <2>2, TimelyKept DEF ReadETag, KeepManifest
<1>7. ASSUME NEW d \in Device, ComputeManifest(d) PROVE Timely'
  <2>1. \A w \in Writer : pc'[w] = "idle"
    BY <1>7, <1>a, FreeMeansIdle DEF ComputeManifest
  <2>2. computed' = [computed EXCEPT ![d] = Listed(VersionOf[d])]
    BY <1>7 DEF ComputeManifest, Results, OnlyTrue
  <2>3. \A e \in Device : pc'[e] = "store" /\ ~late'[e] =>
          e = d \/ (pc[e] = "store" /\ ~late[e] /\ computed'[e] = computed[e])
    BY <1>7, <1>a, <2>2 DEF ComputeManifest
  <2>4. \A v : Listed(v)' = Listed(v)
    BY <1>7 DEF ComputeManifest, Listed
  <2>5. \A e \in Device : pc'[e] = "store" /\ ~late'[e] => computed'[e] = Listed(VersionOf[e])
    BY <1>a, <2>2, <2>3 DEF Timely
  <2>6. TimelyETagsAreTrue'
    BY <1>7, <2>4 DEF Timely, TimelyETagsAreTrue, ComputeManifest
  <2> QED
    BY <2>1, <2>4, <2>5, <2>6 DEF Timely
<1>8. ASSUME NEW d \in Device, StoreETag(d) \/ StoreFails(d) PROVE Timely'
  <2>1. \A w \in Writer : pc'[w] = pc[w] /\ op' = op
    BY <1>8, <1>a DEF StoreETag, StoreFails, Finish
  <2>2. \A e \in Device : pc'[e] = "store" =>
          pc[e] = "store" /\ late'[e] = late[e] /\ computed'[e] = computed[e]
    BY <1>8, <1>a DEF StoreETag, StoreFails, Finish
  <2>3. \A v : Listed(v)' = Listed(v)
    BY <1>8 DEF StoreETag, StoreFails, Finish, Listed
  <2>4. \A r \in etag' : r \in etag \/ (r = NewETag(d) /\ pc[d] = "store")
    BY <1>8 DEF StoreETag, StoreFails, Written
  <2>5. \A r \in etag' : ~r.late => r.hash = Listed(r.by)
    BY <2>4 DEF Timely, TimelyETagsAreTrue, NewETag
  <2>6. \A w \in Writer : Cleared(w) => \A r \in etag' : r.late
    BY <2>4 DEF Timely, NewETag
  <2> QED
    BY <2>1, <2>2, <2>3, <2>5, <2>6 DEF Timely, TimelyETagsAreTrue
<1>9. CASE UNCHANGED vars
  BY <1>9, TimelyKept DEF vars
<1> QED
  BY <1>1, <1>2, <1>3, <1>4, <1>5, <1>6, <1>7, <1>8, <1>9 DEF Next, WriterStep, Answer

\* The ETag in the cache is the current manifest's unless a write began after
\* that manifest was computed: with any number of devices, versions and writers.
THEOREM ETagsAreTrue == OnlyTrue => (Spec => []TimelyETagsAreTrue)
<1> SUFFICES ASSUME OnlyTrue PROVE Spec => []TimelyETagsAreTrue
  OBVIOUS
<1>1. Timely => TimelyETagsAreTrue
  BY DEF Timely
<1>2. Init => Inv /\ Timely
  BY InitInv, InitTimely
<1>3. Inv /\ Timely /\ [Next]_vars => Inv' /\ Timely'
  BY InvStep, TimelyStep
<1> QED
  BY <1>1, <1>2, <1>3, PTL DEF Spec

-----------------------------------------------------------------------------
(* What was confirmed is listed.                                           *)

\* The contents the entries of a key lead to.
Shown(k) == {c \in Content : \E e \in Matching(k), b \in blobs : b.id = e.id /\ b.content = c}

\* The id of the write under way names no entry yet, and no blob but its own.
Whole ==
  /\ \A e, f \in entries : e.id = f.id => e = f
  /\ \A e \in entries : e.id <= writes
  /\ \A b \in blobs : b.id <= writes
  /\ \A w \in Writer : pc[w] \in {"clear", "find", "remove", "drop", "add", "put"} =>
       \A e \in entries : e.id # writes
  /\ \A w \in Writer : pc[w] \in {"clear", "find", "remove", "drop", "add"} =>
       \A b \in blobs : b.id # writes
  /\ \A w \in Writer : pc[w] = "put" =>
       \A b \in Blob : b \in blobs /\ b.id = writes <=> b = [id |-> writes, content |-> op[w].content]

\* The key being written is unsure; the others, and this one at the end, are not.
Settled ==
  /\ \A w \in Writer : pc[w] # "idle" => confirmed[op[w].key] = Unsure
  /\ \A w \in Writer : pc[w] = "release" => Shown(op[w].key) = {op[w].content} \ {Nothing}
  /\ \A k \in Key : confirmed[k] # Unsure => Shown(k) = {confirmed[k]} \ {Nothing}

\* The manifest of a client version lists what the entries of each key lead to.
LEMMA ShownIsListed ==
  ASSUME NEW k \in Key
  PROVE  {c \in Content : <<k[2], c>> \in Listed(k[1])} = Shown(k)
<1>1. k = <<k[1], k[2]>> /\ k[1] \in Version /\ k[2] \in Path
  BY DEF Key
<1>2. ASSUME NEW c \in Content
      PROVE  <<k[2], c>> \in Listed(k[1]) <=> c \in Shown(k)
  <2>1. <<k[2], c>> \in Listed(k[1]) <=>
          \E e \in entries, b \in blobs : e.key = k /\ b.id = e.id /\ b.content = c
    BY <1>1 DEF Listed
  <2> QED
    BY <2>1 DEF Shown, Matching
<1> QED
  BY <1>2 DEF Shown

LEMMA InitWhole == Init => Whole /\ Settled
  BY ManifestAssumption DEF Init, Whole, Settled, Shown, Matching, Id

LEMMA WholeStep == OnlyTrue /\ Inv /\ Sole /\ Whole /\ [Next]_vars => Whole'
<1> SUFFICES ASSUME OnlyTrue, Inv, Sole, Whole, [Next]_vars PROVE Whole'
  OBVIOUS
<1> USE ManifestAssumption DEF Goto
<1>a. /\ pc \in [Writer \cup Device -> WriterStage \cup DeviceStage]
      /\ op \in [Writer -> Write] /\ found \in [Writer -> SUBSET Entry]
      /\ entries \subseteq Entry /\ blobs \subseteq Blob /\ writes \in Nat
  BY DEF Inv, TypeOK
<1>b. \A e \in Entry : e.id \in Nat
  BY DEF Entry, Id
<1>c. \A b \in Blob : b.id \in Nat
  BY DEF Blob, Id
<1>1. ASSUME NEW w \in Writer, Acquire(w) PROVE Whole'
  <2>1. \A v \in Writer : v # w => pc'[v] = "idle"
    BY <1>1, <1>a, FreeMeansIdle DEF Acquire
  <2>2. pc'[w] # "put"
    BY <1>1, <1>a DEF Acquire
  <2>3. writes' = writes + 1 /\ entries' = entries /\ blobs' = blobs
    BY <1>1 DEF Acquire
  <2>4. \A e \in entries : e.id \in Nat /\ e.id <= writes
    BY <1>a, <1>b DEF Whole
  <2>5. \A b \in blobs : b.id \in Nat /\ b.id <= writes
    BY <1>a, <1>c DEF Whole
  <2>6. \A e \in entries' : e.id <= writes' /\ e.id # writes'
    BY <1>a, <2>3, <2>4
  <2>7. \A b \in blobs' : b.id <= writes' /\ b.id # writes'
    BY <1>a, <2>3, <2>5
  <2> QED
    BY <2>1, <2>2, <2>3, <2>6, <2>7 DEF Whole
<1>2. ASSUME NEW w \in Writer, ClearETag(w) \/ FindEntries(w) PROVE Whole'
  <2>1. \A v \in Writer : v # w => pc'[v] = "idle"
    BY <1>2, <1>a, OthersIdle DEF ClearETag, FindEntries
  <2>2. pc[w] \in {"clear", "find"} /\ pc'[w] # "put"
    BY <1>2, <1>a DEF ClearETag, FindEntries, AfterQuery, AfterRemoval
  <2> QED
    BY <1>2, <2>1, <2>2 DEF ClearETag, FindEntries, Whole
<1>3. ASSUME NEW w \in Writer, RemoveBlob(w) \/ DropEntry(w) PROVE Whole'
  <2>1. \A v \in Writer : v # w => pc'[v] = "idle"
    BY <1>3, <1>a, OthersIdle DEF RemoveBlob, DropEntry
  <2>2. pc[w] \in {"remove", "drop"} /\ pc'[w] # "put"
    BY <1>3, <1>a DEF RemoveBlob, DropEntry, AfterRemoval
  <2>3. entries' \subseteq entries /\ blobs' \subseteq blobs /\ writes' = writes
    BY <1>3 DEF RemoveBlob, DropEntry
  <2> QED
    BY <2>1, <2>2, <2>3 DEF Whole
<1>4. ASSUME NEW w \in Writer, AddBlob(w) PROVE Whole'
  <2>1. \A v \in Writer : v # w => pc'[v] = "idle"
    BY <1>4, <1>a, OthersIdle DEF AddBlob
  <2>2. /\ pc[w] = "add" /\ pc'[w] = "put"
        /\ entries' = entries /\ writes' = writes /\ op' = op
        /\ blobs' = blobs \cup {[id |-> writes, content |-> op[w].content]}
    BY <1>4, <1>a DEF AddBlob
  <2>3. \A b \in Blob : b \in blobs' /\ b.id = writes <=>
          b = [id |-> writes, content |-> op[w].content]
    BY <2>2 DEF Whole
  <2>4. \A b \in blobs' : b.id <= writes
    BY <1>a, <2>2 DEF Whole
  <2> QED
    BY <2>1, <2>2, <2>3, <2>4 DEF Whole
<1>5. ASSUME NEW w \in Writer, PutEntry(w) PROVE Whole'
  <2>1. \A v \in Writer : pc'[v] \in {"idle", "release"}
    BY <1>5, <1>a, OthersIdle DEF PutEntry
  <2>2. /\ entries' = entries \cup {NewEntry(w)} /\ NewEntry(w).id = writes
        /\ \A e \in entries : e.id # writes
        /\ blobs' = blobs /\ writes' = writes
    BY <1>5 DEF PutEntry, Sole, NewEntry, Whole
  <2> QED
    BY <1>a, <2>1, <2>2 DEF Whole
<1>6. ASSUME NEW w \in Writer, Release(w) \/ Fail(w) PROVE Whole'
  <2>1. \A v \in Writer : pc'[v] = "idle"
    BY <1>6, <1>a, OthersIdle DEF Release, Fail
  <2> QED
    BY <1>6, <2>1 DEF Release, Fail, Whole
<1>7. ASSUME NEW d \in Device, Answer(d) \/ ComputeManifest(d) PROVE Whole'
  <2>1. \A w \in Writer : pc'[w] = pc[w]
    BY <1>7, <1>a
    DEF Answer, ReadETag, KeepManifest, StoreETag, StoreFails, Finish, ComputeManifest
  <2>2. UNCHANGED <<entries, blobs, op, writes>>
    BY <1>7 DEF Answer, ReadETag, KeepManifest, StoreETag, StoreFails, Finish, ComputeManifest
  <2> QED
    BY <2>1, <2>2 DEF Whole
<1>8. CASE UNCHANGED vars
  BY <1>8 DEF vars, Whole
<1> QED
  BY <1>1, <1>2, <1>3, <1>4, <1>5, <1>6, <1>7, <1>8 DEF Next, WriterStep

\* A step that leaves the files and the writers' operations alone.
LEMMA SettledKept ==
  ASSUME Settled, UNCHANGED <<entries, blobs, op, confirmed>>,
         \A w \in Writer : pc'[w] # "idle" => pc[w] # "idle",
         \A w \in Writer : pc'[w] = "release" =>
           pc[w] = "release" \/ Shown(op[w].key) = {op[w].content} \ {Nothing}
  PROVE  Settled'
  BY DEF Settled, Shown, Matching

\* A writer's step on the files of its own key, which is unsure until the end.
LEMMA SettledElsewhere ==
  ASSUME Inv, Settled, UNCHANGED <<op, confirmed>>, NEW w \in Writer, pc[w] # "idle",
         \A v \in Writer : v # w => pc'[v] = "idle",
         \A k \in Key : k # op[w].key => Shown(k)' = Shown(k),
         pc'[w] = "release" => Shown(op[w].key)' = {op[w].content} \ {Nothing}
  PROVE  Settled'
<1>1. confirmed[op[w].key] = Unsure
  BY DEF Settled
<1>2. \A k \in Key : confirmed'[k] # Unsure => Shown(k)' = {confirmed'[k]} \ {Nothing}
  BY <1>1 DEF Settled
<1> QED
  BY <1>1, <1>2 DEF Settled

LEMMA SettledStep ==
  OnlyTrue /\ Inv /\ Sole /\ Whole /\ Settled /\ [Next]_vars => Settled'
<1> SUFFICES ASSUME OnlyTrue, Inv, Sole, Whole, Settled, [Next]_vars PROVE Settled'
  OBVIOUS
<1> USE ManifestAssumption DEF Goto
<1>a. /\ pc \in [Writer \cup Device -> WriterStage \cup DeviceStage]
      /\ op \in [Writer -> Write] /\ found \in [Writer -> SUBSET Entry]
      /\ confirmed \in [Key -> Content \cup {Nothing, Unsure}]
      /\ entries \subseteq Entry /\ blobs \subseteq Blob /\ writes \in Nat
  BY DEF Inv, TypeOK
<1>b. \A w \in Writer : op[w].key \in Key /\ op[w].content \in Content \cup {Nothing}
  BY <1>a DEF Write
<1>1. ASSUME NEW w \in Writer, Acquire(w) PROVE Settled'
  <2>1. PICK k \in Key, c \in Content \cup {Nothing} :
          /\ op' = [op EXCEPT ![w] = [key |-> k, content |-> c]]
          /\ confirmed' = [confirmed EXCEPT ![k] = Unsure]
    BY <1>1 DEF Acquire
  <2>2. /\ \A v \in Writer : v # w => pc'[v] = "idle"
        /\ pc'[w] \in {"clear", "find"}
    BY <1>1, <1>a, FreeMeansIdle DEF Acquire
  <2>3. \A l \in Key : Shown(l)' = Shown(l)
    BY <1>1 DEF Acquire, Shown, Matching
  <2>4. \A l \in Key : confirmed'[l] # Unsure => confirmed'[l] = confirmed[l]
    BY <1>a, <2>1
  <2>5. confirmed'[op'[w].key] = Unsure
    BY <1>a, <2>1
  <2> QED
    BY <2>2, <2>3, <2>4, <2>5 DEF Settled
<1>2. ASSUME NEW w \in Writer, ClearETag(w) PROVE Settled'
  BY <1>2, <1>a, SettledKept DEF ClearETag
<1>3. ASSUME NEW w \in Writer, FindEntries(w) PROVE Settled'
  <2>1. pc' = [pc EXCEPT ![w] = AfterQuery(w, Matching(op[w].key))]
    BY <1>3 DEF FindEntries, Results, OnlyTrue
  <2>2. AfterQuery(w, Matching(op[w].key)) = "release" =>
          Matching(op[w].key) = {} /\ op[w].content = Nothing
    BY DEF AfterQuery, AfterRemoval
  <2>3. Matching(op[w].key) = {} => Shown(op[w].key) = {}
    BY DEF Shown
  <2> QED
    BY <1>3, <1>a, <2>1, <2>2, <2>3, SettledKept DEF FindEntries
<1>4. ASSUME NEW w \in Writer, RemoveBlob(w) PROVE Settled'
  <2>1. PICK e \in found[w] : blobs' = {b \in blobs : b.id # e.id}
    BY <1>4 DEF RemoveBlob
  <2>2. e \in entries /\ e.key = op[w].key
    BY <1>4, <2>1 DEF RemoveBlob, Sole, Removing, Matching
  <2>3. ASSUME NEW k \in Key, k # op[w].key PROVE Shown(k)' = Shown(k)
    <3>1. entries' = entries /\ Matching(k)' = Matching(k)
      BY <1>4 DEF RemoveBlob, Matching
    <3>2. \A f \in Matching(k) : f.id # e.id
      BY <2>2, <2>3 DEF Whole, Matching
    <3> QED
      BY <2>1, <3>1, <3>2 DEF Shown
  <2>4. /\ \A v \in Writer : v # w => pc'[v] = "idle"
        /\ pc[w] = "remove" /\ pc'[w] = "drop"
    BY <1>4, <1>a, OthersIdle DEF RemoveBlob
  <2> QED
    BY <1>4, <2>3, <2>4, SettledElsewhere DEF RemoveBlob
<1>5. ASSUME NEW w \in Writer, DropEntry(w) PROVE Settled'
  <2>1. PICK e \in found[w] :
          /\ entries' = entries \ {e}
          /\ pc' = [pc EXCEPT ![w] = IF found[w] = {e} THEN AfterRemoval(w) ELSE "remove"]
    BY <1>5 DEF DropEntry
  <2>2. found[w] = Matching(op[w].key) /\ op' = op /\ blobs' = blobs
    BY <1>5 DEF DropEntry, Sole, Removing
  <2>3. ASSUME NEW k \in Key, k # op[w].key PROVE Shown(k)' = Shown(k)
    <3>1. Matching(k)' = Matching(k)
      BY <2>1, <2>2, <2>3 DEF Matching
    <3> QED
      BY <2>2, <3>1 DEF Shown
  <2>4. ASSUME pc'[w] = "release" PROVE Shown(op[w].key)' = {op[w].content} \ {Nothing}
    <3>1. found[w] = {e} /\ op[w].content = Nothing
      BY <1>a, <2>1, <2>4 DEF AfterRemoval
    <3>2. Matching(op[w].key)' = {}
      BY <2>1, <2>2, <3>1 DEF Matching
    <3> QED
      BY <2>2, <3>1, <3>2 DEF Shown
  <2>5. /\ \A v \in Writer : v # w => pc'[v] = "idle"
        /\ pc[w] = "drop"
    BY <1>5, <1>a, OthersIdle DEF DropEntry
  <2> QED
    BY <1>5, <2>3, <2>4, <2>5, SettledElsewhere DEF DropEntry
<1>6. ASSUME NEW w \in Writer, AddBlob(w) PROVE Settled'
  <2>1. /\ pc[w] = "add" /\ pc'[w] = "put" /\ entries' = entries
        /\ blobs' = blobs \cup {[id |-> writes, content |-> op[w].content]}
    BY <1>6, <1>a DEF AddBlob
  <2>2. \A e \in entries : e.id # writes
    BY <2>1 DEF Whole
  <2>3. ASSUME NEW k \in Key PROVE Shown(k)' = Shown(k)
    <3>1. Matching(k)' = Matching(k) /\ Matching(k) \subseteq entries
      BY <2>1 DEF Matching
    <3> QED
      BY <2>1, <2>2, <3>1 DEF Shown
  <2>4. \A v \in Writer : v # w => pc'[v] = "idle"
    BY <1>6, <1>a, OthersIdle DEF AddBlob
  <2> QED
    BY <1>6, <2>1, <2>3, <2>4, SettledElsewhere DEF AddBlob
<1>7. ASSUME NEW w \in Writer, PutEntry(w) PROVE Settled'
  <2>1. /\ pc[w] = "put" /\ op' = op /\ blobs' = blobs
        /\ entries' = entries \cup {NewEntry(w)}
        /\ Matching(op[w].key) = {}
    BY <1>7 DEF PutEntry, Sole
  <2>2. NewEntry(w).key = op[w].key /\ NewEntry(w).id = writes
    BY DEF NewEntry
  <2>3. ASSUME NEW k \in Key, k # op[w].key PROVE Shown(k)' = Shown(k)
    <3>1. Matching(k)' = Matching(k)
      BY <2>1, <2>2, <2>3 DEF Matching
    <3> QED
      BY <2>1, <3>1 DEF Shown
  <2>4. Matching(op[w].key)' = {NewEntry(w)}
    BY <2>1, <2>2 DEF Matching
  <2>5. op[w].content \in Content /\ writes \in Id
    BY <1>b, <2>1 DEF Inv, TypeOK, Places, Id
  <2>6. [id |-> writes, content |-> op[w].content] \in blobs
    BY <2>1, <2>5 DEF Whole, Blob
  <2>7. \A b \in blobs : b.id = writes => b.content = op[w].content
    BY <1>a, <2>1 DEF Whole
  <2>8. Shown(op[w].key)' = {op[w].content}
    BY <2>1, <2>2, <2>4, <2>5, <2>6, <2>7 DEF Shown
  <2>9. /\ \A v \in Writer : v # w => pc'[v] = "idle"
        /\ op[w].content # Nothing
    BY <1>7, <1>a, OthersIdle DEF PutEntry, Inv, Places
  <2> QED
    BY <1>7, <2>1, <2>3, <2>8, <2>9, SettledElsewhere DEF PutEntry
<1>8. ASSUME NEW w \in Writer, Release(w) PROVE Settled'
  <2>1. \A v \in Writer : pc'[v] = "idle"
    BY <1>8, <1>a, OthersIdle DEF Release
  <2>2. \A k \in Key : Shown(k)' = Shown(k)
    BY <1>8 DEF Release, Shown, Matching
  <2>3. Shown(op[w].key) = {op[w].content} \ {Nothing}
    BY <1>8 DEF Release, Settled
  <2>4. confirmed' = [confirmed EXCEPT ![op[w].key] = op[w].content]
    BY <1>8 DEF Release
  <2>5. \A k \in Key : confirmed'[k] # Unsure => Shown(k)' = {confirmed'[k]} \ {Nothing}
    BY <1>a, <1>b, <2>2, <2>3, <2>4 DEF Settled
  <2> QED
    BY <2>1, <2>5 DEF Settled
<1>9. ASSUME NEW w \in Writer, Fail(w) PROVE Settled'
  <2>1. \A v \in Writer : pc'[v] = "idle"
    BY <1>9, <1>a, OthersIdle DEF Fail
  <2>2. \A k \in Key : Shown(k)' = Shown(k) /\ confirmed' = confirmed
    BY <1>9 DEF Fail, Shown, Matching
  <2> QED
    BY <2>1, <2>2 DEF Settled
<1>10. ASSUME NEW d \in Device, Answer(d) \/ ComputeManifest(d) PROVE Settled'
  <2>1. \A w \in Writer : pc'[w] = pc[w]
    BY <1>10, <1>a
    DEF Answer, ReadETag, KeepManifest, StoreETag, StoreFails, Finish, ComputeManifest
  <2>2. UNCHANGED <<entries, blobs, op, confirmed>>
    BY <1>10 DEF Answer, ReadETag, KeepManifest, StoreETag, StoreFails, Finish, ComputeManifest
  <2> QED
    BY <2>1, <2>2, SettledKept
<1>11. CASE UNCHANGED vars
  BY <1>11, SettledKept DEF vars
<1> QED
  BY <1>1, <1>2, <1>3, <1>4, <1>5, <1>6, <1>7, <1>8, <1>9, <1>10, <1>11 DEF Next, WriterStep

\* What a put or delete that succeeded did to a path is what that version's
\* manifest lists, until the next write of the path: for any files and writers,
\* with writes of other paths and versions that stop anywhere in between.
THEOREM Confirmed == OnlyTrue => (Spec => []ConfirmedIsListed)
<1> SUFFICES ASSUME OnlyTrue PROVE Spec => []ConfirmedIsListed
  OBVIOUS
<1>1. Settled => ConfirmedIsListed
  BY ShownIsListed DEF Settled, ConfirmedIsListed
<1>2. Init => Inv /\ Sole /\ Whole /\ Settled
  BY InitInv, InitSole, InitWhole
<1>3. Inv /\ Sole /\ Whole /\ Settled /\ [Next]_vars => Inv' /\ Sole' /\ Whole' /\ Settled'
  BY InvStep, SoleStep, WholeStep, SettledStep
<1> QED
  BY <1>1, <1>2, <1>3, PTL DEF Spec
=============================================================================
