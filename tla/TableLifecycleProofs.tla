------------------------- MODULE TableLifecycleProofs -------------------------
(***************************************************************************)
(* What holds of the table of a table id, for every number of requests,    *)
(* columns and failures, and whatever relations other tables have.  Three  *)
(* invariants carry it:                                                    *)
(*   - OwnerInv: the owner's role and the entry; it needs no assumption on *)
(*     RequestsRace;                                                       *)
(*   - CleanInv: everything there is belongs to the one schema that the    *)
(*     entry names, for as long as no query for a definition or columns    *)
(*     has failed;                                                         *)
(*   - Core: the schema that is built or in use, whatever queries fail.    *)
(***************************************************************************)
EXTENDS TableLifecycle, FiniteSetTheorems, WellFoundedInduction, TLAPS

Op == {"none", "create", "delete", "offices", "acl", "attach"}
Job == [op : Op, pc : Working \cup {"idle", "lock", "done", "release"}, copy : Entry,
        want : SUBSET Column, todo : SUBSET (Column \cup Role)]

\* The types of the store and of everything a job holds.
Shapes ==
  /\ entry \in Entry
  /\ definition \subseteq [schema : ETag, name : Name]
  /\ column \subseteq [schema : ETag, column : Column]
  /\ relation \subseteq [name : Name, kind : Kind] /\ IsFiniteSet(relation)
  /\ attachment \subseteq ETag /\ acl \subseteq Role
  /\ holder \in Request \cup {NoHolder}
  /\ ticket \in ETag /\ committed \in 0 .. MaxData
  /\ failures \in 0 .. MaxFailures /\ misread \subseteq Reading
  /\ job \in [Request -> Job]

\* The operations that take the lock, and which hold it while they work.
Locking == {"create", "delete", "offices"}
Exclusive ==
  \A r \in Request : job[r].op \in Locking /\ job[r].pc \notin {"idle", "lock"} => holder = r

Removing == {"dropData", "dropLog", "clear", "dropColumns"}
Deleting == Removing \cup {"stale", "next", "acls", "dropAcls", "dropOwner"}
Clearing == {"oldAcls", "clearAcls", "putEntry"}
Building == {"putDefinition", "putColumns", "makeLog", "goLive"}

\* Which operation gets where; a table is created while there is a schema ETag
\* to draw and, once it is written, a definition to read.
Course(j) ==
  /\ j.pc \in Deleting => j.op \in {"create", "delete"}
  /\ j.pc \in {"read"} \cup Clearing \cup Building => j.op = "create"
  /\ j.pc = "put" => j.op = "offices"
  /\ j.pc = "lock" => j.op \in Locking
  /\ j.pc \in {"grant", "attach"} => j.op \notin Locking
  /\ j.op = "create" => j.want \in Schemas
  /\ j.op = "create" /\ j.pc \in {"read"} \cup Deleting \cup Clearing => ticket < MaxSchema
  /\ j.pc = "putColumns" => j.todo \subseteq j.want
  /\ j.pc \in {"putColumns", "makeLog"} => NamesOf(j.copy.pending) # {}

Typed == Shapes /\ Exclusive /\ \A r \in Request : Course(job[r])

-----------------------------------------------------------------------------
(* Types.                                                                    *)

LEMMA IdleJobType == IdleJob \in Job
  BY TableLifecycleAssumption DEF IdleJob, Job, Op, NoEntry, Entry, ETag, Null

LEMMA NoEntryType == NoEntry \in Entry /\ Null \in ETag
  BY TableLifecycleAssumption DEF NoEntry, Entry, ETag, Null

LEMMA InitTyped == Init => Typed
<1> SUFFICES ASSUME Init PROVE Typed
  OBVIOUS
<1>1. job \in [Request -> Job] /\ \A r \in Request : job[r] = IdleJob
  BY IdleJobType DEF Init
<1>2. Shapes
  BY <1>1, NoEntryType, TableLifecycleAssumption DEF Init, Shapes, ETag
<1>3. Exclusive /\ \A r \in Request : Course(job[r])
  BY <1>1 DEF Exclusive, Course, IdleJob, Locking, Removing, Deleting, Clearing, Building
<1> QED
  BY <1>2, <1>3 DEF Typed

LEMMA JobFields ==
  ASSUME Shapes, NEW r \in Request
  PROVE  /\ job[r] \in Job
         /\ job[r].op \in Op
         /\ job[r].pc \in Working \cup {"idle", "lock", "done", "release"}
         /\ job[r].copy \in Entry
         /\ job[r].want \in SUBSET Column
         /\ job[r].todo \in SUBSET (Column \cup Role)
  BY DEF Shapes, Job

\* A job is replaced as a whole, ...
LEMMA SetJob ==
  ASSUME Shapes, NEW r \in Request, NEW j \in Job, Set(r, j)
  PROVE  /\ job' \in [Request -> Job]
         /\ job'[r] = j
         /\ \A v \in Request \ {r} : job'[v] = job[v]
  BY DEF Set, Shapes

\* ... goes to another place, ...
LEMMA GotoJob ==
  ASSUME Shapes, NEW r \in Request,
         NEW pc \in Working \cup {"idle", "lock", "done", "release"}, Goto(r, pc)
  PROVE  /\ job' \in [Request -> Job]
         /\ job'[r] = [job[r] EXCEPT !.pc = pc]
         /\ \A v \in Request \ {r} : job'[v] = job[v]
  BY DEF Goto, Shapes, Job

\* ... or goes there with something to do.
LEMMA GotoWithJob ==
  ASSUME Shapes, NEW r \in Request,
         NEW pc \in Working \cup {"idle", "lock", "done", "release"},
         NEW todo \in SUBSET (Column \cup Role), GotoWith(r, pc, todo)
  PROVE  /\ job' \in [Request -> Job]
         /\ job'[r] = [job[r] EXCEPT !.pc = pc, !.todo = todo]
         /\ \A v \in Request \ {r} : job'[v] = job[v]
  BY DEF GotoWith, Shapes, Job

\* A failed read counts as a failure.
LEMMA HeardType ==
  ASSUME Shapes, NEW reading \in Reading, NEW truly, Heard(reading, truly)
  PROVE  /\ failures' \in 0 .. MaxFailures /\ misread' \subseteq Reading
         /\ misread' = misread \/ misread' = misread \cup {reading}
         /\ ~ truly => reading \in misread'
<1> USE TableLifecycleAssumption DEF Heard, Shapes, faults
<1>1. CASE truly
  BY <1>1
<1>2. CASE ~ truly
  BY <1>2
<1> QED
  BY <1>1, <1>2

LEMMA ColumnsType ==
  ASSUME Shapes, NEW e
  PROVE  ColumnsOf(e) \in SUBSET Column
  BY DEF Shapes, ColumnsOf

\* A set of naturals has a least member.
LEMMA Least ==
  ASSUME NEW S, S \subseteq Nat, S # {}
  PROVE  \E n \in S : \A m \in S : n <= m
<1>1. IsWellFoundedOn(OpToRel(<,Nat), Nat)
  BY NatLessThanWellFounded, Zenon
<1>2. \E n \in S : \A m \in S : ~ (<<m, n>> \in OpToRel(<,Nat))
  BY <1>1, WFMin, Zenon
<1>3. PICK n \in S : \A m \in S : ~ (<<m, n>> \in OpToRel(<,Nat))
  BY <1>2, Zenon
<1>4. \A m \in S : ~ (m < n)
  BY <1>3, Zenon DEF OpToRel
<1> QED
  BY <1>4

\* There is a name that no relation has, and FreeName finds one: there are more
\* names to try than relations.
LEMMA FreeNameIsFree ==
  ASSUME Shapes
  PROVE  FreeName \in Name /\ Relations(FreeName) \cap relation = {}
<1> DEFINE n == Cardinality(relation)
           Names == 0 .. n
           Free(m) == Relations(m) \cap relation = {}
           FreeNames == {m \in Names : Free(m)}
<1>1. IsFiniteSet(relation) /\ n \in Nat
  BY FS_CardinalityType DEF Shapes
<1>2. IsFiniteSet(Names) /\ Cardinality(Names) = n + 1
  BY <1>1, FS_Interval
<1>3. FreeNames # {}
  <2> SUFFICES ASSUME \A m \in Names : ~ Free(m) PROVE FALSE
    OBVIOUS
  <2>1. \A m \in Names : \E e \in relation : e.name = m
    BY DEF Relations
  <2> DEFINE f == [m \in Names |-> CHOOSE e \in relation : e.name = m]
  <2>2. \A m \in Names : f[m] \in relation /\ f[m].name = m
    BY <2>1
  <2>3. f \in [Names -> relation]
    BY <2>2
  <2> HIDE DEF f
  <2>4. \E x, y \in Names : x # y /\ f[x] = f[y]
    <3> HIDE DEF Names, n
    <3>1. Cardinality(relation) < Cardinality(Names)
      BY <1>1, <1>2 DEF n
    <3> QED
      BY <1>1, <1>2, <2>3, <3>1, FS_PigeonHole
  <2> QED
    BY <2>2, <2>4
<1>4. PICK m \in FreeNames : \A k \in FreeNames : m <= k
  <2>1. FreeNames \subseteq Nat
    BY <1>1
  <2> HIDE DEF FreeNames
  <2> QED
    BY <1>3, <2>1, Least
<1>5. m \in Names /\ Free(m) /\ \A k \in 0 .. m - 1 : ~ Free(k)
  BY <1>1, <1>4
<1>6. FreeName \in Names /\ Free(FreeName)
  BY <1>5 DEF FreeName
<1> QED
  BY <1>1, <1>6 DEF Name

\* What a step of request r has to show for the types: the others keep theirs,
\* for what they depend on only changes under the lock.
LEMMA KeepTyped ==
  ASSUME Typed, NEW r \in Request, Shapes',
         \A v \in Request \ {r} : job'[v] = job[v],
         \/ holder' = holder
         \/ holder = NoHolder /\ holder' = r
         \/ holder = r /\ holder' = NoHolder,
         \/ definition' = definition /\ ticket' = ticket
         \/ holder = r,
         job'[r].op \in Locking /\ job'[r].pc \notin {"idle", "lock"} => holder' = r,
         Course(job[r])'
  PROVE  Typed'
<1>1. \A v \in Request : v # NoHolder
  BY TableLifecycleAssumption
<1>2. Exclusive'
  BY <1>1 DEF Typed, Exclusive
<1>3. ASSUME NEW v \in Request \ {r} PROVE Course(job[v])'
  <2>1. Course(job[v]) /\ job'[v] = job[v] /\ v # r
    BY DEF Typed
  <2>2. CASE definition' = definition /\ ticket' = ticket
    BY <2>1, <2>2 DEF Course, NamesOf
  <2>3. CASE holder = r
    <3>1. ~ (job[v].op \in Locking /\ job[v].pc \notin {"idle", "lock"})
      BY <2>1, <2>3 DEF Typed, Exclusive
    <3> QED
      BY <2>1, <3>1 DEF Course, Locking, Removing, Deleting, Clearing, Building
  <2> QED
    BY <2>2, <2>3
<1> QED
  BY <1>2, <1>3 DEF Typed

\* Every step keeps the types.
LEMMA TypedStep ==
  ASSUME Typed, [Next]_vars
  PROVE  Typed'
<1> USE DEF Locking, Removing, Deleting, Clearing, Building, faults
<1> DEFINE Places == Working \cup {"idle", "lock", "done", "release"}
<1>1. /\ Shapes /\ entry \in Entry
      /\ definition \subseteq [schema : ETag, name : Name]
      /\ column \subseteq [schema : ETag, column : Column]
      /\ relation \subseteq [name : Name, kind : Kind] /\ IsFiniteSet(relation)
      /\ attachment \subseteq ETag /\ acl \subseteq Role
      /\ holder \in Request \cup {NoHolder}
      /\ ticket \in ETag /\ committed \in 0 .. MaxData
      /\ failures \in 0 .. MaxFailures /\ misread \subseteq Reading
      /\ job \in [Request -> Job]
  BY DEF Typed, Shapes
<1>2. CASE UNCHANGED vars
  <2>1. Shapes' /\ \A v \in Request : job'[v] = job[v]
    BY <1>1, <1>2 DEF vars, store, Shapes
  <2> QED
    BY <1>2, <2>1 DEF vars, store, Typed, Exclusive, Course, NamesOf
<1>3. CASE ChangeRows
  <2>1. Shapes' /\ \A v \in Request : job'[v] = job[v]
    BY <1>1, <1>3, TableLifecycleAssumption DEF ChangeRows, store, Shapes, Entry
  <2> QED
    BY <1>3, <2>1 DEF ChangeRows, store, Typed, Exclusive, Course, NamesOf
<1>4. ASSUME NEW r \in Request, Begin(r) \/ GiveUp(r) \/ Fail(r) \/ Work(r) PROVE Typed'
  <2>0. /\ job[r] \in Job /\ job[r].op \in Op /\ job[r].pc \in Places
        /\ job[r].copy \in Entry /\ job[r].want \in SUBSET Column
        /\ job[r].todo \in SUBSET (Column \cup Role)
        /\ Course(job[r])
        /\ job[r].op \in Locking /\ job[r].pc \notin {"idle", "lock"} => holder = r
    BY <1>1, JobFields DEF Typed, Exclusive
  <2>1. CASE Begin(r)
    <3>1. ASSUME NEW j \in Job, Set(r, j), j.pc \in {"lock", "grant", "attach"},
                 j.pc = "lock" => j.op \in Locking,
                 j.pc # "lock" => j.op \notin Locking,
                 j.op = "create" => j.want \in Schemas
          PROVE  Typed'
      <4>1. /\ job' \in [Request -> Job] /\ job'[r] = j
            /\ \A v \in Request \ {r} : job'[v] = job[v]
        BY <1>1, <3>1, SetJob
      <4>2. Shapes'
        BY <1>1, <2>1, <4>1 DEF Begin, store, Shapes
      <4>3. Course(job[r])'
        BY <3>1, <4>1 DEF Course
      <4> QED
        BY <2>1, <3>1, <4>1, <4>2, <4>3, KeepTyped DEF Begin, store
    <3>2. ASSUME NEW s \in Schemas,
                 Set(r, [IdleJob EXCEPT !.op = "create", !.pc = "lock", !.want = s])
          PROVE  Typed'
      <4>1. [IdleJob EXCEPT !.op = "create", !.pc = "lock", !.want = s] \in Job
        BY IdleJobType, TableLifecycleAssumption DEF Job, Op
      <4> QED
        BY <3>1, <3>2, <4>1, IdleJobType DEF Job
    <3>3. ASSUME NEW op \in {"delete", "offices", "acl", "attach"},
                 NEW pc \in {"lock", "grant", "attach"},
                 pc = "lock" <=> op \in Locking,
                 Set(r, [IdleJob EXCEPT !.op = op, !.pc = pc, !.copy = entry])
          PROVE  Typed'
      <4>1. [IdleJob EXCEPT !.op = op, !.pc = pc, !.copy = entry] \in Job
        BY <1>1, IdleJobType DEF Job, Op, Working
      <4> QED
        BY <3>1, <3>3, <4>1, IdleJobType DEF Job
    <3> QED
      BY <2>1, <3>2, <3>3 DEF Begin
  <2>2. CASE Lock(r)
    <3> DEFINE pc == FirstStep(job[r].op)
    <3>1. /\ job[r].op \in Locking /\ pc \in {"read", "stale", "put"}
          /\ pc = "read" => job[r].op = "create"
          /\ pc = "stale" => job[r].op = "delete"
          /\ pc = "put" => job[r].op = "offices"
          /\ job[r].op = "create" => ticket < MaxSchema
      BY <2>0, <2>2 DEF Lock, At, Course, FirstStep
    <3>2. /\ job' \in [Request -> Job] /\ job'[r] = [job[r] EXCEPT !.pc = pc]
          /\ \A v \in Request \ {r} : job'[v] = job[v]
      BY <1>1, <2>2, <3>1, GotoJob DEF Lock, Working
    <3> HIDE DEF pc
    <3>3. Shapes'
      BY <1>1, <2>2, <3>2 DEF Lock, store, Shapes
    <3>4. Course(job[r])'
      BY <2>0, <2>2, <3>1, <3>2 DEF Course, Job, Lock
    <3> QED
      BY <2>2, <3>2, <3>3, <3>4, KeepTyped DEF Lock, store
  <2>3. CASE GiveUp(r)
    <3>1. /\ job' \in [Request -> Job] /\ job'[r] = IdleJob
          /\ \A v \in Request \ {r} : job'[v] = job[v]
      BY <1>1, <2>3, IdleJobType, SetJob DEF GiveUp
    <3>2. Shapes'
      BY <1>1, <2>3, <3>1 DEF GiveUp, store, Shapes
    <3>3. Course(job[r])' /\ job'[r].op \notin Locking
      BY <3>1 DEF Course, IdleJob
    <3> QED
      BY <2>3, <3>1, <3>2, <3>3, KeepTyped DEF GiveUp, store
  <2>4. CASE Release(r)
    <3>1. /\ job' \in [Request -> Job] /\ job'[r] = IdleJob
          /\ \A v \in Request \ {r} : job'[v] = job[v]
      BY <1>1, <2>4, IdleJobType, SetJob DEF Release
    <3>2. Shapes'
      BY <1>1, <2>4, <3>1 DEF Release, store, Shapes
    <3>3. Course(job[r])' /\ job'[r].op \notin Locking
      BY <3>1 DEF Course, IdleJob
    <3> QED
      BY <2>4, <3>1, <3>2, <3>3, KeepTyped DEF Release, store
  <2>5. CASE Fail(r)
    <3>1. /\ job' \in [Request -> Job] /\ job'[r] = [job[r] EXCEPT !.pc = "release"]
          /\ \A v \in Request \ {r} : job'[v] = job[v]
      BY <1>1, <2>5, GotoJob DEF Fail
    <3>2. Shapes'
      BY <1>1, <2>5, <3>1, TableLifecycleAssumption DEF Fail, store, Shapes
    <3>3. Course(job[r])'
      BY <2>0, <3>1 DEF Course, Job
    <3>4. job[r].pc \notin {"idle", "lock"} /\ job'[r].op = job[r].op
      BY <2>0, <2>5, <3>1 DEF Fail, Working, Job
    <3> QED
      BY <2>0, <2>5, <3>1, <3>2, <3>3, <3>4, KeepTyped DEF Fail, store
  <2>h. ASSUME holder = r, holder' = holder, Shapes', Course(job[r])',
               \A v \in Request \ {r} : job'[v] = job[v]
        PROVE  Typed'
    BY <2>h, KeepTyped
  <2>6. CASE Delete(r)
    <3>1. CASE RemoveStale(r)
      <4> DEFINE s == job[r].copy.stale
      <4>1. ColumnsOf(s) \in SUBSET (Column \cup Role)
        BY <1>1, ColumnsType
      <4>2. [job[r] EXCEPT !.copy.stale = Null, !.pc = "next"] \in Job
        BY <2>0, NoEntryType DEF Job, Entry, Working
      <4>3. ASSUME NEW pc \in {"next", "release", "dropData"},
                   NEW todo \in SUBSET (Column \cup Role), NEW copy \in Entry,
                   Set(r, [job[r] EXCEPT !.pc = pc, !.todo = todo, !.copy = copy])
            PROVE  Typed'
        <5>1. [job[r] EXCEPT !.pc = pc, !.todo = todo, !.copy = copy] \in Job
          BY <2>0 DEF Job, Working
        <5>2. /\ job' \in [Request -> Job]
              /\ job'[r] = [job[r] EXCEPT !.pc = pc, !.todo = todo, !.copy = copy]
              /\ \A v \in Request \ {r} : job'[v] = job[v]
          BY <1>1, <4>3, <5>1, SetJob
        <5>a. failures' \in 0 .. MaxFailures /\ misread' \subseteq Reading
          BY <1>1, <3>1, HeardType DEF RemoveStale, Reading
        <5>3. holder = r /\ Shapes'
          BY <1>1, <2>0, <3>1, <5>2, <5>a DEF RemoveStale, At, Course, store, Shapes
        <5>4. Course(job[r])'
          BY <2>0, <3>1, <5>2 DEF RemoveStale, At, Course, Job
        <5> QED
          BY <2>h, <3>1, <5>2, <5>3, <5>4 DEF RemoveStale, store
      <4>4. \E pc \in {"next", "release", "dropData"}, todo \in SUBSET (Column \cup Role),
               copy \in Entry :
              Set(r, [job[r] EXCEPT !.pc = pc, !.todo = todo, !.copy = copy])
        <5>1. CASE s = Null
          <6>1. Set(r, [job[r] EXCEPT !.pc = "next", !.todo = job[r].todo, !.copy = job[r].copy])
            BY <1>1, <2>0, <3>1, <5>1 DEF RemoveStale, Goto, Set, Job
          <6> QED
            BY <2>0, <6>1
        <5>2. CASE s # Null
          <6>1. PICK cols \in Answers(ColumnsOf(s)), names \in Answers(NamesOf(s)) :
                  \/ Goto(r, "release") \/ GotoWith(r, "dropData", cols)
                  \/ Set(r, [job[r] EXCEPT !.copy.stale = Null, !.pc = "next"])
            BY <3>1, <5>2 DEF RemoveStale
          <6>2. cols \in SUBSET (Column \cup Role)
            BY <4>1 DEF Answers
          <6>3. CASE Goto(r, "release")
            <7>1. Set(r, [job[r] EXCEPT !.pc = "release", !.todo = job[r].todo, !.copy = job[r].copy])
              BY <1>1, <2>0, <6>3 DEF Goto, Set, Job
            <7> QED
              BY <2>0, <7>1
          <6>4. CASE GotoWith(r, "dropData", cols)
            <7>1. Set(r, [job[r] EXCEPT !.pc = "dropData", !.todo = cols, !.copy = job[r].copy])
              BY <1>1, <2>0, <6>4 DEF GotoWith, Set, Job
            <7> QED
              BY <2>0, <6>2, <7>1
          <6>5. CASE Set(r, [job[r] EXCEPT !.copy.stale = Null, !.pc = "next"])
            <7>1. [job[r].copy EXCEPT !.stale = Null] \in Entry
              BY <2>0, NoEntryType DEF Entry
            <7>2. Set(r, [job[r] EXCEPT !.pc = "next", !.todo = job[r].todo,
                                        !.copy = [job[r].copy EXCEPT !.stale = Null]])
              BY <1>1, <2>0, <6>5 DEF Set, Job
            <7> QED
              BY <2>0, <7>1, <7>2
          <6> QED
            BY <6>1, <6>3, <6>4, <6>5
        <5> QED
          BY <5>1, <5>2
      <4> QED
        BY <4>3, <4>4
    <3>2. CASE DropData(r)
      <4>0. relation' \subseteq relation /\ IsFiniteSet(relation')
        <5>1. relation' = relation \ {[name |-> StaleName(r), kind |-> "data"]}
          BY <3>2 DEF DropData, Drop
        <5>2. IsFiniteSet(relation \ {[name |-> StaleName(r), kind |-> "data"]})
          BY <1>1, FS_RemoveElement
        <5> QED
          BY <5>1, <5>2
      <4>1. /\ job' \in [Request -> Job]
            /\ job'[r] = [job[r] EXCEPT !.pc = "dropLog"]
            /\ \A v \in Request \ {r} : job'[v] = job[v]
        BY <1>1, <2>0, <3>2, GotoJob DEF DropData, Working
      <4>2. holder = r /\ Shapes'
        BY <1>1, <2>0, <3>2, <4>0, <4>1 DEF DropData, At, Course, store, Shapes
      <4>3. Course(job[r])'
        BY <2>0, <3>2, <4>1 DEF DropData, At, Course, Job
      <4> QED
        BY <2>h, <3>2, <4>1, <4>2, <4>3 DEF DropData, store
    <3>3. CASE DropLog(r)
      <4>0. relation' \subseteq relation /\ IsFiniteSet(relation')
        <5>1. relation' = relation \ {[name |-> StaleName(r), kind |-> "log"]}
          BY <3>3 DEF DropLog, Drop
        <5>2. IsFiniteSet(relation \ {[name |-> StaleName(r), kind |-> "log"]})
          BY <1>1, FS_RemoveElement
        <5> QED
          BY <5>1, <5>2
      <4>1. /\ job' \in [Request -> Job]
            /\ job'[r] = [job[r] EXCEPT !.pc = "clear"]
            /\ \A v \in Request \ {r} : job'[v] = job[v]
        BY <1>1, <2>0, <3>3, GotoJob DEF DropLog, Working
      <4>2. holder = r /\ Shapes'
        BY <1>1, <2>0, <3>3, <4>0, <4>1 DEF DropLog, At, Course, store, Shapes
      <4>3. Course(job[r])'
        BY <2>0, <3>3, <4>1 DEF DropLog, At, Course, Job
      <4> QED
        BY <2>h, <3>3, <4>1, <4>2, <4>3 DEF DropLog, store
    <3>4. CASE ClearAttachments(r)
      <4>1. /\ job' \in [Request -> Job]
            /\ job'[r] = [job[r] EXCEPT !.pc = "dropColumns"]
            /\ \A v \in Request \ {r} : job'[v] = job[v]
        BY <1>1, <2>0, <3>4, GotoJob DEF ClearAttachments, Working
      <4>2. holder = r /\ Shapes'
        BY <1>1, <2>0, <3>4, <4>1 DEF ClearAttachments, At, Course, store, Shapes, Cleared
      <4>3. Course(job[r])'
        BY <2>0, <3>4, <4>1 DEF ClearAttachments, At, Course, Job
      <4> QED
        BY <2>h, <3>4, <4>1, <4>2, <4>3 DEF ClearAttachments, store
    <3>5. CASE DropColumn(r)
      <4>0. PICK c \in job[r].todo : GotoWith(r, "dropColumns", job[r].todo \ {c})
        BY <3>5 DEF DropColumn
      <4>1. /\ job' \in [Request -> Job]
            /\ job'[r] = [job[r] EXCEPT !.pc = "dropColumns", !.todo = job[r].todo \ {c}]
            /\ \A v \in Request \ {r} : job'[v] = job[v]
        BY <1>1, <2>0, <4>0, GotoWithJob DEF Working
      <4>2. holder = r /\ Shapes'
        BY <1>1, <2>0, <3>5, <4>1 DEF DropColumn, At, Course, store, Shapes
      <4>3. Course(job[r])'
        BY <2>0, <3>5, <4>1 DEF DropColumn, At, Course, Job
      <4> QED
        BY <2>h, <3>5, <4>1, <4>2, <4>3 DEF DropColumn, store
    <3>6. CASE DropDefinition(r)
      <4>0. [job[r] EXCEPT !.copy.stale = Null, !.pc = "next"] \in Job
        BY <2>0, NoEntryType DEF Job, Entry, Working
      <4>1. /\ job' \in [Request -> Job]
            /\ job'[r] = [job[r] EXCEPT !.copy.stale = Null, !.pc = "next"]
            /\ \A v \in Request \ {r} : job'[v] = job[v]
        BY <1>1, <2>0, <3>6, <4>0, SetJob DEF DropDefinition, Working
      <4>2. holder = r /\ Shapes'
        BY <1>1, <2>0, <3>6, <4>1 DEF DropDefinition, At, Course, store, Shapes
      <4>3. Course(job[r])'
        BY <2>0, <3>6, <4>1 DEF DropDefinition, At, Course, Job
      <4> QED
        BY <2>h, <3>6, <4>1, <4>2, <4>3 DEF DropDefinition, store
    <3>7. CASE MakeStale(r)
      <4> DEFINE e == Doomed(job[r].copy)
      <4>0. e \in Entry
        BY <2>0, NoEntryType DEF Doomed, Entry
      <4> HIDE DEF e
      <4>1. PICK pc \in {"stale", "acls"} : Set(r, [job[r] EXCEPT !.copy = e, !.pc = pc])
        BY <3>7 DEF MakeStale, e
      <4>2. [job[r] EXCEPT !.copy = e, !.pc = pc] \in Job
        BY <2>0, <4>0 DEF Job, Working
      <4>3. /\ job' \in [Request -> Job]
            /\ job'[r] = [job[r] EXCEPT !.copy = e, !.pc = pc]
            /\ \A v \in Request \ {r} : job'[v] = job[v]
        BY <1>1, <4>1, <4>2, SetJob
      <4>4. entry' \in Entry
        BY <1>1, <3>7, <4>0 DEF MakeStale, Put, e
      <4>5. holder = r /\ Shapes'
        BY <1>1, <2>0, <3>7, <4>3, <4>4 DEF MakeStale, At, Course, store, Shapes
      <4>6. Course(job[r])'
        BY <2>0, <3>7, <4>3 DEF MakeStale, At, Course, Job
      <4> QED
        BY <2>h, <3>7, <4>3, <4>5, <4>6 DEF MakeStale, store
    <3>8. CASE FindAcls(r)
      <4>0. PICK found \in Answers(acl) : Heard("acls", found = acl) /\ GotoWith(r, "dropAcls", found)
        BY <3>8 DEF FindAcls
      <4>a. found \in SUBSET (Column \cup Role) /\ "dropAcls" \in Places
        BY <1>1 DEF Answers, Working
      <4>b. failures' \in 0 .. MaxFailures /\ misread' \subseteq Reading
        BY <1>1, <4>0, HeardType DEF Reading
      <4>1. /\ job' \in [Request -> Job]
            /\ job'[r] = [job[r] EXCEPT !.pc = "dropAcls", !.todo = found]
            /\ \A v \in Request \ {r} : job'[v] = job[v]
        BY <1>1, <4>0, <4>a, GotoWithJob, Zenon
      <4>2. holder = r /\ Shapes'
        BY <1>1, <2>0, <3>8, <4>1, <4>b DEF FindAcls, At, Course, store, Shapes
      <4>3. Course(job[r])'
        BY <2>0, <3>8, <4>1 DEF FindAcls, At, Course, Job
      <4> QED
        BY <2>h, <3>8, <4>1, <4>2, <4>3 DEF FindAcls, store
    <3>9. CASE DropAcl(r)
      <4>0. PICK c \in job[r].todo \ HeldBack : GotoWith(r, "dropAcls", job[r].todo \ {c})
        BY <3>9 DEF DropAcl
      <4>1. /\ job' \in [Request -> Job]
            /\ job'[r] = [job[r] EXCEPT !.pc = "dropAcls", !.todo = job[r].todo \ {c}]
            /\ \A v \in Request \ {r} : job'[v] = job[v]
        BY <1>1, <2>0, <4>0, GotoWithJob DEF Working
      <4>2. holder = r /\ Shapes'
        BY <1>1, <2>0, <3>9, <4>1 DEF DropAcl, At, Course, store, Shapes
      <4>3. Course(job[r])'
        BY <2>0, <3>9, <4>1 DEF DropAcl, At, Course, Job
      <4> QED
        BY <2>h, <3>9, <4>1, <4>2, <4>3 DEF DropAcl, store
    <3>10. CASE DropEntry(r)
      <4>1. /\ job' \in [Request -> Job]
            /\ job'[r] = [job[r] EXCEPT !.pc = "dropOwner"]
            /\ \A v \in Request \ {r} : job'[v] = job[v]
        BY <1>1, <2>0, <3>10, GotoJob DEF DropEntry, Working
      <4>2. holder = r /\ Shapes'
        BY <1>1, <2>0, <3>10, <4>1, NoEntryType, TableLifecycleAssumption DEF DropEntry, At, Course, store, Shapes
      <4>3. Course(job[r])'
        BY <2>0, <3>10, <4>1 DEF DropEntry, At, Course, Job
      <4> QED
        BY <2>h, <3>10, <4>1, <4>2, <4>3 DEF DropEntry, store
    <3>11. CASE DropOwner(r)
      <4>1. PICK pc \in {"oldAcls", "done"} :
              Goto(r, pc) /\ (pc = "oldAcls" => job[r].op = "create")
        BY <3>11 DEF DropOwner
      <4>2. /\ job' \in [Request -> Job] /\ job'[r] = [job[r] EXCEPT !.pc = pc]
            /\ \A v \in Request \ {r} : job'[v] = job[v]
        BY <1>1, <4>1, GotoJob DEF Working
      <4>3. holder = r /\ Shapes'
        BY <1>1, <2>0, <3>11, <4>2 DEF DropOwner, At, Course, store, Shapes
      <4>4. Course(job[r])'
        BY <2>0, <3>11, <4>1, <4>2 DEF DropOwner, At, Course, Job
      <4> QED
        BY <2>h, <3>11, <4>2, <4>3, <4>4 DEF DropOwner, store
    <3> QED
      BY <2>6, <3>1, <3>2, <3>3, <3>4, <3>5, <3>6, <3>7, <3>8, <3>9, <3>10, <3>11 DEF Delete
  <2>7. CASE Create(r)
    <3>1. CASE ReadEntry(r)
      <4>1. ASSUME NEW pc \in {"done", "release", "stale", "oldAcls"}, NEW copy \in Entry,
                   Set(r, [job[r] EXCEPT !.pc = pc, !.copy = copy])
            PROVE  Typed'
        <5>1. [job[r] EXCEPT !.pc = pc, !.copy = copy] \in Job
          BY <2>0 DEF Job, Working
        <5>2. /\ job' \in [Request -> Job]
              /\ job'[r] = [job[r] EXCEPT !.pc = pc, !.copy = copy]
              /\ \A v \in Request \ {r} : job'[v] = job[v]
          BY <1>1, <4>1, <5>1, SetJob
        <5>a. failures' \in 0 .. MaxFailures /\ misread' \subseteq Reading
          BY <1>1, <3>1, HeardType DEF ReadEntry, Reading
        <5>3. holder = r /\ Shapes'
          BY <1>1, <2>0, <3>1, <5>2, <5>a DEF ReadEntry, At, Course, store, Shapes
        <5>4. Course(job[r])'
          BY <2>0, <3>1, <5>2 DEF ReadEntry, At, Course, Job
        <5> QED
          BY <2>h, <3>1, <5>2, <5>3, <5>4 DEF ReadEntry, store
      <4>2. \E pc \in {"done", "release", "stale", "oldAcls"}, copy \in Entry :
              Set(r, [job[r] EXCEPT !.pc = pc, !.copy = copy])
        <5>1. ASSUME NEW pc \in {"done", "release", "oldAcls"}, Goto(r, pc)
              PROVE  Set(r, [job[r] EXCEPT !.pc = pc, !.copy = job[r].copy])
          BY <1>1, <2>0, <5>1 DEF Goto, Set, Job
        <5>2. CASE \E pc \in {"done", "release", "oldAcls"} : Goto(r, pc)
          BY <2>0, <5>1, <5>2
        <5>3. CASE Set(r, [job[r] EXCEPT !.copy = entry, !.pc = "stale"])
          <6>1. Set(r, [job[r] EXCEPT !.pc = "stale", !.copy = entry])
            BY <1>1, <2>0, <5>3 DEF Set, Job
          <6> QED
            BY <1>1, <6>1
        <5> QED
          BY <3>1, <5>2, <5>3 DEF ReadEntry
      <4> QED
        BY <4>1, <4>2
    <3>2. CASE FindOldAcls(r)
      <4>0. PICK found \in Answers(acl) : Heard("acls", found = acl) /\ GotoWith(r, "clearAcls", found)
        BY <3>2 DEF FindOldAcls
      <4>a. found \in SUBSET (Column \cup Role) /\ "clearAcls" \in Places
        BY <1>1 DEF Answers, Working
      <4>b. failures' \in 0 .. MaxFailures /\ misread' \subseteq Reading
        BY <1>1, <4>0, HeardType DEF Reading
      <4>1. /\ job' \in [Request -> Job]
            /\ job'[r] = [job[r] EXCEPT !.pc = "clearAcls", !.todo = found]
            /\ \A v \in Request \ {r} : job'[v] = job[v]
        BY <1>1, <4>0, <4>a, GotoWithJob, Zenon
      <4>2. holder = r /\ Shapes'
        BY <1>1, <2>0, <3>2, <4>1, <4>b DEF FindOldAcls, At, Course, store, Shapes
      <4>3. Course(job[r])'
        BY <2>0, <3>2, <4>1 DEF FindOldAcls, At, Course, Job
      <4> QED
        BY <2>h, <3>2, <4>1, <4>2, <4>3 DEF FindOldAcls, store
    <3>3. CASE ClearAcl(r)
      <4>0. PICK c \in job[r].todo : GotoWith(r, "clearAcls", job[r].todo \ {c})
        BY <3>3 DEF ClearAcl
      <4>1. /\ job' \in [Request -> Job]
            /\ job'[r] = [job[r] EXCEPT !.pc = "clearAcls", !.todo = job[r].todo \ {c}]
            /\ \A v \in Request \ {r} : job'[v] = job[v]
        BY <1>1, <2>0, <4>0, GotoWithJob DEF Working
      <4>2. holder = r /\ Shapes'
        BY <1>1, <2>0, <3>3, <4>1 DEF ClearAcl, At, Course, store, Shapes
      <4>3. Course(job[r])'
        BY <2>0, <3>3, <4>1 DEF ClearAcl, At, Course, Job
      <4> QED
        BY <2>h, <3>3, <4>1, <4>2, <4>3 DEF ClearAcl, store
    <3>4. CASE PutOwner(r)
      <4>1. /\ job' \in [Request -> Job]
            /\ job'[r] = [job[r] EXCEPT !.pc = "putEntry"]
            /\ \A v \in Request \ {r} : job'[v] = job[v]
        BY <1>1, <2>0, <3>4, GotoJob DEF PutOwner, Working
      <4>2. holder = r /\ Shapes'
        BY <1>1, <2>0, <3>4, <4>1 DEF PutOwner, At, Course, store, Shapes, Role
      <4>3. Course(job[r])'
        BY <2>0, <3>4, <4>1 DEF PutOwner, At, Course, Job
      <4> QED
        BY <2>h, <3>4, <4>1, <4>2, <4>3 DEF PutOwner, store
    <3>5. CASE PutEntry(r)
      <4> DEFINE e == [NoEntry EXCEPT !.exists = TRUE, !.pending = ticket + 1]
      <4>0. ticket \in Nat /\ ticket + 1 \in ETag /\ job[r].op = "create"
        BY <1>1, <2>0, <3>5, TableLifecycleAssumption DEF PutEntry, At, Course, ETag
      <4>1. e \in Entry
        BY <4>0, NoEntryType DEF Entry, NoEntry
      <4> HIDE DEF e
      <4>2. CASE entry.exists
        <5>1. /\ job' \in [Request -> Job]
              /\ job'[r] = [job[r] EXCEPT !.pc = "release"]
              /\ \A v \in Request \ {r} : job'[v] = job[v]
          BY <1>1, <3>5, <4>2, GotoJob DEF PutEntry
        <5>2. holder = r /\ Shapes'
          BY <1>1, <2>0, <3>5, <4>0, <4>2, <5>1 DEF PutEntry, At, Course, store, Shapes
        <5>3. Course(job[r])'
          BY <2>0, <3>5, <5>1 DEF PutEntry, At, Course, Job
        <5> QED
          BY <2>h, <3>5, <5>1, <5>2, <5>3 DEF PutEntry, store
      <4>3. CASE ~ entry.exists
        <5>0. [job[r] EXCEPT !.copy = e, !.pc = "putDefinition"] \in Job
          BY <2>0, <4>1 DEF Job, Working
        <5>1. /\ job' \in [Request -> Job]
              /\ job'[r] = [job[r] EXCEPT !.copy = e, !.pc = "putDefinition"]
              /\ \A v \in Request \ {r} : job'[v] = job[v]
          BY <1>1, <3>5, <4>3, <5>0, SetJob DEF PutEntry, e
        <5>2. holder = r /\ Shapes'
          BY <1>1, <2>0, <3>5, <4>0, <4>1, <4>3, <5>1 DEF PutEntry, At, Course, store, Shapes, e
        <5>3. Course(job[r])'
          BY <2>0, <3>5, <5>1 DEF PutEntry, At, Course, Job
        <5> QED
          BY <2>h, <3>5, <5>1, <5>2, <5>3 DEF PutEntry, store
      <4> QED
        BY <4>2, <4>3
    <3>6. CASE PutDefinition(r)
      <4>1. /\ job' \in [Request -> Job]
            /\ job'[r] = [job[r] EXCEPT !.pc = "putColumns", !.todo = job[r].want]
            /\ \A v \in Request \ {r} : job'[v] = job[v]
        BY <1>1, <2>0, <3>6, GotoWithJob DEF PutDefinition, Working
      <4>2. FreeName \in Name /\ job[r].copy.pending \in ETag
        BY <1>1, <2>0, FreeNameIsFree DEF Entry
      <4> HIDE DEF FreeName
      <4>3. holder = r /\ Shapes'
        BY <1>1, <2>0, <3>6, <4>1, <4>2 DEF PutDefinition, At, Course, store, Shapes
      <4>4. NamesOf(job[r].copy.pending)' # {} /\ job'[r].copy = job[r].copy
        <5>1. job'[r].copy = job[r].copy
          BY <2>0, <4>1 DEF Job
        <5>2. [schema |-> job[r].copy.pending, name |-> FreeName] \in definition'
          BY <3>6 DEF PutDefinition
        <5> QED
          BY <5>1, <5>2 DEF NamesOf
      <4>5. Course(job[r])'
        BY <2>0, <3>6, <4>1, <4>4 DEF PutDefinition, At, Course, Job
      <4> QED
        BY <2>h, <3>6, <4>1, <4>3, <4>5 DEF PutDefinition, store
    <3>7. CASE PutColumn(r)
      <4>0. PICK c \in job[r].todo :
              /\ column' = column \cup {[schema |-> job[r].copy.pending, column |-> c]}
              /\ GotoWith(r, "putColumns", job[r].todo \ {c})
        BY <3>7 DEF PutColumn
      <4>1. /\ job' \in [Request -> Job]
            /\ job'[r] = [job[r] EXCEPT !.pc = "putColumns", !.todo = job[r].todo \ {c}]
            /\ \A v \in Request \ {r} : job'[v] = job[v]
        BY <1>1, <2>0, <4>0, GotoWithJob DEF Working
      <4>2. job[r].copy.pending \in ETag /\ c \in Column /\ holder = r
        BY <2>0, <3>7 DEF PutColumn, At, Course, Entry
      <4>3. Shapes'
        BY <1>1, <3>7, <4>0, <4>1, <4>2 DEF PutColumn, store, Shapes
      <4>4. Course(job[r])'
        BY <2>0, <3>7, <4>1 DEF PutColumn, At, Course, Job, NamesOf
      <4> QED
        BY <2>h, <3>7, <4>1, <4>2, <4>3, <4>4 DEF PutColumn, store
    <3>8. ASSUME NEW kind \in Kind, Make(r, kind), NamesOf(job[r].copy.pending) # {}
          PROVE  IsFiniteSet(relation') /\ relation' \subseteq [name : Name, kind : Kind]
      <4>1. PICK n \in NamesOf(job[r].copy.pending) :
              relation' = relation \cup {[name |-> n, kind |-> kind]}
        BY <3>8 DEF Make
      <4>2. n \in Name
        BY <1>1 DEF NamesOf
      <4>3. IsFiniteSet(relation \cup {[name |-> n, kind |-> kind]})
        BY <1>1, FS_AddElement
      <4>4. [name |-> n, kind |-> kind] \in [name : Name, kind : Kind]
        BY <4>2
      <4> QED
        BY <1>1, <4>1, <4>3, <4>4
    <3>9. CASE MakeData(r)
      <4>0. NamesOf(job[r].copy.pending) # {} /\ "data" \in Kind
        BY <2>0, <3>9 DEF MakeData, At, Course, Kind
      <4>a. IsFiniteSet(relation') /\ relation' \subseteq [name : Name, kind : Kind]
        BY <3>8, <3>9, <4>0 DEF MakeData
      <4>1. /\ job' \in [Request -> Job]
            /\ job'[r] = [job[r] EXCEPT !.pc = "makeLog"]
            /\ \A v \in Request \ {r} : job'[v] = job[v]
        BY <1>1, <2>0, <3>9, GotoJob DEF MakeData, Working
      <4>2. holder = r /\ Shapes'
        BY <1>1, <2>0, <3>9, <4>a, <4>1 DEF MakeData, At, Course, store, Shapes
      <4>3. Course(job[r])'
        BY <2>0, <3>9, <4>1 DEF MakeData, At, Course, Job, NamesOf
      <4> QED
        BY <2>h, <3>9, <4>1, <4>2, <4>3 DEF MakeData, store
    <3>10. CASE MakeLog(r)
      <4>0. NamesOf(job[r].copy.pending) # {} /\ "log" \in Kind
        BY <2>0, <3>10 DEF MakeLog, At, Course, Kind
      <4>a. IsFiniteSet(relation') /\ relation' \subseteq [name : Name, kind : Kind]
        BY <3>8, <3>10, <4>0 DEF MakeLog
      <4>1. /\ job' \in [Request -> Job]
            /\ job'[r] = [job[r] EXCEPT !.pc = "goLive"]
            /\ \A v \in Request \ {r} : job'[v] = job[v]
        BY <1>1, <2>0, <3>10, GotoJob DEF MakeLog, Working
      <4>2. holder = r /\ Shapes'
        BY <1>1, <2>0, <3>10, <4>a, <4>1 DEF MakeLog, At, Course, store, Shapes
      <4>3. Course(job[r])'
        BY <2>0, <3>10, <4>1 DEF MakeLog, At, Course, Job, NamesOf
      <4> QED
        BY <2>h, <3>10, <4>1, <4>2, <4>3 DEF MakeLog, store
    <3>11. CASE GoLive(r)
      <4>0. [job[r].copy EXCEPT !.schema = job[r].copy.pending, !.pending = Null] \in Entry
        BY <2>0, NoEntryType DEF Entry
      <4>a. entry' \in Entry
        BY <1>1, <3>11, <4>0 DEF GoLive, Put
      <4>1. /\ job' \in [Request -> Job]
            /\ job'[r] = [job[r] EXCEPT !.pc = "done"]
            /\ \A v \in Request \ {r} : job'[v] = job[v]
        BY <1>1, <2>0, <3>11, GotoJob DEF GoLive, Working
      <4>2. holder = r /\ Shapes'
        BY <1>1, <2>0, <3>11, <4>a, <4>1 DEF GoLive, At, Course, store, Shapes
      <4>3. Course(job[r])'
        BY <2>0, <3>11, <4>1 DEF GoLive, At, Course, Job
      <4> QED
        BY <2>h, <3>11, <4>1, <4>2, <4>3 DEF GoLive, store
    <3> QED
      BY <2>7, <3>1, <3>2, <3>3, <3>4, <3>5, <3>6, <3>7, <3>9, <3>10, <3>11 DEF Create
  <2>8. CASE PutOffices(r)
    <3>1. /\ job' \in [Request -> Job] /\ job'[r] = [job[r] EXCEPT !.pc = "done"]
          /\ \A v \in Request \ {r} : job'[v] = job[v]
      BY <1>1, <2>8, GotoJob DEF PutOffices
    <3>2. Shapes'
      BY <1>1, <2>0, <2>8, <3>1 DEF PutOffices, Put, store, Shapes
    <3>3. Course(job[r])' /\ holder = r
      BY <2>0, <2>8, <3>1 DEF PutOffices, At, Course, Job
    <3> QED
      BY <2>8, <3>1, <3>2, <3>3, KeepTyped DEF PutOffices, store
  <2>9. CASE GrantAcl(r)
    <3>1. /\ job' \in [Request -> Job] /\ job'[r] = [job[r] EXCEPT !.pc = "done"]
          /\ \A v \in Request \ {r} : job'[v] = job[v]
      BY <1>1, <2>9, GotoJob DEF GrantAcl
    <3>2. Shapes'
      BY <1>1, <2>9, <3>1 DEF GrantAcl, store, Shapes, Role
    <3>3. Course(job[r])'
      BY <2>0, <3>1 DEF Course, Job
    <3>4. job[r].pc = "grant" /\ job'[r].op = job[r].op
      BY <2>0, <2>9, <3>1 DEF GrantAcl, At, Job
    <3> QED
      BY <2>0, <2>9, <3>1, <3>2, <3>3, <3>4, KeepTyped DEF GrantAcl, store
  <2>10. CASE Attach(r)
    <3>1. /\ job' \in [Request -> Job] /\ job'[r] = [job[r] EXCEPT !.pc = "done"]
          /\ \A v \in Request \ {r} : job'[v] = job[v]
      BY <1>1, <2>10, GotoJob DEF Attach
    <3>2. Shapes'
      BY <1>1, <2>0, <2>10, <3>1 DEF Attach, store, Shapes, Entry
    <3>3. Course(job[r])'
      BY <2>0, <3>1 DEF Course, Job
    <3>4. job[r].pc = "attach" /\ job'[r].op = job[r].op
      BY <2>0, <2>10, <3>1 DEF Attach, At, Job
    <3> QED
      BY <2>0, <2>10, <3>1, <3>2, <3>3, <3>4, KeepTyped DEF Attach, store
  <2> QED
    BY <1>4, <2>1, <2>2, <2>3, <2>4, <2>5, <2>6, <2>7, <2>8, <2>9, <2>10 DEF Work
<1> QED
  BY <1>2, <1>3, <1>4 DEF Next

\* Specification Spec keeps the types, whether requests race or not: a request
\* draws no schema ETag beyond the last, and names a definition it has written.
THEOREM TypeCorrect == Spec => []TypeOK
<1>1. Typed => TypeOK
  BY DEF Typed, Shapes, TypeOK, Job, Op
<1> QED
  BY <1>1, InitTyped, TypedStep, PTL DEF Spec

-----------------------------------------------------------------------------
(* The owner.                                                                *)

\* The owner's ACL comes before the entry and goes after it; a creation that has
\* failed to read the entry may be at work on the ACLs of a table that is there.
OwnerPlace(j) ==
  /\ j.pc = "dropOwner" => ~ entry.exists
  /\ j.pc \in Clearing => ~ entry.exists \/ "entry" \in misread
  /\ j.pc = "putEntry" => "owner" \in acl

OwnerInv == Typed /\ OwnerKeepsTable /\ \A r \in Request : OwnerPlace(job[r])

LEMMA InitOwner == Init => OwnerInv
  BY InitTyped DEF Init, OwnerInv, OwnerKeepsTable, OwnerPlace, IdleJob, Clearing, NoEntry

\* Only with the lock does an entry come to be, or an ACL go.
LEMMA KeepOwner ==
  ASSUME OwnerInv, Typed', NEW r \in Request, OwnerKeepsTable', OwnerPlace(job[r])',
         \A v \in Request \ {r} : job'[v] = job[v],
         \/ holder = r
         \/ (entry'.exists => entry.exists) /\ acl \subseteq acl' /\ misread \subseteq misread'
  PROVE  OwnerInv'
<1> USE DEF Locking, Clearing
<1>1. ASSUME NEW v \in Request \ {r} PROVE OwnerPlace(job[v])'
  <2>1. /\ OwnerPlace(job[v]) /\ Course(job[v]) /\ job'[v] = job[v]
        /\ (job[v].op \in Locking /\ job[v].pc \notin {"idle", "lock"} => holder = v)
    BY DEF OwnerInv, Typed, Exclusive
  <2> QED
    BY <2>1 DEF OwnerPlace, Course, Deleting, Removing, Building
<1> QED
  BY <1>1 DEF OwnerInv

LEMMA OwnerStep ==
  ASSUME OwnerInv, [Next]_vars
  PROVE  OwnerInv'
<1> USE DEF Locking, Removing, Deleting, Clearing, Building, faults
<1>1. Typed' /\ Typed /\ Shapes /\ job \in [Request -> Job]
  BY TypedStep DEF OwnerInv, Typed, Shapes
<1>2. CASE UNCHANGED vars
  BY <1>1, <1>2 DEF vars, store, OwnerInv, OwnerKeepsTable, OwnerPlace
<1>3. CASE ChangeRows
  <2>1. entry'.exists = entry.exists
    BY <1>1, <1>3 DEF ChangeRows, Shapes, Entry
  <2> QED
    BY <1>1, <1>3, <2>1 DEF ChangeRows, store, OwnerInv, OwnerKeepsTable, OwnerPlace
<1>4. ASSUME NEW r \in Request, Begin(r) \/ GiveUp(r) \/ Fail(r) \/ Work(r) PROVE OwnerInv'
  <2>0. /\ OwnerKeepsTable /\ OwnerPlace(job[r]) /\ Course(job[r]) /\ job[r] \in Job
        /\ job[r].op \in Locking /\ job[r].pc \notin {"idle", "lock"} => holder = r
    BY <1>1, JobFields DEF OwnerInv, Typed, Exclusive
  <2>1. ASSUME entry'.exists => entry.exists, acl \subseteq acl', misread \subseteq misread'
        PROVE  OwnerKeepsTable'
    BY <2>0, <2>1 DEF OwnerKeepsTable
  <2>4. CASE Begin(r) \/ GiveUp(r) \/ Fail(r) \/ Lock(r) \/ Release(r) \/ GrantAcl(r) \/ Attach(r)
    <3>1. /\ job'[r].pc \notin {"dropAcls", "dropOwner"} \cup Clearing
          /\ \A v \in Request \ {r} : job'[v] = job[v]
      <4>1. CASE Begin(r)
        <5>1. ASSUME NEW j, Set(r, j), j.pc \in {"lock", "grant", "attach"}
              PROVE  /\ job'[r].pc \notin {"dropAcls", "dropOwner"} \cup Clearing
                     /\ \A v \in Request \ {r} : job'[v] = job[v]
          BY <1>1, <5>1 DEF Set
        <5>2. CASE \E s \in Schemas :
                     Set(r, [IdleJob EXCEPT !.op = "create", !.pc = "lock", !.want = s])
          BY <5>1, <5>2 DEF IdleJob
        <5>3. CASE \E op \in Op, pc \in {"lock", "grant", "attach"} :
                     Set(r, [IdleJob EXCEPT !.op = op, !.pc = pc, !.copy = entry])
          BY <5>1, <5>3 DEF IdleJob
        <5> QED
          BY <4>1, <5>2, <5>3 DEF Begin, Op
      <4>2. CASE Lock(r)
        <5>1. PICK pc \in {"read", "stale", "put"} : Goto(r, pc)
          BY <2>0, <4>2 DEF Lock, At, Course, FirstStep
        <5> QED
          BY <1>1, <2>0, <5>1 DEF Goto, Job
      <4>3. CASE GiveUp(r) \/ Release(r)
        BY <1>1, <4>3 DEF GiveUp, Release, Set, IdleJob
      <4>4. CASE Fail(r) \/ GrantAcl(r) \/ Attach(r)
        BY <1>1, <2>0, <4>4 DEF Fail, GrantAcl, Attach, Goto, Job
      <4> QED
        BY <2>4, <4>1, <4>2, <4>3, <4>4
    <3>2. entry' = entry /\ acl \subseteq acl' /\ misread' = misread
      BY <2>4 DEF Begin, GiveUp, Fail, Lock, Release, GrantAcl, Attach, store
    <3> QED
      BY <1>1, <2>1, <3>1, <3>2, KeepOwner DEF OwnerPlace
  <2>5. CASE PutOffices(r) \/ MakeStale(r) \/ GoLive(r)
    <3>1. /\ job'[r].pc \notin {"dropAcls", "dropOwner"} \cup Clearing
          /\ \A v \in Request \ {r} : job'[v] = job[v]
      <4>1. CASE PutOffices(r) \/ GoLive(r)
        BY <1>1, <2>0, <4>1 DEF PutOffices, GoLive, Goto, Job
      <4>2. CASE MakeStale(r)
        <5>1. PICK pc \in {"stale", "acls"} :
                Set(r, [job[r] EXCEPT !.copy = Doomed(job[r].copy), !.pc = pc])
          BY <4>2 DEF MakeStale
        <5> QED
          BY <1>1, <2>0, <5>1 DEF Set, Job
      <4> QED
        BY <2>5, <4>1, <4>2
    <3>2. (entry'.exists => entry.exists) /\ acl' = acl /\ misread' = misread
      BY <2>5 DEF PutOffices, MakeStale, GoLive, Put, store
    <3> QED
      BY <1>1, <2>1, <3>1, <3>2, KeepOwner DEF OwnerPlace
  <2>6. CASE RemoveStale(r) \/ DropData(r) \/ DropLog(r) \/ ClearAttachments(r) \/ DropColumn(r)
             \/ DropDefinition(r)
    <3>1. /\ job'[r].pc \notin {"dropAcls", "dropOwner"} \cup Clearing
          /\ \A v \in Request \ {r} : job'[v] = job[v]
      <4>1. CASE DropData(r) \/ DropLog(r) \/ ClearAttachments(r)
        BY <1>1, <2>0, <4>1 DEF DropData, DropLog, ClearAttachments, Goto, Job
      <4>2. CASE DropColumn(r)
        BY <1>1, <2>0, <4>2 DEF DropColumn, GotoWith, Job
      <4>3. CASE DropDefinition(r)
        BY <1>1, <2>0, <4>3 DEF DropDefinition, Set, Job
      <4>4. CASE RemoveStale(r)
        <5> DEFINE s == job[r].copy.stale
        <5>1. CASE s = Null
          BY <1>1, <2>0, <4>4, <5>1 DEF RemoveStale, Goto, Job
        <5>2. CASE s # Null
          <6>1. PICK cols \in Answers(ColumnsOf(s)) :
                  \/ Goto(r, "release") \/ GotoWith(r, "dropData", cols)
                  \/ Set(r, [job[r] EXCEPT !.copy.stale = Null, !.pc = "next"])
            BY <4>4, <5>2 DEF RemoveStale
          <6>2. CASE Goto(r, "release")
            BY <1>1, <2>0, <6>2 DEF Goto, Job
          <6>3. CASE GotoWith(r, "dropData", cols)
            BY <1>1, <2>0, <6>3 DEF GotoWith, Job
          <6>4. CASE Set(r, [job[r] EXCEPT !.copy.stale = Null, !.pc = "next"])
            BY <1>1, <2>0, <6>4 DEF Set, Job
          <6> QED
            BY <6>1, <6>2, <6>3, <6>4
        <5> QED
          BY <5>1, <5>2
      <4> QED
        BY <2>6, <4>1, <4>2, <4>3, <4>4
    <3>2. entry' = entry /\ acl' = acl /\ misread \subseteq misread'
      <4>1. entry' = entry /\ acl' = acl
        BY <2>6 DEF RemoveStale, DropData, DropLog, ClearAttachments, DropColumn,
                    DropDefinition, store
      <4>2. CASE RemoveStale(r)
        <5>1. UNCHANGED faults \/ \E truly \in BOOLEAN : Heard("schema", truly)
          BY <4>2 DEF RemoveStale
        <5>2. ASSUME NEW truly \in BOOLEAN, Heard("schema", truly) PROVE misread \subseteq misread'
          BY <5>2, <1>1, HeardType DEF Reading
        <5> QED
          BY <4>1, <5>1, <5>2
      <4>3. CASE ~ RemoveStale(r)
        BY <2>6, <4>3 DEF DropData, DropLog, ClearAttachments, DropColumn, DropDefinition
      <4> QED
        BY <4>1, <4>2, <4>3
    <3> QED
      BY <1>1, <2>1, <3>1, <3>2, KeepOwner DEF OwnerPlace
  <2>7. CASE PutDefinition(r) \/ PutColumn(r) \/ MakeData(r) \/ MakeLog(r)
    <3>1. /\ job'[r].pc \notin {"dropAcls", "dropOwner"} \cup Clearing
          /\ \A v \in Request \ {r} : job'[v] = job[v]
      BY <1>1, <2>0, <2>7 DEF PutDefinition, PutColumn, MakeData, MakeLog,
                              Goto, GotoWith, Job
    <3>2. entry' = entry /\ acl' = acl /\ misread' = misread
      BY <2>7 DEF PutDefinition, PutColumn, MakeData, MakeLog
    <3> QED
      BY <1>1, <2>1, <3>1, <3>2, KeepOwner DEF OwnerPlace
  <2>8. CASE FindAcls(r) \/ DropAcl(r)
    <3>1. job'[r].pc = "dropAcls" /\ \A v \in Request \ {r} : job'[v] = job[v]
      BY <1>1, <2>0, <2>8 DEF FindAcls, DropAcl, GotoWith, Job
    <3>2. /\ entry' = entry /\ ("owner" \in acl => "owner" \in acl') /\ holder = r
          /\ misread \subseteq misread'
      BY <2>0, <2>8 DEF FindAcls, DropAcl, HeldBack, store, At, Course, Heard
    <3> QED
      <4>1. OwnerKeepsTable' /\ OwnerPlace(job[r])'
        BY <2>0, <3>1, <3>2 DEF OwnerPlace, OwnerKeepsTable
      <4> QED
        BY <1>1, <3>1, <3>2, <4>1, KeepOwner
  <2>9. CASE DropEntry(r)
    <3>1. ~ entry'.exists /\ holder = r /\ job'[r].pc = "dropOwner"
          /\ \A v \in Request \ {r} : job'[v] = job[v]
      BY <1>1, <2>0, <2>9 DEF DropEntry, NoEntry, At, Course, Goto, Job
    <3> QED
      <4>1. OwnerKeepsTable' /\ OwnerPlace(job[r])'
        BY <3>1 DEF OwnerPlace, OwnerKeepsTable
      <4> QED
        BY <1>1, <3>1, <4>1, KeepOwner DEF OwnerPlace
  <2>10. CASE DropOwner(r)
    <3>1. /\ job'[r].pc \in {"done", "oldAcls"} /\ \A v \in Request \ {r} : job'[v] = job[v]
          /\ entry' = entry /\ ~ entry.exists /\ holder = r
      BY <1>1, <2>0, <2>10 DEF DropOwner, Goto, Job, At, OwnerPlace, Course
    <3>2. OwnerKeepsTable' /\ OwnerPlace(job[r])'
      BY <3>1 DEF OwnerPlace, OwnerKeepsTable
    <3> QED
      BY <1>1, <3>1, <3>2, KeepOwner
  <2>11. CASE FindOldAcls(r) \/ ClearAcl(r) \/ PutOwner(r)
    <3>1. /\ job'[r].pc \in {"clearAcls", "putEntry"}
          /\ job'[r].pc = "putEntry" => "owner" \in acl'
          /\ \A v \in Request \ {r} : job'[v] = job[v]
      BY <1>1, <2>0, <2>11 DEF FindOldAcls, ClearAcl, PutOwner, Goto, GotoWith, Job
    <3>2. /\ entry' = entry /\ holder = r /\ misread \subseteq misread'
          /\ ~ entry.exists \/ "entry" \in misread
      BY <2>0, <2>11 DEF FindOldAcls, ClearAcl, PutOwner, At, OwnerPlace, Course, store, Heard
    <3>3. OwnerKeepsTable' /\ OwnerPlace(job[r])'
      BY <3>1, <3>2 DEF OwnerPlace, OwnerKeepsTable
    <3> QED
      BY <1>1, <3>1, <3>2, <3>3, KeepOwner
  <2>12. CASE ReadEntry(r)
    <3>1. /\ job'[r].pc \in {"done", "release", "stale", "oldAcls"}
          /\ job'[r].pc = "oldAcls" => Heard("entry", ~ entry.exists)
          /\ \A v \in Request \ {r} : job'[v] = job[v]
      <4>1. \/ \E pc \in {"done", "release"} : Goto(r, pc)
            \/ Set(r, [job[r] EXCEPT !.copy = entry, !.pc = "stale"])
            \/ Heard("entry", ~ entry.exists) /\ Goto(r, "oldAcls")
        BY <2>12 DEF ReadEntry
      <4>2. CASE \E pc \in {"done", "release"} : Goto(r, pc)
        BY <1>1, <2>0, <4>2 DEF Goto, Job
      <4>3. CASE Set(r, [job[r] EXCEPT !.copy = entry, !.pc = "stale"])
        BY <1>1, <2>0, <4>3 DEF Set, Job
      <4>4. CASE Heard("entry", ~ entry.exists) /\ Goto(r, "oldAcls")
        BY <1>1, <2>0, <4>4 DEF Goto, Job
      <4> QED
        BY <4>1, <4>2, <4>3, <4>4
    <3>2. entry' = entry /\ acl' = acl /\ misread \subseteq misread'
      BY <2>12 DEF ReadEntry, store, Heard
    <3>3. OwnerPlace(job[r])'
      BY <3>1, <3>2 DEF OwnerPlace, Heard
    <3> QED
      BY <1>1, <2>1, <3>1, <3>2, <3>3, KeepOwner
  <2>13. CASE PutEntry(r)
    <3>1. /\ job'[r].pc \notin {"dropAcls", "dropOwner"} \cup Clearing
          /\ \A v \in Request \ {r} : job'[v] = job[v]
      <4>1. CASE entry.exists
        BY <1>1, <2>0, <2>13, <4>1 DEF PutEntry, Goto, Job
      <4>2. CASE ~ entry.exists
        <5>1. PICK e : Set(r, [job[r] EXCEPT !.copy = e, !.pc = "putDefinition"])
          BY <2>13, <4>2 DEF PutEntry
        <5> QED
          BY <1>1, <2>0, <5>1 DEF Set, Job
      <4> QED
        BY <4>1, <4>2
    <3>2. "owner" \in acl' /\ holder = r
      BY <2>0, <2>13 DEF PutEntry, store, At, OwnerPlace, Course
    <3> QED
      <4>1. OwnerKeepsTable' /\ OwnerPlace(job[r])'
        BY <3>1, <3>2 DEF OwnerPlace, OwnerKeepsTable
      <4> QED
        BY <1>1, <3>1, <3>2, <4>1, KeepOwner DEF OwnerPlace
  <2> QED
    BY <1>4, <2>4, <2>5, <2>6, <2>7, <2>8, <2>9, <2>10, <2>11, <2>12, <2>13 DEF Work, Delete, Create
<1> QED
  BY <1>2, <1>3, <1>4 DEF Next

\* The owner keeps its role as long as there is an entry, and so can delete what a
\* failed deletion left of its table, whether requests race or not, and whatever
\* reads fail but that of the entry by a creation.
THEOREM OwnerIsKept == Spec => []OwnerKeepsTable
<1>1. OwnerInv => OwnerKeepsTable
  BY DEF OwnerInv
<1> QED
  BY <1>1, InitOwner, OwnerStep, PTL DEF Spec

-----------------------------------------------------------------------------
(***************************************************************************)
(* A table leaves nothing behind: as long as no request uses what it read  *)
(* of the entry before it had the lock when the entry has changed since    *)
(* (~ RequestsRace), and no query for a definition or columns has failed.  *)
(***************************************************************************)
\* The entry names one schema: in use, pending or stale.
OneSchema ==
  \/ ~ entry.exists /\ entry = NoEntry
  \/ entry.exists /\ entry.schema # Null /\ entry.pending = Null /\ entry.stale = Null
  \/ entry.exists /\ entry.schema = Null /\ entry.pending # Null /\ entry.stale = Null
  \/ entry.exists /\ entry.schema = Null /\ entry.pending = Null /\ entry.stale # Null

\* There is one definition at most, of that schema; the columns and the relations
\* that are there are of it, and no name of it is another table's.
OneDefinition ==
  /\ \A d, f \in definition : d = f
  /\ \A d \in definition : /\ entry.exists
                           /\ d.schema \in {entry.schema, entry.pending, entry.stale} \ {Null}
                           /\ Relations(d.name) \cap Others = {}
Parts ==
  /\ \A c \in column : \E d \in definition : d.schema = c.schema
  /\ Others \subseteq relation
  /\ \A e \in relation : e \in Others \/ \E d \in definition : d.name = e.name
  /\ Live => \E d \in definition : Relations(d.name) \subseteq relation

\* Attachments are of the schema in use, or of the stale one while it is removed.
Attachments ==
  /\ attachment # {} => definition # {} /\ entry.pending = Null
  /\ Live => attachment \subseteq {entry.schema}

Has(kind) == \A d \in definition : [name |-> d.name, kind |-> kind] \in relation
HasNo(kind) == \A d \in definition : [name |-> d.name, kind |-> kind] \notin relation

\* What a job finds done when it gets to a place, and has done when it leaves it.
Place(j) ==
  /\ j.pc = "lock" /\ j.op = "delete" => j.copy.exists
  /\ j.pc = "attach" => j.copy.exists /\ j.copy.schema # Null
  /\ j.pc = "put" => j.copy = entry
  /\ j.pc = "stale" => j.copy = entry /\ entry.exists
  /\ j.pc \in Removing =>
       j.copy = entry /\ entry.exists /\ entry.stale # Null /\ definition # {}
       /\ ColumnsOf(entry.stale) = j.todo
  /\ j.pc \in Removing \ {"dropData"} => HasNo("data")
  /\ j.pc \in Removing \ {"dropData", "dropLog"} => HasNo("log")
  /\ j.pc = "dropColumns" => attachment = {}
  /\ j.pc = "next" =>
       entry.exists /\ j.copy = [entry EXCEPT !.stale = Null]
       /\ (entry.stale # Null => definition = {})
  /\ j.pc \in {"acls", "dropAcls"} => entry.exists /\ entry.stale # Null /\ definition = {}
  /\ j.pc = "dropOwner" => ~ entry.exists
  /\ j.pc \in Building => j.copy = entry /\ entry.exists /\ entry.pending # Null
  /\ j.pc = "putDefinition" => definition = {}
  /\ j.pc \in Building \ {"putDefinition"} => definition # {}
  /\ j.pc = "putColumns" => ColumnsOf(entry.pending) = j.want \ j.todo
  /\ j.pc \in {"makeLog", "goLive"} => ColumnsOf(entry.pending) = j.want /\ Has("data")
  /\ j.pc = "goLive" => Has("log")
  /\ j.op = "create" /\ j.pc = "done" => Live /\ ColumnsOf(entry.schema) = j.want
  /\ j.op = "delete" /\ j.pc = "done" => ~ entry.exists

Store == OneSchema /\ OneDefinition /\ Parts /\ Attachments
Clean == "schema" \notin misread
Inv == Typed /\ Store /\ \A r \in Request : Place(job[r])

-----------------------------------------------------------------------------
(* One definition.                                                           *)

LEMMA NoDefinition ==
  ASSUME Store, definition = {}
  PROVE  column = {} /\ relation = Others /\ attachment = {} /\ \A e : NamesOf(e) = {}
  BY DEF Store, Parts, Attachments, NamesOf

LEMMA TheDefinition ==
  ASSUME Typed, Store, NEW d \in definition
  PROVE  /\ definition = {d}
         /\ NamesOf(d.schema) = {d.name}
         /\ entry.exists /\ d.schema \in ETag \ {Null} /\ d.name \in Name
         /\ d.schema \in {entry.schema, entry.pending, entry.stale}
         /\ entry.schema # Null => entry.schema = d.schema
         /\ entry.pending # Null => entry.pending = d.schema
         /\ entry.stale # Null => entry.stale = d.schema
         /\ \A c \in column : c.schema = d.schema
<1>1. definition = {d} /\ d.schema \in ETag /\ d.name \in Name
  BY DEF Store, OneDefinition, Typed, Shapes
<1>2. NamesOf(d.schema) = {d.name}
  BY <1>1 DEF NamesOf
<1> QED
  BY <1>1, <1>2 DEF Store, OneDefinition, OneSchema, Parts

LEMMA InitStore == Init => Inv
<1> SUFFICES ASSUME Init PROVE Inv
  OBVIOUS
<1>1. Store
  BY DEF Init, Store, OneSchema, OneDefinition, Parts, Attachments, Live, NoEntry
<1>2. \A r \in Request : Place(job[r])
  BY DEF Init, IdleJob, Place, Removing, Clearing, Building
<1> QED
  BY <1>1, <1>2, InitTyped DEF Inv

-----------------------------------------------------------------------------
(* The others, while request r works.                                        *)

\* A step that leaves the store alone changes nothing for the others.
LEMMA StoreKept ==
  ASSUME Inv, UNCHANGED <<entry, store>>
  PROVE  Store' /\ \A v \in Request : job'[v] = job[v] => Place(job[v])'
<1>1. Store'
  BY DEF Inv, Store, OneSchema, OneDefinition, Parts, Attachments, Live, store
<1>2. ASSUME NEW v \in Request, job'[v] = job[v] PROVE Place(job[v])'
  <2>1. Place(job[v])
    BY DEF Inv
  <2>2. \A e : ColumnsOf(e)' = ColumnsOf(e)
    BY DEF ColumnsOf, store
  <2>3. ColumnsOf(entry.stale)' = ColumnsOf(entry.stale)
        /\ ColumnsOf(entry.pending)' = ColumnsOf(entry.pending)
        /\ ColumnsOf(entry.schema)' = ColumnsOf(entry.schema)
    BY DEF ColumnsOf, store
  <2> QED
    BY <1>2, <2>1, <2>3 DEF Place, Has, HasNo, Live, store
<1> QED
  BY <1>1, <1>2

\* What a request without the lock relies on, no other can change.
LEMMA Bystander ==
  ASSUME Inv, NEW v \in Request, holder # v, job'[v] = job[v]
  PROVE  Place(job[v])'
<1>1. ~ (job[v].op \in Locking /\ job[v].pc \notin {"idle", "lock"}) /\ Course(job[v])
  BY DEF Inv, Typed, Exclusive
<1>2. Place(job[v])
  BY DEF Inv
<1> QED
  BY <1>1, <1>2 DEF Place, Course, Locking, Removing, Deleting, Clearing, Building

\* What a step of request r has to show: that the store is as it should be, and
\* that the request is where it should be.
LEMMA KeepInv ==
  ASSUME Inv, Typed', Store', NEW r \in Request, Place(job[r])',
         \A v \in Request \ {r} : job'[v] = job[v],
         holder = r \/ UNCHANGED <<entry, store>>
  PROVE  Inv'
<1>1. ASSUME NEW v \in Request \ {r} PROVE Place(job[v])'
  BY Bystander, StoreKept
<1> QED
  BY <1>1 DEF Inv

-----------------------------------------------------------------------------
(* Steps that leave the store alone.                                         *)

LEMMA BeginKeeps ==
  ASSUME Inv, Typed', NEW r \in Request, Begin(r)
  PROVE  Inv'
<1> USE DEF Locking, Removing, Deleting, Clearing, Building
<1>0. /\ Shapes /\ Store /\ job[r] \in Job /\ job[r].op \in Op /\ job[r].copy \in Entry
      /\ job[r].pc \in Working \cup {"idle", "lock", "done", "release"}
      /\ job[r].want \in SUBSET Column /\ job[r].todo \in SUBSET (Column \cup Role)
      /\ Course(job[r]) /\ Place(job[r])
      /\ job[r].op \in Locking /\ job[r].pc \notin {"idle", "lock"} => holder = r
  BY JobFields DEF Inv, Typed, Exclusive
<1>1. UNCHANGED <<entry, store>>
  BY DEF Begin
<1>2. ASSUME NEW j \in Job, Set(r, j), j.pc \in {"lock", "grant", "attach"},
             j.pc = "attach" => j.copy.exists /\ j.copy.schema # Null,
             j.op = "delete" => j.copy.exists
      PROVE  Inv'
  <2>1. job'[r] = j /\ \A v \in Request \ {r} : job'[v] = job[v]
    BY <1>0, <1>2, SetJob
  <2>2. Course(job[r])'
    BY DEF Typed
  <2>3. Place(job[r])'
    BY <1>2, <2>1, <2>2 DEF Place, Course
  <2> QED
    BY <1>1, <2>1, <2>3, StoreKept, KeepInv
<1>3. ASSUME NEW s \in Schemas,
             Set(r, [IdleJob EXCEPT !.op = "create", !.pc = "lock", !.want = s])
      PROVE  Inv'
  <2>1. [IdleJob EXCEPT !.op = "create", !.pc = "lock", !.want = s] \in Job
    BY IdleJobType, TableLifecycleAssumption DEF Job, Op
  <2> QED
    BY <1>2, <1>3, <2>1, IdleJobType DEF Job
<1>4. ASSUME entry.exists, NEW op \in {"delete", "offices", "acl", "attach"},
             NEW pc \in {"lock", "grant", "attach"}, pc = "attach" => entry.schema # Null,
             Set(r, [IdleJob EXCEPT !.op = op, !.pc = pc, !.copy = entry])
      PROVE  Inv'
  <2>1. [IdleJob EXCEPT !.op = op, !.pc = pc, !.copy = entry] \in Job
    BY <1>0, IdleJobType DEF Job, Op, Working, Shapes
  <2> QED
    BY <1>2, <1>4, <2>1, IdleJobType DEF Job
<1> QED
  BY <1>3, <1>4 DEF Begin, Live

\* The copy of the entry is the entry, once the lock is there.
LEMMA LockKeeps ==
  ASSUME Inv, Typed', ~ RequestsRace, NEW r \in Request, Lock(r)
  PROVE  Inv'
<1> USE DEF Locking, Removing, Deleting, Clearing, Building
<1>0. /\ Shapes /\ Store /\ job[r] \in Job /\ job[r].op \in Op /\ job[r].copy \in Entry
      /\ job[r].pc \in Working \cup {"idle", "lock", "done", "release"}
      /\ job[r].want \in SUBSET Column /\ job[r].todo \in SUBSET (Column \cup Role)
      /\ Course(job[r]) /\ Place(job[r])
      /\ job[r].op \in Locking /\ job[r].pc \notin {"idle", "lock"} => holder = r
  BY JobFields DEF Inv, Typed, Exclusive
<1> DEFINE pc == FirstStep(job[r].op)
<1>1. /\ job[r].op \in Locking /\ pc \in {"read", "stale", "put"}
      /\ pc = "read" <=> job[r].op = "create"
      /\ pc = "stale" => job[r].op = "delete"
  BY <1>0 DEF Lock, At, Course, FirstStep
<1>2. job'[r] = [job[r] EXCEPT !.pc = pc] /\ \A v \in Request \ {r} : job'[v] = job[v]
  BY <1>0, <1>1, GotoJob DEF Lock, Working
<1> HIDE DEF pc
<1>3. job[r].pc = "lock" /\ UNCHANGED <<entry, store>>
      /\ (job[r].op # "create" => entry = job[r].copy)
  BY DEF Lock, At, Fresh
<1>4. Place(job[r])'
  BY <1>0, <1>1, <1>2, <1>3 DEF Place, Job
<1> QED
  BY <1>2, <1>3, <1>4, StoreKept, KeepInv

LEMMA GiveUpKeeps ==
  ASSUME Inv, Typed', NEW r \in Request, GiveUp(r)
  PROVE  Inv'
<1> USE DEF Locking, Removing, Deleting, Clearing, Building
<1>0. /\ Shapes /\ Store /\ job[r] \in Job /\ job[r].op \in Op /\ job[r].copy \in Entry
      /\ job[r].pc \in Working \cup {"idle", "lock", "done", "release"}
      /\ job[r].want \in SUBSET Column /\ job[r].todo \in SUBSET (Column \cup Role)
      /\ Course(job[r]) /\ Place(job[r])
      /\ job[r].op \in Locking /\ job[r].pc \notin {"idle", "lock"} => holder = r
  BY JobFields DEF Inv, Typed, Exclusive
<1>1. job'[r] = IdleJob /\ \A v \in Request \ {r} : job'[v] = job[v]
  BY <1>0, IdleJobType, SetJob DEF GiveUp
<1>2. Place(job[r])'
  BY <1>1 DEF Place, IdleJob
<1> QED
  BY <1>1, <1>2, StoreKept, KeepInv DEF GiveUp

LEMMA ReleaseKeeps ==
  ASSUME Inv, Typed', NEW r \in Request, Release(r)
  PROVE  Inv'
<1> USE DEF Locking, Removing, Deleting, Clearing, Building
<1>0. /\ Shapes /\ Store /\ job[r] \in Job /\ job[r].op \in Op /\ job[r].copy \in Entry
      /\ job[r].pc \in Working \cup {"idle", "lock", "done", "release"}
      /\ job[r].want \in SUBSET Column /\ job[r].todo \in SUBSET (Column \cup Role)
      /\ Course(job[r]) /\ Place(job[r])
      /\ job[r].op \in Locking /\ job[r].pc \notin {"idle", "lock"} => holder = r
  BY JobFields DEF Inv, Typed, Exclusive
<1>1. job'[r] = IdleJob /\ \A v \in Request \ {r} : job'[v] = job[v]
  BY <1>0, IdleJobType, SetJob DEF Release
<1>2. Place(job[r])'
  BY <1>1 DEF Place, IdleJob
<1> QED
  BY <1>1, <1>2, StoreKept, KeepInv DEF Release

LEMMA FailKeeps ==
  ASSUME Inv, Typed', NEW r \in Request, Fail(r)
  PROVE  Inv'
<1> USE DEF Locking, Removing, Deleting, Clearing, Building
<1>0. /\ Shapes /\ Store /\ job[r] \in Job /\ job[r].op \in Op /\ job[r].copy \in Entry
      /\ job[r].pc \in Working \cup {"idle", "lock", "done", "release"}
      /\ job[r].want \in SUBSET Column /\ job[r].todo \in SUBSET (Column \cup Role)
      /\ Course(job[r]) /\ Place(job[r])
      /\ job[r].op \in Locking /\ job[r].pc \notin {"idle", "lock"} => holder = r
  BY JobFields DEF Inv, Typed, Exclusive
<1>1. job'[r] = [job[r] EXCEPT !.pc = "release"] /\ \A v \in Request \ {r} : job'[v] = job[v]
  BY <1>0, GotoJob DEF Fail
<1>2. Place(job[r])'
  BY <1>0, <1>1 DEF Place, Job
<1> QED
  BY <1>1, <1>2, StoreKept, KeepInv DEF Fail

\* If there is no definition of the stale schema, there is none at all.
LEMMA RemoveStaleKeeps ==
  ASSUME Inv, Typed', Clean', NEW r \in Request, RemoveStale(r)
  PROVE  Inv'
<1> USE DEF Locking, Removing, Deleting, Clearing, Building
<1>0. /\ Shapes /\ Store /\ job[r] \in Job /\ job[r].op \in Op /\ job[r].copy \in Entry
      /\ job[r].pc \in Working \cup {"idle", "lock", "done", "release"}
      /\ job[r].want \in SUBSET Column /\ job[r].todo \in SUBSET (Column \cup Role)
      /\ Course(job[r]) /\ Place(job[r])
      /\ job[r].op \in Locking /\ job[r].pc \notin {"idle", "lock"} => holder = r
  BY JobFields DEF Inv, Typed, Exclusive
<1> DEFINE s == job[r].copy.stale
<1>1. job[r].copy = entry /\ entry.exists /\ s = entry.stale /\ UNCHANGED <<entry, store>>
  BY <1>0 DEF RemoveStale, At, Place
<1>2. ASSUME Place(job[r])', \A v \in Request \ {r} : job'[v] = job[v] PROVE Inv'
  BY <1>1, <1>2, StoreKept, KeepInv
<1>3. CASE s = Null
  <2>1. job'[r] = [job[r] EXCEPT !.pc = "next"] /\ \A v \in Request \ {r} : job'[v] = job[v]
    BY <1>0, <1>3, GotoJob DEF RemoveStale, Working
  <2>2. entry = [entry EXCEPT !.stale = Null]
    BY <1>0, <1>1, <1>3 DEF Entry, Shapes
  <2>3. Place(job[r])'
    BY <1>0, <1>1, <1>3, <2>1, <2>2 DEF Place, Job
  <2> QED
    BY <1>2, <2>1, <2>3
<1>t. ASSUME s # Null
      PROVE  \/ Goto(r, "release")
             \/ NamesOf(s) # {} /\ GotoWith(r, "dropData", ColumnsOf(s))
             \/ NamesOf(s) = {} /\ Set(r, [job[r] EXCEPT !.copy.stale = Null, !.pc = "next"])
  <2>1. PICK cols \in Answers(ColumnsOf(s)), names \in Answers(NamesOf(s)) :
          /\ Heard("schema", cols = ColumnsOf(s) /\ names = NamesOf(s))
          /\ \/ Goto(r, "release")
             \/ names # {} /\ GotoWith(r, "dropData", cols)
             \/ names = {} /\ Set(r, [job[r] EXCEPT !.copy.stale = Null, !.pc = "next"])
    BY <1>t DEF RemoveStale
  <2>2. cols = ColumnsOf(s) /\ names = NamesOf(s)
    BY <2>1 DEF Heard, Clean
  <2> QED
    BY <2>1, <2>2
<1>4. CASE s # Null /\ Goto(r, "release")
  <2>1. job'[r] = [job[r] EXCEPT !.pc = "release"] /\ \A v \in Request \ {r} : job'[v] = job[v]
    BY <1>0, <1>4, GotoJob
  <2>2. Place(job[r])'
    BY <1>0, <2>1 DEF Place, Job
  <2> QED
    BY <1>2, <2>1, <2>2
<1>5. CASE s # Null /\ NamesOf(s) # {} /\ GotoWith(r, "dropData", ColumnsOf(s))
  <2>1. ColumnsOf(s) \in SUBSET (Column \cup Role)
    BY <1>0, ColumnsType
  <2>2. job'[r] = [job[r] EXCEPT !.pc = "dropData", !.todo = ColumnsOf(s)]
        /\ \A v \in Request \ {r} : job'[v] = job[v]
    <3>1. GotoWith(r, "dropData", ColumnsOf(s))
      BY <1>5
    <3>2. "dropData" \in Working \cup {"idle", "lock", "done", "release"}
      BY DEF Working
    <3>3. Shapes
      BY <1>0
    <3> HIDE DEF s
    <3> QED
      BY <2>1, <3>1, <3>2, <3>3, GotoWithJob, Zenon
  <2>3. definition # {}
    BY <1>5 DEF NamesOf
  <2>4. ColumnsOf(entry.stale)' = ColumnsOf(s)
    BY <1>1 DEF ColumnsOf, store
  <2>5. Place(job[r])'
    BY <1>0, <1>1, <1>5, <2>2, <2>3, <2>4 DEF Place, Job, store
  <2> QED
    BY <1>2, <2>2, <2>5
<1>6. CASE /\ s # Null /\ NamesOf(s) = {}
           /\ Set(r, [job[r] EXCEPT !.copy.stale = Null, !.pc = "next"])
  <2>1. [job[r] EXCEPT !.copy.stale = Null, !.pc = "next"] \in Job
    BY <1>0, NoEntryType DEF Job, Entry, Working
  <2>2. job'[r] = [job[r] EXCEPT !.copy.stale = Null, !.pc = "next"]
        /\ \A v \in Request \ {r} : job'[v] = job[v]
    BY <1>0, <1>6, <2>1, SetJob
  <2>3. definition = {}
    <3> SUFFICES ASSUME NEW d \in definition PROVE FALSE
      OBVIOUS
    <3> QED
      BY <1>1, <1>6, TheDefinition DEF Inv
  <2>4. job'[r].pc = "next" /\ job'[r].op = job[r].op
        /\ job'[r].copy = [entry EXCEPT !.stale = Null]
    BY <1>0, <1>1, <2>2 DEF Job
  <2>5. Place(job[r])'
    BY <1>0, <1>1, <2>3, <2>4 DEF Place, store
  <2> QED
    BY <1>2, <2>2, <2>5
<1> QED
  BY <1>t, <1>3, <1>4, <1>5, <1>6

LEMMA FindAclsKeeps ==
  ASSUME Inv, Typed', NEW r \in Request, FindAcls(r)
  PROVE  Inv'
<1> USE DEF Locking, Removing, Deleting, Clearing, Building
<1>0. /\ Shapes /\ Store /\ job[r] \in Job /\ job[r].op \in Op /\ job[r].copy \in Entry
      /\ job[r].pc \in Working \cup {"idle", "lock", "done", "release"}
      /\ job[r].want \in SUBSET Column /\ job[r].todo \in SUBSET (Column \cup Role)
      /\ Course(job[r]) /\ Place(job[r])
      /\ job[r].op \in Locking /\ job[r].pc \notin {"idle", "lock"} => holder = r
  BY JobFields DEF Inv, Typed, Exclusive
<1>1. PICK found \in SUBSET (Column \cup Role) :
        /\ job'[r] = [job[r] EXCEPT !.pc = "dropAcls", !.todo = found]
        /\ \A v \in Request \ {r} : job'[v] = job[v]
  <2>1. PICK found \in Answers(acl) : GotoWith(r, "dropAcls", found)
    BY DEF FindAcls
  <2>2. /\ found \in SUBSET (Column \cup Role) /\ Shapes
        /\ "dropAcls" \in Working \cup {"idle", "lock", "done", "release"}
    BY <1>0 DEF Shapes, Answers, Working
  <2>3. /\ job'[r] = [job[r] EXCEPT !.pc = "dropAcls", !.todo = found]
        /\ \A v \in Request \ {r} : job'[v] = job[v]
    BY <2>1, <2>2, GotoWithJob, Zenon
  <2> QED
    BY <2>2, <2>3
<1>2. Place(job[r])'
  BY <1>0, <1>1 DEF FindAcls, At, Place, Job, store
<1> QED
  BY <1>1, <1>2, StoreKept, KeepInv DEF FindAcls

LEMMA FindOldAclsKeeps ==
  ASSUME Inv, Typed', NEW r \in Request, FindOldAcls(r)
  PROVE  Inv'
<1> USE DEF Locking, Removing, Deleting, Clearing, Building
<1>0. /\ Shapes /\ Store /\ job[r] \in Job /\ job[r].op \in Op /\ job[r].copy \in Entry
      /\ job[r].pc \in Working \cup {"idle", "lock", "done", "release"}
      /\ job[r].want \in SUBSET Column /\ job[r].todo \in SUBSET (Column \cup Role)
      /\ Course(job[r]) /\ Place(job[r])
      /\ job[r].op \in Locking /\ job[r].pc \notin {"idle", "lock"} => holder = r
  BY JobFields DEF Inv, Typed, Exclusive
<1>1. PICK found \in SUBSET (Column \cup Role) :
        /\ job'[r] = [job[r] EXCEPT !.pc = "clearAcls", !.todo = found]
        /\ \A v \in Request \ {r} : job'[v] = job[v]
  <2>1. PICK found \in Answers(acl) : GotoWith(r, "clearAcls", found)
    BY DEF FindOldAcls
  <2>2. /\ found \in SUBSET (Column \cup Role) /\ Shapes
        /\ "clearAcls" \in Working \cup {"idle", "lock", "done", "release"}
    BY <1>0 DEF Shapes, Answers, Working
  <2>3. /\ job'[r] = [job[r] EXCEPT !.pc = "clearAcls", !.todo = found]
        /\ \A v \in Request \ {r} : job'[v] = job[v]
    BY <2>1, <2>2, GotoWithJob, Zenon
  <2> QED
    BY <2>2, <2>3
<1>2. Place(job[r])'
  BY <1>0, <1>1 DEF FindOldAcls, At, Place, Job, store
<1> QED
  BY <1>1, <1>2, StoreKept, KeepInv DEF FindOldAcls

\* A table that is live is the answer; what else is there is to be removed.
LEMMA ReadEntryKeeps ==
  ASSUME Inv, Typed', Clean', NEW r \in Request, ReadEntry(r)
  PROVE  Inv'
<1> USE DEF Locking, Removing, Deleting, Clearing, Building
<1>0. /\ Shapes /\ Store /\ job[r] \in Job /\ job[r].op \in Op /\ job[r].copy \in Entry
      /\ job[r].pc \in Working \cup {"idle", "lock", "done", "release"}
      /\ job[r].want \in SUBSET Column /\ job[r].todo \in SUBSET (Column \cup Role)
      /\ Course(job[r]) /\ Place(job[r])
      /\ job[r].op \in Locking /\ job[r].pc \notin {"idle", "lock"} => holder = r
  BY JobFields DEF Inv, Typed, Exclusive
<1>1. UNCHANGED <<entry, store>> /\ job[r].op = "create"
  BY <1>0 DEF ReadEntry, At, Course
<1>2. ASSUME Place(job[r])', \A v \in Request \ {r} : job'[v] = job[v] PROVE Inv'
  BY <1>1, <1>2, StoreKept, KeepInv
<1>3. ASSUME NEW pc \in {"done", "release", "oldAcls"}, Goto(r, pc),
             pc = "done" => Live /\ ColumnsOf(entry.schema) = job[r].want
      PROVE  Inv'
  <2>1. job'[r] = [job[r] EXCEPT !.pc = pc] /\ \A v \in Request \ {r} : job'[v] = job[v]
    BY <1>0, <1>3, GotoJob DEF Working
  <2>2. Live' = Live /\ ColumnsOf(entry.schema)' = ColumnsOf(entry.schema)
    BY <1>1 DEF Live, ColumnsOf, store
  <2>3. Place(job[r])'
    BY <1>0, <1>1, <1>3, <2>1, <2>2 DEF Place, Job
  <2> QED
    BY <1>2, <2>1, <2>3
<1>4. ASSUME Live,
             NEW cols \in Answers(ColumnsOf(entry.schema)),
             NEW names \in Answers(NamesOf(entry.schema)),
             Heard("schema", cols = ColumnsOf(entry.schema) /\ names = NamesOf(entry.schema)),
             Goto(r, IF names # {} /\ SameColumns(cols, job[r].want) THEN "done" ELSE "release")
      PROVE  Inv'
  <2>1. cols = ColumnsOf(entry.schema)
    BY <1>4 DEF Heard, Clean
  <2>2. CASE names # {} /\ cols = job[r].want
    <3>1. Goto(r, "done")
      BY <1>4, <2>2 DEF SameColumns
    <3> QED
      BY <1>3, <1>4, <2>1, <2>2, <3>1
  <2>3. CASE ~ (names # {} /\ cols = job[r].want)
    <3>1. Goto(r, "release")
      BY <1>4, <2>3 DEF SameColumns
    <3> QED
      BY <1>3, <3>1
  <2> QED
    BY <2>2, <2>3
<1>5. CASE entry.exists /\ Set(r, [job[r] EXCEPT !.copy = entry, !.pc = "stale"])
  <2>1. [job[r] EXCEPT !.copy = entry, !.pc = "stale"] \in Job
    BY <1>0 DEF Job, Working, Shapes
  <2>2. job'[r] = [job[r] EXCEPT !.copy = entry, !.pc = "stale"]
        /\ \A v \in Request \ {r} : job'[v] = job[v]
    BY <1>0, <1>5, <2>1, SetJob
  <2>3. Place(job[r])'
    BY <1>0, <1>1, <1>5, <2>2 DEF Place, Job
  <2> QED
    BY <1>2, <2>2, <2>3
<1>6. CASE Goto(r, "oldAcls")
  BY <1>3, <1>6
<1> QED
  BY <1>4, <1>5, <1>6 DEF ReadEntry

\* What is written back is what was there.
LEMMA PutOfficesKeeps ==
  ASSUME Inv, Typed', NEW r \in Request, PutOffices(r)
  PROVE  Inv'
<1> USE DEF Locking, Removing, Deleting, Clearing, Building
<1>0. /\ Shapes /\ Store /\ job[r] \in Job /\ job[r].op \in Op /\ job[r].copy \in Entry
      /\ job[r].pc \in Working \cup {"idle", "lock", "done", "release"}
      /\ job[r].want \in SUBSET Column /\ job[r].todo \in SUBSET (Column \cup Role)
      /\ Course(job[r]) /\ Place(job[r])
      /\ job[r].op \in Locking /\ job[r].pc \notin {"idle", "lock"} => holder = r
  BY JobFields DEF Inv, Typed, Exclusive
<1>1. entry' = entry /\ job[r].op = "offices"
  BY <1>0 DEF PutOffices, At, Put, Place, Course
<1>2. job'[r] = [job[r] EXCEPT !.pc = "done"] /\ \A v \in Request \ {r} : job'[v] = job[v]
  BY <1>0, GotoJob DEF PutOffices
<1>3. Place(job[r])'
  BY <1>0, <1>1, <1>2 DEF Place, Job
<1> QED
  BY <1>1, <1>2, <1>3, StoreKept, KeepInv DEF PutOffices

-----------------------------------------------------------------------------
(* ACLs.                                                                     *)

LEMMA OnlyAcls ==
  ASSUME Inv, UNCHANGED <<entry, definition, column, relation, attachment>>
  PROVE  Store'
BY DEF Inv, Store, OneSchema, OneDefinition, Parts, Attachments, Live

LEMMA DropAclKeeps ==
  ASSUME Inv, Typed', NEW r \in Request, DropAcl(r)
  PROVE  Inv'
<1> USE DEF Locking, Removing, Deleting, Clearing, Building
<1>0. /\ Shapes /\ Store /\ job[r] \in Job /\ job[r].op \in Op /\ job[r].copy \in Entry
      /\ job[r].pc \in Working \cup {"idle", "lock", "done", "release"}
      /\ job[r].want \in SUBSET Column /\ job[r].todo \in SUBSET (Column \cup Role)
      /\ Course(job[r]) /\ Place(job[r])
      /\ job[r].op \in Locking /\ job[r].pc \notin {"idle", "lock"} => holder = r
  BY JobFields DEF Inv, Typed, Exclusive
<1>1. PICK a \in job[r].todo : GotoWith(r, "dropAcls", job[r].todo \ {a})
  BY DEF DropAcl
<1>2. job'[r] = [job[r] EXCEPT !.pc = "dropAcls", !.todo = job[r].todo \ {a}]
      /\ \A v \in Request \ {r} : job'[v] = job[v]
  <2>1. /\ Shapes /\ "dropAcls" \in Working \cup {"idle", "lock", "done", "release"}
        /\ job[r].todo \ {a} \in SUBSET (Column \cup Role)
    BY <1>0 DEF Working
  <2> QED
    BY <1>1, <2>1, GotoWithJob, Zenon
<1>3. /\ job[r].pc = "dropAcls" /\ holder = r
      /\ UNCHANGED <<entry, definition, column, relation, attachment>>
  BY <1>0 DEF DropAcl, At, Course, Place
<1>5. Place(job[r])'
  BY <1>0, <1>2, <1>3 DEF Place, Job
<1> QED
  BY <1>2, <1>3, <1>5, OnlyAcls, KeepInv

LEMMA DropOwnerKeeps ==
  ASSUME Inv, Typed', NEW r \in Request, DropOwner(r)
  PROVE  Inv'
<1> USE DEF Locking, Removing, Deleting, Clearing, Building
<1>0. /\ Shapes /\ Store /\ job[r] \in Job /\ job[r].op \in Op /\ job[r].copy \in Entry
      /\ job[r].pc \in Working \cup {"idle", "lock", "done", "release"}
      /\ job[r].want \in SUBSET Column /\ job[r].todo \in SUBSET (Column \cup Role)
      /\ Course(job[r]) /\ Place(job[r])
      /\ job[r].op \in Locking /\ job[r].pc \notin {"idle", "lock"} => holder = r
  BY JobFields DEF Inv, Typed, Exclusive
<1>1. PICK pc \in {"oldAcls", "done"} :
        Goto(r, pc) /\ (pc = "oldAcls" <=> job[r].op = "create")
  BY DEF DropOwner
<1>2. job'[r] = [job[r] EXCEPT !.pc = pc] /\ \A v \in Request \ {r} : job'[v] = job[v]
  BY <1>0, <1>1, GotoJob DEF Working
<1>3. /\ job[r].pc = "dropOwner" /\ ~ entry.exists /\ holder = r
      /\ UNCHANGED <<entry, definition, column, relation, attachment>>
  BY <1>0 DEF DropOwner, At, Course, Place
<1>5. Place(job[r])'
  BY <1>0, <1>1, <1>2, <1>3 DEF Place, Job
<1> QED
  BY <1>2, <1>3, <1>5, OnlyAcls, KeepInv

LEMMA ClearAclKeeps ==
  ASSUME Inv, Typed', NEW r \in Request, ClearAcl(r)
  PROVE  Inv'
<1> USE DEF Locking, Removing, Deleting, Clearing, Building
<1>0. /\ Shapes /\ Store /\ job[r] \in Job /\ job[r].op \in Op /\ job[r].copy \in Entry
      /\ job[r].pc \in Working \cup {"idle", "lock", "done", "release"}
      /\ job[r].want \in SUBSET Column /\ job[r].todo \in SUBSET (Column \cup Role)
      /\ Course(job[r]) /\ Place(job[r])
      /\ job[r].op \in Locking /\ job[r].pc \notin {"idle", "lock"} => holder = r
  BY JobFields DEF Inv, Typed, Exclusive
<1>1. PICK a \in job[r].todo : GotoWith(r, "clearAcls", job[r].todo \ {a})
  BY DEF ClearAcl
<1>2. job'[r] = [job[r] EXCEPT !.pc = "clearAcls", !.todo = job[r].todo \ {a}]
      /\ \A v \in Request \ {r} : job'[v] = job[v]
  <2>1. /\ Shapes /\ "clearAcls" \in Working \cup {"idle", "lock", "done", "release"}
        /\ job[r].todo \ {a} \in SUBSET (Column \cup Role)
    BY <1>0 DEF Working
  <2> QED
    BY <1>1, <2>1, GotoWithJob, Zenon
<1>3. /\ job[r].pc = "clearAcls" /\ holder = r
      /\ UNCHANGED <<entry, definition, column, relation, attachment>>
  BY <1>0 DEF ClearAcl, At, Course, Place
<1>5. Place(job[r])'
  BY <1>0, <1>2, <1>3 DEF Place, Job
<1> QED
  BY <1>2, <1>3, <1>5, OnlyAcls, KeepInv

LEMMA PutOwnerKeeps ==
  ASSUME Inv, Typed', NEW r \in Request, PutOwner(r)
  PROVE  Inv'
<1> USE DEF Locking, Removing, Deleting, Clearing, Building
<1>0. /\ Shapes /\ Store /\ job[r] \in Job /\ job[r].op \in Op /\ job[r].copy \in Entry
      /\ job[r].pc \in Working \cup {"idle", "lock", "done", "release"}
      /\ job[r].want \in SUBSET Column /\ job[r].todo \in SUBSET (Column \cup Role)
      /\ Course(job[r]) /\ Place(job[r])
      /\ job[r].op \in Locking /\ job[r].pc \notin {"idle", "lock"} => holder = r
  BY JobFields DEF Inv, Typed, Exclusive
<1>1. job'[r] = [job[r] EXCEPT !.pc = "putEntry"] /\ \A v \in Request \ {r} : job'[v] = job[v]
  BY <1>0, GotoJob DEF PutOwner, Working
<1>2. /\ job[r].pc = "clearAcls" /\ holder = r
      /\ UNCHANGED <<entry, definition, column, relation, attachment>>
  BY <1>0 DEF PutOwner, At, Course, Place
<1>3. Place(job[r])'
  BY <1>0, <1>1, <1>2 DEF Place, Job
<1> QED
  BY <1>1, <1>2, <1>3, OnlyAcls, KeepInv

\* Whoever is at work meanwhile has at most one more ACL to drop, later.
LEMMA GrantAclKeeps ==
  ASSUME Inv, Typed', NEW r \in Request, GrantAcl(r)
  PROVE  Inv'
<1> USE DEF Locking, Removing, Deleting, Clearing, Building
<1>0. /\ Shapes /\ Store /\ job[r] \in Job /\ job[r].op \in Op /\ job[r].copy \in Entry
      /\ job[r].pc \in Working \cup {"idle", "lock", "done", "release"}
      /\ job[r].want \in SUBSET Column /\ job[r].todo \in SUBSET (Column \cup Role)
      /\ Course(job[r]) /\ Place(job[r])
      /\ job[r].op \in Locking /\ job[r].pc \notin {"idle", "lock"} => holder = r
  BY JobFields DEF Inv, Typed, Exclusive
<1>1. job'[r] = [job[r] EXCEPT !.pc = "done"] /\ \A v \in Request \ {r} : job'[v] = job[v]
  BY <1>0, GotoJob DEF GrantAcl
<1>2. /\ UNCHANGED <<entry, definition, column, relation, attachment>>
      /\ acl \subseteq acl'
  BY DEF GrantAcl
<1>3. Store'
  BY <1>2, OnlyAcls
<1>4. ASSUME NEW v \in Request \ {r} PROVE Place(job[v])'
  <2>1. Place(job[v]) /\ job'[v] = job[v]
    BY <1>1 DEF Inv
  <2>2. ColumnsOf(entry.stale)' = ColumnsOf(entry.stale)
        /\ ColumnsOf(entry.pending)' = ColumnsOf(entry.pending)
        /\ ColumnsOf(entry.schema)' = ColumnsOf(entry.schema)
    BY <1>2 DEF ColumnsOf
  <2> QED
    BY <1>2, <2>1, <2>2 DEF Place, Has, HasNo, Live
<1>5. Place(job[r])'
  <2>1. job[r].op \notin Locking
    BY <1>0 DEF GrantAcl, At, Course
  <2> QED
    BY <1>0, <1>1, <2>1 DEF Place, Job
<1> QED
  BY <1>3, <1>4, <1>5 DEF Inv

-----------------------------------------------------------------------------
(* Attachments.                                                              *)

LEMMA OnlyAttachments ==
  ASSUME Inv, UNCHANGED <<entry, definition, column, relation, acl>>, Attachments'
  PROVE  Store'
BY DEF Inv, Store, OneSchema, OneDefinition, Parts, Live

LEMMA ClearAttachmentsKeeps ==
  ASSUME Inv, Typed', NEW r \in Request, ClearAttachments(r)
  PROVE  Inv'
<1> USE DEF Locking, Removing, Deleting, Clearing, Building
<1>0. /\ Shapes /\ Store /\ job[r] \in Job /\ job[r].op \in Op /\ job[r].copy \in Entry
      /\ job[r].pc \in Working \cup {"idle", "lock", "done", "release"}
      /\ job[r].want \in SUBSET Column /\ job[r].todo \in SUBSET (Column \cup Role)
      /\ Course(job[r]) /\ Place(job[r])
      /\ job[r].op \in Locking /\ job[r].pc \notin {"idle", "lock"} => holder = r
  BY JobFields DEF Inv, Typed, Exclusive
<1>1. job'[r] = [job[r] EXCEPT !.pc = "dropColumns"] /\ \A v \in Request \ {r} : job'[v] = job[v]
  BY <1>0, GotoJob DEF ClearAttachments, Working
<1>2. /\ job[r].pc = "clear" /\ holder = r /\ attachment' = {}
      /\ UNCHANGED <<entry, definition, column, relation, acl>>
  BY <1>0 DEF ClearAttachments, At, Course, Cleared
<1>3. Attachments'
  BY <1>2 DEF Attachments
<1>4. ColumnsOf(entry.stale)' = ColumnsOf(entry.stale)
  BY <1>2 DEF ColumnsOf
<1>5. Place(job[r])'
  BY <1>0, <1>1, <1>2, <1>4 DEF Place, HasNo, Job
<1> QED
  BY <1>1, <1>2, <1>3, <1>5, OnlyAttachments, KeepInv

\* A table with a schema in use has a definition, and nobody has begun to remove it.
LEMMA AttachKeeps ==
  ASSUME Inv, Typed', ~ RequestsRace, NEW r \in Request, Attach(r)
  PROVE  Inv'
<1> USE DEF Locking, Removing, Deleting, Clearing, Building
<1>0. /\ Shapes /\ Store /\ job[r] \in Job /\ job[r].op \in Op /\ job[r].copy \in Entry
      /\ job[r].pc \in Working \cup {"idle", "lock", "done", "release"}
      /\ job[r].want \in SUBSET Column /\ job[r].todo \in SUBSET (Column \cup Role)
      /\ Course(job[r]) /\ Place(job[r])
      /\ job[r].op \in Locking /\ job[r].pc \notin {"idle", "lock"} => holder = r
  BY JobFields DEF Inv, Typed, Exclusive
<1>1. job'[r] = [job[r] EXCEPT !.pc = "done"] /\ \A v \in Request \ {r} : job'[v] = job[v]
  BY <1>0, GotoJob DEF Attach
<1>2. /\ job[r].copy = entry /\ attachment' = attachment \cup {entry.schema}
      /\ entry.exists /\ entry.schema # Null
      /\ UNCHANGED <<entry, definition, column, relation, acl>>
  BY <1>0 DEF Attach, At, Fresh, Place
<1>3. Attachments' /\ entry.pending = Null /\ entry.stale = Null
  BY <1>0, <1>2 DEF Store, OneSchema, Attachments, Parts, Live
<1>4. ASSUME NEW v \in Request \ {r} PROVE Place(job[v])'
  <2>1. Place(job[v]) /\ job'[v] = job[v]
    BY <1>1 DEF Inv
  <2>2. ColumnsOf(entry.stale)' = ColumnsOf(entry.stale)
        /\ ColumnsOf(entry.pending)' = ColumnsOf(entry.pending)
        /\ ColumnsOf(entry.schema)' = ColumnsOf(entry.schema)
    BY <1>2 DEF ColumnsOf
  <2> QED
    BY <1>2, <1>3, <2>1, <2>2 DEF Place, Has, HasNo, Live
<1>5. Place(job[r])'
  <2>1. job[r].op \notin Locking
    BY <1>0 DEF Attach, At, Course
  <2> QED
    BY <1>0, <1>1, <2>1 DEF Place, Job
<1> QED
  BY <1>2, <1>3, <1>4, <1>5, OnlyAttachments DEF Inv

-----------------------------------------------------------------------------
(* Relations.                                                                *)

LEMMA OnlyRelations ==
  ASSUME Inv, UNCHANGED <<entry, definition, column, attachment, acl>>, Parts'
  PROVE  Store'
BY DEF Inv, Store, OneSchema, OneDefinition, Attachments, Live

\* A relation of the definition that is being removed is no other table's.
LEMMA DropRelation ==
  ASSUME Inv, NEW r \in Request, NEW kind \in Kind, Drop(r, kind),
         job[r].copy = entry, entry.stale # Null, definition # {},
         UNCHANGED <<entry, definition, column, attachment, acl>>
  PROVE  /\ Store'
         /\ \E d \in definition : definition = {d}
                                  /\ relation' = relation \ {[name |-> d.name, kind |-> kind]}
<1>1. PICK d \in definition : TRUE
  OBVIOUS
<1>2. /\ definition = {d} /\ NamesOf(entry.stale) = {d.name} /\ Relations(d.name) \cap Others = {}
      /\ ~ Live
  BY TheDefinition DEF Inv, Store, OneSchema, OneDefinition, Live
<1>3. StaleName(r) = d.name
  BY <1>2 DEF StaleName
<1>4. relation' = relation \ {[name |-> d.name, kind |-> kind]}
  BY <1>3 DEF Drop
<1>5. [name |-> d.name, kind |-> kind] \in Relations(d.name)
  BY DEF Relations
<1>6. Parts'
  BY <1>2, <1>4, <1>5 DEF Inv, Store, Parts, Live
<1> QED
  BY <1>2, <1>4, <1>6, OnlyRelations

LEMMA DropDataKeeps ==
  ASSUME Inv, Typed', NEW r \in Request, DropData(r)
  PROVE  Inv'
<1> USE DEF Locking, Removing, Deleting, Clearing, Building
<1>0. /\ Shapes /\ Store /\ job[r] \in Job /\ job[r].op \in Op /\ job[r].copy \in Entry
      /\ job[r].pc \in Working \cup {"idle", "lock", "done", "release"}
      /\ job[r].want \in SUBSET Column /\ job[r].todo \in SUBSET (Column \cup Role)
      /\ Course(job[r]) /\ Place(job[r])
      /\ job[r].op \in Locking /\ job[r].pc \notin {"idle", "lock"} => holder = r
  BY JobFields DEF Inv, Typed, Exclusive
<1>1. job'[r] = [job[r] EXCEPT !.pc = "dropLog"] /\ \A v \in Request \ {r} : job'[v] = job[v]
  BY <1>0, GotoJob DEF DropData, Working
<1>2. /\ job[r].pc = "dropData" /\ holder = r /\ Drop(r, "data") /\ "data" \in Kind
      /\ job[r].copy = entry /\ entry.stale # Null /\ definition # {}
      /\ UNCHANGED <<entry, definition, column, attachment, acl>>
  BY <1>0 DEF DropData, At, Course, Place, Kind
<1>3. Store' /\ \E d \in definition : definition = {d}
                 /\ relation' = relation \ {[name |-> d.name, kind |-> "data"]}
  BY <1>2, DropRelation
<1>4. ColumnsOf(entry.stale)' = ColumnsOf(entry.stale)
  BY <1>2 DEF ColumnsOf
<1>5. Place(job[r])'
  BY <1>0, <1>1, <1>2, <1>3, <1>4 DEF Place, HasNo, Job
<1> QED
  BY <1>1, <1>2, <1>3, <1>5, KeepInv

LEMMA DropLogKeeps ==
  ASSUME Inv, Typed', NEW r \in Request, DropLog(r)
  PROVE  Inv'
<1> USE DEF Locking, Removing, Deleting, Clearing, Building
<1>0. /\ Shapes /\ Store /\ job[r] \in Job /\ job[r].op \in Op /\ job[r].copy \in Entry
      /\ job[r].pc \in Working \cup {"idle", "lock", "done", "release"}
      /\ job[r].want \in SUBSET Column /\ job[r].todo \in SUBSET (Column \cup Role)
      /\ Course(job[r]) /\ Place(job[r])
      /\ job[r].op \in Locking /\ job[r].pc \notin {"idle", "lock"} => holder = r
  BY JobFields DEF Inv, Typed, Exclusive
<1>1. job'[r] = [job[r] EXCEPT !.pc = "clear"] /\ \A v \in Request \ {r} : job'[v] = job[v]
  BY <1>0, GotoJob DEF DropLog, Working
<1>2. /\ job[r].pc = "dropLog" /\ holder = r /\ Drop(r, "log") /\ "log" \in Kind
      /\ job[r].copy = entry /\ entry.stale # Null /\ definition # {}
      /\ UNCHANGED <<entry, definition, column, attachment, acl>>
  BY <1>0 DEF DropLog, At, Course, Place, Kind
<1>3. Store' /\ \E d \in definition : definition = {d}
                 /\ relation' = relation \ {[name |-> d.name, kind |-> "log"]}
  BY <1>2, DropRelation
<1>4. ColumnsOf(entry.stale)' = ColumnsOf(entry.stale)
  BY <1>2 DEF ColumnsOf
<1>5. Place(job[r])'
  BY <1>0, <1>1, <1>2, <1>3, <1>4 DEF Place, HasNo, Job
<1> QED
  BY <1>1, <1>2, <1>3, <1>5, KeepInv

\* A relation of the definition that is being built.
LEMMA MakeRelation ==
  ASSUME Inv, NEW r \in Request, NEW kind \in Kind, Make(r, kind),
         job[r].copy = entry, entry.pending # Null, definition # {},
         UNCHANGED <<entry, definition, column, attachment, acl>>
  PROVE  /\ Store'
         /\ \E d \in definition : definition = {d}
                                  /\ relation' = relation \cup {[name |-> d.name, kind |-> kind]}
<1>1. PICK d \in definition : TRUE
  OBVIOUS
<1>2. definition = {d} /\ NamesOf(entry.pending) = {d.name} /\ ~ Live
  BY TheDefinition DEF Inv, Store, OneSchema, Live
<1>3. relation' = relation \cup {[name |-> d.name, kind |-> kind]}
  BY <1>2 DEF Make
<1>4. Parts'
  BY <1>2, <1>3 DEF Inv, Store, Parts, Live
<1> QED
  BY <1>2, <1>3, <1>4, OnlyRelations

LEMMA MakeDataKeeps ==
  ASSUME Inv, Typed', NEW r \in Request, MakeData(r)
  PROVE  Inv'
<1> USE DEF Locking, Removing, Deleting, Clearing, Building
<1>0. /\ Shapes /\ Store /\ job[r] \in Job /\ job[r].op \in Op /\ job[r].copy \in Entry
      /\ job[r].pc \in Working \cup {"idle", "lock", "done", "release"}
      /\ job[r].want \in SUBSET Column /\ job[r].todo \in SUBSET (Column \cup Role)
      /\ Course(job[r]) /\ Place(job[r])
      /\ job[r].op \in Locking /\ job[r].pc \notin {"idle", "lock"} => holder = r
  BY JobFields DEF Inv, Typed, Exclusive
<1>1. job'[r] = [job[r] EXCEPT !.pc = "makeLog"] /\ \A v \in Request \ {r} : job'[v] = job[v]
  BY <1>0, GotoJob DEF MakeData, Working
<1>2. /\ job[r].pc = "putColumns" /\ holder = r /\ Make(r, "data") /\ "data" \in Kind
      /\ job[r].copy = entry /\ entry.exists /\ entry.pending # Null /\ definition # {}
      /\ UNCHANGED <<entry, definition, column, attachment, acl>>
      /\ ColumnsOf(entry.pending) = job[r].want
  BY <1>0 DEF MakeData, At, Course, Place, Kind
<1>3. Store' /\ \E d \in definition : definition = {d}
                 /\ relation' = relation \cup {[name |-> d.name, kind |-> "data"]}
  BY <1>2, MakeRelation
<1>4. ColumnsOf(entry.pending)' = ColumnsOf(entry.pending)
  BY <1>2 DEF ColumnsOf
<1>5. Place(job[r])'
  BY <1>0, <1>1, <1>2, <1>3, <1>4 DEF Place, Has, Job
<1> QED
  BY <1>1, <1>2, <1>3, <1>5, KeepInv

LEMMA MakeLogKeeps ==
  ASSUME Inv, Typed', NEW r \in Request, MakeLog(r)
  PROVE  Inv'
<1> USE DEF Locking, Removing, Deleting, Clearing, Building
<1>0. /\ Shapes /\ Store /\ job[r] \in Job /\ job[r].op \in Op /\ job[r].copy \in Entry
      /\ job[r].pc \in Working \cup {"idle", "lock", "done", "release"}
      /\ job[r].want \in SUBSET Column /\ job[r].todo \in SUBSET (Column \cup Role)
      /\ Course(job[r]) /\ Place(job[r])
      /\ job[r].op \in Locking /\ job[r].pc \notin {"idle", "lock"} => holder = r
  BY JobFields DEF Inv, Typed, Exclusive
<1>1. job'[r] = [job[r] EXCEPT !.pc = "goLive"] /\ \A v \in Request \ {r} : job'[v] = job[v]
  BY <1>0, GotoJob DEF MakeLog, Working
<1>2. /\ job[r].pc = "makeLog" /\ holder = r /\ Make(r, "log") /\ "log" \in Kind
      /\ job[r].copy = entry /\ entry.exists /\ entry.pending # Null /\ definition # {}
      /\ UNCHANGED <<entry, definition, column, attachment, acl>>
      /\ ColumnsOf(entry.pending) = job[r].want
  BY <1>0 DEF MakeLog, At, Course, Place, Kind
<1>3. Store' /\ \E d \in definition : definition = {d}
                 /\ relation' = relation \cup {[name |-> d.name, kind |-> "log"]}
  BY <1>2, MakeRelation
<1>4. ColumnsOf(entry.pending)' = ColumnsOf(entry.pending)
  BY <1>2 DEF ColumnsOf
<1>5. Place(job[r])'
  BY <1>0, <1>1, <1>2, <1>3, <1>4 DEF Place, Has, Job
<1> QED
  BY <1>1, <1>2, <1>3, <1>5, KeepInv

-----------------------------------------------------------------------------
(* Columns and definitions.                                                  *)

LEMMA DropColumnKeeps ==
  ASSUME Inv, Typed', NEW r \in Request, DropColumn(r)
  PROVE  Inv'
<1> USE DEF Locking, Removing, Deleting, Clearing, Building
<1>0. /\ Shapes /\ Store /\ job[r] \in Job /\ job[r].op \in Op /\ job[r].copy \in Entry
      /\ job[r].pc \in Working \cup {"idle", "lock", "done", "release"}
      /\ job[r].want \in SUBSET Column /\ job[r].todo \in SUBSET (Column \cup Role)
      /\ Course(job[r]) /\ Place(job[r])
      /\ job[r].op \in Locking /\ job[r].pc \notin {"idle", "lock"} => holder = r
  BY JobFields DEF Inv, Typed, Exclusive
<1>1. PICK c \in job[r].todo :
        /\ column' = column \ {[schema |-> job[r].copy.stale, column |-> c]}
        /\ GotoWith(r, "dropColumns", job[r].todo \ {c})
  BY DEF DropColumn
<1>2. job'[r] = [job[r] EXCEPT !.pc = "dropColumns", !.todo = job[r].todo \ {c}]
      /\ \A v \in Request \ {r} : job'[v] = job[v]
  <2>1. /\ Shapes /\ "dropColumns" \in Working \cup {"idle", "lock", "done", "release"}
        /\ job[r].todo \ {c} \in SUBSET (Column \cup Role)
    BY <1>0 DEF Working
  <2> QED
    BY <1>1, <2>1, GotoWithJob, Zenon
<1>3. /\ job[r].pc = "dropColumns" /\ holder = r /\ job[r].copy = entry /\ entry.stale # Null
      /\ ColumnsOf(entry.stale) = job[r].todo
      /\ UNCHANGED <<entry, definition, relation, attachment, acl>>
  BY <1>0 DEF DropColumn, At, Course, Place
<1>4. ColumnsOf(entry.stale)' = job[r].todo \ {c}
  <2>1. column' = column \ {[schema |-> entry.stale, column |-> c]} /\ entry' = entry
        /\ column \subseteq [schema : ETag, column : Column]
    BY <1>0, <1>1, <1>3 DEF Shapes
  <2> QED
    BY <1>3, <2>1 DEF ColumnsOf
<1>5. Store'
  BY <1>0, <1>1, <1>3 DEF Store, OneSchema, OneDefinition, Parts, Attachments, Live
<1>6. Place(job[r])'
  BY <1>0, <1>2, <1>3, <1>4 DEF Place, HasNo, Job
<1> QED
  BY <1>2, <1>3, <1>5, <1>6, KeepInv

\* The definition goes last: nothing else is left of the table.
LEMMA DropDefinitionKeeps ==
  ASSUME Inv, Typed', NEW r \in Request, DropDefinition(r)
  PROVE  Inv'
<1> USE DEF Locking, Removing, Deleting, Clearing, Building
<1>0. /\ Shapes /\ Store /\ job[r] \in Job /\ job[r].op \in Op /\ job[r].copy \in Entry
      /\ job[r].pc \in Working \cup {"idle", "lock", "done", "release"}
      /\ job[r].want \in SUBSET Column /\ job[r].todo \in SUBSET (Column \cup Role)
      /\ Course(job[r]) /\ Place(job[r])
      /\ job[r].op \in Locking /\ job[r].pc \notin {"idle", "lock"} => holder = r
  BY JobFields DEF Inv, Typed, Exclusive
<1>1. [job[r] EXCEPT !.copy.stale = Null, !.pc = "next"] \in Job
  BY <1>0, NoEntryType DEF Job, Entry, Working
<1>2. job'[r] = [job[r] EXCEPT !.copy.stale = Null, !.pc = "next"]
      /\ \A v \in Request \ {r} : job'[v] = job[v]
  BY <1>0, <1>1, SetJob DEF DropDefinition
<1>3. /\ job[r].pc = "dropColumns" /\ holder = r /\ job[r].copy = entry
      /\ entry.exists /\ entry.stale # Null /\ definition # {} /\ attachment = {}
      /\ ColumnsOf(entry.stale) = {} /\ HasNo("data") /\ HasNo("log")
      /\ UNCHANGED <<entry, column, relation, attachment, acl>>
  BY <1>0 DEF DropDefinition, At, Course, Place
<1>4. PICK d \in definition :
        /\ definition = {d} /\ entry.stale = d.schema
        /\ \A c \in column : c.schema = d.schema
  BY <1>3, TheDefinition DEF Inv
<1>5. definition' = {}
  BY <1>3, <1>4 DEF DropDefinition
<1>6. column = {}
  BY <1>3, <1>4 DEF ColumnsOf
<1>7. \A e \in relation : e \in Others
  <2>1. \A e \in relation : e = [name |-> e.name, kind |-> "data"]
                           \/ e = [name |-> e.name, kind |-> "log"]
    BY <1>0 DEF Shapes, Kind
  <2> QED
    BY <1>0, <1>3, <1>4, <2>1 DEF Store, Parts, HasNo
<1>8. Store'
  BY <1>0, <1>3, <1>5, <1>6, <1>7
     DEF Store, OneSchema, OneDefinition, Parts, Attachments, Live
<1>9. Place(job[r])'
  <2>1. job'[r].pc = "next" /\ job'[r].op = job[r].op
        /\ job'[r].copy = [entry EXCEPT !.stale = Null]
    BY <1>0, <1>2, <1>3 DEF Job
  <2> QED
    BY <1>0, <1>3, <1>5, <2>1 DEF Place
<1> QED
  BY <1>2, <1>3, <1>8, <1>9, KeepInv

\* The name it gets is no other table's.
LEMMA PutDefinitionKeeps ==
  ASSUME Inv, Typed', NEW r \in Request, PutDefinition(r)
  PROVE  Inv'
<1> USE DEF Locking, Removing, Deleting, Clearing, Building
<1>0. /\ Shapes /\ Store /\ job[r] \in Job /\ job[r].op \in Op /\ job[r].copy \in Entry
      /\ job[r].pc \in Working \cup {"idle", "lock", "done", "release"}
      /\ job[r].want \in SUBSET Column /\ job[r].todo \in SUBSET (Column \cup Role)
      /\ Course(job[r]) /\ Place(job[r])
      /\ job[r].op \in Locking /\ job[r].pc \notin {"idle", "lock"} => holder = r
  BY JobFields DEF Inv, Typed, Exclusive
<1>1. job'[r] = [job[r] EXCEPT !.pc = "putColumns", !.todo = job[r].want]
      /\ \A v \in Request \ {r} : job'[v] = job[v]
  <2>1. /\ Shapes /\ "putColumns" \in Working \cup {"idle", "lock", "done", "release"}
        /\ GotoWith(r, "putColumns", job[r].want)
    BY <1>0 DEF Working, PutDefinition
  <2>2. PICK w \in SUBSET (Column \cup Role) : w = job[r].want
    BY <1>0
  <2>3. GotoWith(r, "putColumns", w)
    BY <2>1, <2>2
  <2>4. job'[r] = [job[r] EXCEPT !.pc = "putColumns", !.todo = w]
        /\ \A v \in Request \ {r} : job'[v] = job[v]
    BY <2>1, <2>3, GotoWithJob, Zenon
  <2> QED
    BY <2>2, <2>4
<1>2. /\ job[r].pc = "putDefinition" /\ holder = r /\ job[r].copy = entry
      /\ entry.exists /\ entry.pending # Null /\ definition = {}
      /\ UNCHANGED <<entry, column, relation, attachment, acl>>
  BY <1>0 DEF PutDefinition, At, Course, Place
<1>3. column = {} /\ relation = Others /\ attachment = {}
  BY <1>0, <1>2, NoDefinition
<1>4. PICK n : n = FreeName /\ Relations(n) \cap relation = {}
  BY <1>0, FreeNameIsFree
<1>5. definition' = {[schema |-> entry.pending, name |-> n]}
  BY <1>2, <1>4 DEF PutDefinition
<1>6. Store'
  BY <1>0, <1>2, <1>3, <1>4, <1>5
     DEF Store, OneSchema, OneDefinition, Parts, Attachments, Live
<1>7. ColumnsOf(entry.pending)' = {}
  BY <1>2, <1>3 DEF ColumnsOf
<1>8. Place(job[r])'
  BY <1>0, <1>1, <1>2, <1>5, <1>7 DEF Place, Job
<1> QED
  BY <1>1, <1>2, <1>6, <1>8, KeepInv

LEMMA PutColumnKeeps ==
  ASSUME Inv, Typed', NEW r \in Request, PutColumn(r)
  PROVE  Inv'
<1> USE DEF Locking, Removing, Deleting, Clearing, Building
<1>0. /\ Shapes /\ Store /\ job[r] \in Job /\ job[r].op \in Op /\ job[r].copy \in Entry
      /\ job[r].pc \in Working \cup {"idle", "lock", "done", "release"}
      /\ job[r].want \in SUBSET Column /\ job[r].todo \in SUBSET (Column \cup Role)
      /\ Course(job[r]) /\ Place(job[r])
      /\ job[r].op \in Locking /\ job[r].pc \notin {"idle", "lock"} => holder = r
  BY JobFields DEF Inv, Typed, Exclusive
<1>1. PICK c \in job[r].todo :
        /\ column' = column \cup {[schema |-> job[r].copy.pending, column |-> c]}
        /\ GotoWith(r, "putColumns", job[r].todo \ {c})
  BY DEF PutColumn
<1>2. job'[r] = [job[r] EXCEPT !.pc = "putColumns", !.todo = job[r].todo \ {c}]
      /\ \A v \in Request \ {r} : job'[v] = job[v]
  <2>1. /\ Shapes /\ "putColumns" \in Working \cup {"idle", "lock", "done", "release"}
        /\ job[r].todo \ {c} \in SUBSET (Column \cup Role)
    BY <1>0 DEF Working
  <2> QED
    BY <1>1, <2>1, GotoWithJob, Zenon
<1>3. /\ job[r].pc = "putColumns" /\ holder = r /\ job[r].copy = entry
      /\ entry.exists /\ entry.pending # Null /\ definition # {}
      /\ ColumnsOf(entry.pending) = job[r].want \ job[r].todo /\ c \in job[r].want
      /\ UNCHANGED <<entry, definition, relation, attachment, acl>>
  BY <1>0 DEF PutColumn, At, Course, Place
<1>4. ColumnsOf(entry.pending)' = job[r].want \ (job[r].todo \ {c})
  <2>1. column' = column \cup {[schema |-> entry.pending, column |-> c]} /\ entry' = entry
    BY <1>1, <1>3
  <2> DEFINE new == [schema |-> entry.pending, column |-> c]
  <2>2. ColumnsOf(entry.pending)' = ColumnsOf(entry.pending) \cup {c}
    <3>1. \A x : x \in ColumnsOf(entry.pending)'
              <=> \E d \in column' : d.schema = entry.pending /\ d.column = x
      BY <2>1 DEF ColumnsOf
    <3>2. \A x : x \in ColumnsOf(entry.pending)
              <=> \E d \in column : d.schema = entry.pending /\ d.column = x
      BY DEF ColumnsOf
    <3>3. new \in column' /\ new.schema = entry.pending /\ new.column = c
      BY <2>1
    <3> QED
      BY <2>1, <3>1, <3>2, <3>3
  <2> QED
    BY <1>3, <2>2
<1>5. PICK d \in definition : entry.pending = d.schema
  BY <1>3, TheDefinition DEF Inv
<1>6. Store'
  BY <1>0, <1>1, <1>3, <1>5
     DEF Store, OneSchema, OneDefinition, Parts, Attachments, Live
<1>7. Place(job[r])'
  BY <1>0, <1>2, <1>3, <1>4 DEF Place, Job
<1> QED
  BY <1>2, <1>3, <1>6, <1>7, KeepInv

-----------------------------------------------------------------------------
(* The entry.                                                                *)

\* What is in use or pending becomes stale, in one write; or nothing is left.
LEMMA MakeStaleKeeps ==
  ASSUME Inv, Typed', NEW r \in Request, MakeStale(r)
  PROVE  Inv'
<1> USE DEF Locking, Removing, Deleting, Clearing, Building
<1>0. /\ Shapes /\ Store /\ job[r] \in Job /\ job[r].op \in Op /\ job[r].copy \in Entry
      /\ job[r].pc \in Working \cup {"idle", "lock", "done", "release"}
      /\ job[r].want \in SUBSET Column /\ job[r].todo \in SUBSET (Column \cup Role)
      /\ Course(job[r]) /\ Place(job[r])
      /\ job[r].op \in Locking /\ job[r].pc \notin {"idle", "lock"} => holder = r
  BY JobFields DEF Inv, Typed, Exclusive
<1> DEFINE e == Doomed(job[r].copy)
<1>1. /\ job[r].pc = "next" /\ holder = r /\ entry.exists
      /\ job[r].copy = [entry EXCEPT !.stale = Null]
      /\ (entry.stale # Null => definition = {})
      /\ UNCHANGED store
  BY <1>0 DEF MakeStale, At, Course, Place
<1>2. e \in Entry
  BY <1>0, NoEntryType DEF Doomed, Entry
<1>3. /\ job[r].copy.stale = Null /\ job[r].copy.exists
      /\ job[r].copy.schema = entry.schema /\ job[r].copy.pending = entry.pending
  BY <1>0, <1>1 DEF Shapes, Entry
<1>4. /\ e.exists
      /\ entry.pending # Null =>
           e.stale = entry.pending /\ e.pending = Null /\ e.schema = entry.schema
      /\ entry.pending = Null =>
           e.stale = entry.schema /\ e.schema = Null /\ e.pending = Null
  BY <1>0, <1>3 DEF Doomed, Entry
<1> HIDE DEF e
<1>5. CASE e.stale # Null
  <2>1. [job[r] EXCEPT !.copy = e, !.pc = "stale"] \in Job
    BY <1>0, <1>2 DEF Job, Working
  <2>2. job'[r] = [job[r] EXCEPT !.copy = e, !.pc = "stale"]
        /\ \A v \in Request \ {r} : job'[v] = job[v]
    BY <1>0, <1>5, <2>1, SetJob DEF MakeStale, e
  <2>3. entry' = e
    BY <1>1, <1>5 DEF MakeStale, Put, e
  <2>4. e.schema = Null /\ e.pending = Null /\ e.stale \in {entry.schema, entry.pending}
        /\ entry.stale = Null
    BY <1>0, <1>1, <1>4, <1>5 DEF Store, OneSchema
  <2>5. Store'
    BY <1>0, <1>1, <1>4, <1>5, <2>3, <2>4
       DEF Store, OneSchema, OneDefinition, Parts, Attachments, Live, store
  <2>6. Place(job[r])'
    BY <1>0, <1>4, <2>2, <2>3 DEF Place, Job
  <2> QED
    BY <1>1, <2>2, <2>5, <2>6, KeepInv
<1>6. CASE e.stale = Null
  <2>1. [job[r] EXCEPT !.copy = e, !.pc = "acls"] \in Job
    BY <1>0, <1>2 DEF Job, Working
  <2>2. job'[r] = [job[r] EXCEPT !.copy = e, !.pc = "acls"]
        /\ \A v \in Request \ {r} : job'[v] = job[v]
    BY <1>0, <1>6, <2>1, SetJob DEF MakeStale, e
  <2>3. UNCHANGED <<entry, store>> /\ entry.stale # Null
    BY <1>0, <1>1, <1>4, <1>6 DEF MakeStale, Store, OneSchema, e
  <2>4. Place(job[r])'
    BY <1>0, <1>1, <2>2, <2>3 DEF Place, Job, store
  <2> QED
    BY <2>2, <2>3, <2>4, StoreKept, KeepInv
<1> QED
  BY <1>5, <1>6

LEMMA DropEntryKeeps ==
  ASSUME Inv, Typed', NEW r \in Request, DropEntry(r)
  PROVE  Inv'
<1> USE DEF Locking, Removing, Deleting, Clearing, Building
<1>0. /\ Shapes /\ Store /\ job[r] \in Job /\ job[r].op \in Op /\ job[r].copy \in Entry
      /\ job[r].pc \in Working \cup {"idle", "lock", "done", "release"}
      /\ job[r].want \in SUBSET Column /\ job[r].todo \in SUBSET (Column \cup Role)
      /\ Course(job[r]) /\ Place(job[r])
      /\ job[r].op \in Locking /\ job[r].pc \notin {"idle", "lock"} => holder = r
  BY JobFields DEF Inv, Typed, Exclusive
<1>1. job'[r] = [job[r] EXCEPT !.pc = "dropOwner"] /\ \A v \in Request \ {r} : job'[v] = job[v]
  BY <1>0, GotoJob DEF DropEntry, Working
<1>2. /\ job[r].pc = "dropAcls" /\ holder = r /\ definition = {}
      /\ entry' = NoEntry /\ UNCHANGED store
  BY <1>0 DEF DropEntry, At, Course, Place
<1>3. column = {} /\ relation = Others /\ attachment = {}
  BY <1>0, <1>2, NoDefinition
<1>4. Store'
  BY <1>0, <1>2, <1>3
     DEF Store, OneSchema, OneDefinition, Parts, Attachments, Live, NoEntry, store
<1>5. Place(job[r])'
  BY <1>0, <1>1, <1>2 DEF Place, Job, NoEntry
<1> QED
  BY <1>1, <1>2, <1>4, <1>5, KeepInv

\* Without an entry there is nothing that the new schema could find.
LEMMA PutEntryKeeps ==
  ASSUME Inv, Typed', NEW r \in Request, PutEntry(r)
  PROVE  Inv'
<1> USE DEF Locking, Removing, Deleting, Clearing, Building
<1>0. /\ Shapes /\ Store /\ job[r] \in Job /\ job[r].op \in Op /\ job[r].copy \in Entry
      /\ job[r].pc \in Working \cup {"idle", "lock", "done", "release"}
      /\ job[r].want \in SUBSET Column /\ job[r].todo \in SUBSET (Column \cup Role)
      /\ Course(job[r]) /\ Place(job[r])
      /\ job[r].op \in Locking /\ job[r].pc \notin {"idle", "lock"} => holder = r
  BY JobFields DEF Inv, Typed, Exclusive
<1>a. CASE entry.exists
  <2>1. job'[r] = [job[r] EXCEPT !.pc = "release"] /\ \A v \in Request \ {r} : job'[v] = job[v]
    BY <1>0, <1>a, GotoJob DEF PutEntry
  <2>2. Place(job[r])' /\ UNCHANGED <<entry, store>>
    BY <1>0, <1>a, <2>1 DEF PutEntry, Place, Job
  <2> QED
    BY <2>1, <2>2, StoreKept, KeepInv
<1>b. CASE ~ entry.exists
  <2> DEFINE e == [NoEntry EXCEPT !.exists = TRUE, !.pending = ticket + 1]
  <2>1. /\ job[r].pc = "putEntry" /\ holder = r /\ ~ entry.exists
        /\ UNCHANGED store /\ entry' = e
        /\ Set(r, [job[r] EXCEPT !.copy = e, !.pc = "putDefinition"])
    BY <1>0, <1>b DEF PutEntry, At, Course
  <2>2. /\ e.exists /\ e.schema = Null /\ e.pending = ticket + 1 /\ e.stale = Null
        /\ e.pending # Null
    BY <1>0, TableLifecycleAssumption DEF NoEntry, Shapes, ETag, Null
  <2> HIDE DEF e
  <2>3. [job[r] EXCEPT !.copy = e, !.pc = "putDefinition"] \in Job
    <3>1. e \in Entry
      BY <2>1 DEF Typed, Shapes
    <3> QED
      BY <1>0, <3>1 DEF Job, Working
  <2>4. job'[r] = [job[r] EXCEPT !.copy = e, !.pc = "putDefinition"]
        /\ \A v \in Request \ {r} : job'[v] = job[v]
    BY <1>0, <2>1, <2>3, SetJob
  <2>5. definition = {}
    BY <1>0, <2>1 DEF Store, OneDefinition
  <2>6. column = {} /\ relation = Others /\ attachment = {}
    BY <1>0, <2>5, NoDefinition
  <2>7. Store'
    BY <1>0, <2>1, <2>2, <2>5, <2>6
       DEF Store, OneSchema, OneDefinition, Parts, Attachments, Live, store
  <2>8. Place(job[r])'
    BY <1>0, <2>1, <2>2, <2>4, <2>5 DEF Place, Job, store
  <2> QED
    BY <2>1, <2>4, <2>7, <2>8, KeepInv
<1> QED
  BY <1>a, <1>b

\* What goes live is whole.
LEMMA GoLiveKeeps ==
  ASSUME Inv, Typed', NEW r \in Request, GoLive(r)
  PROVE  Inv'
<1> USE DEF Locking, Removing, Deleting, Clearing, Building
<1>0. /\ Shapes /\ Store /\ job[r] \in Job /\ job[r].op \in Op /\ job[r].copy \in Entry
      /\ job[r].pc \in Working \cup {"idle", "lock", "done", "release"}
      /\ job[r].want \in SUBSET Column /\ job[r].todo \in SUBSET (Column \cup Role)
      /\ Course(job[r]) /\ Place(job[r])
      /\ job[r].op \in Locking /\ job[r].pc \notin {"idle", "lock"} => holder = r
  BY JobFields DEF Inv, Typed, Exclusive
<1> DEFINE e == [job[r].copy EXCEPT !.schema = job[r].copy.pending, !.pending = Null]
<1>1. job'[r] = [job[r] EXCEPT !.pc = "done"] /\ \A v \in Request \ {r} : job'[v] = job[v]
  BY <1>0, GotoJob DEF GoLive
<1>2. /\ job[r].pc = "goLive" /\ job[r].op = "create" /\ holder = r /\ job[r].copy = entry
      /\ entry.exists /\ entry.pending # Null /\ definition # {}
      /\ ColumnsOf(entry.pending) = job[r].want /\ Has("data") /\ Has("log")
      /\ UNCHANGED store /\ entry' = e
  BY <1>0 DEF GoLive, At, Course, Place, Put
<1>3. /\ e.exists /\ e.schema = entry.pending /\ e.pending = Null /\ e.stale = Null
      /\ attachment = {}
  BY <1>0, <1>2 DEF Store, OneSchema, Attachments, Shapes, Entry
<1> HIDE DEF e
<1>4. PICK d \in definition : definition = {d} /\ entry.pending = d.schema
  BY <1>2, TheDefinition DEF Inv
<1>5. Relations(d.name) \subseteq relation
  BY <1>2, <1>4 DEF Relations, Kind, Has
<1>6. Store'
  BY <1>0, <1>2, <1>3, <1>4, <1>5
     DEF Store, OneSchema, OneDefinition, Parts, Attachments, Live, store
<1>7. ColumnsOf(entry.schema)' = job[r].want
  BY <1>2, <1>3 DEF ColumnsOf, store
<1>8. Place(job[r])'
  BY <1>0, <1>1, <1>2, <1>3, <1>7 DEF Place, Job, Live
<1> QED
  BY <1>1, <1>2, <1>6, <1>8, KeepInv

\* A change set leaves the schema alone, and nobody at work with the lock.
LEMMA ChangeRowsKeeps ==
  ASSUME Inv, Typed', ChangeRows
  PROVE  Inv'
<1>1. /\ entry' = [entry EXCEPT !.data = @ + 1] /\ entry \in Entry /\ entry.exists
      /\ UNCHANGED <<store, holder, job>> /\ holder = NoHolder
  BY DEF ChangeRows, Live, Inv, Typed, Shapes
<1>2. /\ entry'.exists = entry.exists /\ entry'.schema = entry.schema
      /\ entry'.pending = entry.pending /\ entry'.stale = entry.stale
  BY <1>1 DEF Entry
<1>3. Store'
  BY <1>1, <1>2 DEF Inv, Store, OneSchema, OneDefinition, Parts, Attachments, Live, store
<1>4. \A v \in Request : holder # v /\ job'[v] = job[v]
  BY <1>1, TableLifecycleAssumption
<1> QED
  BY <1>3, <1>4, Bystander DEF Inv

-----------------------------------------------------------------------------
(* The invariant, and what follows from it.                                  *)

LEMMA InvStep ==
  ASSUME ~ RequestsRace, Inv, [Next]_vars, Clean'
  PROVE  Inv'
<1>1. Typed'
  BY TypedStep DEF Inv
<1>2. CASE UNCHANGED vars
  BY <1>1, <1>2, StoreKept DEF Inv, vars
<1>3. CASE ChangeRows
  BY <1>1, <1>3, ChangeRowsKeeps
<1>4. ASSUME NEW r \in Request, Begin(r) \/ GiveUp(r) \/ Fail(r) \/ Work(r) PROVE Inv'
  <2>1. CASE Delete(r)
    BY <1>1, <2>1, RemoveStaleKeeps, DropDataKeeps, DropLogKeeps, ClearAttachmentsKeeps,
       DropColumnKeeps, DropDefinitionKeeps, MakeStaleKeeps, FindAclsKeeps, DropAclKeeps,
       DropEntryKeeps, DropOwnerKeeps DEF Delete
  <2>2. CASE Create(r)
    BY <1>1, <2>2, ReadEntryKeeps, FindOldAclsKeeps, ClearAclKeeps, PutOwnerKeeps, PutEntryKeeps,
       PutDefinitionKeeps, PutColumnKeeps, MakeDataKeeps, MakeLogKeeps, GoLiveKeeps DEF Create
  <2> QED
    BY <1>1, <1>4, <2>1, <2>2, BeginKeeps, LockKeeps, GiveUpKeeps, FailKeeps, ReleaseKeeps,
       PutOfficesKeeps, GrantAclKeeps, AttachKeeps DEF Work
<1> QED
  BY <1>2, <1>3, <1>4 DEF Next

\* A failed query for a schema is not forgotten.
LEMMA CleanStep ==
  ASSUME [Next]_vars, Clean'
  PROVE  Clean
<1> USE DEF Clean, faults, vars, Heard
<1>1. CASE UNCHANGED vars
  BY <1>1
<1>2. CASE ChangeRows
  BY <1>2 DEF ChangeRows
<1>3. ASSUME NEW r \in Request, Begin(r) \/ GiveUp(r) \/ Fail(r) \/ Work(r) PROVE Clean
  <2>1. CASE Begin(r) \/ GiveUp(r) \/ Fail(r) \/ Lock(r) \/ Release(r)
    BY <2>1 DEF Begin, GiveUp, Fail, Lock, Release
  <2>2. CASE PutOffices(r) \/ GrantAcl(r) \/ Attach(r)
    BY <2>2 DEF PutOffices, GrantAcl, Attach
  <2>3. CASE Delete(r)
    <3>1. CASE RemoveStale(r)
      BY <3>1 DEF RemoveStale
    <3>2. CASE FindAcls(r)
      BY <3>2 DEF FindAcls
    <3>3. CASE \/ DropData(r) \/ DropLog(r) \/ ClearAttachments(r) \/ DropColumn(r)
               \/ DropDefinition(r) \/ MakeStale(r) \/ DropAcl(r) \/ DropEntry(r) \/ DropOwner(r)
      BY <3>3 DEF DropData, DropLog, ClearAttachments, DropColumn, DropDefinition, MakeStale,
                  DropAcl, DropEntry, DropOwner
    <3> QED
      BY <2>3, <3>1, <3>2, <3>3 DEF Delete
  <2>4. CASE Create(r)
    <3>1. CASE ReadEntry(r)
      BY <3>1 DEF ReadEntry
    <3>2. CASE FindOldAcls(r)
      BY <3>2 DEF FindOldAcls
    <3>3. CASE PutEntry(r)
      BY <3>3 DEF PutEntry
    <3>4. CASE \/ ClearAcl(r) \/ PutOwner(r) \/ PutDefinition(r) \/ PutColumn(r)
               \/ MakeData(r) \/ MakeLog(r) \/ GoLive(r)
      BY <3>4 DEF ClearAcl, PutOwner, PutDefinition, PutColumn, MakeData, MakeLog, GoLive
    <3> QED
      BY <2>4, <3>1, <3>2, <3>3, <3>4 DEF Create
  <2> QED
    BY <1>3, <2>1, <2>2, <2>3, <2>4 DEF Work
<1> QED
  BY <1>1, <1>2, <1>3 DEF Next

\* The table is as it should be for as long as no such query has failed.
CleanInv == Typed /\ (Clean => Inv)

LEMMA Invariance ==
  ASSUME ~ RequestsRace
  PROVE  Spec => []CleanInv
<1>1. Init => CleanInv
  BY InitStore DEF CleanInv, Inv
<1>2. CleanInv /\ [Next]_vars => CleanInv'
  BY TypedStep, InvStep, CleanStep DEF CleanInv
<1> QED
  BY <1>1, <1>2, PTL DEF Spec

-----------------------------------------------------------------------------
(***************************************************************************)
(* The table in use, whatever reads fail.  A query that fails may leave    *)
(* definitions and columns of schemas that are no more (~ Clean), but a    *)
(* schema is drawn once, so they are not of the one that is built or used. *)
(***************************************************************************)
Tables ==
  /\ OneSchema
  /\ entry.pending <= ticket
  /\ \A d \in definition : d.schema \in 1 .. ticket /\ Relations(d.name) \cap Others = {}
  /\ \A c \in column : c.schema \in 1 .. ticket
  /\ \A d, f \in definition : d.schema = f.schema => d = f
  /\ Others \subseteq relation
  /\ Live => /\ NamesOf(entry.schema) # {}
             /\ \A n \in NamesOf(entry.schema) : Relations(n) \subseteq relation

Made(kind) == \A n \in NamesOf(entry.pending) : [name |-> n, kind |-> kind] \in relation

\* What a job that has the lock has found or done.
Stage(j) ==
  /\ j.pc = "lock" /\ j.op = "delete" => j.copy.exists
  /\ j.pc = "put" => j.copy = entry
  /\ j.pc = "stale" => j.copy = entry /\ entry.exists
  /\ j.pc \in Removing =>
       j.copy = entry /\ entry.exists /\ entry.stale # Null /\ NamesOf(entry.stale) # {}
  /\ j.pc = "next" => entry.exists /\ j.copy = [entry EXCEPT !.stale = Null]
  /\ j.pc \in Building => j.copy = entry /\ entry.exists /\ entry.pending # Null
  /\ j.pc = "putDefinition" => NamesOf(entry.pending) = {} /\ ColumnsOf(entry.pending) = {}
  /\ j.pc \in Building \ {"putDefinition"} => NamesOf(entry.pending) # {}
  /\ j.pc = "putColumns" => ColumnsOf(entry.pending) = j.want \ j.todo
  /\ j.pc \in {"makeLog", "goLive"} => ColumnsOf(entry.pending) = j.want /\ Made("data")
  /\ j.pc = "goLive" => Made("log")

Core == Typed /\ Tables /\ \A r \in Request : Stage(job[r])

\* What is known of request r before its step.
Known(r) ==
  /\ Shapes /\ Tables /\ job[r] \in Job /\ job[r].op \in Op /\ job[r].copy \in Entry
  /\ job[r].pc \in Working \cup {"idle", "lock", "done", "release"}
  /\ job[r].want \in SUBSET Column /\ job[r].todo \in SUBSET (Column \cup Role)
  /\ Course(job[r]) /\ Stage(job[r])
  /\ job[r].op \in Locking /\ job[r].pc \notin {"idle", "lock"} => holder = r

LEMMA CoreKnown ==
  ASSUME Core, NEW r \in Request
  PROVE  Known(r)
  BY JobFields DEF Core, Typed, Exclusive, Known

LEMMA InitCore == Init => Core
<1> SUFFICES ASSUME Init PROVE Core
  OBVIOUS
<1>1. Tables
  BY TableLifecycleAssumption DEF Init, Tables, OneSchema, Live, NoEntry, Null
<1>2. \A r \in Request : Stage(job[r])
  BY DEF Init, IdleJob, Stage, Removing, Building
<1> QED
  BY <1>1, <1>2, InitTyped DEF Core

LEMMA TablesKept ==
  ASSUME Core, UNCHANGED <<entry, definition, column, relation, ticket>>
  PROVE  Tables' /\ \A v \in Request : job'[v] = job[v] => Stage(job[v])'
<1>1. /\ \A e : ColumnsOf(e)' = ColumnsOf(e)
      /\ \A e : NamesOf(e)' = NamesOf(e)
  BY DEF ColumnsOf, NamesOf
<1>2. /\ ColumnsOf(entry.pending)' = ColumnsOf(entry.pending)
      /\ NamesOf(entry.pending)' = NamesOf(entry.pending)
      /\ NamesOf(entry.stale)' = NamesOf(entry.stale)
      /\ NamesOf(entry.schema)' = NamesOf(entry.schema)
  BY DEF ColumnsOf, NamesOf
<1>3. Tables'
  BY <1>2 DEF Core, Tables, OneSchema, Live
<1>4. ASSUME NEW v \in Request, job'[v] = job[v] PROVE Stage(job[v])'
  <2>1. Stage(job[v])
    BY DEF Core
  <2> QED
    BY <1>2, <1>4, <2>1 DEF Stage, Made
<1> QED
  BY <1>3, <1>4

LEMMA KeepCore ==
  ASSUME Core, Typed', Tables', NEW r \in Request, Stage(job[r])',
         \A v \in Request \ {r} : job'[v] = job[v],
         holder = r \/ UNCHANGED <<entry, definition, column, relation, ticket>>
  PROVE  Core'
<1>1. ASSUME NEW v \in Request \ {r} PROVE Stage(job[v])'
  <2>1. CASE holder = r
    <3>1. ~ (job[v].op \in Locking /\ job[v].pc \notin {"idle", "lock"}) /\ Course(job[v])
      BY <2>1 DEF Core, Typed, Exclusive
    <3>2. Stage(job[v]) /\ job'[v] = job[v]
      BY DEF Core
    <3> QED
      BY <3>1, <3>2 DEF Stage, Course, Locking, Removing, Deleting, Clearing, Building
  <2>2. CASE UNCHANGED <<entry, definition, column, relation, ticket>>
    BY <2>2, TablesKept
  <2> QED
    BY <2>1, <2>2
<1> QED
  BY <1>1 DEF Core

\* A step that leaves the tables alone and takes its request to a place where
\* nothing is asked of it.
LEMMA QuietStep ==
  ASSUME Core, Typed', NEW r \in Request, Stage(job[r])',
         \A v \in Request \ {r} : job'[v] = job[v],
         UNCHANGED <<entry, definition, column, relation, ticket>>
  PROVE  Core'
  BY TablesKept, KeepCore

\* The name that a definition gives its schema is the only one.
LEMMA OneName ==
  ASSUME Tables, NEW e, NamesOf(e) # {}
  PROVE  /\ \E d \in definition : d.schema = e /\ NamesOf(e) = {d.name}
         /\ \E n : NamesOf(e) = {n} /\ Relations(n) \cap Others = {}
<1>1. PICK d \in definition : d.schema = e
  BY DEF NamesOf
<1>2. NamesOf(e) = {d.name}
  BY <1>1 DEF NamesOf, Tables
<1> QED
  BY <1>1, <1>2 DEF Tables

\* Requests come and go, ...
LEMMA OutsideCore ==
  ASSUME ~ RequestsRace, Core, Typed', NEW r \in Request,
         Begin(r) \/ Lock(r) \/ GiveUp(r) \/ Release(r) \/ Fail(r)
  PROVE  Core'
<1> USE DEF Locking, Removing, Building
<1>0. Known(r)
  BY CoreKnown
<1>1. UNCHANGED <<entry, definition, column, relation, ticket>>
  BY DEF Begin, Lock, GiveUp, Release, Fail, store
<1>2. ASSUME NEW j \in Job, Set(r, j), j.pc \in {"idle", "lock", "grant", "attach"},
             j.op = "delete" => j.copy.exists
      PROVE  Core'
  <2>1. job'[r] = j /\ \A v \in Request \ {r} : job'[v] = job[v]
    BY <1>0, <1>2, SetJob DEF Known
  <2>2. Stage(job[r])'
    BY <1>2, <2>1 DEF Stage
  <2> QED
    BY <1>1, <2>1, <2>2, QuietStep
<1>3. CASE Begin(r)
  <2>1. ASSUME NEW s \in Schemas,
               Set(r, [IdleJob EXCEPT !.op = "create", !.pc = "lock", !.want = s])
        PROVE  Core'
    <3>1. [IdleJob EXCEPT !.op = "create", !.pc = "lock", !.want = s] \in Job
      BY IdleJobType, TableLifecycleAssumption DEF Job, Op
    <3> QED
      BY <1>2, <2>1, <3>1, IdleJobType DEF Job
  <2>2. ASSUME entry.exists, NEW op \in {"delete", "offices", "acl", "attach"},
               NEW pc \in {"lock", "grant", "attach"},
               Set(r, [IdleJob EXCEPT !.op = op, !.pc = pc, !.copy = entry])
        PROVE  Core'
    <3>1. [IdleJob EXCEPT !.op = op, !.pc = pc, !.copy = entry] \in Job
      BY <1>0, IdleJobType DEF Job, Op, Working, Known, Shapes
    <3> QED
      BY <1>2, <2>2, <3>1, IdleJobType DEF Job
  <2> QED
    BY <1>3, <2>1, <2>2 DEF Begin, Live
<1>4. CASE Lock(r)
  <2> DEFINE pc == FirstStep(job[r].op)
  <2>1. /\ job[r].op \in Locking /\ pc \in {"read", "stale", "put"}
        /\ pc = "stale" => job[r].op = "delete"
        /\ pc # "read" => job[r].op # "create"
    BY <1>0, <1>4 DEF Lock, At, Known, Course, FirstStep
  <2>2. job'[r] = [job[r] EXCEPT !.pc = pc] /\ \A v \in Request \ {r} : job'[v] = job[v]
    BY <1>0, <1>4, <2>1, GotoJob DEF Lock, Working, Known
  <2> HIDE DEF pc
  <2>3. job[r].pc = "lock" /\ (job[r].op # "create" => entry = job[r].copy)
    BY <1>4 DEF Lock, At, Fresh
  <2>4. Stage(job[r])'
    BY <1>0, <1>1, <2>1, <2>2, <2>3 DEF Stage, Job, Known
  <2> QED
    BY <1>1, <2>2, <2>4, QuietStep
<1>5. CASE GiveUp(r) \/ Release(r)
  BY <1>2, <1>5, IdleJobType DEF GiveUp, Release, IdleJob
<1>6. CASE Fail(r)
  <2>1. job'[r] = [job[r] EXCEPT !.pc = "release"] /\ \A v \in Request \ {r} : job'[v] = job[v]
    BY <1>0, <1>6, GotoJob DEF Fail, Known
  <2>2. Stage(job[r])'
    BY <1>0, <2>1 DEF Stage, Job, Known
  <2> QED
    BY <1>1, <2>1, <2>2, QuietStep
<1> QED
  BY <1>3, <1>4, <1>5, <1>6

\* ... grant roles, store attachments and remove them, ...
LEMMA AsideCore ==
  ASSUME Core, Typed', NEW r \in Request,
         \/ ClearAttachments(r) \/ DropAcl(r) \/ DropOwner(r) \/ ClearAcl(r) \/ PutOwner(r)
         \/ GrantAcl(r) \/ Attach(r) \/ FindAcls(r) \/ FindOldAcls(r)
  PROVE  Core'
<1> USE DEF Locking, Removing, Building
<1>0. Known(r)
  BY CoreKnown
<1>1. UNCHANGED <<entry, definition, column, relation, ticket>>
  BY DEF ClearAttachments, DropAcl, DropOwner, ClearAcl, PutOwner, GrantAcl, Attach,
         FindAcls, FindOldAcls, store
<1> DEFINE Elsewhere == {"dropAcls", "clearAcls", "oldAcls", "done", "putEntry"}
<1>2. Elsewhere \subseteq Working \cup {"idle", "lock", "done", "release"}
  BY DEF Working
<1>3. ASSUME NEW pc \in Elsewhere, Goto(r, pc) PROVE Core'
  <2>1. job'[r] = [job[r] EXCEPT !.pc = pc] /\ \A v \in Request \ {r} : job'[v] = job[v]
    BY <1>0, <1>2, <1>3, GotoJob DEF Known
  <2>2. Stage(job[r])'
    BY <1>0, <2>1 DEF Stage, Job, Known
  <2> QED
    BY <1>1, <2>1, <2>2, QuietStep
<1>4. ASSUME NEW pc \in Elsewhere, NEW todo \in SUBSET (Column \cup Role), GotoWith(r, pc, todo)
      PROVE  Core'
  <2>1. job'[r] = [job[r] EXCEPT !.pc = pc, !.todo = todo]
        /\ \A v \in Request \ {r} : job'[v] = job[v]
    <3>1. Shapes /\ pc \in Working \cup {"idle", "lock", "done", "release"}
      BY <1>0, <1>2 DEF Known
    <3> HIDE DEF Elsewhere
    <3> QED
      BY <1>4, <3>1, GotoWithJob, Zenon
  <2>2. Stage(job[r])'
    BY <1>0, <2>1 DEF Stage, Job, Known
  <2> QED
    BY <1>1, <2>1, <2>2, QuietStep
<1>5. CASE DropOwner(r) \/ PutOwner(r) \/ GrantAcl(r) \/ Attach(r)
  BY <1>3, <1>5 DEF DropOwner, PutOwner, GrantAcl, Attach
<1>6. CASE DropAcl(r) \/ ClearAcl(r)
  <2>1. PICK a \in job[r].todo :
          GotoWith(r, "dropAcls", job[r].todo \ {a}) \/ GotoWith(r, "clearAcls", job[r].todo \ {a})
    BY <1>6 DEF DropAcl, ClearAcl
  <2>2. job[r].todo \ {a} \in SUBSET (Column \cup Role)
    BY <1>0 DEF Known
  <2> QED
    BY <1>4, <2>1, <2>2
<1>7. CASE FindAcls(r) \/ FindOldAcls(r)
  <2>1. PICK found \in Answers(acl) : GotoWith(r, "dropAcls", found) \/ GotoWith(r, "clearAcls", found)
    BY <1>7 DEF FindAcls, FindOldAcls
  <2>2. found \in SUBSET (Column \cup Role)
    BY <1>0 DEF Known, Shapes, Answers
  <2> QED
    BY <1>4, <2>1, <2>2
<1>8. CASE ClearAttachments(r)
  <2>1. job'[r] = [job[r] EXCEPT !.pc = "dropColumns"]
        /\ \A v \in Request \ {r} : job'[v] = job[v] /\ job[r].pc = "clear"
    BY <1>0, <1>8, GotoJob DEF ClearAttachments, At, Working, Known
  <2>2. NamesOf(entry.stale)' = NamesOf(entry.stale)
    BY <1>1 DEF NamesOf
  <2>3. job[r].pc = "clear"
    BY <1>8 DEF ClearAttachments, At
  <2>4. Stage(job[r])'
    BY <1>0, <1>1, <2>1, <2>2, <2>3 DEF Stage, Job, Known
  <2> QED
    BY <1>1, <2>1, <2>4, QuietStep
<1> QED
  BY <1>5, <1>6, <1>7, <1>8

\* ... and look at what is there, with or without an answer.
LEMMA LookCore ==
  ASSUME Core, Typed', NEW r \in Request, RemoveStale(r) \/ ReadEntry(r)
  PROVE  Core'
<1> USE DEF Locking, Removing, Building
<1>0. Known(r)
  BY CoreKnown
<1>1. UNCHANGED <<entry, definition, column, relation, ticket>>
  BY DEF RemoveStale, ReadEntry, store
<1>2. ASSUME NEW pc \in {"done", "release", "oldAcls"}, Goto(r, pc) PROVE Core'
  <2>1. job'[r] = [job[r] EXCEPT !.pc = pc] /\ \A v \in Request \ {r} : job'[v] = job[v]
    BY <1>0, <1>2, GotoJob DEF Known, Working
  <2>2. Stage(job[r])'
    BY <1>0, <2>1 DEF Stage, Job, Known
  <2> QED
    BY <1>1, <2>1, <2>2, QuietStep
<1>3. ASSUME NEW j \in Job, Set(r, j), entry.exists,
             \/ j.pc = "stale" /\ j.copy = entry
             \/ j.pc = "next" /\ j.copy = [entry EXCEPT !.stale = Null]
      PROVE  Core'
  <2>1. job'[r] = j /\ \A v \in Request \ {r} : job'[v] = job[v]
    BY <1>0, <1>3, SetJob DEF Known
  <2>2. Stage(job[r])'
    BY <1>1, <1>3, <2>1 DEF Stage
  <2> QED
    BY <1>1, <2>1, <2>2, QuietStep
<1>4. CASE ReadEntry(r)
  <2>1. ASSUME entry.exists, Set(r, [job[r] EXCEPT !.copy = entry, !.pc = "stale"]) PROVE Core'
    <3>1. [job[r] EXCEPT !.copy = entry, !.pc = "stale"] \in Job
      BY <1>0 DEF Known, Job, Shapes, Working
    <3> QED
      BY <1>0, <1>3, <2>1, <3>1 DEF Known, Job
  <2> QED
    BY <1>2, <1>4, <2>1 DEF ReadEntry
<1>5. CASE RemoveStale(r)
  <2> DEFINE s == job[r].copy.stale
  <2>1. job[r].copy = entry /\ entry.exists /\ s = entry.stale
    BY <1>0, <1>5 DEF RemoveStale, At, Known, Stage
  <2>2. CASE s = Null
    <3>1. [job[r] EXCEPT !.pc = "next"] \in Job
      BY <1>0 DEF Known, Job, Working
    <3>2. entry = [entry EXCEPT !.stale = Null]
      BY <1>0, <2>1, <2>2 DEF Entry, Shapes, Known
    <3>3. Set(r, [job[r] EXCEPT !.pc = "next"])
      BY <1>0, <1>5, <2>2 DEF RemoveStale, Goto, Set, Known, Shapes
    <3> QED
      BY <1>0, <1>3, <2>1, <3>1, <3>2, <3>3 DEF Known, Job
  <2>3. CASE s # Null
    <3>1. PICK cols \in Answers(ColumnsOf(s)), names \in Answers(NamesOf(s)) :
            \/ Goto(r, "release")
            \/ names # {} /\ GotoWith(r, "dropData", cols)
            \/ Set(r, [job[r] EXCEPT !.copy.stale = Null, !.pc = "next"])
      BY <1>5, <2>3 DEF RemoveStale
    <3>2. CASE Goto(r, "release")
      BY <1>2, <3>2
    <3>3. CASE names # {} /\ GotoWith(r, "dropData", cols)
      <4>1. cols \in SUBSET (Column \cup Role) /\ NamesOf(s) # {}
        BY <1>0, <3>3, ColumnsType DEF Answers, Known
      <4>2. job'[r] = [job[r] EXCEPT !.pc = "dropData", !.todo = cols]
            /\ \A v \in Request \ {r} : job'[v] = job[v]
        <5>1. GotoWith(r, "dropData", cols) /\ Shapes
              /\ "dropData" \in Working \cup {"idle", "lock", "done", "release"}
          BY <1>0, <3>3 DEF Working, Known
        <5> HIDE DEF s
        <5> QED
          BY <4>1, <5>1, GotoWithJob, Zenon
      <4>3. NamesOf(entry.stale)' = NamesOf(s)
        BY <1>1, <2>1 DEF NamesOf
      <4>4. Stage(job[r])'
        BY <1>0, <1>1, <2>1, <2>3, <4>1, <4>2, <4>3 DEF Stage, Job, Known
      <4> QED
        BY <1>1, <4>2, <4>4, QuietStep
    <3>4. CASE Set(r, [job[r] EXCEPT !.copy.stale = Null, !.pc = "next"])
      <4>1. [job[r] EXCEPT !.copy.stale = Null, !.pc = "next"] \in Job
        BY <1>0, NoEntryType DEF Known, Job, Entry, Working
      <4> QED
        BY <1>0, <1>3, <2>1, <3>4, <4>1 DEF Known, Job
    <3> QED
      BY <3>1, <3>2, <3>3, <3>4
  <2> QED
    BY <2>2, <2>3
<1> QED
  BY <1>4, <1>5

\* A relation that goes is of the stale schema; no other table has its name.
LEMMA DropCore ==
  ASSUME Core, Typed', NEW r \in Request, DropData(r) \/ DropLog(r)
  PROVE  Core'
<1> USE DEF Removing, Building, Locking
<1>0. Known(r)
  BY CoreKnown
<1>1. /\ job[r].pc \in Removing /\ holder = r /\ entry.stale # Null /\ entry.exists
      /\ job[r].copy = entry /\ NamesOf(entry.stale) # {}
      /\ UNCHANGED <<entry, definition, column, ticket>>
  BY <1>0 DEF DropData, DropLog, At, Known, Course, Stage, Deleting
<1>2. PICK n : NamesOf(entry.stale) = {n} /\ Relations(n) \cap Others = {}
  BY <1>0, <1>1, OneName DEF Known
<1>3. StaleName(r) = n
  BY <1>1, <1>2 DEF StaleName
<1>4. PICK kind \in Kind : relation' = relation \ {[name |-> n, kind |-> kind]}
  BY <1>3 DEF DropData, DropLog, Drop, Kind
<1>5. [name |-> n, kind |-> kind] \in Relations(n)
  BY DEF Relations
<1>6. Tables'
  BY <1>0, <1>1, <1>2, <1>4, <1>5 DEF Known, Tables, OneSchema, Live
<1>7. PICK pc \in {"dropLog", "clear"} :
        job'[r] = [job[r] EXCEPT !.pc = pc] /\ \A v \in Request \ {r} : job'[v] = job[v]
  BY <1>0, GotoJob DEF DropData, DropLog, Working, Known
<1>8. NamesOf(entry.stale)' = NamesOf(entry.stale)
  BY <1>1 DEF NamesOf
<1>9. Stage(job[r])'
  BY <1>0, <1>1, <1>7, <1>8 DEF Stage, Job, Known
<1> QED
  BY <1>1, <1>6, <1>7, <1>9, KeepCore

\* So is a column, ...
LEMMA DropColumnCore ==
  ASSUME Core, Typed', NEW r \in Request, DropColumn(r)
  PROVE  Core'
<1> USE DEF Removing, Building, Locking
<1>0. Known(r)
  BY CoreKnown
<1>1. PICK c \in job[r].todo :
        /\ column' = column \ {[schema |-> job[r].copy.stale, column |-> c]}
        /\ GotoWith(r, "dropColumns", job[r].todo \ {c})
  BY DEF DropColumn
<1>2. job'[r] = [job[r] EXCEPT !.pc = "dropColumns", !.todo = job[r].todo \ {c}]
      /\ \A v \in Request \ {r} : job'[v] = job[v]
  <2>1. /\ Shapes /\ "dropColumns" \in Working \cup {"idle", "lock", "done", "release"}
        /\ job[r].todo \ {c} \in SUBSET (Column \cup Role)
    BY <1>0 DEF Working, Known
  <2> QED
    BY <1>1, <2>1, GotoWithJob, Zenon
<1>3. /\ job[r].pc = "dropColumns" /\ holder = r /\ job[r].copy = entry /\ entry.exists
      /\ entry.stale # Null /\ NamesOf(entry.stale) # {}
      /\ UNCHANGED <<entry, definition, relation, ticket>>
  BY <1>0 DEF DropColumn, At, Course, Stage, Known, Deleting
<1>4. NamesOf(entry.stale)' = NamesOf(entry.stale) /\ NamesOf(entry.schema)' = NamesOf(entry.schema)
  BY <1>3 DEF NamesOf
<1>5. Tables'
  BY <1>0, <1>1, <1>3, <1>4 DEF Known, Tables, OneSchema, Live
<1>6. Stage(job[r])'
  BY <1>0, <1>2, <1>3, <1>4 DEF Stage, Job, Known
<1> QED
  BY <1>2, <1>3, <1>5, <1>6, KeepCore

\* ... and the definition.
LEMMA DropDefinitionCore ==
  ASSUME Core, Typed', NEW r \in Request, DropDefinition(r)
  PROVE  Core'
<1> USE DEF Removing, Building, Locking
<1>0. Known(r)
  BY CoreKnown
<1>1. [job[r] EXCEPT !.copy.stale = Null, !.pc = "next"] \in Job
  BY <1>0, NoEntryType DEF Job, Entry, Working, Known
<1>2. job'[r] = [job[r] EXCEPT !.copy.stale = Null, !.pc = "next"]
      /\ \A v \in Request \ {r} : job'[v] = job[v]
  BY <1>0, <1>1, SetJob DEF DropDefinition, Known
<1>3. /\ job[r].pc = "dropColumns" /\ holder = r /\ job[r].copy = entry
      /\ entry.exists /\ entry.stale # Null /\ definition' \subseteq definition
      /\ UNCHANGED <<entry, column, relation, ticket>>
  BY <1>0 DEF DropDefinition, At, Course, Stage, Known, Deleting
<1>4. Tables'
  BY <1>0, <1>3 DEF Known, Tables, OneSchema, Live
<1>5. Stage(job[r])'
  <2>1. job'[r].pc = "next" /\ job'[r].op = job[r].op
        /\ job'[r].copy = [entry EXCEPT !.stale = Null]
    BY <1>0, <1>2, <1>3 DEF Job, Known
  <2> QED
    BY <1>0, <1>3, <2>1 DEF Stage
<1> QED
  BY <1>2, <1>3, <1>4, <1>5, KeepCore

LEMMA MakeStaleCore ==
  ASSUME Core, Typed', NEW r \in Request, MakeStale(r)
  PROVE  Core'
<1> USE DEF Removing, Building, Locking
<1>0. Known(r)
  BY CoreKnown
<1> DEFINE e == Doomed(job[r].copy)
<1>1. /\ job[r].pc = "next" /\ holder = r /\ entry.exists
      /\ job[r].copy = [entry EXCEPT !.stale = Null]
      /\ UNCHANGED <<definition, column, relation, ticket>>
  BY <1>0 DEF MakeStale, At, Course, Stage, Known, Deleting, store
<1>2. e \in Entry
  BY <1>0, NoEntryType DEF Doomed, Entry, Known
<1>3. /\ job[r].copy.stale = Null /\ job[r].copy.exists
      /\ job[r].copy.schema = entry.schema /\ job[r].copy.pending = entry.pending
  BY <1>0, <1>1 DEF Shapes, Entry, Known
<1>4. /\ e.exists /\ e.pending = Null
      /\ entry.pending # Null => e.stale = entry.pending /\ e.schema = entry.schema
      /\ entry.pending = Null => e.stale = entry.schema /\ e.schema = Null
  BY <1>0, <1>3 DEF Doomed, Entry, Known
<1> HIDE DEF e
<1>5. CASE e.stale # Null
  <2>1. [job[r] EXCEPT !.copy = e, !.pc = "stale"] \in Job
    BY <1>0, <1>2 DEF Job, Working, Known
  <2>2. job'[r] = [job[r] EXCEPT !.copy = e, !.pc = "stale"]
        /\ \A v \in Request \ {r} : job'[v] = job[v]
    BY <1>0, <1>5, <2>1, SetJob DEF MakeStale, e, Known
  <2>3. entry' = e
    BY <1>1, <1>5 DEF MakeStale, Put, e
  <2>4. e.schema = Null
    BY <1>0, <1>1, <1>4, <1>5 DEF Known, Tables, OneSchema
  <2>5. Tables'
    <3>1. Null <= ticket
      BY <1>0 DEF Known, Shapes, ETag, Null
    <3> QED
      BY <1>0, <1>1, <1>4, <1>5, <2>3, <2>4, <3>1 DEF Known, Tables, OneSchema, Live
  <2>6. Stage(job[r])'
    BY <1>0, <1>4, <2>2, <2>3 DEF Stage, Job, Known
  <2> QED
    BY <1>1, <2>2, <2>5, <2>6, KeepCore
<1>6. CASE e.stale = Null
  <2>1. [job[r] EXCEPT !.copy = e, !.pc = "acls"] \in Job
    BY <1>0, <1>2 DEF Job, Working, Known
  <2>2. job'[r] = [job[r] EXCEPT !.copy = e, !.pc = "acls"]
        /\ \A v \in Request \ {r} : job'[v] = job[v]
    BY <1>0, <1>6, <2>1, SetJob DEF MakeStale, e, Known
  <2>3. UNCHANGED entry
    BY <1>6 DEF MakeStale, e
  <2>4. Stage(job[r])'
    BY <1>0, <2>2 DEF Stage, Job, Known
  <2> QED
    BY <1>1, <2>2, <2>3, <2>4, QuietStep
<1> QED
  BY <1>5, <1>6

\* The entry goes, with whatever it named.
LEMMA DropEntryCore ==
  ASSUME Core, Typed', NEW r \in Request, DropEntry(r)
  PROVE  Core'
<1> USE DEF Removing, Building, Locking
<1>0. Known(r)
  BY CoreKnown
<1>1. job'[r] = [job[r] EXCEPT !.pc = "dropOwner"] /\ \A v \in Request \ {r} : job'[v] = job[v]
  BY <1>0, GotoJob DEF DropEntry, Working, Known
<1>2. holder = r /\ entry' = NoEntry /\ UNCHANGED <<definition, column, relation, ticket>>
  BY <1>0 DEF DropEntry, At, Course, Known, Deleting, store
<1>3. Tables'
  <2>1. Null <= ticket
    BY <1>0 DEF Known, Shapes, ETag, Null
  <2> QED
    BY <1>0, <1>2, <2>1 DEF Known, Tables, OneSchema, Live, NoEntry
<1>4. Stage(job[r])'
  BY <1>0, <1>1 DEF Stage, Job, Known
<1> QED
  BY <1>1, <1>2, <1>3, <1>4, KeepCore

\* Nothing has the schema ETag of a new entry.
LEMMA PutEntryCore ==
  ASSUME Core, Typed', NEW r \in Request, PutEntry(r)
  PROVE  Core'
<1> USE DEF Removing, Building, Locking
<1>0. Known(r)
  BY CoreKnown
<1>1. /\ holder = r /\ ticket' = ticket + 1 /\ ticket \in Nat
      /\ UNCHANGED <<definition, column, relation>>
  BY <1>0, TableLifecycleAssumption DEF PutEntry, At, Course, Known, Clearing, store, Shapes, ETag
<1>2. CASE entry.exists
  <2>1. job'[r] = [job[r] EXCEPT !.pc = "release"] /\ \A v \in Request \ {r} : job'[v] = job[v]
    BY <1>0, <1>2, GotoJob DEF PutEntry, Known
  <2>2. UNCHANGED entry
    BY <1>2 DEF PutEntry
  <2>3. NamesOf(entry.schema)' = NamesOf(entry.schema)
    BY <1>1, <2>2 DEF NamesOf
  <2>4. entry.pending \in Nat
    BY <1>0 DEF Known, Shapes, Entry, ETag
  <2>5. Tables'
    BY <1>0, <1>1, <2>2, <2>3, <2>4 DEF Known, Tables, OneSchema, Live
  <2>6. Stage(job[r])'
    BY <1>0, <2>1 DEF Stage, Job, Known
  <2> QED
    BY <1>1, <2>1, <2>5, <2>6, KeepCore
<1>3. CASE ~ entry.exists
  <2> DEFINE e == [NoEntry EXCEPT !.exists = TRUE, !.pending = ticket + 1]
  <2>1. entry' = e /\ Set(r, [job[r] EXCEPT !.copy = e, !.pc = "putDefinition"])
    BY <1>3 DEF PutEntry
  <2>2. /\ e.exists /\ e.schema = Null /\ e.pending = ticket + 1 /\ e.stale = Null
        /\ e.pending # Null
    BY <1>1 DEF NoEntry, Null
  <2> HIDE DEF e
  <2>3. [job[r] EXCEPT !.copy = e, !.pc = "putDefinition"] \in Job
    <3>1. e \in Entry
      BY <2>1 DEF Typed, Shapes
    <3> QED
      BY <1>0, <3>1 DEF Job, Working, Known
  <2>4. job'[r] = [job[r] EXCEPT !.copy = e, !.pc = "putDefinition"]
        /\ \A v \in Request \ {r} : job'[v] = job[v]
    BY <1>0, <2>1, <2>3, SetJob DEF Known
  <2>5. Tables'
    BY <1>0, <1>1, <2>1, <2>2 DEF Known, Tables, OneSchema, Live
  <2>6. NamesOf(entry.pending)' = {} /\ ColumnsOf(entry.pending)' = {}
    BY <1>0, <1>1, <2>1, <2>2 DEF Known, Tables, NamesOf, ColumnsOf
  <2>7. Stage(job[r])'
    BY <1>0, <2>1, <2>2, <2>4, <2>6 DEF Stage, Job, Known
  <2> QED
    BY <1>1, <2>4, <2>5, <2>7, KeepCore
<1> QED
  BY <1>2, <1>3

LEMMA PutDefinitionCore ==
  ASSUME Core, Typed', NEW r \in Request, PutDefinition(r)
  PROVE  Core'
<1> USE DEF Removing, Building, Locking
<1>0. Known(r)
  BY CoreKnown
<1>1. job'[r] = [job[r] EXCEPT !.pc = "putColumns", !.todo = job[r].want]
      /\ \A v \in Request \ {r} : job'[v] = job[v]
  <2>1. /\ Shapes /\ "putColumns" \in Working \cup {"idle", "lock", "done", "release"}
        /\ GotoWith(r, "putColumns", job[r].want)
    BY <1>0 DEF Working, PutDefinition, Known
  <2>2. PICK w \in SUBSET (Column \cup Role) : w = job[r].want
    BY <1>0 DEF Known
  <2>3. GotoWith(r, "putColumns", w)
    BY <2>1, <2>2
  <2>4. job'[r] = [job[r] EXCEPT !.pc = "putColumns", !.todo = w]
        /\ \A v \in Request \ {r} : job'[v] = job[v]
    BY <2>1, <2>3, GotoWithJob, Zenon
  <2> QED
    BY <2>2, <2>4
<1>2. /\ job[r].pc = "putDefinition" /\ holder = r /\ job[r].copy = entry
      /\ entry.exists /\ entry.pending # Null
      /\ NamesOf(entry.pending) = {} /\ ColumnsOf(entry.pending) = {}
      /\ UNCHANGED <<entry, column, relation, ticket>>
  BY <1>0 DEF PutDefinition, At, Course, Stage, Known
<1>3. PICK n : n = FreeName /\ Relations(n) \cap relation = {}
  BY <1>0, FreeNameIsFree DEF Known
<1>4. definition' = definition \cup {[schema |-> entry.pending, name |-> n]}
  BY <1>2, <1>3 DEF PutDefinition
<1>5. \A d \in definition : d.schema # entry.pending
  BY <1>2 DEF NamesOf
<1>6. entry.pending \in 1 .. ticket
  BY <1>0, <1>2 DEF Known, Shapes, Entry, ETag, Tables, Null
<1>7. Tables'
  BY <1>0, <1>2, <1>3, <1>4, <1>5, <1>6 DEF Known, Tables, OneSchema, Live
<1>8. NamesOf(entry.pending)' # {} /\ ColumnsOf(entry.pending)' = {}
  <2>1. ColumnsOf(entry.pending)' = {}
    BY <1>2 DEF ColumnsOf
  <2> DEFINE new == [schema |-> entry.pending, name |-> n]
  <2>2. new \in definition' /\ new.schema = entry'.pending
    BY <1>2, <1>4
  <2>3. NamesOf(entry.pending)' # {}
    BY <2>2 DEF NamesOf
  <2> QED
    BY <2>1, <2>3
<1>9. Stage(job[r])'
  BY <1>0, <1>1, <1>2, <1>8 DEF Stage, Job, Known
<1> QED
  BY <1>1, <1>2, <1>7, <1>9, KeepCore

LEMMA PutColumnCore ==
  ASSUME Core, Typed', NEW r \in Request, PutColumn(r)
  PROVE  Core'
<1> USE DEF Removing, Building, Locking
<1>0. Known(r)
  BY CoreKnown
<1>1. PICK c \in job[r].todo :
        /\ column' = column \cup {[schema |-> job[r].copy.pending, column |-> c]}
        /\ GotoWith(r, "putColumns", job[r].todo \ {c})
  BY DEF PutColumn
<1>2. job'[r] = [job[r] EXCEPT !.pc = "putColumns", !.todo = job[r].todo \ {c}]
      /\ \A v \in Request \ {r} : job'[v] = job[v]
  <2>1. /\ Shapes /\ "putColumns" \in Working \cup {"idle", "lock", "done", "release"}
        /\ job[r].todo \ {c} \in SUBSET (Column \cup Role)
    BY <1>0 DEF Working, Known
  <2> QED
    BY <1>1, <2>1, GotoWithJob, Zenon
<1>3. /\ job[r].pc = "putColumns" /\ holder = r /\ job[r].copy = entry
      /\ entry.exists /\ entry.pending # Null /\ NamesOf(entry.pending) # {}
      /\ ColumnsOf(entry.pending) = job[r].want \ job[r].todo /\ c \in job[r].want
      /\ UNCHANGED <<entry, definition, relation, ticket>>
  BY <1>0 DEF PutColumn, At, Course, Stage, Known
<1>4. ColumnsOf(entry.pending)' = job[r].want \ (job[r].todo \ {c})
  <2> DEFINE new == [schema |-> entry.pending, column |-> c]
  <2>1. column' = column \cup {new} /\ entry' = entry
    BY <1>1, <1>3
  <2>2. ColumnsOf(entry.pending)' = ColumnsOf(entry.pending) \cup {c}
    <3>1. \A x : x \in ColumnsOf(entry.pending)'
              <=> \E d \in column' : d.schema = entry.pending /\ d.column = x
      BY <2>1 DEF ColumnsOf
    <3>2. \A x : x \in ColumnsOf(entry.pending)
              <=> \E d \in column : d.schema = entry.pending /\ d.column = x
      BY DEF ColumnsOf
    <3>3. new \in column' /\ new.schema = entry.pending /\ new.column = c
      BY <2>1
    <3> QED
      BY <2>1, <3>1, <3>2, <3>3
  <2> QED
    BY <1>3, <2>2
<1>5. entry.pending \in 1 .. ticket
  BY <1>0, <1>3 DEF Known, Shapes, Entry, ETag, Tables, Null
<1>6. NamesOf(entry.pending)' = NamesOf(entry.pending)
      /\ NamesOf(entry.schema)' = NamesOf(entry.schema)
  BY <1>3 DEF NamesOf
<1>7. Tables'
  BY <1>0, <1>1, <1>3, <1>5, <1>6 DEF Known, Tables, OneSchema, Live
<1>8. Stage(job[r])'
  BY <1>0, <1>2, <1>3, <1>4, <1>6 DEF Stage, Job, Known
<1> QED
  BY <1>2, <1>3, <1>7, <1>8, KeepCore

LEMMA MakeCore ==
  ASSUME Core, Typed', NEW r \in Request, MakeData(r) \/ MakeLog(r)
  PROVE  Core'
<1> USE DEF Removing, Building, Locking
<1>0. Known(r)
  BY CoreKnown
<1>1. /\ job[r].pc \in {"putColumns", "makeLog"} /\ holder = r /\ job[r].copy = entry
      /\ entry.exists /\ entry.pending # Null /\ NamesOf(entry.pending) # {}
      /\ ColumnsOf(entry.pending) = job[r].want
      /\ UNCHANGED <<entry, definition, column, ticket>>
  BY <1>0 DEF MakeData, MakeLog, At, Course, Stage, Known
<1>2. PICK n : NamesOf(entry.pending) = {n}
  BY <1>0, <1>1, OneName DEF Known
<1>3. \A e : NamesOf(e)' = NamesOf(e) /\ ColumnsOf(e)' = ColumnsOf(e)
  BY <1>1 DEF NamesOf, ColumnsOf
<1>4. /\ NamesOf(entry.pending)' = {n} /\ ColumnsOf(entry.pending)' = job[r].want
      /\ NamesOf(entry.schema)' = NamesOf(entry.schema)
  BY <1>1, <1>2 DEF NamesOf, ColumnsOf
<1>5. \A kind : Make(r, kind) => relation' = relation \cup {[name |-> n, kind |-> kind]}
  BY <1>1, <1>2 DEF Make
<1>6. relation \subseteq relation'
  BY <1>5 DEF MakeData, MakeLog
<1>7. Tables'
  BY <1>0, <1>1, <1>4, <1>6 DEF Known, Tables, OneSchema, Live
<1>8. CASE MakeData(r)
  <2>1. job'[r] = [job[r] EXCEPT !.pc = "makeLog"] /\ \A v \in Request \ {r} : job'[v] = job[v]
    BY <1>0, <1>8, GotoJob DEF MakeData, Working, Known
  <2>2. Made("data")'
    BY <1>4, <1>5, <1>8 DEF MakeData, Made
  <2>3. Stage(job[r])'
    BY <1>0, <1>1, <1>4, <2>1, <2>2 DEF Stage, Job, Known
  <2> QED
    BY <1>1, <1>7, <2>1, <2>3, KeepCore
<1>9. CASE MakeLog(r)
  <2>1. job'[r] = [job[r] EXCEPT !.pc = "goLive"] /\ \A v \in Request \ {r} : job'[v] = job[v]
    BY <1>0, <1>9, GotoJob DEF MakeLog, Working, Known
  <2>2. Made("log")'
    BY <1>4, <1>5, <1>9 DEF MakeLog, Made
  <2>3. Made("data")
    BY <1>0, <1>9 DEF MakeLog, At, Known, Stage
  <2>4. Made("data")'
    BY <1>2, <1>4, <1>6, <2>3 DEF Made
  <2>5. Stage(job[r])'
    BY <1>0, <1>1, <1>4, <2>1, <2>2, <2>4 DEF Stage, Job, Known
  <2> QED
    BY <1>1, <1>7, <2>1, <2>5, KeepCore
<1> QED
  BY <1>8, <1>9

\* What goes live has both of its relations.
LEMMA GoLiveCore ==
  ASSUME Core, Typed', NEW r \in Request, GoLive(r)
  PROVE  Core' /\ ~ Live /\ Live' /\ ColumnsOf(entry.schema)' \in Schemas /\ UNCHANGED column
<1> USE DEF Removing, Building, Locking
<1>0. Known(r)
  BY CoreKnown
<1> DEFINE e == [job[r].copy EXCEPT !.schema = job[r].copy.pending, !.pending = Null]
<1>1. job'[r] = [job[r] EXCEPT !.pc = "done"] /\ \A v \in Request \ {r} : job'[v] = job[v]
  BY <1>0, GotoJob DEF GoLive, Known
<1>2. /\ job[r].pc = "goLive" /\ job[r].op = "create" /\ holder = r /\ job[r].copy = entry
      /\ entry.exists /\ entry.pending # Null /\ NamesOf(entry.pending) # {}
      /\ ColumnsOf(entry.pending) = job[r].want /\ Made("data") /\ Made("log")
      /\ UNCHANGED <<definition, column, relation, ticket>> /\ entry' = e
      /\ job[r].want \in Schemas
  BY <1>0 DEF GoLive, At, Course, Stage, Known, Put, store
<1>3. e.exists /\ e.schema = entry.pending /\ e.pending = Null /\ e.stale = Null /\ ~ Live
  BY <1>0, <1>2 DEF Known, Tables, OneSchema, Shapes, Entry, Live
<1> HIDE DEF e
<1>4. \A n \in NamesOf(entry.pending) : Relations(n) \subseteq relation
  BY <1>2 DEF Relations, Kind, Made
<1>5. NamesOf(entry.schema)' = NamesOf(entry.pending) /\ ColumnsOf(entry.schema)' = job[r].want
  BY <1>2, <1>3 DEF NamesOf, ColumnsOf
<1>6. Tables'
  <2>1. Null <= ticket
    BY <1>0 DEF Known, Shapes, ETag, Null
  <2> QED
    BY <1>0, <1>2, <1>3, <1>4, <1>5, <2>1 DEF Known, Tables, OneSchema, Live
<1>7. Stage(job[r])'
  BY <1>0, <1>1 DEF Stage, Job, Known
<1> QED
  BY <1>1, <1>2, <1>3, <1>5, <1>6, <1>7, KeepCore DEF Live

LEMMA PutOfficesCore ==
  ASSUME Core, Typed', NEW r \in Request, PutOffices(r)
  PROVE  Core' /\ UNCHANGED <<entry, column>>
<1> USE DEF Removing, Building, Locking
<1>0. Known(r)
  BY CoreKnown
<1>1. UNCHANGED <<entry, definition, column, relation, ticket>>
  BY <1>0 DEF PutOffices, Put, At, Known, Stage, store
<1>2. job'[r] = [job[r] EXCEPT !.pc = "done"] /\ \A v \in Request \ {r} : job'[v] = job[v]
  BY <1>0, GotoJob DEF PutOffices, Known
<1>3. Stage(job[r])'
  BY <1>0, <1>2 DEF Stage, Job, Known
<1> QED
  BY <1>1, <1>2, <1>3, QuietStep

LEMMA ChangeRowsCore ==
  ASSUME Core, Typed', ChangeRows
  PROVE  Core'
<1>1. /\ entry' = [entry EXCEPT !.data = @ + 1] /\ entry \in Entry
      /\ UNCHANGED <<definition, column, relation, ticket, job>> /\ holder = NoHolder
  BY DEF ChangeRows, Core, Typed, Shapes, store
<1>2. /\ entry'.exists = entry.exists /\ entry'.schema = entry.schema
      /\ entry'.pending = entry.pending /\ entry'.stale = entry.stale
  BY <1>1 DEF Entry
<1>3. NamesOf(entry.schema)' = NamesOf(entry.schema)
  BY <1>1, <1>2 DEF NamesOf
<1>4. Tables'
  <2>1. Tables
    BY DEF Core
  <2>2. OneSchema' /\ Live' = Live
    BY <1>2, <2>1, Zenon DEF Tables, OneSchema, Live, ChangeRows
  <2> QED
    BY <1>1, <1>2, <1>3, <2>1, <2>2 DEF Tables
<1>5. ASSUME NEW v \in Request PROVE Stage(job[v])'
  <2>1. /\ ~ (job[v].op \in Locking /\ job[v].pc \notin {"idle", "lock"}) /\ Course(job[v])
        /\ Stage(job[v]) /\ job'[v] = job[v]
    BY <1>1, TableLifecycleAssumption DEF Core, Typed, Exclusive
  <2> QED
    BY <2>1 DEF Stage, Course, Locking, Removing, Deleting, Clearing, Building
<1> QED
  BY <1>4, <1>5 DEF Core

LEMMA CoreStep ==
  ASSUME ~ RequestsRace, Core, [Next]_vars
  PROVE  Core'
<1>1. Typed'
  BY TypedStep DEF Core
<1>2. CASE UNCHANGED vars
  BY <1>1, <1>2, TablesKept DEF Core, vars, store
<1>3. CASE ChangeRows
  BY <1>1, <1>3, ChangeRowsCore
<1>4. ASSUME NEW r \in Request, Begin(r) \/ GiveUp(r) \/ Fail(r) \/ Work(r) PROVE Core'
  <2>1. CASE Begin(r) \/ Lock(r) \/ GiveUp(r) \/ Release(r) \/ Fail(r)
    BY <1>1, <2>1, OutsideCore
  <2>2. CASE GrantAcl(r) \/ Attach(r) \/ PutOffices(r)
    BY <1>1, <2>2, AsideCore, PutOfficesCore
  <2>3. CASE Delete(r)
    BY <1>1, <2>3, LookCore, AsideCore, DropCore, DropColumnCore, DropDefinitionCore,
       MakeStaleCore, DropEntryCore DEF Delete
  <2>4. CASE Create(r)
    BY <1>1, <2>4, LookCore, AsideCore, PutEntryCore, PutDefinitionCore, PutColumnCore,
       MakeCore, GoLiveCore DEF Create
  <2> QED
    BY <1>4, <2>1, <2>2, <2>3, <2>4 DEF Work
<1> QED
  BY <1>2, <1>3, <1>4 DEF Next

LEMMA CoreInvariance ==
  ASSUME ~ RequestsRace
  PROVE  Spec => []Core
<1>1. Init => Core
  BY InitCore
<1>2. Core /\ [Next]_vars => Core'
  BY CoreStep
<1> QED
  BY <1>1, <1>2, PTL DEF Spec

-----------------------------------------------------------------------------
(* What follows.                                                             *)

\* A table in use has its definition and both of its relations, whatever failed
\* while it was built or while another of its id was removed: the entry goes live
\* last, with a schema ETag that nothing else has had.
THEOREM LiveTablesAreComplete == ~ RequestsRace => (Spec => []LiveHasRelations)
<1> SUFFICES ASSUME ~ RequestsRace PROVE Spec => []LiveHasRelations
  OBVIOUS
<1>1. Core => LiveHasRelations
  BY DEF Core, Tables, LiveHasRelations
<1> QED
  BY <1>1, CoreInvariance, PTL

\* No relation of another table is ever dropped; and, unless a query for a
\* definition or columns failed, nothing is left where no later clean-up would
\* find it: wherever a creation or a deletion stops, what it has written is of the
\* one schema that the entry names.
THEOREM NothingGetsLost == ~ RequestsRace => (Spec => []NothingIsLost)
<1> SUFFICES ASSUME ~ RequestsRace PROVE Spec => []NothingIsLost
  OBVIOUS
<1>1. ASSUME Inv PROVE LeftoversAreFound
  <2>1. \A d \in definition : d.schema \in Named
    BY <1>1, TheDefinition DEF Inv, Named
  <2>2. \A c \in column : NamesOf(c.schema) # {}
    BY <1>1 DEF Inv, Store, Parts, NamesOf
  <2> QED
    BY <1>1, <2>1, <2>2 DEF LeftoversAreFound, Inv, Store, Parts
<1>2. CleanInv /\ Core => NothingIsLost
  BY <1>1 DEF CleanInv, Clean, Core, Tables, NothingIsLost
<1> QED
  BY <1>2, Invariance, CoreInvariance, PTL

\* Unless a query for the definition of an earlier table failed, a table in use
\* shows no attachment of that table.
THEOREM AttachmentsAreNew == ~ RequestsRace => (Spec => []NoOldAttachments)
<1> SUFFICES ASSUME ~ RequestsRace PROVE Spec => []NoOldAttachments
  OBVIOUS
<1>1. CleanInv => NoOldAttachments
  BY DEF CleanInv, Clean, Inv, Store, Attachments, NoOldAttachments
<1> QED
  BY <1>1, Invariance, PTL

\* Unless a query for a definition or columns failed, a client that is told its
\* table exists has the columns it asked for, and one that is told its table is
\* deleted has left nothing.
THEOREM AnswersAreHonest == ~ RequestsRace => (Spec => []AnswersAreTrue)
<1> SUFFICES ASSUME ~ RequestsRace PROVE Spec => []AnswersAreTrue
  OBVIOUS
<1>1. ASSUME CleanInv PROVE AnswersAreTrue
  <2> SUFFICES ASSUME Clean, NEW r \in Request, At(r, "done")
               PROVE  CASE job[r].op = "create" -> Live /\ ColumnsOf(entry.schema) = job[r].want
                        [] job[r].op = "delete" ->
                             ~ entry.exists /\ definition = {} /\ column = {} /\ attachment = {}
                        [] OTHER -> TRUE
    BY DEF AnswersAreTrue, Clean
  <2>1. Place(job[r]) /\ Store
    BY <1>1 DEF CleanInv, Inv
  <2>2. ~ entry.exists => definition = {} /\ column = {} /\ attachment = {}
    BY <2>1, NoDefinition DEF Store, OneDefinition
  <2> QED
    BY <2>1, <2>2 DEF Place, At
<1>2. CleanInv => AnswersAreTrue
  BY <1>1
<1> QED
  BY <1>2, Invariance, PTL

-----------------------------------------------------------------------------
(* The table of module TableRegistry.                                        *)

\* Of all the writes of a creation or a deletion, clients see one.
LEMMA RegistryStep ==
  ASSUME ~ RequestsRace, Core, [Next]_vars
  PROVE  [Registry!Create \/ Registry!Delete]_(IF Live THEN {ColumnsOf(entry.schema)} ELSE {})
<1> DEFINE Table == IF Live THEN {ColumnsOf(entry.schema)} ELSE {}
<1> USE DEF Removing, Deleting, Clearing, Building
<1>0. Core'
  BY CoreStep
<1>t. Typed'
  BY <1>0 DEF Core
<1>1. Tables /\ Shapes
  BY DEF Core, Typed
<1>2. Table' = Table \/ Registry!Create \/ Registry!Delete
  <2>1. ASSUME entry'.exists = entry.exists, entry'.schema = entry.schema, column' = column
        PROVE  Table' = Table
    BY <2>1 DEF Live, ColumnsOf
  <2>2. ASSUME ~ Live, ~ Live' PROVE Table' = Table
    BY <2>2
  <2>3. ASSUME ~ Live' PROVE Table' = Table \/ Registry!Delete
    BY <2>3 DEF Registry!Delete
  <2>4. CASE UNCHANGED vars
    BY <2>1, <2>4 DEF vars, store
  <2>5. CASE ChangeRows
    BY <1>1, <2>1, <2>5 DEF ChangeRows, store, Shapes, Entry
  <2>6. ASSUME NEW r \in Request, Begin(r) \/ GiveUp(r) \/ Fail(r) \/ Work(r)
        PROVE  Table' = Table \/ Registry!Create \/ Registry!Delete
    <3>0. Stage(job[r]) /\ Course(job[r]) /\ job[r] \in Job
      BY JobFields DEF Core, Typed
    <3>1. CASE Begin(r) \/ GiveUp(r) \/ Fail(r) \/ Lock(r) \/ GrantAcl(r) \/ Attach(r) \/ Release(r)
      BY <2>1, <3>1 DEF Begin, GiveUp, Fail, Lock, GrantAcl, Attach, Release, store
    <3>2. CASE PutOffices(r)
      BY <1>t, <2>1, <3>2, PutOfficesCore
    <3>3. CASE \/ RemoveStale(r) \/ DropData(r) \/ DropLog(r) \/ ClearAttachments(r)
               \/ DropDefinition(r) \/ FindAcls(r) \/ DropAcl(r) \/ DropOwner(r)
      BY <2>1, <3>3 DEF RemoveStale, DropData, DropLog, ClearAttachments, DropDefinition,
                        FindAcls, DropAcl, DropOwner, store
    <3>4. CASE \/ ReadEntry(r) \/ FindOldAcls(r) \/ ClearAcl(r) \/ PutOwner(r)
               \/ PutDefinition(r) \/ MakeData(r) \/ MakeLog(r)
      BY <2>1, <3>4 DEF ReadEntry, FindOldAcls, ClearAcl, PutOwner, PutDefinition,
                        MakeData, MakeLog, store
    <3>5. CASE DropColumn(r) \/ PutColumn(r)
      <4>1. entry' = entry /\ (entry.stale # Null \/ entry.pending # Null)
        BY <3>0, <3>5 DEF DropColumn, PutColumn, At, Stage
      <4> QED
        BY <1>1, <2>2, <4>1 DEF Tables, OneSchema, Live
    <3>6. CASE MakeStale(r)
      <4>1. entry' = entry \/ entry'.stale # Null
        BY <3>6 DEF MakeStale, Put
      <4>2. column' = column
        BY <3>6 DEF MakeStale, store
      <4>3. CASE entry' = entry
        BY <2>1, <4>2, <4>3
      <4>4. CASE entry'.stale # Null
        <5>1. ~ Live'
          BY <1>0, <4>4 DEF Core, Tables, OneSchema, Live, NoEntry
        <5> QED
          BY <2>3, <5>1
      <4> QED
        BY <4>1, <4>3, <4>4
    <3>7. CASE DropEntry(r) \/ PutEntry(r)
      <4>1. CASE DropEntry(r)
        BY <2>3, <4>1 DEF DropEntry, Live, NoEntry
      <4>2. CASE PutEntry(r)
        <5>1. column' = column
          BY <4>2 DEF PutEntry, store
        <5>2. CASE entry.exists
          <6>1. entry' = entry
            BY <4>2, <5>2 DEF PutEntry
          <6> QED
            BY <2>1, <5>1, <6>1
        <5>3. CASE ~ entry.exists
          <6>1. entry'.schema = Null
            BY <4>2, <5>3 DEF PutEntry, NoEntry
          <6> QED
            BY <2>2, <5>3, <6>1 DEF Live
        <5> QED
          BY <5>2, <5>3
      <4> QED
        BY <3>7, <4>1, <4>2
    <3>8. CASE GoLive(r)
      <4>1. ~ Live /\ Live' /\ ColumnsOf(entry.schema)' \in Schemas
        BY <1>t, <3>8, GoLiveCore
      <4>2. PICK s \in Schemas : ColumnsOf(entry.schema)' = s
        BY <4>1
      <4>3. Table = {} /\ Table' = {s}
        BY <4>1, <4>2
      <4> QED
        BY <4>2, <4>3 DEF Registry!Create
    <3> QED
      BY <2>6, <3>1, <3>2, <3>3, <3>4, <3>5, <3>6, <3>7, <3>8 DEF Work, Delete, Create
  <2> QED
    BY <2>4, <2>5, <2>6 DEF Next
<1> QED
  BY <1>2

\* Whatever fails and wherever it stops, clients see a table appear with all of
\* its columns in one step, keep them, and go in one step.
THEOREM TablesAppearWhole == ~ RequestsRace => (Spec => AppearsWhole)
<1> SUFFICES ASSUME ~ RequestsRace PROVE Spec => AppearsWhole
  OBVIOUS
<1>1. Init => Registry!Init
  BY DEF Init, Registry!Init, Live, NoEntry
<1>2. Core /\ [Next]_vars
        => [Registry!Create \/ Registry!Delete]_(IF Live THEN {ColumnsOf(entry.schema)} ELSE {})
  BY RegistryStep
<1> QED
  BY <1>1, <1>2, CoreInvariance, PTL DEF Spec, AppearsWhole, Registry!Spec
=============================================================================
