---------------------------- MODULE RoleCacheProofs ----------------------------
(***************************************************************************)
(* How old the cached roles and users can be, and which flagged changes    *)
(* are noticed: for any number of threads and any length of the intervals  *)
(* and of a request.  Only linear arithmetic on the time stamps is needed. *)
(***************************************************************************)
EXTENDS RoleCache, TLAPS

Busy(r) == pc[r] # "idle"
Checking == {"users", "grants", "decide"}
Writer == [stage : Writing, table : Table, date : Date, last : BOOLEAN]

\* The types, with what keeps the time stamps and counters in their range.
Clocks ==
  /\ hierarchy <= changes
  /\ lastCheck <= now /\ lastUpdate <= now
  /\ \A r \in Request : Busy(r) => started[r] <= now /\ now <= started[r] + MaxWork
  /\ \A r \in Request : pc[r] \in Checking \cup {"build"} => now >= CheckInterval
  /\ \A r \in Request : pc[r] = "idle" => held[r] = Forever

Inv == TypeOK /\ Clocks

LEMMA Dates == Date \subseteq Int /\ 0 \in Date /\ \A t \in 0 .. MaxTime, s \in Skews : t + s \in Date
  BY RoleCacheAssumption DEF Date, Time

LEMMA InitInv == Init => Inv
  BY RoleCacheAssumption, Dates
  DEF Init, Inv, TypeOK, Clocks, Busy, Checking, Time, Count, Until, Forever, NoUser, Copy,
      Stage, Writing, Table, Idle, At, NoDates, NoFlag, NoCopy

\* A copy that goes out of date does so now.
LEMMA OutdatedType ==
  ASSUME Inv, NEW copy \in Copy
  PROVE  /\ Outdated(copy) \in Copy /\ Outdated(copy).version = copy.version
         /\ \A t \in Int : t <= now /\ copy.until >= t => Outdated(copy).until >= t
  BY RoleCacheAssumption DEF Inv, TypeOK, Outdated, Copy, Until, Forever, Time

\* A place of the administrator's request, without a date.
LEMMA AtType ==
  ASSUME NEW stage \in Writing, NEW t \in Table, NEW last \in BOOLEAN
  PROVE  At(stage, t, last) \in Writer /\ At(stage, t, last).date = 0
  BY Dates DEF At, Writer

LEMMA InvStep == Inv /\ [Next]_vars => Inv'
<1> SUFFICES ASSUME Inv, [Next]_vars PROVE Inv'
  OBVIOUS
<1> USE RoleCacheAssumption
    DEF Inv, TypeOK, Clocks, Busy, Checking, Time, Count, Table, Goto, Stage, Writing
<1>1. CASE Tick
  BY <1>1 DEF Tick, database, cache, request
<1>2. CASE ChangeHierarchy
  <2>1. rolesMap' \in Copy
    BY <1>2, OutdatedType DEF ChangeHierarchy
  <2>2. built' \in [Request -> Copy]
    <3>1. \A r \in Request : built[r] \in Copy /\ Outdated(built[r]) \in Copy
      BY OutdatedType
    <3> QED
      BY <1>2, <3>1 DEF ChangeHierarchy
  <2>3. writer' \in Writer /\ writer'.date = 0
    <3>1. writer' = At("date", "grants", FALSE) \/ writer' = At("users", "grants", FALSE)
      BY <1>2 DEF ChangeHierarchy
    <3> QED
      BY <3>1, AtType
  <2>4. changes' = changes + 1 /\ hierarchy' \in {hierarchy, hierarchy + 1}
    BY <1>2 DEF ChangeHierarchy
  <2> QED
    BY <1>2, <2>1, <2>2, <2>3, <2>4 DEF ChangeHierarchy, Writer
<1>3. CASE ChangeUsers
  BY <1>3, Dates DEF ChangeUsers, At, Until, NoUser, request
<1>4. CASE ReadDate
  <2>1. PICK skew \in Skews : writer' = [writer EXCEPT !.stage = "put", !.date = now + skew]
    BY <1>4 DEF ReadDate
  <2>2. now + skew \in Date
    BY Dates
  <2>3. writer' \in Writer
    BY <2>1, <2>2 DEF Writer
  <2> QED
    BY <1>4, <2>3 DEF ReadDate, Writer, cache, request
<1>5. CASE PutRevision
  <2>1. AfterFlag \in Writer /\ AfterFlag.date = 0
    BY Dates DEF AfterFlag, At, Idle, Writer
  <2>2. revision' \in [Table -> Date] /\ flag' \in [version : Count, hidden : BOOLEAN]
    BY <1>5 DEF PutRevision, Hidden
  <2> QED
    BY <1>5, <2>1, <2>2 DEF PutRevision, Writer, cache, request
<1>6. CASE WriteFails
  BY <1>6, Dates DEF WriteFails, AfterFlag, At, Idle, cache, request
<1>7. ASSUME NEW r \in Request, Authenticate(r) \/ GetUser(r) \/ Leave(r) PROVE Inv'
  <2>1. CASE Authenticate(r)
    BY <2>1 DEF Authenticate, database, cache
  <2>2. CASE GetUser(r)
    <3>1. user' \in Until
      BY <2>2 DEF GetUser
    <3> QED
      BY <2>2, <3>1 DEF GetUser, database, request
  <2>3. CASE Leave(r)
    <3>1. held' \in [Request -> Until] /\ \A v \in Request : pc'[v] = "idle" => held'[v] = Forever
      BY <2>3 DEF Leave, Until
    <3> QED
      BY <2>3, <3>1 DEF Leave, database, cache
  <2> QED
    BY <1>7, <2>1, <2>2, <2>3
<1>8. ASSUME NEW r \in Request, Start(r) PROVE Inv'
  BY <1>8 DEF Start, UpdateDue, CheckDue, database, cache
<1>9. ASSUME NEW r \in Request, NEW t \in Table, ReadRevision(r, t) PROVE Inv'
  BY <1>9 DEF ReadRevision, database, cache
<1>10. ASSUME NEW r \in Request, ReadFails(r) PROVE Inv'
  BY <1>10, Dates DEF ReadFails, NoDates, database, cache
<1>11. ASSUME NEW r \in Request, Decide(r) PROVE Inv'
  BY <1>11, Dates DEF Decide, NoDates, database
<1>12. ASSUME NEW r \in Request, Forget(r) PROVE Inv'
  BY <1>12 DEF Forget, NoUser, database
<1>13. ASSUME NEW r \in Request, Build(r) PROVE Inv'
  BY <1>13 DEF Build, Copy, Until, database, cache
<1>14. ASSUME NEW r \in Request, BuildFails(r) PROVE Inv'
  <2>1. RetryAfterHalf \in 0 .. now
    BY <1>14 DEF BuildFails, RetryAfterHalf
  <2>2. flag' \in [version : Count, hidden : BOOLEAN]
    BY <1>14 DEF BuildFails
  <2> QED
    BY <1>14, <2>1, <2>2 DEF BuildFails, database
<1>15. ASSUME NEW r \in Request, Install(r) PROVE Inv'
  BY <1>15 DEF Install, NoCopy, Copy, Until, Forever, database
<1>16. ASSUME NEW r \in Request, Reload(r) PROVE Inv'
  BY <1>16 DEF Reload, Reloaded, NoUser, database
<1>17. ASSUME NEW r \in Request, Stamp(r) PROVE Inv'
  BY <1>17 DEF Stamp, database
<1>18. ASSUME NEW r \in Request, Answer(r) PROVE Inv'
  BY <1>18, Dates DEF Answer, NoDates, database, cache
<1>19. CASE UNCHANGED vars
  BY <1>19 DEF vars, database, cache, request
<1> QED
  BY <1>1, <1>2, <1>3, <1>4, <1>5, <1>6, <1>7, <1>8, <1>9, <1>10, <1>11, <1>12, <1>13,
     <1>14, <1>15, <1>16, <1>17, <1>18, <1>19
  DEF Next

\* Everything keeps its type; in particular no retry is set before the epoch.
THEOREM TypeCorrect == Spec => []TypeOK
<1>1. Inv => TypeOK
  BY DEF Inv
<1> QED
  BY <1>1, InitInv, InvStep, PTL DEF Spec

-----------------------------------------------------------------------------
(* Age.                                                                    *)

\* A request that will answer without a fetch, or after one, but not after a
\* fetch that failed.
InTime(r) ==
  pc[r] \in Checking \cup {"forget"} \/ (pc[r] = "answer" /\ failed[r] # "fetch")

\* A map that was built is as recent as the request that built it.  One that was
\* published while a request fetched may have been built MaxWork before that.
Recent ==
  /\ \A r \in Request : InTime(r) => started[r] <= lastUpdate + UpdateInterval
  /\ rolesMap.until >= lastUpdate - 2 * MaxWork
  /\ \A r \in Request : pc[r] = "install" => built[r].until >= started[r]
  /\ \A r \in Request : pc[r] \in {"reload", "stamp"} => rolesMap.until >= started[r] - MaxWork
  /\ \A r \in Request : pc[r] # "idle" => held[r] >= started[r]
  /\ user # NoUser => user >= lastUpdate - 2 * MaxWork
  /\ \A r \in Request : pc[r] = "stamp" /\ user # NoUser => user >= started[r] - MaxWork

LEMMA InitRecent == Init => Recent
  BY RoleCacheAssumption DEF Init, Recent, InTime, Checking, NoCopy, Forever, NoUser

LEMMA RecentStep == Inv /\ Recent /\ [Next]_vars => Recent'
<1> SUFFICES ASSUME Inv, Recent, [Next]_vars PROVE Recent'
  OBVIOUS
<1> USE RoleCacheAssumption DEF Time, Goto, Checking, InTime
<1>a. /\ now \in Time /\ lastUpdate \in Time /\ lastUpdate <= now
      /\ started \in [Request -> Time] /\ pc \in [Request -> Stage]
      /\ failed \in [Request -> {"nothing", "check", "fetch"}]
      /\ built \in [Request -> Copy] /\ rolesMap \in Copy
      /\ user \in Until \cup {NoUser} /\ held \in [Request -> Until]
  BY DEF Inv, TypeOK, Clocks
<1>b. \A r \in Request : pc[r] # "idle" => started[r] <= now /\ now <= started[r] + MaxWork
  BY DEF Inv, Clocks, Busy
<1>c. \A copy \in Copy : copy.until \in Int
  BY DEF Copy, Until, Forever
<1>d. ASSUME UNCHANGED <<rolesMap, user, lastUpdate, pc, started, held, built, failed>> PROVE Recent'
  BY <1>d DEF Recent
<1>1. CASE Tick \/ ReadDate \/ PutRevision \/ WriteFails \/ UNCHANGED vars
  BY <1>1, <1>d
  DEF Tick, ReadDate, PutRevision, WriteFails, vars, cache, request
<1>2. CASE ChangeHierarchy
  <2>1. \A r \in Request : pc[r] = "install" => built'[r].until >= started[r]
    <3>1. \A r \in Request : built'[r] = built[r] \/ built'[r] = Outdated(built[r])
      BY <1>2, <1>a DEF ChangeHierarchy
    <3>2. ASSUME NEW r \in Request, pc[r] = "install" PROVE built'[r].until >= started[r]
      BY <1>a, <1>b, <3>1, <3>2, OutdatedType DEF Recent
    <3> QED
      BY <3>2
  <2>2. rolesMap' = rolesMap \/ rolesMap' = Outdated(rolesMap)
    BY <1>2 DEF ChangeHierarchy
  <2>3. \A t \in Int : t <= now /\ rolesMap.until >= t => rolesMap'.until >= t
    BY <1>a, <2>2, OutdatedType
  <2>4. rolesMap'.until >= lastUpdate - 2 * MaxWork
    BY <1>a, <2>3 DEF Recent
  <2>5. \A r \in Request : pc[r] \in {"reload", "stamp"} => rolesMap'.until >= started[r] - MaxWork
    BY <1>a, <1>b, <2>3 DEF Recent
  <2>6. UNCHANGED <<user, lastUpdate, pc, started, held, failed>>
    BY <1>2 DEF ChangeHierarchy
  <2> QED
    BY <2>1, <2>4, <2>5, <2>6 DEF Recent
<1>3. CASE ChangeUsers
  <2>1. user' \in {user, now, NoUser} /\ UNCHANGED <<rolesMap, lastUpdate, pc, started, built, failed>>
    BY <1>3 DEF ChangeUsers
  <2>2. user' # NoUser => user' >= lastUpdate - 2 * MaxWork
    BY <1>a, <2>1 DEF Recent
  <2>3. \A r \in Request : pc[r] = "stamp" /\ user' # NoUser => user' >= started[r] - MaxWork
    BY <1>a, <1>b, <2>1 DEF Recent
  <2>4. \A r \in Request : pc[r] # "idle" => held'[r] >= started[r]
    BY <1>3, <1>a, <1>b DEF ChangeUsers, Recent
  <2> QED
    BY <2>1, <2>2, <2>3, <2>4 DEF Recent
<1>12. ASSUME NEW r \in Request, GetUser(r) PROVE Recent'
  <2>1. /\ pc[r] = "inside" /\ user' = held[r]
        /\ UNCHANGED <<rolesMap, lastUpdate, pc, started, held, built, failed>>
    BY <1>12 DEF GetUser, request
  <2>2. user' \in Int /\ user' >= now - MaxWork
    BY <1>a, <1>b, <2>1 DEF Recent, Until, Forever
  <2>3. user' >= lastUpdate - 2 * MaxWork
    BY <1>a, <2>2
  <2>4. \A v \in Request : pc[v] = "stamp" => user' >= started[v] - MaxWork
    BY <1>a, <1>b, <2>2
  <2> QED
    BY <2>1, <2>3, <2>4 DEF Recent
<1>13. ASSUME NEW r \in Request, Authenticate(r) PROVE Recent'
  <2>1. /\ UNCHANGED <<rolesMap, user, lastUpdate, held, built, failed>>
        /\ pc[r] = "idle" /\ pc'[r] = "inside" /\ started'[r] = now
        /\ \A v \in Request : v # r => pc'[v] = pc[v] /\ started'[v] = started[v]
    BY <1>13, <1>a DEF Authenticate, cache
  <2>2. held[r] >= now
    BY <2>1, <1>a DEF Inv, Clocks, Forever
  <2> QED
    BY <2>1, <2>2 DEF Recent
<1>14. ASSUME NEW r \in Request, Leave(r) PROVE Recent'
  <2>1. /\ UNCHANGED <<rolesMap, user, lastUpdate, built, failed>>
        /\ pc'[r] = "idle"
        /\ \A v \in Request : v # r =>
             pc'[v] = pc[v] /\ started'[v] = started[v] /\ held'[v] = held[v]
    BY <1>14, <1>a DEF Leave, cache
  <2> QED
    BY <2>1 DEF Recent
<1>4. ASSUME NEW r \in Request, Start(r) PROVE Recent'
  <2>1. /\ UNCHANGED <<rolesMap, user, lastUpdate, started, held, built, failed>>
        /\ \A v \in Request : v # r => pc'[v] = pc[v]
        /\ pc[r] = "inside" /\ pc'[r] \in {"build", "users", "answer"}
        /\ pc'[r] # "build" => now <= lastUpdate + UpdateInterval
    BY <1>4, <1>a DEF Start, UpdateDue, cache
  <2>2. pc'[r] # "build" => started[r] <= lastUpdate + UpdateInterval
    BY <2>1, <1>a, <1>b
  <2> QED
    BY <2>1, <2>2 DEF Recent
<1>5. ASSUME NEW r \in Request,
             (\E t \in Table : ReadRevision(r, t)) \/ ReadFails(r) \/ Decide(r)
      PROVE  Recent'
  BY <1>5, <1>a DEF ReadRevision, ReadFails, Decide, Recent, cache, Table
<1>6. ASSUME NEW r \in Request, Forget(r) \/ Reload(r) PROVE Recent'
  BY <1>6, <1>a, <1>b DEF Forget, Reload, Reloaded, Recent
<1>7. ASSUME NEW r \in Request, Build(r) PROVE Recent'
  BY <1>7, <1>a DEF Build, Recent, cache, Forever
<1>8. ASSUME NEW r \in Request, BuildFails(r) PROVE Recent'
  BY <1>8, <1>a DEF BuildFails, Recent
<1>9. ASSUME NEW r \in Request, Install(r) PROVE Recent'
  <2>1. rolesMap' = built[r] /\ built[r].until >= started[r] /\ pc[r] = "install"
    BY <1>9 DEF Install, Recent
  <2>2. rolesMap'.until \in Int /\ rolesMap'.until >= now - MaxWork
    BY <1>a, <1>b, <1>c, <2>1
  <2>3. rolesMap'.until >= lastUpdate - 2 * MaxWork
    BY <1>a, <2>2
  <2>4. \A v \in Request : pc'[v] \in {"reload", "stamp"} => rolesMap'.until >= started[v] - MaxWork
    BY <1>9, <1>a, <1>b, <2>1, <2>2 DEF Install
  <2>5. /\ UNCHANGED <<user, lastUpdate, started, held, failed>>
        /\ \A v \in Request : pc'[v] = "reload" \/ (v # r /\ pc'[v] = pc[v] /\ built'[v] = built[v])
        /\ \A v \in Request : pc'[v] # "idle" => pc[v] # "idle"
    BY <1>9, <1>a DEF Install
  <2> QED
    BY <2>3, <2>4, <2>5 DEF Recent
<1>10. ASSUME NEW r \in Request, Stamp(r) PROVE Recent'
  <2>1. pc[r] = "stamp" /\ lastUpdate' = now /\ UNCHANGED <<rolesMap, user, started, held, built, failed>>
    BY <1>10 DEF Stamp
  <2>2. started[r] >= now - MaxWork
    BY <1>a, <1>b, <2>1
  <2>3. rolesMap.until >= now - 2 * MaxWork
    BY <1>a, <1>c, <2>1, <2>2 DEF Recent
  <2>4. user # NoUser => user >= now - 2 * MaxWork
    BY <1>a, <2>1, <2>2 DEF Recent, Until, Forever
  <2>5. \A v \in Request : pc'[v] # "idle" => pc[v] # "idle"
    BY <1>10, <1>a DEF Stamp
  <2>6. \A v \in Request : InTime(v)' => started[v] <= now + UpdateInterval
    BY <1>a, <1>b, <2>5
  <2>7. \A v \in Request : pc'[v] = "answer" \/ pc'[v] = pc[v]
    BY <1>10, <1>a DEF Stamp
  <2> QED
    BY <2>1, <2>3, <2>4, <2>5, <2>6, <2>7 DEF Recent
<1>11. ASSUME NEW r \in Request, Answer(r) PROVE Recent'
  BY <1>11, <1>a DEF Answer, Recent, cache
<1> QED
  BY <1>1, <1>2, <1>3, <1>4, <1>5, <1>6, <1>7, <1>8, <1>9, <1>10, <1>11, <1>12, <1>13,
     <1>14
  DEF Next

\* Whatever is flagged or not, and however many threads fetch and publish maps in
\* whatever order: no answer comes from a hierarchy older than RolesAreRecent says.
THEOREM RolesRecent == Spec => []RolesAreRecent
<1>1. Inv /\ Recent => RolesAreRecent
  <2> SUFFICES ASSUME Inv, Recent, NEW r \in Request, Answers(r)
               PROVE  rolesMap.until >= started[r] - UpdateInterval - 2 * MaxWork
    BY DEF RolesAreRecent
  <2>1. rolesMap.until \in Int /\ started[r] \in Int /\ lastUpdate \in Int
    BY RoleCacheAssumption DEF Inv, TypeOK, Copy, Until, Forever, Time
  <2> QED
    BY <2>1, RoleCacheAssumption DEF Recent, Answers, InTime
<1> QED
  BY <1>1, InitInv, InvStep, InitRecent, RecentStep, PTL DEF Spec

\* The same of the users that are kept from request to request, each put with the
\* authorities that some request was authenticated with.
THEOREM UsersRecent == Spec => []UsersAreRecent
<1>1. Inv /\ Recent => UsersAreRecent
  <2> SUFFICES ASSUME Inv, Recent, NEW r \in Request, Answers(r), user # NoUser
               PROVE  user >= started[r] - UpdateInterval - 2 * MaxWork
    BY DEF UsersAreRecent
  <2>1. user \in Int /\ started[r] \in Int /\ lastUpdate \in Int
    BY RoleCacheAssumption DEF Inv, TypeOK, Until, Forever, NoUser, Time
  <2> QED
    BY <2>1, RoleCacheAssumption DEF Recent, Answers, InTime
<1> QED
  BY <1>1, InitInv, InvStep, InitRecent, RecentStep, PTL DEF Spec

-----------------------------------------------------------------------------
(* Flags.                                                                  *)

\* The flagged change is not hidden, and not in the roles.
Pending == ~ flag.hidden /\ rolesMap.version < flag.version

\* While a flagged change is pending, the last check is older than its revision
\* date, so that the next check will find it; whoever has begun to fetch since
\* will publish it; and whoever is done without a failure leaves a last check that
\* is not older than its own beginning by more than CheckInterval.
Flagged ==
  /\ flag.version <= hierarchy
  /\ Pending => lastCheck < revision["grants"]
  /\ \A r \in Request :
       /\ Pending /\ pc[r] = "decide" => read[r]["grants"] = revision["grants"]
       /\ ~ flag.hidden /\ pc[r] = "install" => built[r].version >= flag.version
       /\ pc[r] \in {"reload", "stamp"} => ~Pending
       /\ pc[r] = "forget" \/ (pc[r] = "answer" /\ failed[r] = "nothing") =>
            started[r] <= lastCheck + CheckInterval

LEMMA InitFlagged == Init => Flagged
  BY RoleCacheAssumption DEF Init, Flagged, Pending, NoCopy, NoFlag

LEMMA FlaggedStep == Inv /\ Flagged /\ [Next]_vars => Flagged'
<1> SUFFICES ASSUME Inv, Flagged, [Next]_vars PROVE Flagged'
  OBVIOUS
<1> USE RoleCacheAssumption DEF Goto
<1>a. /\ now \in Int /\ lastCheck \in Int /\ hierarchy \in Int
      /\ flag \in [version : Count, hidden : BOOLEAN] /\ flag.version \in Int
      /\ revision \in [Table -> Date]
      /\ rolesMap.version \in Int
      /\ pc \in [Request -> Stage] /\ started \in [Request -> Time]
      /\ read \in [Request -> [Table -> Date]]
      /\ built \in [Request -> Copy] /\ rolesMap \in Copy
      /\ failed \in [Request -> {"nothing", "check", "fetch"}]
  BY DEF Inv, TypeOK, Time, Count, Table, Copy
<1>b. \A r \in Request : started[r] \in Int /\ built[r].version \in Int
  BY <1>a DEF Time, Copy, Count
<1>r. revision["grants"] \in Int
  BY <1>a, Dates DEF Table
<1>c. \A r \in Request : pc[r] # "idle" => started[r] <= now
  BY DEF Inv, Clocks, Busy
<1>d. ASSUME UNCHANGED <<revision, lastCheck, flag, pc, read, started, failed>>,
             hierarchy' >= hierarchy, now' >= now, hierarchy' \in Int, now' \in Int,
             rolesMap'.version = rolesMap.version,
             \A r \in Request : pc[r] = "install" => built'[r].version = built[r].version
      PROVE  Flagged'
  BY <1>a, <1>b, <1>d DEF Flagged, Pending
<1>1. CASE Tick \/ ChangeUsers \/ ReadDate \/ WriteFails \/ (\E r \in Request : GetUser(r))
         \/ UNCHANGED vars
  <2>1. /\ UNCHANGED <<hierarchy, rolesMap, built, revision, lastCheck, flag, pc, read, started, failed>>
        /\ now' \in {now, now + 1}
    BY <1>1 DEF Tick, ChangeUsers, ReadDate, WriteFails, GetUser, vars, database, cache, request
  <2> QED
    BY <2>1, <1>a, <1>d
<1>2. CASE ChangeHierarchy
  <2>1. /\ UNCHANGED <<now, revision, lastCheck, flag, pc, read, started, failed>>
        /\ hierarchy' \in {hierarchy, hierarchy + 1}
    BY <1>2 DEF ChangeHierarchy
  <2>2. rolesMap'.version = rolesMap.version
    BY <1>2, <1>a, OutdatedType DEF ChangeHierarchy
  <2>3. \A r \in Request : built'[r].version = built[r].version
    <3>1. \A r \in Request : built'[r] = built[r] \/ built'[r] = Outdated(built[r])
      BY <1>2, <1>a DEF ChangeHierarchy
    <3>2. \A r \in Request : Outdated(built[r]).version = built[r].version
      BY <1>a, OutdatedType
    <3> QED
      BY <3>1, <3>2
  <2> QED
    BY <2>1, <2>2, <2>3, <1>a, <1>d
<1>3. CASE PutRevision
  <2>1. UNCHANGED <<now, hierarchy, rolesMap, lastCheck, pc, read, started, built, failed>>
    BY <1>3 DEF PutRevision, cache, request
  <2>2. CASE writer.table = "users"
    <3>1. flag' = flag /\ revision'["grants"] = revision["grants"]
      BY <1>3, <2>2, <1>a DEF PutRevision, Table
    <3> QED
      BY <2>1, <3>1 DEF Flagged, Pending
  <2>3. CASE writer.table # "users"
    <3>1. /\ flag' = [version |-> hierarchy, hidden |-> Hidden]
          /\ revision'["grants"] = writer.date
      BY <1>3, <2>3, <1>a DEF PutRevision, Inv, TypeOK, Table
    <3>2. flag'.version = hierarchy /\ (~ flag'.hidden => ~ Hidden)
      BY <3>1
    <3>3. writer.date \in Int
      BY Dates DEF Inv, TypeOK
    <3>4. ASSUME ~ Hidden
          PROVE  /\ lastCheck < writer.date
                 /\ \A r \in Request : pc[r] \notin {"decide", "install", "reload", "stamp"}
      BY <3>3, <3>4, <1>a DEF Hidden
    <3> QED
      BY <2>1, <3>1, <3>2, <3>3, <3>4, <1>a, <1>b DEF Flagged, Pending
  <2> QED
    BY <2>2, <2>3
<1>4. ASSUME NEW r \in Request, Start(r) PROVE Flagged'
  <2>1. UNCHANGED <<now, hierarchy, revision, rolesMap, lastCheck, read, started, built, failed, flag>>
    BY <1>4 DEF Start, database, cache
  <2>2. /\ \A v \in Request : v # r => pc'[v] = pc[v]
        /\ pc[r] = "inside" /\ pc'[r] \in {"build", "users", "answer"}
        /\ ~ CheckDue \/ pc'[r] # "answer"
    BY <1>4, <1>a DEF Start
  <2>3. pc'[r] = "answer" => started[r] <= lastCheck + CheckInterval
    BY <2>2, <1>a, <1>b, <1>c DEF CheckDue
  <2> QED
    BY <2>1, <2>2, <2>3, <1>a, <1>b DEF Flagged, Pending
<1>5. ASSUME NEW r \in Request, NEW t \in Table, ReadRevision(r, t) PROVE Flagged'
  <2>1. /\ UNCHANGED <<now, hierarchy, revision, rolesMap, lastCheck, started, built, failed, flag>>
        /\ \A v \in Request : v # r => pc'[v] = pc[v] /\ read'[v] = read[v]
    BY <1>5, <1>a DEF ReadRevision, database, cache
  <2>2. \/ pc'[r] = "grants"
        \/ pc'[r] = "decide" /\ read'[r]["grants"] = revision["grants"]
    BY <1>5, <1>a DEF ReadRevision, Table
  <2> QED
    BY <2>1, <2>2 DEF Flagged, Pending
<1>6. ASSUME NEW r \in Request, ReadFails(r) \/ Forget(r) PROVE Flagged'
  <2>1. /\ UNCHANGED <<now, hierarchy, revision, rolesMap, lastCheck, started, built, flag>>
        /\ \A v \in Request : v # r => pc'[v] = pc[v] /\ read'[v] = read[v] /\ failed'[v] = failed[v]
        /\ pc'[r] = "answer" /\ (failed'[r] = "check" \/ pc[r] = "forget")
    BY <1>6, <1>a DEF ReadFails, Forget, database, cache
  <2> QED
    BY <2>1 DEF Flagged, Pending
<1>7. ASSUME NEW r \in Request, Decide(r) PROVE Flagged'
  <2>1. /\ UNCHANGED <<now, hierarchy, revision, rolesMap, started, built, failed, flag>>
        /\ \A v \in Request : v # r => pc'[v] = pc[v] /\ read'[v] = read[v]
        /\ pc[r] = "decide" /\ pc'[r] \in {"build", "forget", "answer"}
    BY <1>7, <1>a DEF Decide, database
  <2>2. Pending => lastCheck' = lastCheck /\ pc'[r] = "build"
    BY <1>7, <2>1, <1>a DEF Decide, Flagged
  <2>3. /\ lastCheck' \in Int /\ lastCheck <= lastCheck'
        /\ pc'[r] # "build" => started[r] <= lastCheck'
    BY <1>7, <2>1, <1>a, <1>c DEF Decide, Inv, Clocks
  <2>4. \A v \in Request : pc'[v] = "forget" \/ (pc'[v] = "answer" /\ failed'[v] = "nothing") =>
          started'[v] <= lastCheck' + CheckInterval
    BY <2>1, <2>3, <1>a, <1>b DEF Flagged
  <2> QED
    BY <2>1, <2>2, <2>4 DEF Flagged, Pending
<1>8. ASSUME NEW r \in Request, Build(r) PROVE Flagged'
  <2>1. /\ UNCHANGED <<now, hierarchy, revision, rolesMap, lastCheck, read, started, failed, flag>>
        /\ \A v \in Request : v # r => pc'[v] = pc[v] /\ built'[v] = built[v]
        /\ pc'[r] = "install" /\ built'[r].version = hierarchy
    BY <1>8, <1>a DEF Build, database, cache
  <2> QED
    BY <2>1, <1>a DEF Flagged, Pending
<1>9. ASSUME NEW r \in Request, BuildFails(r) PROVE Flagged'
  <2>1. /\ UNCHANGED <<now, hierarchy, revision, rolesMap, read, started, built>>
        /\ \A v \in Request : v # r => pc'[v] = pc[v] /\ failed'[v] = failed[v]
        /\ pc'[r] = "answer" /\ failed'[r] = "fetch" /\ lastCheck' \in Int
        /\ flag' = [flag EXCEPT !.hidden = flag.hidden \/ lastCheck' >= revision["grants"]]
    BY <1>9, <1>a DEF BuildFails, RetryAfterHalf, database
  <2>2. flag'.version = flag.version
    BY <2>1, <1>a
  <2>3. flag'.hidden = (flag.hidden \/ lastCheck' >= revision["grants"])
    BY <2>1, <1>a, Zenon
  <2>4. ~ flag'.hidden => ~ flag.hidden /\ ~ (lastCheck' >= revision["grants"])
    BY <2>3, Zenon
  <2>5. ~ (lastCheck' >= revision["grants"]) => lastCheck' < revision["grants"]
    BY <2>1, <1>r
  <2>6. now <= lastCheck' + CheckInterval
    BY <1>9, <1>a DEF BuildFails, RetryAfterHalf
  <2>7. \A v \in Request : pc[v] # "idle" => started[v] <= lastCheck' + CheckInterval
    BY <2>1, <2>6, <1>a, <1>b, <1>c
  <2> QED
    BY <2>1, <2>2, <2>4, <2>5, <2>7, <1>a DEF Flagged, Pending
<1>10. ASSUME NEW r \in Request, Install(r) PROVE Flagged'
  <2>1. /\ UNCHANGED <<now, hierarchy, revision, lastCheck, read, started, failed, flag>>
        /\ \A v \in Request : v # r => pc'[v] = pc[v] /\ built'[v] = built[v]
        /\ pc[r] = "install" /\ pc'[r] = "reload" /\ rolesMap' = built[r]
    BY <1>10, <1>a DEF Install, database
  <2>2. ~Pending'
    BY <2>1, <1>a, <1>b DEF Flagged, Pending
  <2> QED
    BY <2>1, <2>2 DEF Flagged
<1>11. ASSUME NEW r \in Request, Reload(r) PROVE Flagged'
  <2>1. /\ UNCHANGED <<now, hierarchy, revision, rolesMap, lastCheck, read, started, built, failed, flag>>
        /\ \A v \in Request : v # r => pc'[v] = pc[v]
        /\ pc[r] = "reload" /\ pc'[r] = "stamp"
    BY <1>11, <1>a DEF Reload, database
  <2> QED
    BY <2>1 DEF Flagged, Pending
<1>12. ASSUME NEW r \in Request, Stamp(r) PROVE Flagged'
  <2>1. /\ UNCHANGED <<now, hierarchy, revision, rolesMap, read, started, built, failed, flag>>
        /\ \A v \in Request : v # r => pc'[v] = pc[v]
        /\ pc[r] = "stamp" /\ pc'[r] = "answer"
    BY <1>12, <1>a DEF Stamp, database
  <2>2. ~Pending /\ ~Pending'
    BY <2>1 DEF Flagged, Pending
  <2>3. lastCheck' = now
    BY <1>12 DEF Stamp
  <2>4. \A v \in Request : pc[v] # "idle" => started[v] <= lastCheck' + CheckInterval
    BY <2>3, <1>a, <1>b, <1>c
  <2> QED
    BY <2>1, <2>2, <2>4 DEF Flagged
<1>13. ASSUME NEW r \in Request, Answer(r) \/ Authenticate(r) \/ Leave(r) PROVE Flagged'
  <2>1. /\ UNCHANGED <<now, hierarchy, revision, rolesMap, lastCheck, read, built, flag>>
        /\ \A v \in Request : v # r =>
             pc'[v] = pc[v] /\ started'[v] = started[v] /\ failed'[v] = failed[v]
        /\ pc'[r] \in {"idle", "inside"}
    BY <1>13, <1>a DEF Answer, Authenticate, Leave, database, cache
  <2> QED
    BY <2>1 DEF Flagged, Pending
<1> QED
  BY <1>1, <1>2, <1>3, <1>4, <1>5, <1>6, <1>7, <1>8, <1>9, <1>10, <1>11, <1>12, <1>13 DEF Next

\* A flag that no time stamp hides is noticed by every request that begins
\* CheckInterval after its revision date, or later, whatever the others are doing.
THEOREM FlagsNoticed == Spec => []FlagsAreNoticed
<1>1. Inv /\ Flagged => FlagsAreNoticed
  <2> SUFFICES ASSUME Inv, Flagged PROVE FlagsAreNoticed
    OBVIOUS
  <2>1. /\ rolesMap.version \in Int /\ flag.version \in Int /\ lastCheck \in Int
        /\ revision["grants"] \in Int /\ \A r \in Request : started[r] \in Int
    <3>1. revision["grants"] \in Date
      BY DEF Inv, TypeOK, Table
    <3>2. revision["grants"] \in Int
      BY <3>1, Dates
    <3> QED
      BY <3>2, RoleCacheAssumption DEF Inv, TypeOK, Copy, Count, Time
  <2> QED
    BY <2>1, RoleCacheAssumption DEF FlagsAreNoticed, ChangesAreNoticed, Flagged, Pending
<1> QED
  BY <1>1, InitInv, InvStep, InitFlagged, FlaggedStep, PTL DEF Spec
=============================================================================
