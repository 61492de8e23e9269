------------------------------- MODULE RoleCache -------------------------------
(***************************************************************************)
(* RoleHierarchyImpl and UserServiceImpl: a server's copies of the role    *)
(* hierarchy and of the users, and how it finds out that the database has  *)
(* changed.  A request is authenticated, with the authorities its user has *)
(* then.  When it asks for the roles it can reach, it first fetches        *)
(* everything if that was last done UpdateInterval ago, or else looks at   *)
(* the revision dates if that was last done CheckInterval ago.  Requests   *)
(* run at the same time and share both time stamps without a lock.         *)
(*                                                                         *)
(* The content of the two tables is the number of their changes so far.    *)
(* An administrator's request, on this server or another one, commits the  *)
(* rows first and flags the change with a revision date last: the date of  *)
(* its own server's clock, which is off from this one's by one of Skews.   *)
(***************************************************************************)
EXTENDS Integers

CONSTANTS
  Request,         \* the threads that serve requests
  CheckInterval,   \* CHECK_INTERVAL
  UpdateInterval,  \* UPDATE_INTERVAL
  MaxWork,         \* how long a request takes at most, from its authentication
  Skews,           \* how far the clocks of the administrators' servers may be off
  MaxTime,         \* bound on the clock
  MaxChanges,      \* bound on the administrator's requests
  MaxFailures      \* bound on the database operations that fail

ASSUME RoleCacheAssumption ==
  /\ CheckInterval \in Nat /\ UpdateInterval \in Nat /\ MaxWork \in Nat
  /\ Skews \subseteq Int
  /\ CheckInterval < UpdateInterval
  /\ MaxTime \in Nat /\ MaxChanges \in Nat /\ MaxFailures \in Nat

VARIABLES
  now,         \* System.currentTimeMillis() of this server
  hierarchy,   \* the version of the granted authorities in the database
  changes,     \* the number of administrator's requests so far
  revision,    \* SecurityRevisionsTable: the revision date of each table
  writer,      \* where the administrator's request is: what it flags, the date it
               \* has read for it, and whether this is the finally block
  rolesMap,    \* rolesReachableInOneOrMoreStepsMap
  user,        \* activeUsers: until when the authorities of the one user in it
               \* were the database's
  lastCheck, lastUpdate,
  pc,          \* where each request is
  started,     \* when it was authenticated
  held,        \* until when the authorities it was authenticated with were the
               \* database's
  read,        \* the revision dates it has read and not yet looked at
  built,       \* the map it has built and not yet published
  failed,      \* what failed of it: nothing, the check or the fetch
  flag,        \* the last change of the hierarchy that was flagged, and whether
               \* a time stamp may have hidden it (history)
  failures     \* the number of operations that failed

database == <<hierarchy, changes, revision, writer>>
cache == <<rolesMap, user, lastCheck, lastUpdate>>
request == <<pc, started, held, read, built, failed>>
vars == <<now, database, cache, request, flag, failures>>

Table == {"grants", "users"}
Time == 0 .. MaxTime
Date == {t + s : t \in Time, s \in Skews} \cup {0}
Count == 0 .. MaxChanges
NoUser == -1
Forever == MaxTime + 1
Until == Time \cup {Forever}
\* A copy of the hierarchy; until is history: when the database ceased to hold it.
Copy == [version : Count, until : Until]
Stage == {"idle", "inside", "users", "grants", "decide", "build", "install", "reload", "stamp",
          "forget", "answer"}
Writing == {"idle", "date", "put", "users"}

TypeOK ==
  /\ now \in Time
  /\ hierarchy \in Count /\ changes \in Count
  /\ revision \in [Table -> Date]
  /\ writer \in [stage : Writing, table : Table, date : Date, last : BOOLEAN]
  /\ rolesMap \in Copy
  /\ user \in Until \cup {NoUser}
  /\ lastCheck \in Time /\ lastUpdate \in Time
  /\ pc \in [Request -> Stage]
  /\ started \in [Request -> Time]
  /\ held \in [Request -> Until]
  /\ read \in [Request -> [Table -> Date]]
  /\ built \in [Request -> Copy]
  /\ failed \in [Request -> {"nothing", "check", "fetch"}]
  /\ flag \in [version : Count, hidden : BOOLEAN]
  /\ failures \in 0 .. MaxFailures

At(stage, t, last) == [stage |-> stage, table |-> t, date |-> 0, last |-> last]
Idle == At("idle", "grants", FALSE)
NoDates == [t \in Table |-> 0]
NoFlag == [version |-> 0, hidden |-> FALSE]
NoCopy == [version |-> 0, until |-> Forever]

\* The server has started: afterPropertiesSet has fetched everything.
Init ==
  /\ now = 0
  /\ hierarchy = 0 /\ changes = 0
  /\ revision = NoDates
  /\ writer = Idle
  /\ rolesMap = NoCopy /\ user = NoUser
  /\ lastCheck = 0 /\ lastUpdate = 0
  /\ pc = [r \in Request |-> "idle"]
  /\ started = [r \in Request |-> 0]
  /\ held = [r \in Request |-> Forever]
  /\ read = [r \in Request |-> NoDates]
  /\ built = [r \in Request |-> NoCopy]
  /\ failed = [r \in Request |-> "nothing"]
  /\ flag = NoFlag
  /\ failures = 0

Goto(r, stage) == pc' = [pc EXCEPT ![r] = stage]

\* Every request is done MaxWork after its authentication.
Tick ==
  /\ now < MaxTime
  /\ \A r \in Request : pc[r] # "idle" => now - started[r] < MaxWork
  /\ now' = now + 1
  /\ UNCHANGED <<database, cache, request, flag, failures>>

-----------------------------------------------------------------------------
(* setStandardSiteAccessConfiguration.                                     *)

\* A copy that was the database's, when the database is changed.
Outdated(copy) == IF copy.until = Forever THEN [copy EXCEPT !.until = now] ELSE copy

\* assertGrantedAuthorityHierarchy flags the hierarchy, if it has changed it.
ChangeHierarchy ==
  /\ writer.stage = "idle" /\ changes < MaxChanges
  /\ changes' = changes + 1
  /\ \/ /\ hierarchy' = hierarchy + 1
        /\ rolesMap' = Outdated(rolesMap)
        /\ built' = [r \in Request |-> IF pc[r] = "install" THEN Outdated(built[r]) ELSE built[r]]
        /\ writer' = At("date", "grants", FALSE)
     \/ /\ writer' = At("users", "grants", FALSE)
        /\ UNCHANGED <<hierarchy, rolesMap, built>>
  /\ UNCHANGED <<now, revision, user, lastCheck, lastUpdate, pc, started, held, read, failed,
                 flag, failures>>

\* setUsers, setUsersOfGrantedAuthority; the server that does it drops its copies.
ChangeUsers ==
  /\ writer.stage = "users"
  /\ user' \in {IF user = Forever THEN now ELSE user, NoUser}
  /\ held' = [r \in Request |-> IF pc[r] # "idle" /\ held[r] = Forever THEN now ELSE held[r]]
  /\ writer' = At("date", "users", TRUE)
  /\ UNCHANGED <<now, hierarchy, changes, revision, rolesMap, lastCheck, lastUpdate, pc, started,
                 read, built, failed, flag, failures>>

\* new Date(), by the administrator's server.
ReadDate ==
  /\ writer.stage = "date"
  /\ \E skew \in Skews : writer' = [writer EXCEPT !.stage = "put", !.date = now + skew]
  /\ UNCHANGED <<now, hierarchy, changes, revision, cache, request, flag, failures>>

\* The finally block flags the users and then the hierarchy.
AfterFlag ==
  IF ~writer.last THEN At("users", "grants", FALSE)
  ELSE IF writer.table = "users" THEN At("date", "grants", TRUE)
  ELSE Idle

\* The last check is stamped the revision date or later, or will be: a request is
\* between its reading of the revision date, or of the rows, and its time stamp.
Hidden ==
  \/ lastCheck >= writer.date
  \/ \E r \in Request : pc[r] \in {"decide", "install", "reload", "stamp"}

\* The revision date is put: the change is flagged.
PutRevision ==
  /\ writer.stage = "put"
  /\ revision' = [revision EXCEPT ![writer.table] = writer.date]
  /\ writer' = AfterFlag
  /\ flag' = IF writer.table = "users" THEN flag
             ELSE [version |-> hierarchy, hidden |-> Hidden]
  /\ UNCHANGED <<now, hierarchy, changes, cache, request, failures>>

\* A statement fails.  In the finally block the change goes unflagged ("if it
\* fails, use RELOAD_INTERVAL to force reload"), before it the block is entered.
WriteFails ==
  /\ writer.stage # "idle" /\ failures < MaxFailures
  /\ failures' = failures + 1
  /\ writer' = IF writer.last THEN AfterFlag ELSE At("date", "users", TRUE)
  /\ UNCHANGED <<now, hierarchy, changes, revision, cache, request, flag>>

-----------------------------------------------------------------------------
(* A request.                                                              *)

\* loadUserByUsername reads the user's authorities.  Sessions are stateless: every
\* request does this.
Authenticate(r) ==
  /\ pc[r] = "idle"
  /\ started' = [started EXCEPT ![r] = now]
  /\ Goto(r, "inside")
  /\ UNCHANGED <<now, database, cache, held, read, built, failed, flag, failures>>

\* internalGetUser: a user that is not there is put, with the authorities that the
\* request was authenticated with.
GetUser(r) ==
  /\ pc[r] = "inside" /\ user = NoUser
  /\ user' = held[r]
  /\ UNCHANGED <<now, database, rolesMap, lastCheck, lastUpdate, request, flag, failures>>

\* The thread is free.
Leave(r) ==
  /\ pc[r] = "inside"
  /\ started' = [started EXCEPT ![r] = 0]
  /\ held' = [held EXCEPT ![r] = Forever]
  /\ Goto(r, "idle")
  /\ UNCHANGED <<now, database, cache, read, built, failed, flag, failures>>

-----------------------------------------------------------------------------
(* getReachableGrantedAuthorities.                                         *)

\* Fault: the last check counts for an update.
UpdateDueSinceCheck == now > lastCheck + UpdateInterval

UpdateDue == now > lastUpdate + UpdateInterval

\* Fault: the check is made when the update would be.
CheckDueLate == now > lastCheck + UpdateInterval

CheckDue == now > lastCheck + CheckInterval

Start(r) ==
  /\ pc[r] = "inside"
  /\ Goto(r, IF UpdateDue THEN "build" ELSE IF CheckDue THEN "users" ELSE "answer")
  /\ UNCHANGED <<now, database, cache, started, held, read, built, failed, flag, failures>>

\* getLastRegisteredUsersRevisionDate, then getLastRoleHierarchyRevisionDate.
ReadRevision(r, t) ==
  /\ pc[r] = t
  /\ read' = [read EXCEPT ![r][t] = revision[t]]
  /\ Goto(r, IF t = "users" THEN "grants" ELSE "decide")
  /\ UNCHANGED <<now, database, cache, started, held, built, failed, flag, failures>>

\* "log it, but assume we are OK..."
ReadFails(r) ==
  /\ pc[r] \in Table /\ failures < MaxFailures
  /\ failures' = failures + 1
  /\ failed' = [failed EXCEPT ![r] = "check"]
  /\ read' = [read EXCEPT ![r] = NoDates]
  /\ Goto(r, "answer")
  /\ UNCHANGED <<now, database, cache, started, held, built, flag>>

Decide(r) ==
  /\ pc[r] = "decide"
  /\ IF read[r]["grants"] > lastCheck
       THEN Goto(r, "build") /\ UNCHANGED lastCheck
       ELSE /\ lastCheck' = now
            /\ Goto(r, IF read[r]["users"] > lastCheck THEN "forget" ELSE "answer")
  /\ read' = [read EXCEPT ![r] = NoDates]
  /\ UNCHANGED <<now, database, rolesMap, user, lastUpdate, started, held, built,
                 failed, flag, failures>>

\* reloadPermissions, when only the users have changed.
Forget(r) ==
  /\ pc[r] = "forget"
  /\ user' = NoUser
  /\ Goto(r, "answer")
  /\ UNCHANGED <<now, database, rolesMap, lastCheck, lastUpdate, started, held, read, built,
                 failed, flag, failures>>

\* refreshReachableGrantedAuthorities: one query, and the map is built from it.
Build(r) ==
  /\ pc[r] = "build"
  /\ built' = [built EXCEPT ![r] = [version |-> hierarchy, until |-> Forever]]
  /\ Goto(r, "install")
  /\ UNCHANGED <<now, database, cache, started, held, read, failed, flag, failures>>

\* Fault: the time of the next try instead of that of the last check.
RetryAtNext == now + UpdateInterval

RetryAfterHalf == now - CheckInterval \div 2

\* The query fails: "set ourselves up to hit the database again after half a
\* check interval".  The caller swallows the exception.
BuildFails(r) ==
  /\ pc[r] = "build" /\ failures < MaxFailures
  /\ failures' = failures + 1
  /\ lastCheck' = RetryAfterHalf
  /\ flag' = [flag EXCEPT !.hidden = @ \/ lastCheck' >= revision["grants"]]
  /\ failed' = [failed EXCEPT ![r] = "fetch"]
  /\ Goto(r, "answer")
  /\ UNCHANGED <<now, database, rolesMap, user, lastUpdate, started, held, read, built>>

\* updateRolesMap
Install(r) ==
  /\ pc[r] = "install"
  /\ rolesMap' = built[r]
  /\ built' = [built EXCEPT ![r] = NoCopy]
  /\ Goto(r, "reload")
  /\ UNCHANGED <<now, database, user, lastCheck, lastUpdate, started, held, read, failed,
                 flag, failures>>

\* Fault: the users stay.
ReloadedKept == user

\* activeUsers.clear()
Reloaded == NoUser

\* userService.reloadPermissions()
Reload(r) ==
  /\ pc[r] = "reload"
  /\ user' = Reloaded
  /\ Goto(r, "stamp")
  /\ UNCHANGED <<now, database, rolesMap, lastCheck, lastUpdate, started, held, read, built,
                 failed, flag, failures>>

Stamp(r) ==
  /\ pc[r] = "stamp"
  /\ lastCheck' = now /\ lastUpdate' = now
  /\ Goto(r, "answer")
  /\ UNCHANGED <<now, database, rolesMap, user, started, held, read, built, failed,
                 flag, failures>>

\* The roles are looked up in the map as it is now.
Answer(r) ==
  /\ pc[r] = "answer"
  /\ failed' = [failed EXCEPT ![r] = "nothing"]
  /\ Goto(r, "inside")
  /\ UNCHANGED <<now, database, cache, started, held, read, built, flag, failures>>

Next ==
  \/ Tick \/ ChangeHierarchy \/ ChangeUsers \/ ReadDate \/ PutRevision \/ WriteFails
  \/ \E r \in Request :
       \/ Authenticate(r) \/ GetUser(r) \/ Leave(r) \/ Start(r) \/ \E t \in Table : ReadRevision(r, t)
       \/ ReadFails(r) \/ Decide(r) \/ Forget(r) \/ Build(r) \/ BuildFails(r)
       \/ Install(r) \/ Reload(r) \/ Stamp(r) \/ Answer(r)

Spec == Init /\ [][Next]_vars

-----------------------------------------------------------------------------
(* Properties.                                                             *)

\* A request about to answer whose own fetch, if it made one, did not fail.
Answers(r) == pc[r] = "answer" /\ failed[r] # "fetch"

(* "refresh everything every UPDATE_INTERVAL": the hierarchy a request answers *)
(* from was the database's at most UpdateInterval before the request began,    *)
(* and the time of two requests: one that fetched late, and one that published *)
(* an older map after it.  It does not matter whether changes were flagged.    *)
RolesAreRecent ==
  \A r \in Request : Answers(r) =>
    rolesMap.until >= started[r] - UpdateInterval - 2 * MaxWork

(* So were the authorities of a user that is kept from request to request, and *)
(* again with the time of two requests: the one that fetched and dropped the   *)
(* users, and one that was authenticated before and put its user after that.   *)
UsersAreRecent ==
  \A r \in Request : Answers(r) /\ user # NoUser =>
    user >= started[r] - UpdateInterval - 2 * MaxWork

(* "look for flagged changes every CHECK_INTERVAL" (RoleHierarchyImpl.java:63): *)
(* a request that begins CheckInterval after the revision date of the last      *)
(* change that was flagged, or later, answers from that change or a later one,  *)
(* unless its own check or fetch fails.                                         *)
ChangesAreNoticed ==
  \A r \in Request :
    pc[r] = "answer" /\ failed[r] = "nothing" /\ started[r] >= revision["grants"] + CheckInterval
      => rolesMap.version >= flag.version

(* It does if the flag is not hidden: the revision date is later than the last  *)
(* check that had been stamped when it was put, by this server's clock, no      *)
(* check or fetch was then under way that had yet to be stamped, and no fetch   *)
(* has failed since and was stamped that date or later.                         *)
FlagsAreNoticed == ~ flag.hidden => ChangesAreNoticed
=============================================================================
