------------------------------ MODULE TaskLock ------------------------------
(***************************************************************************)
(* The database-mediated lock every ODK Tables operation runs under:       *)
(* TaskLockImpl (one SERIALIZABLE transaction on the table _task_lock per  *)
(* attempt) driven by OdkTablesLockTemplate (bounded retries, release in a *)
(* finally block).                                                         *)
(*                                                                         *)
(* A request is one OdkTablesLockTemplate: it has a lock id of its own     *)
(* (a random UUID), which is the primary key of its row, and names one     *)
(* resource (the pair formId, taskType).  The row of request r is          *)
(* therefore expiry[r], its EXPIRATION_DATETIME, or NoRow.                 *)
(*                                                                         *)
(* NOW() is the time at which the transaction began; LOCK TABLE is granted *)
(* later, in any order: Begin records the time, ObtainTransaction and      *)
(* RenewTransaction run the statements.  Between LOCK TABLE ... IN ACCESS  *)
(* EXCLUSIVE MODE and COMMIT nobody else reads or writes the table, so the *)
(* statements of one transaction are one step.                             *)
(***************************************************************************)
EXTENDS Integers

CONSTANTS
  Request,     \* lock templates, one per server request
  Resource,    \* the pairs (formId, taskType) that are locked
  ResourceOf,  \* the resource each request locks
  Lease,       \* ITaskLockType.getLockExpirationTimeout()
  Tries,       \* OdkTablesLockTemplate.TRIES
  MaxTime      \* bound on the clock, for model checking

NoRow == 0

ASSUME TaskLockAssumption ==
  /\ ResourceOf \in [Request -> Resource]
  /\ Lease \in Nat \ {NoRow}
  /\ Tries \in Nat \ {0}
  /\ MaxTime \in Nat

VARIABLES
  now,       \* the database server's clock
  expiry,    \* _task_lock: the expiration of each request's row, or NoRow
  pc,        \* where each request is
  stamp,     \* NOW() of the transaction each request has under way
  tries,     \* attempts made by the loop a request is in
  leaseEnd,  \* the expiration confirmed to a request that was told it holds
  overtaken  \* history: whose row a rival with an earlier NOW() came before

vars == <<now, expiry, pc, stamp, tries, leaseEnd, overtaken>>

Stages == {"idle", "obtain", "confirm", "backoff", "work", "renew",
           "confirmRenewal", "release", "done", "crashed"}

\* The stages in which a request believes that it holds its resource.
Holding == {"work", "renew", "confirmRenewal"}

TypeOK ==
  /\ now \in Nat
  /\ expiry \in [Request -> Nat]
  /\ pc \in [Request -> Stages]
  /\ stamp \in [Request -> Nat]
  /\ tries \in [Request -> 0 .. Tries]
  /\ leaseEnd \in [Request -> Nat]
  /\ overtaken \in [Request -> BOOLEAN]

Init ==
  /\ now = 1
  /\ expiry = [r \in Request |-> NoRow]
  /\ pc = [r \in Request |-> "idle"]
  /\ stamp = [r \in Request |-> 0]
  /\ tries = [r \in Request |-> 0]
  /\ leaseEnd = [r \in Request |-> NoRow]
  /\ overtaken = [r \in Request |-> FALSE]

Goto(r, stage) == pc' = [pc EXCEPT ![r] = stage]

Rivals(r) == {q \in Request \ {r} : ResourceOf[q] = ResourceOf[r]}

-----------------------------------------------------------------------------
(* The three DELETE statements, applied to the rows e of the table.        *)

\* Faults: the row's age is compared with the new lease; a row that expires
\* right now is kept.
WithoutStaleByLease(e, time) ==
  [q \in Request |-> IF e[q] < time + Lease THEN NoRow ELSE e[q]]
WithoutStaleStrictly(e, time) ==
  [q \in Request |-> IF e[q] < time THEN NoRow ELSE e[q]]

\* DELETE ... WHERE EXPIRATION_DATETIME <= NOW(), whosever the row is.
WithoutStale(e, time) ==
  [q \in Request |-> IF e[q] <= time THEN NoRow ELSE e[q]]

\* Fault: the most recent row wins.
NotNewest(e, q) ==
  \E p \in Rivals(q) : e[p] > e[q]

\* Is the row of q later than the oldest row of its resource?
NotOldest(e, q) ==
  \E p \in Rivals(q) : e[p] # NoRow /\ e[p] < e[q]

\* DELETE the prospective locks of r's resource that are not the oldest.
WithoutNewer(e, r) ==
  [q \in Request |->
     IF ResourceOf[q] = ResourceOf[r] /\ NotOldest(e, q) THEN NoRow ELSE e[q]]

\* Fault: the third DELETE is left out.
CollisionKept(e, r) == e

\* DELETE our own row when the resource still has more than one.
WithoutOwnCollision(e, r) ==
  IF \E p \in Rivals(r) : e[p] # NoRow THEN [e EXCEPT ![r] = NoRow] ELSE e

\* What the transaction of r leaves of the rows e, its own row written.
Arbitrate(e, r) ==
  WithoutOwnCollision(WithoutNewer(WithoutStale(e, stamp[r]), r), r)

\* The transaction of r writes its row, beside rows that expire later although
\* they were there first: their requests began later and were granted earlier.
Overtakes(r) ==
  overtaken' = [q \in Request |->
    IF q = r THEN FALSE
    ELSE overtaken[q] \/ (q \in Rivals(r) /\ stamp[r] + Lease < expiry[q])]

-----------------------------------------------------------------------------
(* obtainLock, renewLock and releaseLock.                                  *)

\* acquire() enters its loop or sleeps out a backoff: the next transaction
\* begins and its NOW() is fixed.
Begin(r) ==
  /\ pc[r] \in {"idle", "backoff"}
  /\ tries[r] < Tries
  /\ stamp' = [stamp EXCEPT ![r] = now]
  /\ tries' = [tries EXCEPT ![r] = @ + 1]
  /\ Goto(r, "obtain")
  /\ UNCHANGED <<now, expiry, leaseEnd, overtaken>>

\* The transaction of obtainLock commits.  The INSERT needs the primary key to
\* be free; a collision with the row an earlier attempt left rolls back.
ObtainTransaction(r) ==
  /\ pc[r] = "obtain"
  /\ IF expiry[r] = NoRow
     THEN /\ expiry' = Arbitrate([expiry EXCEPT ![r] = stamp[r] + Lease], r)
          /\ Overtakes(r)
     ELSE UNCHANGED <<expiry, overtaken>>
  /\ Goto(r, "confirm")
  /\ stamp' = [stamp EXCEPT ![r] = 0]
  /\ UNCHANGED <<now, tries, leaseEnd>>

\* The transaction fails: the exception is swallowed and the work rolled back,
\* and the confirming read follows as if nothing had happened.
TransactionFails(r) ==
  /\ pc[r] \in {"obtain", "renew"}
  /\ Goto(r, IF pc[r] = "obtain" THEN "confirm" ELSE "confirmRenewal")
  /\ stamp' = [stamp EXCEPT ![r] = 0]
  /\ UNCHANGED <<now, expiry, tries, leaseEnd, overtaken>>

\* getEntity finds our row: the lock is ours.
Confirm(r) ==
  /\ pc[r] = "confirm"
  /\ expiry[r] # NoRow
  /\ leaseEnd' = [leaseEnd EXCEPT ![r] = expiry[r]]
  /\ tries' = [tries EXCEPT ![r] = 0]
  /\ Goto(r, "work")
  /\ UNCHANGED <<now, expiry, stamp, overtaken>>

\* Faults: the count of attempts is not reset for the release; there is no
\* last attempt.
DeclinedKeepsCount(r) ==
  /\ pc[r] = "confirm"
  /\ Goto(r, IF tries[r] < Tries THEN "backoff" ELSE "release")
  /\ UNCHANGED <<now, expiry, stamp, tries, leaseEnd, overtaken>>
DeclinedForever(r) ==
  /\ pc[r] = "confirm"
  /\ Goto(r, "backoff")
  /\ UNCHANGED <<now, expiry, stamp, tries, leaseEnd, overtaken>>

\* getEntity finds no row, or fails (DatastoreImpl reports both as not found):
\* sleep and try again, or give up, throw and run the finally block.
Declined(r) ==
  /\ pc[r] = "confirm"
  /\ IF tries[r] < Tries
     THEN Goto(r, "backoff") /\ UNCHANGED tries
     ELSE Goto(r, "release") /\ tries' = [tries EXCEPT ![r] = 0]
  /\ UNCHANGED <<now, expiry, stamp, leaseEnd, overtaken>>

\* renewLock reads its row, and begins a transaction that updates it.
Renew(r) ==
  /\ pc[r] = "work"
  /\ expiry[r] # NoRow
  /\ stamp' = [stamp EXCEPT ![r] = now]
  /\ Goto(r, "renew")
  /\ UNCHANGED <<now, expiry, tries, leaseEnd, overtaken>>

\* UPDATE ... WHERE PRI = our id changes no row when ours is gone.
RenewTransaction(r) ==
  /\ pc[r] = "renew"
  /\ IF expiry[r] = NoRow
     THEN expiry' = Arbitrate(expiry, r) /\ UNCHANGED overtaken
     ELSE /\ expiry' = Arbitrate([expiry EXCEPT ![r] = stamp[r] + Lease], r)
          /\ Overtakes(r)
  /\ Goto(r, "confirmRenewal")
  /\ stamp' = [stamp EXCEPT ![r] = 0]
  /\ UNCHANGED <<now, tries, leaseEnd>>

ConfirmRenewal(r) ==
  /\ pc[r] = "confirmRenewal"
  /\ expiry[r] # NoRow
  /\ leaseEnd' = [leaseEnd EXCEPT ![r] = expiry[r]]
  /\ Goto(r, "work")
  /\ UNCHANGED <<now, expiry, stamp, tries, overtaken>>

\* The work ends, well or with an exception, or a renewal is refused: in every
\* case the finally block releases the lock.
Leave(r) ==
  /\ pc[r] \in {"work", "confirmRenewal"}
  /\ leaseEnd' = [leaseEnd EXCEPT ![r] = NoRow]
  /\ Goto(r, "release")
  /\ UNCHANGED <<now, expiry, stamp, tries, overtaken>>

\* releaseLock: DELETE by primary key, which also succeeds when no row is left.
Release(r) ==
  /\ pc[r] = "release"
  /\ expiry' = [expiry EXCEPT ![r] = NoRow]
  /\ Goto(r, "done")
  /\ UNCHANGED <<now, stamp, tries, leaseEnd, overtaken>>

\* The DELETE, or only its answer, is lost: tried again TRIES times in all, then
\* the row is left to expire.
ReleaseFails(r) ==
  /\ pc[r] = "release"
  /\ expiry' \in {expiry, [expiry EXCEPT ![r] = NoRow]}
  /\ tries' = [tries EXCEPT ![r] = @ + 1]
  /\ Goto(r, IF tries[r] + 1 < Tries THEN "release" ELSE "done")
  /\ UNCHANGED <<now, stamp, leaseEnd, overtaken>>

\* The server dies at any point; a transaction under way is rolled back.
Crash(r) ==
  /\ pc[r] \notin {"idle", "done", "crashed"}
  /\ stamp' = [stamp EXCEPT ![r] = 0]
  /\ tries' = [tries EXCEPT ![r] = 0]
  /\ leaseEnd' = [leaseEnd EXCEPT ![r] = NoRow]
  /\ Goto(r, "crashed")
  /\ UNCHANGED <<now, expiry, overtaken>>

Tick ==
  /\ now < MaxTime
  /\ now' = now + 1
  /\ UNCHANGED <<expiry, pc, stamp, tries, leaseEnd, overtaken>>

Step(r) ==
  \/ Begin(r) \/ ObtainTransaction(r) \/ TransactionFails(r) \/ Confirm(r)
  \/ Declined(r) \/ Renew(r) \/ RenewTransaction(r) \/ ConfirmRenewal(r)
  \/ Leave(r) \/ Release(r) \/ ReleaseFails(r) \/ Crash(r)

Next == Tick \/ \E r \in Request : Step(r)

Spec == Init /\ [][Next]_vars

(* Threads of a live server keep running and the work done under a lock is    *)
(* finite, however often the lock is renewed meanwhile; nothing is assumed of *)
(* crashes, of failures or of the clock.                                      *)
Fairness ==
  \A r \in Request :
    /\ WF_vars(Begin(r) \/ ObtainTransaction(r) \/ RenewTransaction(r))
    /\ WF_vars(Confirm(r) \/ Declined(r))
    /\ WF_vars(ConfirmRenewal(r))
    /\ SF_vars(Leave(r))
    /\ WF_vars(Release(r) \/ ReleaseFails(r))

FairSpec == Spec /\ Fairness

-----------------------------------------------------------------------------
(* Properties.                                                             *)

(* TaskLockImpl.java:224 asserts it after the three DELETEs: only the lock    *)
(* that holds a resource appears in the task lock table.                      *)
OneRowPerResource ==
  \A r \in Request : \A q \in Rivals(r) :
    ~ (expiry[r] # NoRow /\ expiry[q] # NoRow)

Holds(r) == pc[r] \in Holding /\ now < leaseEnd[r]

(* While a confirmed lease runs no transaction removes or shortens the        *)
(* holder's row, whatever it inserts or cleans up and in whatever order the   *)
(* table is granted: but one whose NOW() is earlier than that of the row.     *)
HolderKeepsRow ==
  \A r \in Request : Holds(r) /\ ~ overtaken[r] => leaseEnd[r] <= expiry[r]

(* Two requests hold a running lease on one resource only when a transaction  *)
(* with an earlier NOW() than the row of one of them was granted the table    *)
(* after it: nothing else that fails, crashes, expires or is tried again lets *)
(* a second one in.                                                           *)
ExclusiveUnlessOvertaken ==
  \A r \in Request : \A q \in Rivals(r) :
    Holds(r) /\ Holds(q) => overtaken[r] \/ overtaken[q]

(* Two requests never hold a running lease on one resource: the "database-    *)
(* mediated global mutex" of Datastore.java:216, within the lease.            *)
MutualExclusion ==
  \A r \in Request : \A q \in Rivals(r) : ~ (Holds(r) /\ Holds(q))

(* A row left by a crash or a failed release blocks its resource for its      *)
(* lease and not longer: an attempt that begins once every rival row has      *)
(* expired and whose transaction commits leaves its own row in the table.     *)
ExpiredRowsNeverBlock ==
  [][\A r \in Request :
       /\ ObtainTransaction(r)
       /\ \A q \in Rivals(r) : expiry[q] <= stamp[r]
       => expiry'[r] # NoRow]_vars

(* acquire and release return: no request waits for another for ever, however *)
(* the others fail, crash or hold on.                                         *)
RequestsReturn ==
  \A r \in Request : pc[r] # "idle" ~> pc[r] \in {"done", "crashed"}
=============================================================================
