--------------------------- MODULE TaskLockProofs ---------------------------
(***************************************************************************)
(* Proofs about TaskLock, for every set of requests, every assignment of   *)
(* resources, every lease and number of tries.                             *)
(***************************************************************************)
EXTENDS TaskLock, TLAPS

\* A failing releaseLock leaves its loop before the counter passes Tries, and
\* acquire leaves the counter at zero.
TriesInv ==
  \A r \in Request : pc[r] \in Holding \cup {"release"} => tries[r] < Tries

IndInv == TypeOK /\ TriesInv /\ OneRowPerResource

USE DEF NoRow

(* The three DELETEs map tables to tables.                                  *)
LEMMA ArbitrateType ==
  ASSUME NEW e \in [Request -> Nat], NEW r \in Request, TypeOK
  PROVE  Arbitrate(e, r) \in [Request -> Nat]
<1> DEFINE s == WithoutStale(e, stamp[r])
           w == WithoutNewer(s, r)
<1>1. s \in [Request -> Nat]
  BY DEF WithoutStale
<1>2. w \in [Request -> Nat]
  BY <1>1 DEF WithoutNewer
<1> HIDE DEF s, w
<1>3. WithoutOwnCollision(w, r) \in [Request -> Nat]
  BY <1>2 DEF WithoutOwnCollision
<1> QED
  BY <1>3 DEF Arbitrate, s, w

(* The DELETEs only remove rows: a row that is left is the row that was there, *)
(* it was not stale, and none of its resource is older.                        *)
LEMMA ArbitrateKeeps ==
  ASSUME NEW e \in [Request -> Nat], NEW r \in Request, NEW q \in Request,
         TypeOK, Arbitrate(e, r)[q] # NoRow
  PROVE  /\ Arbitrate(e, r)[q] = e[q]
         /\ stamp[r] < e[q]
<1> DEFINE s == WithoutStale(e, stamp[r])
           w == WithoutNewer(s, r)
<1>1. s \in [Request -> Nat] /\ w \in [Request -> Nat]
  BY DEF WithoutStale, WithoutNewer
<1>2. w[q] # NoRow /\ WithoutOwnCollision(w, r)[q] = w[q]
  BY <1>1 DEF Arbitrate, WithoutOwnCollision, s, w
<1>3. s[q] # NoRow /\ w[q] = s[q]
  BY <1>2, <1>1 DEF WithoutNewer, w
<1>4. stamp[r] \in Nat
  BY DEF TypeOK
<1>5. s[q] = e[q] /\ stamp[r] < e[q]
  BY <1>3, <1>4 DEF WithoutStale, s
<1> QED
  BY <1>2, <1>3, <1>5 DEF Arbitrate, s, w

(* If at most the own row was new, one row per resource is left: a second     *)
(* row of the resource is either later than the first, or the own one.        *)
LEMMA ArbitrateLeavesOne ==
  ASSUME NEW r \in Request, NEW x \in Nat, TypeOK, OneRowPerResource
  PROVE  \A p \in Request : \A q \in Rivals(p) :
            ~ (/\ Arbitrate([expiry EXCEPT ![r] = x], r)[p] # NoRow
               /\ Arbitrate([expiry EXCEPT ![r] = x], r)[q] # NoRow)
<1> DEFINE e == [expiry EXCEPT ![r] = x]
           s == WithoutStale(e, stamp[r])
           w == WithoutNewer(s, r)
           a == WithoutOwnCollision(w, r)
<1>1. e \in [Request -> Nat]
  BY DEF TypeOK
<1>2. a = Arbitrate(e, r)
  BY DEF Arbitrate
<1>3. s \in [Request -> Nat] /\ w \in [Request -> Nat]
  BY <1>1 DEF WithoutStale, WithoutNewer
<1>4. SUFFICES ASSUME NEW p \in Request, NEW q \in Rivals(p), a[p] # NoRow, a[q] # NoRow
               PROVE  FALSE
  BY <1>2
<1>5. q \in Request /\ q # p /\ ResourceOf[q] = ResourceOf[p]
  BY DEF Rivals
<1>6. e[p] # NoRow /\ e[q] # NoRow
  <2> HIDE DEF e, s, w, a
  <2>1. Arbitrate(e, r)[p] # NoRow /\ Arbitrate(e, r)[q] # NoRow
    BY <1>2, <1>4
  <2>2. Arbitrate(e, r)[p] = e[p] /\ Arbitrate(e, r)[q] = e[q]
    BY <2>1, <1>1, <1>5, ArbitrateKeeps
  <2> QED BY <2>1, <2>2
<1>7. CASE p # r /\ q # r
  <2>1. expiry[p] # NoRow /\ expiry[q] # NoRow
    BY <1>5, <1>6, <1>7 DEF TypeOK
  <2> QED BY <2>1 DEF OneRowPerResource
<1>8. CASE p = r \/ q = r
  <2>1. a[r] # NoRow /\ \E y \in Rivals(r) : a[y] # NoRow
    BY <1>4, <1>5, <1>8 DEF Rivals
  <2>2. PICK y \in Rivals(r) : a[y] # NoRow
    BY <2>1
  <2>3. w[y] # NoRow
    BY <2>2, <1>3 DEF WithoutOwnCollision, Rivals
  <2>4. a[r] = NoRow
    BY <2>2, <2>3, <1>3 DEF WithoutOwnCollision
  <2> QED BY <2>1, <2>4
<1> QED BY <1>7, <1>8

-----------------------------------------------------------------------------
(* Type correctness and one row per resource.                               *)

\* At the start no request has a row.
LEMMA InitInd == Init => IndInv
BY TaskLockAssumption DEF Init, IndInv, TypeOK, TriesInv, OneRowPerResource,
   Rivals, Stages, Holding

\* The rows after a step of the lock protocol.
LEMMA RowsOfStep ==
  ASSUME IndInv, NEW r \in Request, Step(r)
  PROVE  \/ expiry' = expiry
         \/ expiry' = [expiry EXCEPT ![r] = NoRow]
         \/ \E x \in Nat : expiry' = Arbitrate([expiry EXCEPT ![r] = x], r)
<1> USE TaskLockAssumption DEF IndInv, TypeOK
<1>1. CASE ObtainTransaction(r)
  <2> DEFINE x == stamp[r] + Lease
  <2>1. x \in Nat
    OBVIOUS
  <2>2. \/ expiry' = expiry
        \/ expiry' = Arbitrate([expiry EXCEPT ![r] = x], r)
    BY <1>1 DEF ObtainTransaction
  <2> HIDE DEF x
  <2> QED BY <2>1, <2>2
<1>2. CASE RenewTransaction(r)
  <2> DEFINE x == IF expiry[r] = NoRow THEN NoRow ELSE stamp[r] + Lease
  <2>1. x \in Nat
    OBVIOUS
  <2>2. expiry' = Arbitrate([expiry EXCEPT ![r] = x], r)
    <3>1. expiry[r] = NoRow => [expiry EXCEPT ![r] = NoRow] = expiry
      OBVIOUS
    <3> QED BY <1>2, <3>1 DEF RenewTransaction
  <2> HIDE DEF x
  <2> QED BY <2>1, <2>2
<1>3. CASE Release(r)
  BY <1>3 DEF Release
<1>4. CASE ReleaseFails(r)
  BY <1>4 DEF ReleaseFails
<1>5. CASE \/ Begin(r) \/ TransactionFails(r) \/ Confirm(r) \/ Declined(r)
           \/ Renew(r) \/ ConfirmRenewal(r) \/ Leave(r) \/ Crash(r)
  BY <1>5 DEF Begin, TransactionFails, Confirm, Declined, Renew,
     ConfirmRenewal, Leave, Crash
<1> QED
  BY <1>1, <1>2, <1>3, <1>4, <1>5 DEF Step

\* Every step leaves a table of rows.
LEMMA NextRowsType ==
  ASSUME IndInv, NEW r \in Request, Step(r)
  PROVE  expiry' \in [Request -> Nat]
<1>1. expiry \in [Request -> Nat]
  BY DEF IndInv, TypeOK
<1>2. ASSUME NEW x \in Nat
      PROVE  Arbitrate([expiry EXCEPT ![r] = x], r) \in [Request -> Nat]
  <2>1. [expiry EXCEPT ![r] = x] \in [Request -> Nat]
    BY <1>1
  <2> QED BY <2>1, ArbitrateType DEF IndInv
<1>3. CASE expiry' = [expiry EXCEPT ![r] = NoRow]
  BY <1>1, <1>3
<1>4. CASE expiry' = expiry
  BY <1>1, <1>4
<1>5. CASE \E x \in Nat : expiry' = Arbitrate([expiry EXCEPT ![r] = x], r)
  BY <1>2, <1>5
<1> QED
  BY <1>3, <1>4, <1>5, RowsOfStep

\* Every step keeps the types of the other variables.
LEMMA StepType ==
  ASSUME IndInv, NEW r \in Request, Step(r)
  PROVE  TypeOK' /\ TriesInv'
<1> USE TaskLockAssumption DEF IndInv, TypeOK, TriesInv, Goto, Stages, Holding
<1>0. expiry' \in [Request -> Nat]
  BY NextRowsType
<1>1. CASE Begin(r)
  BY <1>1, <1>0 DEF Begin
<1>2. CASE ObtainTransaction(r)
  BY <1>2, <1>0 DEF ObtainTransaction, Overtakes
<1>3. CASE TransactionFails(r)
  BY <1>3, <1>0 DEF TransactionFails
<1>4. CASE Confirm(r)
  BY <1>4, <1>0 DEF Confirm
<1>5. CASE Declined(r)
  BY <1>5, <1>0 DEF Declined
<1>6. CASE Renew(r)
  BY <1>6, <1>0 DEF Renew
<1>7. CASE RenewTransaction(r)
  BY <1>7, <1>0 DEF RenewTransaction, Overtakes
<1>8. CASE ConfirmRenewal(r)
  BY <1>8, <1>0 DEF ConfirmRenewal
<1>9. CASE Leave(r)
  BY <1>9, <1>0 DEF Leave
<1>10. CASE Release(r)
  BY <1>10, <1>0 DEF Release
<1>11. CASE ReleaseFails(r)
  <2>1. /\ pc[r] = "release" /\ tries[r] + 1 \in 1 .. Tries
        /\ pc' = [pc EXCEPT ![r] = IF tries[r] + 1 < Tries THEN "release"
                                    ELSE "done"]
        /\ tries' = [tries EXCEPT ![r] = tries[r] + 1]
        /\ UNCHANGED <<now, stamp, leaseEnd, overtaken>>
    BY <1>11 DEF ReleaseFails
  <2>2. tries' \in [Request -> 0 .. Tries]
    BY <2>1
  <2>3. pc' \in [Request -> Stages]
    BY <2>1
  <2>4. TypeOK'
    BY <2>1, <2>2, <2>3, <1>0
  <2>5. ASSUME NEW q \in Request, pc'[q] \in Holding \cup {"release"}
        PROVE  tries'[q] < Tries
    BY <2>1, <2>5, <2>2
  <2> QED BY <2>4, <2>5
<1>12. CASE Crash(r)
  BY <1>12, <1>0 DEF Crash
<1> QED
  BY <1>1, <1>2, <1>3, <1>4, <1>5, <1>6, <1>7, <1>8, <1>9, <1>10, <1>11, <1>12
     DEF Step

\* A committed transaction leaves one row of its resource at most, and the other
\* steps only remove rows.
LEMMA StepOneRow ==
  ASSUME IndInv, NEW r \in Request, Step(r)
  PROVE  OneRowPerResource'
<1>1. CASE expiry' = expiry
  BY <1>1 DEF IndInv, OneRowPerResource, Rivals
<1>2. CASE expiry' = [expiry EXCEPT ![r] = NoRow]
  BY <1>2 DEF IndInv, TypeOK, OneRowPerResource, Rivals
<1>3. ASSUME NEW x \in Nat, expiry' = Arbitrate([expiry EXCEPT ![r] = x], r)
      PROVE  OneRowPerResource'
  <2>1. \A p \in Request : \A q \in Rivals(p) :
           ~ (expiry'[p] # NoRow /\ expiry'[q] # NoRow)
    BY <1>3, ArbitrateLeavesOne DEF IndInv
  <2> QED BY <2>1 DEF OneRowPerResource, Rivals
<1> QED
  BY <1>1, <1>2, <1>3, RowsOfStep

\* One row per resource, with the types, is inductive.
LEMMA NextInd == IndInv /\ [Next]_vars => IndInv'
<1> SUFFICES ASSUME IndInv, [Next]_vars PROVE IndInv'
  OBVIOUS
<1>1. CASE Tick
  BY <1>1 DEF Tick, IndInv, TypeOK, TriesInv, OneRowPerResource, Rivals
<1>2. ASSUME NEW r \in Request, Step(r) PROVE IndInv'
  BY <1>2, StepType, StepOneRow DEF IndInv
<1>3. CASE UNCHANGED vars
  BY <1>3 DEF vars, IndInv, TypeOK, TriesInv, OneRowPerResource, Rivals
<1> QED
  BY <1>1, <1>2, <1>3 DEF Next

(* The inductive invariant, from which the two theorems below follow.        *)
LEMMA Inductive == Spec => []IndInv
BY InitInd, NextInd, PTL DEF Spec

(* Type correctness of the lock protocol.                                    *)
THEOREM TypeCorrect == Spec => []TypeOK
BY Inductive, PTL DEF IndInv

(* TaskLockImpl.java:224 holds whatever the order in which LOCK TABLE is      *)
(* granted, whatever fails, and however requests are retried and renewed.     *)
THEOREM OneRow == Spec => []OneRowPerResource
BY Inductive, PTL DEF IndInv

-----------------------------------------------------------------------------
(* What a crash or a failed release leaves.                                  *)

\* Rows that have expired when the transaction begins are no rivals in it.
LEMMA StaleRowsAreNoRivals ==
  ASSUME TypeOK, NEW r \in Request, \A q \in Rivals(r) : expiry[q] <= stamp[r]
  PROVE  Arbitrate([expiry EXCEPT ![r] = stamp[r] + Lease], r)[r] # NoRow
<1> USE TaskLockAssumption DEF TypeOK
<1> DEFINE e == [expiry EXCEPT ![r] = stamp[r] + Lease]
           s == WithoutStale(e, stamp[r])
           w == WithoutNewer(s, r)
<1>1. e \in [Request -> Nat] /\ e[r] = stamp[r] + Lease
  OBVIOUS
<1>2. s \in [Request -> Nat] /\ s[r] = stamp[r] + Lease
  BY <1>1 DEF WithoutStale
<1>3. \A p \in Rivals(r) : s[p] = NoRow
  BY DEF WithoutStale, Rivals
<1>4. w \in [Request -> Nat] /\ w[r] = stamp[r] + Lease
  BY <1>2, <1>3 DEF WithoutNewer, NotOldest
<1>5. \A p \in Rivals(r) : w[p] = NoRow
  BY <1>2, <1>3 DEF WithoutNewer, Rivals
<1>6. WithoutOwnCollision(w, r)[r] = stamp[r] + Lease
  BY <1>4, <1>5 DEF WithoutOwnCollision
<1> QED
  BY <1>6 DEF Arbitrate

(* A row left by a crash or a failed release blocks its resource for its      *)
(* lease and not longer, whatever requests there are and in whatever order    *)
(* LOCK TABLE is granted: an attempt begun after that gets a row of its own.  *)
THEOREM LeftRowsExpire == Spec => ExpiredRowsNeverBlock
<1>1. IndInv /\ [Next]_vars
        => [\A r \in Request :
              /\ ObtainTransaction(r)
              /\ \A q \in Rivals(r) : expiry[q] <= stamp[r]
              => expiry'[r] # NoRow]_vars
  <2> SUFFICES ASSUME IndInv, NEW r \in Request, ObtainTransaction(r),
                      \A q \in Rivals(r) : expiry[q] <= stamp[r]
               PROVE  expiry'[r] # NoRow
    OBVIOUS
  <2>1. CASE expiry[r] = NoRow
    BY <2>1, StaleRowsAreNoRivals DEF ObtainTransaction, IndInv
  <2>2. CASE expiry[r] # NoRow
    BY <2>2 DEF ObtainTransaction
  <2> QED BY <2>1, <2>2
<1> QED
  BY <1>1, Inductive, PTL DEF Spec, ExpiredRowsNeverBlock

-----------------------------------------------------------------------------
(* Mutual exclusion, but for transactions that overtake.                     *)

\* Time stamps lie in the past, so a lease under renewal ends before the new one.
LeaseInv ==
  /\ \A r \in Request : stamp[r] <= now
  /\ \A r \in Request : expiry[r] <= now + Lease /\ leaseEnd[r] <= now + Lease
  /\ \A r \in Request : pc[r] = "renew" => leaseEnd[r] <= stamp[r] + Lease
  /\ HolderKeepsRow

\* At the start no lease has been confirmed.
LEMMA InitLease == Init => LeaseInv
BY TaskLockAssumption DEF Init, LeaseInv, HolderKeepsRow, Holds, Holding

\* A rival's transaction leaves the row of a holder whose lease still runs, if
\* what it writes does not expire earlier.
LEMMA TransactionSparesHolder ==
  ASSUME IndInv, LeaseInv, NEW r \in Request, NEW h \in Request,
         h # r, Holds(h), ~ overtaken[h],
         NEW x \in Nat, x = NoRow \/ (h \in Rivals(r) => expiry[h] <= x)
  PROVE  Arbitrate([expiry EXCEPT ![r] = x], r)[h] = expiry[h]
<1> USE DEF IndInv, TypeOK
<1> DEFINE e == [expiry EXCEPT ![r] = x]
           s == WithoutStale(e, stamp[r])
           w == WithoutNewer(s, r)
<1>1. e \in [Request -> Nat] /\ e[h] = expiry[h] /\ e[r] = x
  OBVIOUS
<1>2. expiry[h] # NoRow /\ stamp[r] < expiry[h]
  BY DEF LeaseInv, HolderKeepsRow, Holds
<1>3. s \in [Request -> Nat] /\ s[h] = expiry[h]
  BY <1>1, <1>2 DEF WithoutStale
<1>4. ASSUME ResourceOf[h] = ResourceOf[r], NotOldest(s, h)
      PROVE  FALSE
  <2>1. PICK p \in Rivals(h) : s[p] # NoRow /\ s[p] < s[h]
    BY <1>4 DEF NotOldest
  <2>2. p \in Request /\ p # h
    BY DEF Rivals
  <2>3. s[p] = e[p] /\ e[p] # NoRow
    BY <2>1, <2>2, <1>1 DEF WithoutStale
  <2>4. CASE p = r
    <3>1. e[p] = x /\ h \in Rivals(r)
      BY <1>1, <1>4, <2>4 DEF Rivals
    <3> QED BY <3>1, <2>1, <2>3, <1>3
  <2>5. CASE p # r
    <3>1. expiry[p] # NoRow
      BY <2>2, <2>3, <2>5
    <3> QED BY <3>1, <1>2 DEF OneRowPerResource
  <2> QED BY <2>4, <2>5
<1>5. w \in [Request -> Nat] /\ w[h] = expiry[h]
  BY <1>3, <1>4 DEF WithoutNewer
<1>6. WithoutOwnCollision(w, r)[h] = expiry[h]
  BY <1>5 DEF WithoutOwnCollision
<1> QED
  BY <1>6 DEF Arbitrate

\* A renewal of an unexpired lease leaves the renewed row.
LEMMA RenewalKeepsOwn ==
  ASSUME IndInv, LeaseInv, NEW r \in Request, expiry[r] # NoRow
  PROVE  Arbitrate([expiry EXCEPT ![r] = stamp[r] + Lease], r)[r]
           = stamp[r] + Lease
<1> USE TaskLockAssumption DEF IndInv, TypeOK
<1> DEFINE e == [expiry EXCEPT ![r] = stamp[r] + Lease]
           s == WithoutStale(e, stamp[r])
           w == WithoutNewer(s, r)
<1>1. e \in [Request -> Nat] /\ e[r] = stamp[r] + Lease
  OBVIOUS
<1>2. s \in [Request -> Nat] /\ s[r] = stamp[r] + Lease
  BY <1>1 DEF WithoutStale
<1>3. \A p \in Rivals(r) : e[p] = NoRow
  BY DEF OneRowPerResource, Rivals
<1>4. \A p \in Rivals(r) : s[p] = NoRow
  BY <1>1, <1>3 DEF WithoutStale, Rivals
<1>5. w \in [Request -> Nat] /\ w[r] = stamp[r] + Lease
  BY <1>2, <1>4 DEF WithoutNewer, NotOldest
<1>6. \A p \in Rivals(r) : w[p] = NoRow
  BY <1>2, <1>4 DEF WithoutNewer, Rivals
<1>7. WithoutOwnCollision(w, r)[r] = stamp[r] + Lease
  BY <1>5, <1>6 DEF WithoutOwnCollision
<1> QED
  BY <1>7 DEF Arbitrate

\* Every step keeps the lease invariant: one case per action.
LEMMA NextLease == IndInv /\ LeaseInv /\ [Next]_vars => LeaseInv'
<1> SUFFICES ASSUME IndInv, LeaseInv, [Next]_vars PROVE LeaseInv'
  OBVIOUS
<1> USE TaskLockAssumption DEF IndInv, TypeOK
<1>1. CASE UNCHANGED vars
  BY <1>1 DEF vars, LeaseInv, HolderKeepsRow, Holds
<1>2. CASE Tick
  BY <1>2 DEF Tick, LeaseInv, HolderKeepsRow, Holds
<1>3. ASSUME NEW r \in Request, Step(r)
      PROVE  LeaseInv'
  <2> USE DEF Goto
  <2>1. CASE Begin(r) \/ Renew(r)
    BY <2>1 DEF Begin, Renew, LeaseInv, HolderKeepsRow, Holds, Holding
  <2>2. CASE TransactionFails(r) \/ Confirm(r) \/ Declined(r)
             \/ ConfirmRenewal(r) \/ Leave(r) \/ Crash(r)
    BY <2>2 DEF TransactionFails, Confirm, Declined, ConfirmRenewal, Leave,
       Crash, LeaseInv, HolderKeepsRow, Holds, Holding
  <2>3. CASE Release(r) \/ ReleaseFails(r)
    BY <2>3 DEF Release, ReleaseFails, LeaseInv, HolderKeepsRow, Holds, Holding
  <2>4. CASE ObtainTransaction(r) \/ RenewTransaction(r)
    <3>0. stamp[r] + Lease \in Nat /\ stamp[r] + Lease <= now + Lease
      BY DEF LeaseInv
    <3>1. PICK x \in {NoRow, stamp[r] + Lease} :
            /\ \/ expiry' = expiry
               \/ expiry' = Arbitrate([expiry EXCEPT ![r] = x], r)
            /\ \/ x = NoRow /\ UNCHANGED overtaken
               \/ x = stamp[r] + Lease /\ Overtakes(r)
            /\ pc[r] = "renew" /\ expiry[r] # NoRow =>
                 expiry' = Arbitrate([expiry EXCEPT ![r] = stamp[r] + Lease], r)
      <4>1. expiry[r] = NoRow => [expiry EXCEPT ![r] = NoRow] = expiry
        OBVIOUS
      <4>2. CASE ObtainTransaction(r) /\ expiry[r] = NoRow
        BY <4>2 DEF ObtainTransaction
      <4>3. CASE ObtainTransaction(r) /\ expiry[r] # NoRow
        BY <4>3 DEF ObtainTransaction
      <4>4. CASE RenewTransaction(r) /\ expiry[r] = NoRow
        BY <4>1, <4>4 DEF RenewTransaction
      <4>5. CASE RenewTransaction(r) /\ expiry[r] # NoRow
        BY <4>5 DEF RenewTransaction
      <4> QED BY <2>4, <4>2, <4>3, <4>4, <4>5
    <3>2. /\ pc[r] \in {"obtain", "renew"} /\ UNCHANGED <<now, leaseEnd>>
          /\ stamp' = [stamp EXCEPT ![r] = 0]
          /\ \E t \in {"confirm", "confirmRenewal"} : pc' = [pc EXCEPT ![r] = t]
          /\ (pc[r] = "renew" <=> pc'[r] = "confirmRenewal")
      BY <2>4 DEF ObtainTransaction, RenewTransaction, Stages
    <3>3. expiry' \in [Request -> Nat]
      BY <1>3, NextRowsType
    <3>4. \A q \in Request : expiry'[q] <= expiry[q] \/ expiry'[q] <= stamp[r] + Lease
      <4> SUFFICES ASSUME NEW q \in Request, expiry'[q] # NoRow,
                          expiry' = Arbitrate([expiry EXCEPT ![r] = x], r)
                   PROVE  expiry'[q] <= expiry[q] \/ expiry'[q] <= stamp[r] + Lease
        BY <3>1, <3>3
      <4>1. [expiry EXCEPT ![r] = x] \in [Request -> Nat]
        BY <3>0
      <4>2. expiry'[q] = [expiry EXCEPT ![r] = x][q]
        BY <4>1, ArbitrateKeeps
      <4> QED BY <4>2
    <3>5. \A q \in Request : expiry'[q] <= now' + Lease /\ leaseEnd'[q] <= now' + Lease
      <4> SUFFICES ASSUME NEW q \in Request PROVE expiry'[q] <= now + Lease
        BY <3>2 DEF LeaseInv
      <4>1. expiry[q] <= now + Lease /\ expiry'[q] \in Nat
        BY <3>3 DEF LeaseInv
      <4> QED BY <4>1, <3>0, <3>4
    <3>6. /\ \A p \in Request : stamp'[p] <= now'
          /\ \A p \in Request : pc'[p] = "renew" => leaseEnd'[p] <= stamp'[p] + Lease
      BY <3>2 DEF LeaseInv
    <3>7. ASSUME NEW h \in Request, Holds(h)', ~ overtaken'[h]
          PROVE  leaseEnd'[h] <= expiry'[h]
      <4>1. CASE h # r
        <5>1. ~ overtaken[h] /\ (x = NoRow \/ (h \in Rivals(r) => expiry[h] <= x))
          <6>1. CASE x = NoRow /\ UNCHANGED overtaken
            BY <6>1, <3>7
          <6>2. CASE x = stamp[r] + Lease /\ Overtakes(r)
            <7>1. overtaken'[h] =
                    (overtaken[h] \/ (h \in Rivals(r) /\ stamp[r] + Lease < expiry[h]))
              BY <6>2, <4>1, Zenon DEF Overtakes
            <7>2. ~ overtaken[h] /\ (h \in Rivals(r) => ~ (stamp[r] + Lease < expiry[h]))
              BY <7>1, <3>7, Zenon
            <7>3. ~ (stamp[r] + Lease < expiry[h]) => expiry[h] <= stamp[r] + Lease
              BY <3>0
            <7> QED BY <6>2, <7>2, <7>3
          <6> QED BY <3>1, <6>1, <6>2
        <5>2. Holds(h) /\ leaseEnd'[h] = leaseEnd[h]
          BY <3>2, <3>7, <4>1 DEF Holds, Holding
        <5>3. x \in Nat
          BY <3>0
        <5>4. Arbitrate([expiry EXCEPT ![r] = x], r)[h] = expiry[h]
          <6> HIDE DEF IndInv, TypeOK
          <6> QED BY <4>1, <5>1, <5>2, <5>3, TransactionSparesHolder
        <5>5. leaseEnd[h] <= expiry[h]
          BY <5>1, <5>2 DEF LeaseInv, HolderKeepsRow
        <5> QED BY <3>1, <5>2, <5>4, <5>5
      <4>2. CASE h = r
        <5>1. pc[r] = "renew" /\ Holds(r)
          BY <4>2, <3>2, <3>7 DEF Holds, Holding
        <5>2. leaseEnd'[r] = leaseEnd[r] /\ leaseEnd[r] <= stamp[r] + Lease
          BY <5>1, <3>2 DEF LeaseInv
        <5>3. CASE expiry[r] # NoRow
          <6>1. expiry'[r] = stamp[r] + Lease
            BY <5>1, <5>3, <3>1, RenewalKeepsOwn
          <6> QED BY <6>1, <4>2, <5>2
        <5>4. CASE expiry[r] = NoRow
          <6>1. ~ overtaken[r]
            BY <2>4, <3>7, <4>2, <5>1, <5>4 DEF ObtainTransaction, RenewTransaction
          <6> QED BY <6>1, <5>1, <5>4 DEF LeaseInv, HolderKeepsRow, Holds
        <5> QED BY <5>3, <5>4
      <4> QED BY <4>1, <4>2
    <3> QED BY <3>5, <3>6, <3>7 DEF LeaseInv, HolderKeepsRow
  <2> QED
    BY <1>3, <2>1, <2>2, <2>3, <2>4 DEF Step
<1> QED
  BY <1>1, <1>2, <1>3 DEF Next

(* Whatever is inserted, renewed, cleaned up or retried, and in whatever      *)
(* order LOCK TABLE is granted: only a rival's transaction whose NOW() is     *)
(* earlier than that of the holder's row removes it while the lease runs.     *)
THEOREM HolderKeepsItsRow == Spec => []HolderKeepsRow
<1>1. LeaseInv => HolderKeepsRow
  BY DEF LeaseInv
<1> QED
  BY <1>1, InitLease, NextLease, Inductive, PTL DEF Spec

(* Two requests hold running leases on one resource only when such a rival    *)
(* overtook one of them: each of two others would have its own row.           *)
THEOREM Mutex == Spec => []ExclusiveUnlessOvertaken
<1>1. IndInv /\ HolderKeepsRow => ExclusiveUnlessOvertaken
  <2> SUFFICES ASSUME IndInv, HolderKeepsRow, NEW r \in Request,
                      NEW q \in Rivals(r), Holds(r), Holds(q),
                      ~ overtaken[r], ~ overtaken[q]
               PROVE  FALSE
    BY DEF ExclusiveUnlessOvertaken
  <2>1. q \in Request
    BY DEF Rivals
  <2>2. expiry[r] # NoRow /\ expiry[q] # NoRow
    BY <2>1 DEF IndInv, TypeOK, HolderKeepsRow, Holds
  <2> QED BY <2>2 DEF IndInv, OneRowPerResource
<1> QED
  BY <1>1, Inductive, HolderKeepsItsRow, PTL
=============================================================================
