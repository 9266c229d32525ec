-------------------------- MODULE BucketLockProofs --------------------------
(***************************************************************************)
(* The bucket lock for any number of runs, buckets, lost answers, late     *)
(* requests, signals and crashes: mutual exclusion, entry into all buckets *)
(* at once, the return of the locks, and the order of acquisition.         *)
(***************************************************************************)
EXTENDS BucketLock, WellFoundedInduction, TLAPS

-----------------------------------------------------------------------------
(* The sorted order has a first and a last element: with_bucket_locks      *)
(* always has a next bucket to acquire and a last one to release.          *)
LEMMA LeastNatural ==
    ASSUME NEW S, S \subseteq Nat, S # {}
    PROVE  \E x \in S : \A y \in S : x <= y
<1> DEFINE R == OpToRel(<, Nat)
<1>1. R = {ss \in Nat \X Nat : ss[1] < ss[2]}
  BY Zenon DEF OpToRel
<1>2. PICK x \in S : \A y \in S : ~(<<y, x>> \in R)
  BY NatLessThanWellFounded, WFMin, Zenon
<1> HIDE DEF R
<1>3. ASSUME NEW y \in S PROVE ~(y < x)
  <2>1. <<y, x>> \in Nat \X Nat /\ <<y, x>>[1] = y /\ <<y, x>>[2] = x
    OBVIOUS
  <2> QED BY <1>1, <1>2, <2>1, Zenon
<1> QED BY <1>3

(* NextBucket: a bucket of those left to acquire. *)
LEMMA LeastBucket ==
    ASSUME NEW S, S \subseteq Buckets, S # {}
    PROVE  Least(S) \in S
<1>1. S \subseteq Nat
  BY LockAssumption DEF Buckets
<1>2. \E x \in S : \A y \in S : x <= y
  BY <1>1, LeastNatural, Zenon
<1> QED BY <1>2 DEF Least

(* LastBucket: a bucket of those held. *)
LEMMA GreatestIsLast ==
    ASSUME NEW S, S \subseteq Buckets, S # {}
    PROVE  \E x \in S : \A y \in S : x >= y
<1> DEFINE D == {BucketCount - x : x \in S}
<1>1. D \subseteq Nat /\ D # {}
  BY LockAssumption DEF Buckets
<1>2. PICK d \in D : \A y \in D : d <= y
  <2> HIDE DEF D
  <2> QED BY <1>1, LeastNatural
<1>3. PICK x \in S : d = BucketCount - x
  BY <1>2
<1>4. \A y \in S : BucketCount - x <= BucketCount - y
  BY <1>1, <1>2, <1>3
<1>5. \A y \in S : x >= y
  BY <1>4, LockAssumption DEF Buckets
<1> QED BY <1>5

(* The same for the operator that picks it. *)
LEMMA GreatestBucket ==
    ASSUME NEW S, S \subseteq Buckets, S # {}
    PROVE  Greatest(S) \in S
BY GreatestIsLast DEF Greatest

-----------------------------------------------------------------------------
(* Where NextBucket and LastBucket are used, there is one. *)
Acquiring == {"create", "unacknowledged", "recoverBody", "recoverGeneration", "recoverDelete"}
Releasing == {"unwind", "clear", "release", "ended", "crashed"}

BucketsInv ==
    \A r \in Runs :
        /\ pc[r] \in Acquiring => todo[r] # {}
        /\ pc[r] = "release" => held[r] # {}

ServiceTypeOK ==
    /\ lock \in [Buckets -> [gen : Nat, token : Runs \cup {"none"}]]
    /\ nextGen \in Nat \ {0} /\ wire \subseteq Requests

CountersTypeOK ==
    faults \in 0..MaxFaults /\ signals \in 0..MaxSignals /\ crashes \in 0..MaxCrashes

(* Every constructor of an error yields an error (src/error.rs). *)
LEMMA ErrType ==
    /\ \A kind \in ErrorKinds : Err(kind) \in AppErrors
    /\ \A err \in AppErrors, failed \in BOOLEAN : Rollback(err, failed) \in AppErrors
    /\ NoError \in AppErrors
BY DEF Err, NoError, Rollback, AppErrors, ErrorKinds

(* Executing a request keeps the shape of the lock objects. *)
LEMMA ProcessType ==
    ASSUME NEW request \in Requests, Process(request), ServiceTypeOK
    PROVE  /\ lock' \in [Buckets -> [gen : Nat, token : Runs \cup {"none"}]]
           /\ nextGen' \in Nat \ {0}
BY DEF Process, Requests, ServiceTypeOK, Missing, service

(* The same for a request whose answer is lost. *)
LEMMA OutcomeType ==
    ASSUME NEW request \in Requests, Outcome(request), ServiceTypeOK
    PROVE  ServiceTypeOK'
BY ProcessType DEF Outcome, ServiceTypeOK, service

(* Sending a request keeps the shape of everything it touches. *)
LEMMA SendType ==
    ASSUME NEW r \in Runs, NEW request \in Requests, NEW e, Send(r, request, e),
           ServiceTypeOK, CountersTypeOK, interrupted \in [Runs -> BOOLEAN]
    PROVE  ServiceTypeOK' /\ CountersTypeOK' /\ interrupted' \in [Runs -> BOOLEAN]
<1>1. CASE Unsent(r, e)
  BY <1>1, LockAssumption DEF Send, Unsent, ServiceTypeOK, CountersTypeOK, service
<1>2. CASE Answered(r, request, e)
  BY <1>2, ProcessType DEF Send, Answered, ServiceTypeOK, CountersTypeOK
<1>3. CASE Abandoned(r, request, e)
  <2>1. CASE /\ faults < MaxFaults /\ faults' = faults + 1 /\ Outcome(request)
             /\ UNCHANGED <<signals, interrupted>>
    BY <2>1, LockAssumption, OutcomeType DEF Send, CountersTypeOK
  <2>2. CASE /\ faults < MaxFaults /\ faults' = faults + 1 /\ Process(request)
             /\ UNCHANGED <<wire, signals, interrupted>>
    BY <2>2, LockAssumption, ProcessType DEF Send, CountersTypeOK, ServiceTypeOK
  <2>3. CASE /\ signals < MaxSignals /\ signals' = signals + 1
             /\ interrupted' = [interrupted EXCEPT ![r] = TRUE]
             /\ Outcome(request) /\ UNCHANGED faults
    BY <2>3, LockAssumption, OutcomeType DEF Send, CountersTypeOK
  <2> QED BY <1>3, <2>1, <2>2, <2>3 DEF Abandoned
<1> QED BY <1>1, <1>2, <1>3 DEF Send

RunTypeOK ==
    /\ pc \in [Runs -> Pcs]
    /\ todo \in [Runs -> SUBSET Buckets] /\ held \in [Runs -> SUBSET Buckets]
    /\ gen \in [Runs -> [Buckets -> Nat]] /\ active \in [Runs -> SUBSET Buckets]
    /\ error \in [Runs -> AppErrors]
    /\ releaseFailed \in [Runs -> BOOLEAN] /\ committed \in [Runs -> BOOLEAN]

(* A run that goes on or fails changes nothing of the others. *)
LEMMA GotoType ==
    ASSUME RunTypeOK, NEW r \in Runs, NEW next \in Pcs, Goto(r, next)
    PROVE  /\ pc' \in [Runs -> Pcs] /\ pc'[r] = next
           /\ \A s \in Runs \ {r} : pc'[s] = pc[s]
BY DEF RunTypeOK, Goto

(* Fail also leaves an error of the right shape. *)
LEMMA FailType ==
    ASSUME RunTypeOK, NEW r \in Runs, NEW next \in Pcs, NEW err \in AppErrors,
           Fail(r, next, err)
    PROVE  /\ pc' \in [Runs -> Pcs] /\ pc'[r] = next
           /\ error' \in [Runs -> AppErrors]
           /\ \A s \in Runs \ {r} : pc'[s] = pc[s]
<1>1. Goto(r, next) /\ error' = [error EXCEPT ![r] = err]
  BY DEF Fail
<1> QED BY <1>1, GotoType DEF RunTypeOK

(* TypeOK, grouped by what a step touches together. *)
LEMMA TypeParts ==
    /\ TypeOK <=> /\ ServiceTypeOK /\ CountersTypeOK /\ RunTypeOK
                  /\ interrupted \in [Runs -> BOOLEAN]
    /\ TypeOK' <=> /\ ServiceTypeOK' /\ CountersTypeOK' /\ RunTypeOK'
                   /\ interrupted' \in [Runs -> BOOLEAN]
BY DEF TypeOK, ServiceTypeOK, CountersTypeOK, RunTypeOK

(* The requests of a run are well formed. *)
LEMMA RequestType ==
    ASSUME NEW r \in Runs, RunTypeOK, BucketsInv
    PROVE  /\ pc[r] \in Acquiring =>
                 /\ NextBucket(r) \in todo[r] /\ NextBucket(r) \in Buckets
                 /\ Create(NextBucket(r), r) \in Requests
                 /\ Read(NextBucket(r), r) \in Requests
                 /\ Delete(NextBucket(r), gen[r][NextBucket(r)], r) \in Requests
           /\ pc[r] = "release" =>
                 /\ LastBucket(r) \in held[r] /\ LastBucket(r) \in Buckets
                 /\ Delete(LastBucket(r), gen[r][LastBucket(r)], r) \in Requests
<1>1. ASSUME NEW bucket \in Buckets
      PROVE  /\ Create(bucket, r) \in Requests /\ Read(bucket, r) \in Requests
             /\ Delete(bucket, gen[r][bucket], r) \in Requests
  BY DEF Create, Read, Delete, Requests, RunTypeOK
<1>2. ASSUME pc[r] \in Acquiring PROVE NextBucket(r) \in todo[r] /\ NextBucket(r) \in Buckets
  BY <1>2, LeastBucket DEF NextBucket, BucketsInv, RunTypeOK
<1>3. ASSUME pc[r] = "release" PROVE LastBucket(r) \in held[r] /\ LastBucket(r) \in Buckets
  BY <1>3, GreatestBucket DEF LastBucket, BucketsInv, RunTypeOK
<1> QED BY <1>1, <1>2, <1>3

(* Recording a generation keeps the shape of the recorded generations. *)
LEMMA GenUpdate ==
    ASSUME gen \in [Runs -> [Buckets -> Nat]], NEW r \in Runs, NEW bucket \in Buckets,
           NEW x \in Nat
    PROVE  [gen EXCEPT ![r][bucket] = x] \in [Runs -> [Buckets -> Nat]]
<1>1. [gen[r] EXCEPT ![bucket] = x] \in [Buckets -> Nat]
  OBVIOUS
<1>2. [gen EXCEPT ![r][bucket] = x] = [gen EXCEPT ![r] = [gen[r] EXCEPT ![bucket] = x]]
  OBVIOUS
<1> QED BY <1>1, <1>2

(* The shape of the variables in the initial states ... *)
LEMMA InitType == Init => TypeOK /\ BucketsInv
<1> SUFFICES ASSUME Init PROVE TypeOK /\ BucketsInv
  OBVIOUS
<1>1. ServiceTypeOK
  BY DEF Init, ServiceTypeOK, Missing
<1>2. CountersTypeOK /\ interrupted \in [Runs -> BOOLEAN]
  BY LockAssumption DEF Init, CountersTypeOK
<1>3. RunTypeOK
  BY ErrType DEF Init, RunTypeOK, Pcs
<1>4. BucketsInv
  BY DEF Init, BucketsInv, Acquiring
<1> QED BY <1>1, <1>2, <1>3, <1>4, TypeParts

(* ... and in every step of a run. *)
LEMMA StepType ==
    ASSUME TypeOK, BucketsInv, NEW r \in Runs, Step(r)
    PROVE  TypeOK' /\ BucketsInv'
<1>0. ServiceTypeOK /\ CountersTypeOK /\ RunTypeOK /\ interrupted \in [Runs -> BOOLEAN]
  BY TypeParts
<1> SUFFICES /\ ServiceTypeOK' /\ CountersTypeOK' /\ interrupted' \in [Runs -> BOOLEAN]
             /\ RunTypeOK' /\ BucketsInv'
  BY TypeParts
<1> USE DEF Acquiring
<1>1. CASE Start(r)
  <2>1. ServiceTypeOK' /\ CountersTypeOK' /\ interrupted' \in [Runs -> BOOLEAN]
    BY <1>0, <1>1 DEF Start, ServiceTypeOK, CountersTypeOK, service, counters
  <2>2. RunTypeOK'
    <3>1. BucketsToAcquire(r) \subseteq Buckets
      BY LockAssumption DEF BucketsToAcquire
    <3> QED BY <1>0, <1>1, <3>1 DEF Start, RunTypeOK, Goto, Pcs
  <2>3. BucketsInv'
    BY <1>0, <1>1 DEF Start, RunTypeOK, BucketsInv, Goto, BucketsToAcquire
  <2> QED BY <2>1, <2>2, <2>3
<1>2. CASE ClearForRecovery(r)
  <2>1. ServiceTypeOK' /\ CountersTypeOK' /\ interrupted' \in [Runs -> BOOLEAN]
    BY <1>0, <1>2 DEF ClearForRecovery, ServiceTypeOK, CountersTypeOK, service, counters
  <2>2. RunTypeOK'
    BY <1>0, <1>2 DEF ClearForRecovery, RunTypeOK, Goto, Pcs
  <2>3. BucketsInv'
    BY <1>0, <1>2 DEF ClearForRecovery, RunTypeOK, BucketsInv, Goto
  <2> QED BY <2>1, <2>2, <2>3
<1>3. CASE RegisterActiveBucketLocks(r)
  <2>1. ServiceTypeOK' /\ CountersTypeOK' /\ interrupted' \in [Runs -> BOOLEAN]
    BY <1>0, <1>3
       DEF RegisterActiveBucketLocks, ServiceTypeOK, CountersTypeOK, service, counters
  <2>2. RunTypeOK'
    BY <1>0, <1>3 DEF RegisterActiveBucketLocks, RunTypeOK, Goto, Pcs
  <2>3. BucketsInv'
    BY <1>0, <1>3 DEF RegisterActiveBucketLocks, RunTypeOK, BucketsInv, Goto
  <2> QED BY <2>1, <2>2, <2>3
<1>4. CASE Operation(r)
  <2>1. ServiceTypeOK' /\ CountersTypeOK' /\ interrupted' \in [Runs -> BOOLEAN]
    BY <1>0, <1>4 DEF Operation, ServiceTypeOK, CountersTypeOK, service, counters
  <2>2. RunTypeOK'
    BY <1>0, <1>4, ErrType DEF Operation, RunTypeOK, Goto, Pcs, Fail, ErrorKinds
  <2>3. BucketsInv'
    BY <1>0, <1>4 DEF Operation, RunTypeOK, BucketsInv, Goto, Fail
  <2> QED BY <2>1, <2>2, <2>3
<1>5. CASE Unwind(r)
  <2>1. ServiceTypeOK' /\ CountersTypeOK' /\ interrupted' \in [Runs -> BOOLEAN]
    BY <1>0, <1>5 DEF Unwind, ServiceTypeOK, CountersTypeOK, service, counters
  <2>2. RunTypeOK'
    BY <1>0, <1>5 DEF Unwind, RunTypeOK, Goto, Pcs
  <2>3. BucketsInv'
    BY <1>0, <1>5 DEF Unwind, RunTypeOK, BucketsInv, Goto
  <2> QED BY <2>1, <2>2, <2>3
<1>6. CASE ClearForRelease(r)
  <2>1. ServiceTypeOK' /\ CountersTypeOK' /\ interrupted' \in [Runs -> BOOLEAN]
    BY <1>0, <1>6 DEF ClearForRelease, ServiceTypeOK, CountersTypeOK, service, counters
  <2>2. RunTypeOK'
    BY <1>0, <1>6 DEF ClearForRelease, RunTypeOK, Goto, Pcs
  <2>3. BucketsInv'
    BY <1>0, <1>6 DEF ClearForRelease, RunTypeOK, BucketsInv, Goto
  <2> QED BY <2>1, <2>2, <2>3
<1>7. CASE Return(r)
  <2>1. ServiceTypeOK' /\ CountersTypeOK' /\ interrupted' \in [Runs -> BOOLEAN]
    BY <1>0, <1>7 DEF Return, ServiceTypeOK, CountersTypeOK, service, counters
  <2>2. RunTypeOK'
    BY <1>0, <1>7, ErrType DEF Return, RunTypeOK, Goto, Pcs, Fail, ErrorKinds
  <2>3. BucketsInv'
    BY <1>0, <1>7 DEF Return, RunTypeOK, BucketsInv, Goto, Fail
  <2> QED BY <2>1, <2>2, <2>3
<1>8. CASE AcquireBucketLock(r)
  <2>1. PICK e : Send(r, Create(NextBucket(r), r), e)
    BY <1>8 DEF AcquireBucketLock
  <2>2. ServiceTypeOK' /\ CountersTypeOK' /\ interrupted' \in [Runs -> BOOLEAN]
    BY <1>0, <1>8, <2>1, SendType, RequestType DEF AcquireBucketLock
  <2>3. NextBucket(r) \in Buckets /\ NextBucket(r) \in todo[r] /\ nextGen \in Nat
    BY <1>0, <1>8, RequestType DEF AcquireBucketLock, ServiceTypeOK
  <2>4. CASE /\ held' = [held EXCEPT ![r] = @ \cup {NextBucket(r)}]
             /\ gen' = [gen EXCEPT ![r][NextBucket(r)] = nextGen]
             /\ todo' = [todo EXCEPT ![r] = @ \ {NextBucket(r)}]
             /\ Goto(r, IF todo[r] = {NextBucket(r)} THEN "register" ELSE "create")
             /\ UNCHANGED error
    <3>1. gen' \in [Runs -> [Buckets -> Nat]]
      BY <1>0, <2>3, <2>4, GenUpdate DEF RunTypeOK
    <3>2. todo' \in [Runs -> SUBSET Buckets] /\ held' \in [Runs -> SUBSET Buckets]
      BY <1>0, <2>3, <2>4 DEF RunTypeOK
    <3>3. (IF todo[r] = {NextBucket(r)} THEN "register" ELSE "create") \in Pcs
      BY DEF Pcs
    <3>4. /\ pc' \in [Runs -> Pcs] /\ \A s \in Runs \ {r} : pc'[s] = pc[s]
          /\ pc'[r] = IF todo[r] = {NextBucket(r)} THEN "register" ELSE "create"
      BY <1>0, <2>4, <3>3, GotoType
    <3>5. RunTypeOK'
      BY <1>0, <1>8, <2>4, <3>1, <3>2, <3>4 DEF AcquireBucketLock, RunTypeOK
    <3>6. \A s \in Runs \ {r} : todo'[s] = todo[s] /\ held'[s] = held[s]
      BY <1>0, <2>4 DEF RunTypeOK
    <3>7. todo'[r] = todo[r] \ {NextBucket(r)}
      BY <1>0, <2>4 DEF RunTypeOK
    <3>8. pc'[r] \in Acquiring => todo'[r] # {}
      BY <2>3, <3>4, <3>7 DEF Acquiring
    <3>9. pc'[r] # "release"
      BY <3>4
    <3>10. BucketsInv'
      BY <1>0, <3>4, <3>6, <3>8, <3>9 DEF BucketsInv
    <3> QED BY <2>2, <3>5, <3>10
  <2>5. ASSUME NEW next \in {"unwind", "unacknowledged"}, NEW err \in AppErrors,
               Fail(r, next, err), UNCHANGED <<held, gen, todo>>
        PROVE  RunTypeOK' /\ BucketsInv'
    <3>1. next \in Pcs
      BY DEF Pcs
    <3>2. /\ pc' \in [Runs -> Pcs] /\ pc'[r] = next /\ error' \in [Runs -> AppErrors]
          /\ \A s \in Runs \ {r} : pc'[s] = pc[s]
      BY <1>0, <2>5, <3>1, FailType
    <3>3. RunTypeOK'
      BY <1>0, <1>8, <2>5, <3>2 DEF AcquireBucketLock, RunTypeOK
    <3>4. pc'[r] # "release" /\ todo'[r] # {}
      BY <2>3, <2>5, <3>2
    <3>5. BucketsInv'
      BY <1>0, <2>5, <3>2, <3>4 DEF BucketsInv
    <3> QED BY <3>3, <3>5
  <2>6. PICK kind \in ErrorKinds :
           \/ /\ held' = [held EXCEPT ![r] = @ \cup {NextBucket(r)}]
              /\ gen' = [gen EXCEPT ![r][NextBucket(r)] = nextGen]
              /\ todo' = [todo EXCEPT ![r] = @ \ {NextBucket(r)}]
              /\ Goto(r, IF todo[r] = {NextBucket(r)} THEN "register" ELSE "create")
              /\ UNCHANGED error
           \/ /\ \/ Fail(r, "unwind", Err("BucketLockConflict"))
                 \/ Fail(r, "unacknowledged", Err(kind))
                 \/ Fail(r, "unwind", Err(kind))
              /\ UNCHANGED <<held, gen, todo>>
    BY <1>8 DEF AcquireBucketLock
  <2>7. Err(kind) \in AppErrors /\ Err("BucketLockConflict") \in AppErrors
    BY ErrType DEF ErrorKinds
  <2> QED BY <2>2, <2>4, <2>5, <2>6, <2>7
<1>9. CASE RecoverBody(r)
  <2>1. PICK e : Send(r, Read(NextBucket(r), r), e)
    BY <1>9 DEF RecoverBody
  <2>2. ServiceTypeOK' /\ CountersTypeOK' /\ interrupted' \in [Runs -> BOOLEAN]
    BY <1>0, <1>9, <2>1, SendType, RequestType DEF RecoverBody
  <2>3. RunTypeOK'
    <3>1. Rollback(error[r], TRUE) \in AppErrors
      BY <1>0, ErrType DEF RunTypeOK
    <3>2. CASE Fail(r, "unwind", Rollback(error[r], TRUE))
      <4>1. pc' \in [Runs -> Pcs] /\ error' \in [Runs -> AppErrors]
        BY <1>0, <3>1, <3>2, FailType DEF Pcs
      <4> QED BY <1>0, <1>9, <4>1 DEF RecoverBody, RunTypeOK
    <3>3. ASSUME NEW next \in Pcs, Goto(r, next), UNCHANGED error PROVE RunTypeOK'
      <4>1. pc' \in [Runs -> Pcs]
        BY <1>0, <3>3, GotoType
      <4> QED BY <1>0, <1>9, <3>3, <4>1 DEF RecoverBody, RunTypeOK
    <3>4. "unwind" \in Pcs /\ "recoverGeneration" \in Pcs
      BY DEF Pcs
    <3> QED BY <1>9, <3>2, <3>3, <3>4 DEF RecoverBody
  <2>4. BucketsInv'
    <3>1. /\ todo[r] # {} /\ UNCHANGED <<todo, held>>
          /\ \E next \in {"unwind", "recoverGeneration"} : pc' = [pc EXCEPT ![r] = next]
      BY <1>0, <1>9 DEF RecoverBody, BucketsInv, Goto, Fail, Acquiring
    <3> QED BY <1>0, <3>1 DEF RunTypeOK, BucketsInv, Acquiring
  <2> QED BY <2>2, <2>3, <2>4
<1>10. CASE RecoverGeneration(r)
  <2>1. PICK e : Send(r, Read(NextBucket(r), r), e)
    BY <1>10 DEF RecoverGeneration
  <2>2. ServiceTypeOK' /\ CountersTypeOK' /\ interrupted' \in [Runs -> BOOLEAN]
    BY <1>0, <1>10, <2>1, SendType, RequestType DEF RecoverGeneration
  <2>3. RunTypeOK'
    <3>1. Rollback(error[r], TRUE) \in AppErrors
      BY <1>0, ErrType DEF RunTypeOK
    <3>2. NextBucket(r) \in Buckets /\ lock[NextBucket(r)].gen \in Nat
      BY <1>0, <1>10, RequestType DEF RecoverGeneration, ServiceTypeOK
    <3>3. \/ /\ gen' = [gen EXCEPT ![r][NextBucket(r)] = lock[NextBucket(r)].gen]
             /\ Goto(r, "recoverDelete") /\ UNCHANGED error
          \/ Fail(r, "unwind", Rollback(error[r], TRUE)) /\ UNCHANGED gen
      BY <1>10 DEF RecoverGeneration
    <3>4. gen' \in [Runs -> [Buckets -> Nat]]
      <4>1. [gen EXCEPT ![r][NextBucket(r)] = lock[NextBucket(r)].gen]
               \in [Runs -> [Buckets -> Nat]]
        BY <1>0, <3>2, GenUpdate DEF RunTypeOK
      <4> QED BY <1>0, <3>3, <4>1 DEF RunTypeOK
    <3>5. "unwind" \in Pcs /\ "recoverDelete" \in Pcs
      BY DEF Pcs
    <3>6. pc' \in [Runs -> Pcs] /\ error' \in [Runs -> AppErrors]
      <4>1. CASE Goto(r, "recoverDelete") /\ UNCHANGED error
        BY <1>0, <3>5, <4>1, GotoType DEF RunTypeOK
      <4>2. CASE Fail(r, "unwind", Rollback(error[r], TRUE))
        BY <1>0, <3>1, <3>5, <4>2, FailType
      <4> QED BY <3>3, <4>1, <4>2
    <3> QED BY <1>0, <1>10, <3>4, <3>6 DEF RecoverGeneration, RunTypeOK
  <2>4. BucketsInv'
    BY <1>0, <1>10, RequestType DEF RecoverGeneration, RunTypeOK, BucketsInv, Goto, Fail
  <2> QED BY <2>2, <2>3, <2>4
<1>11. CASE RecoverDelete(r)
  <2>1. PICK e : Send(r, Delete(NextBucket(r), gen[r][NextBucket(r)], r), e)
    BY <1>11 DEF RecoverDelete
  <2>2. ServiceTypeOK' /\ CountersTypeOK' /\ interrupted' \in [Runs -> BOOLEAN]
    BY <1>0, <1>11, <2>1, SendType, RequestType DEF RecoverDelete
  <2>3. RunTypeOK'
    <3>1. PICK kind : Fail(r, "unwind", Rollback(error[r], kind # "Ok"))
      BY <1>11 DEF RecoverDelete
    <3>2. Rollback(error[r], kind # "Ok") \in AppErrors
      BY <1>0, ErrType DEF RunTypeOK
    <3> QED BY <1>0, <1>11, <3>1, <3>2 DEF RecoverDelete, RunTypeOK, Goto, Fail, Pcs
  <2>4. BucketsInv'
    BY <1>0, <1>11, RequestType DEF RecoverDelete, RunTypeOK, BucketsInv, Goto, Fail
  <2> QED BY <2>2, <2>3, <2>4
<1>12. CASE ReleaseBucketLock(r)
  <2>1. PICK e : Send(r, Delete(LastBucket(r), gen[r][LastBucket(r)], r), e)
    BY <1>12 DEF ReleaseBucketLock
  <2>2. ServiceTypeOK' /\ CountersTypeOK' /\ interrupted' \in [Runs -> BOOLEAN]
    BY <1>0, <1>12, <2>1, SendType, RequestType DEF ReleaseBucketLock
  <2>3. RunTypeOK'
    BY <1>0, <1>12, ErrType, RequestType
       DEF ReleaseBucketLock, RunTypeOK, ServiceTypeOK, Goto, Pcs
  <2>4. BucketsInv'
    BY <1>0, <1>12, RequestType DEF ReleaseBucketLock, RunTypeOK, BucketsInv, Goto
  <2> QED BY <2>2, <2>3, <2>4
<1> QED BY <1>1, <1>2, <1>3, <1>4, <1>5, <1>6, <1>7, <1>8, <1>9, <1>10, <1>11, <1>12
           DEF Step, Acquire, Release

(* ... and of its environment. *)
LEMMA NextType == TypeOK /\ BucketsInv /\ [Next]_vars => TypeOK' /\ BucketsInv'
<1> SUFFICES ASSUME TypeOK, BucketsInv, [Next]_vars PROVE TypeOK' /\ BucketsInv'
  OBVIOUS
<1>0. ServiceTypeOK /\ CountersTypeOK /\ RunTypeOK /\ interrupted \in [Runs -> BOOLEAN]
  BY TypeParts
<1>1. CASE \E r \in Runs : Step(r)
  BY <1>1, StepType
<1>2. ASSUME NEW r \in Runs, Signal(r) PROVE TypeOK' /\ BucketsInv'
  BY <1>2, LockAssumption DEF Signal, TypeOK, BucketsInv, service
<1>3. ASSUME NEW r \in Runs, Crash(r) PROVE TypeOK' /\ BucketsInv'
  <2>1. ServiceTypeOK'
    BY <1>0, <1>3, OutcomeType, RequestType DEF Crash, ServiceTypeOK, service, Acquiring
  <2>2. CountersTypeOK' /\ interrupted' \in [Runs -> BOOLEAN]
    BY <1>0, <1>3, LockAssumption DEF Crash, CountersTypeOK
  <2>3. RunTypeOK' /\ BucketsInv'
    BY <1>0, <1>3 DEF Crash, RunTypeOK, BucketsInv, Goto, Pcs, Acquiring
  <2> QED BY <2>1, <2>2, <2>3, TypeParts
<1>4. ASSUME NEW bucket \in Buckets, RemoveLock(bucket) PROVE TypeOK' /\ BucketsInv'
  <2>1. ServiceTypeOK'
    BY <1>0, <1>4 DEF RemoveLock, ServiceTypeOK, Missing
  <2>2. CountersTypeOK' /\ RunTypeOK' /\ interrupted' \in [Runs -> BOOLEAN] /\ BucketsInv'
    BY <1>0, <1>4 DEF RemoveLock, CountersTypeOK, RunTypeOK, BucketsInv, counters, run
  <2> QED BY <2>1, <2>2, TypeParts
<1>5. CASE Land
  <2>1. ServiceTypeOK'
    BY <1>0, <1>5, ProcessType DEF Land, ServiceTypeOK
  <2>2. CountersTypeOK' /\ RunTypeOK' /\ interrupted' \in [Runs -> BOOLEAN] /\ BucketsInv'
    BY <1>0, <1>5 DEF Land, CountersTypeOK, RunTypeOK, BucketsInv, counters, run
  <2> QED BY <2>1, <2>2, TypeParts
<1>6. CASE UNCHANGED vars
  BY <1>6 DEF vars, service, counters, run, TypeOK, BucketsInv
<1> QED BY <1>1, <1>2, <1>3, <1>4, <1>5, <1>6 DEF Next, Terminated

(* TypeOK holds in every reachable state of the runs and their locks. *)
THEOREM TypeCorrect == Spec => []TypeOK
<1>1. Init => TypeOK /\ BucketsInv
  BY InitType
<1>2. TypeOK /\ BucketsInv /\ [Next]_vars => TypeOK' /\ BucketsInv'
  BY NextType
<1> QED BY <1>1, <1>2, PTL DEF Spec

-----------------------------------------------------------------------------
(* The argument for mutual exclusion.  A run owns the lock of a bucket     *)
(* when the lock object carries its token and the generation it recorded.  *)
(* It owns every bucket it holds, and what others can still do, late       *)
(* requests included, cannot touch a lock that is owned.                   *)
Owns(r, bucket) ==
    /\ gen[r][bucket] # 0
    /\ lock[bucket] = [gen |-> gen[r][bucket], token |-> r]

RunInv(r) ==
    /\ Running(r) => \A bucket \in held[r] : Owns(r, bucket)
    /\ todo[r] \cap held[r] = {}
    /\ pc[r] = "start" => held[r] = {}
    /\ pc[r] \in Acquiring \cup {"start", "register"} => active[r] = {}
    /\ pc[r] = "operation" => active[r] \subseteq held[r]
    /\ pc[r] = "recoverGeneration" =>
          lock[NextBucket(r)].gen # 0 /\ lock[NextBucket(r)].token = r
    /\ pc[r] = "recoverDelete" => Owns(r, NextBucket(r))

(* Generations are never reused. *)
FreshInv == \A bucket \in Buckets : lock[bucket].gen < nextGen

(* A deletion that is executed late is of a lock its run has given up.     *)
Spent(request) ==
    /\ request.generation # 0 /\ request.generation < nextGen
    /\ pc[request.token] \in Releasing
    /\ lock[request.bucket].gen = request.generation =>
          /\ lock[request.bucket].token = request.token
          /\ Running(request.token) => request.bucket \notin held[request.token]

WireInv == \A request \in wire : request.type = "delete" => Spent(request)

LockInv == (\A r \in Runs : RunInv(r)) /\ FreshInv /\ WireInv

-----------------------------------------------------------------------------
(* Lock objects change only by becoming missing or getting a new           *)
(* generation.                                                             *)
Evolves ==
    /\ \A bucket \in Buckets :
          lock'[bucket] = lock[bucket] \/ lock'[bucket].gen \in {0, nextGen}
    /\ nextGen' \in Nat /\ nextGen' >= nextGen

(* What the service does with a request: it deletes a lock only when the   *)
(* request names its generation.                                           *)
LEMMA ProcessEffect ==
    ASSUME NEW request \in Requests, Process(request), ServiceTypeOK, FreshInv
    PROVE  /\ Evolves /\ FreshInv'
           /\ \A bucket \in Buckets :
                 lock[bucket].gen # 0 /\ lock'[bucket] # lock[bucket] =>
                    /\ request.type = "delete" /\ request.bucket = bucket
                    /\ request.generation = lock[bucket].gen
<1>0. /\ request.bucket \in Buckets /\ nextGen \in Nat \ {0}
      /\ lock \in [Buckets -> [gen : Nat, token : Runs \cup {"none"}]]
  BY DEF Requests, ServiceTypeOK
<1>1. CASE UNCHANGED service
  BY <1>0, <1>1 DEF service, Evolves, FreshInv
<1>2. CASE /\ request.type = "create" /\ Unlocked(request.bucket)
           /\ lock' = [lock EXCEPT ![request.bucket] =
                          [gen |-> nextGen, token |-> request.token]]
           /\ nextGen' = nextGen + 1
  BY <1>0, <1>2 DEF Evolves, FreshInv, Unlocked
<1>3. CASE /\ request.type = "delete" /\ request.generation = lock[request.bucket].gen
           /\ lock' = [lock EXCEPT ![request.bucket] = Missing]
           /\ UNCHANGED nextGen
  BY <1>0, <1>3 DEF Evolves, FreshInv, Missing
<1> QED BY <1>1, <1>2, <1>3 DEF Process, Status

(* A given up lock stays given up. *)
LEMMA SpentKept ==
    ASSUME ServiceTypeOK, NEW request \in Requests, Spent(request), Evolves,
           pc'[request.token] \in Releasing,
           pc'[request.token] = pc[request.token] \/ Running(request.token),
           held'[request.token] \subseteq held[request.token]
    PROVE  Spent(request)'
<1>1. request.bucket \in Buckets /\ request.token \in Runs /\ request.generation \in Nat
  BY DEF Requests
<1>2. /\ request.generation # 0 /\ request.generation < nextGen
      /\ pc[request.token] \in Releasing
      /\ lock[request.bucket].gen = request.generation =>
            /\ lock[request.bucket].token = request.token
            /\ Running(request.token) => request.bucket \notin held[request.token]
  BY DEF Spent
<1>3. request.generation < nextGen'
  BY <1>1, <1>2 DEF Evolves, ServiceTypeOK
<1>4. lock'[request.bucket].gen = request.generation =>
         lock'[request.bucket] = lock[request.bucket]
  BY <1>1, <1>2 DEF Evolves, ServiceTypeOK
<1>5. Running(request.token)' => Running(request.token)
  BY DEF Running
<1> QED BY <1>1, <1>2, <1>3, <1>4, <1>5 DEF Spent

(* What happens to a run that a step is not of: its locks stay. *)
LEMMA RunKept ==
    ASSUME NEW s \in Runs, RunTypeOK, BucketsInv, RunInv(s),
           pc'[s] = pc[s], todo'[s] = todo[s], held'[s] = held[s],
           gen'[s] = gen[s], active'[s] = active[s],
           \A bucket \in Buckets :
              /\ lock[bucket].gen # 0 /\ lock[bucket].token = s
              /\ Running(s)
              /\ bucket \in held[s] \/ pc[s] \notin Releasing
              => lock'[bucket] = lock[bucket]
    PROVE  RunInv(s)'
<1>1. NextBucket(s)' = NextBucket(s)
  BY DEF NextBucket
<1>2. (Running(s)' <=> Running(s)) /\ held[s] \subseteq Buckets
  BY DEF Running, RunTypeOK
<1>3. ASSUME NEW bucket \in Buckets, Running(s), Owns(s, bucket),
             bucket \in held[s] \/ pc[s] \notin Releasing
      PROVE  Owns(s, bucket)'
  BY <1>3 DEF Owns
<1>4. Running(s)' => \A bucket \in held'[s] : Owns(s, bucket)'
  BY <1>2, <1>3 DEF RunInv
<1>5. /\ todo'[s] \cap held'[s] = {} /\ (pc'[s] = "start" => held'[s] = {})
      /\ pc'[s] \in Acquiring \cup {"start", "register"} => active'[s] = {}
      /\ pc'[s] = "operation" => active'[s] \subseteq held'[s]
  BY DEF RunInv
<1>6. pc[s] \in {"recoverGeneration", "recoverDelete"} =>
         NextBucket(s) \in Buckets /\ Running(s) /\ pc[s] \notin Releasing
  BY RequestType DEF Acquiring, Releasing, Running
<1>7. pc'[s] = "recoverGeneration" =>
         lock'[NextBucket(s)].gen # 0 /\ lock'[NextBucket(s)].token = s
  BY <1>6 DEF RunInv
<1>8. pc'[s] = "recoverDelete" => Owns(s, NextBucket(s))'
  <2> SUFFICES ASSUME pc[s] = "recoverDelete" PROVE Owns(s, NextBucket(s))'
    OBVIOUS
  <2>1. Owns(s, NextBucket(s))
    BY DEF RunInv
  <2> QED BY <1>1, <1>6, <2>1 DEF Owns
<1> QED BY <1>1, <1>4, <1>5, <1>7, <1>8 DEF RunInv

(* Sending a request: the service may execute it, or it stays under way.   *)
LEMMA SendEffect ==
    ASSUME NEW r \in Runs, NEW request \in Requests, NEW e, Send(r, request, e),
           ServiceTypeOK, FreshInv
    PROVE  /\ Evolves /\ FreshInv'
           /\ wire' = wire \/ (wire' = wire \cup {request} /\ request.type # "read")
           /\ \A bucket \in Buckets :
                 lock[bucket].gen # 0 /\ lock'[bucket] # lock[bucket] =>
                    /\ request.type = "delete" /\ request.bucket = bucket
                    /\ request.generation = lock[bucket].gen
           /\ e = "Ok" => Status(request) = "Ok" /\ Process(request) /\ wire' = wire
<1>1. \/ UNCHANGED <<service, wire>>
      \/ Process(request) /\ UNCHANGED wire
      \/ wire' = wire \cup {request} /\ UNCHANGED service /\ request.type # "read"
  BY DEF Send, Unsent, Answered, Abandoned, Outcome
<1>2. e = "Ok" => Status(request) = "Ok" /\ Process(request) /\ wire' = wire
  BY DEF Send, Unsent, Answered, Abandoned
<1>3. CASE UNCHANGED service
  BY <1>1, <1>2, <1>3 DEF service, Evolves, FreshInv, ServiceTypeOK
<1>4. CASE Process(request) /\ UNCHANGED wire
  BY <1>2, <1>4, ProcessEffect
<1> QED BY <1>1, <1>3, <1>4

(* A step of run r that changes no lock but its own, and leaves only spent *)
(* deletions under way, keeps the invariant.                               *)
LEMMA StepKept ==
    ASSUME TypeOK, BucketsInv, LockInv, NEW r \in Runs, Evolves, FreshInv', RunInv(r)',
           \A s \in Runs \ {r} :
              /\ pc'[s] = pc[s] /\ todo'[s] = todo[s] /\ held'[s] = held[s]
              /\ gen'[s] = gen[s] /\ active'[s] = active[s],
           \A bucket \in Buckets :
              lock[bucket].gen # 0 /\ lock'[bucket] # lock[bucket] => lock[bucket].token = r,
           pc[r] \in Releasing =>
              Running(r) /\ pc'[r] \in Releasing /\ held'[r] \subseteq held[r],
           \A request \in wire' \ wire : request.type = "delete" => Spent(request)'
    PROVE  LockInv'
<1>0. ServiceTypeOK /\ RunTypeOK
  BY TypeParts
<1>1. ASSUME NEW s \in Runs, s # r PROVE RunInv(s)'
  <2>1. RunInv(s)
    BY DEF LockInv
  <2> QED BY <1>0, <1>1, <2>1, RunKept
<1>2. ASSUME NEW request \in wire, request.type = "delete" PROVE Spent(request)'
  <2>1. request \in Requests /\ request.token \in Runs
    BY <1>0 DEF ServiceTypeOK, Requests
  <2>2. Spent(request)
    BY <1>2 DEF LockInv, WireInv
  <2>3. /\ pc'[request.token] \in Releasing
        /\ pc'[request.token] = pc[request.token] \/ Running(request.token)
        /\ held'[request.token] \subseteq held[request.token]
    BY <2>1, <2>2 DEF Spent
  <2> QED BY <1>0, <2>1, <2>2, <2>3, SpentKept
<1> QED BY <1>1, <1>2 DEF LockInv, WireInv

(* The steps that send nothing. *)
LEMMA SilentStep ==
    ASSUME TypeOK, BucketsInv, LockInv, NEW r \in Runs,
           \/ Start(r) \/ ClearForRecovery(r) \/ RegisterActiveBucketLocks(r)
           \/ Operation(r) \/ Unwind(r) \/ ClearForRelease(r) \/ Return(r) \/ Signal(r)
    PROVE  LockInv'
<1>0. ServiceTypeOK /\ RunTypeOK
  BY TypeParts
<1>1. UNCHANGED <<lock, nextGen, wire, held, gen>>
  BY DEF Start, ClearForRecovery, RegisterActiveBucketLocks, Operation, Unwind,
         ClearForRelease, Return, Signal, service
<1>2. Evolves /\ FreshInv'
  BY <1>0, <1>1 DEF Evolves, FreshInv, LockInv, ServiceTypeOK
<1>3. \A s \in Runs \ {r} :
         /\ pc'[s] = pc[s] /\ todo'[s] = todo[s] /\ held'[s] = held[s]
         /\ gen'[s] = gen[s] /\ active'[s] = active[s]
  BY <1>0, <1>1 DEF RunTypeOK, Goto, Fail, Start, ClearForRecovery, RegisterActiveBucketLocks,
         Operation, Unwind, ClearForRelease, Return, Signal
<1>4. pc[r] \in Releasing => Running(r) /\ pc'[r] \in Releasing /\ held'[r] \subseteq held[r]
  BY <1>0, <1>1 DEF RunTypeOK, Goto, Fail, Start, ClearForRecovery, RegisterActiveBucketLocks,
         Operation, Unwind, ClearForRelease, Return, Signal, Releasing, Running
<1>5. RunInv(r)
  BY DEF LockInv
<1>6. Running(r)' => Running(r)
  BY <1>0 DEF RunTypeOK, Goto, Fail, Start, ClearForRecovery, RegisterActiveBucketLocks,
         Operation, Unwind, ClearForRelease, Return, Signal, Running
<1>7. RunInv(r)'
  <2>1. Running(r)' => \A bucket \in held'[r] : Owns(r, bucket)'
    BY <1>1, <1>5, <1>6 DEF RunInv, Owns
  <2>2. CASE Start(r)
    BY <1>0, <1>1, <1>5, <2>1, <2>2 DEF Start, RunInv, RunTypeOK, Goto, Acquiring
  <2>3. CASE RegisterActiveBucketLocks(r)
    BY <1>0, <1>1, <1>5, <2>1, <2>3
       DEF RegisterActiveBucketLocks, RunInv, RunTypeOK, Goto, Acquiring
  <2>4. CASE Signal(r)
    BY <1>1, <1>5, <2>1, <2>4 DEF Signal, RunInv, NextBucket, Owns
  <2>5. CASE ClearForRecovery(r)
    BY <1>0, <1>1, <1>5, <2>1, <2>5 DEF ClearForRecovery, RunInv, RunTypeOK, Goto, Acquiring
  <2>6. CASE Operation(r) \/ Unwind(r) \/ ClearForRelease(r) \/ Return(r)
    <3>1. pc'[r] \in {"unwind", "clear", "release", "ended"} /\ todo' = todo
      BY <1>0, <2>6 DEF RunTypeOK, Goto, Fail, Operation, Unwind, ClearForRelease, Return
    <3> QED BY <1>1, <1>5, <2>1, <3>1 DEF RunInv, Acquiring
  <2> QED BY <2>2, <2>3, <2>4, <2>5, <2>6
<1> QED BY <1>1, <1>2, <1>3, <1>4, <1>7, StepKept

(* A run that deletes a lock it owns has given it up by the time the       *)
(* request may be executed late.                                           *)
LEMMA DeleteSpent ==
    ASSUME ServiceTypeOK, FreshInv, Evolves, NEW r \in Runs, NEW bucket \in Buckets,
           Owns(r, bucket), gen[r][bucket] \in Nat, NEW request \in Requests,
           request = Delete(bucket, gen[r][bucket], r),
           pc'[r] \in Releasing, Running(r)' => bucket \notin held'[r]
    PROVE  Spent(request)'
<1>1. /\ request.bucket = bucket /\ request.token = r
      /\ request.generation = gen[r][bucket] /\ request.generation \in Nat
  BY DEF Delete
<1>2. /\ lock[bucket].gen = request.generation /\ lock[bucket].token = r
      /\ request.generation # 0 /\ request.generation < nextGen
  BY <1>1 DEF Owns, FreshInv
<1>3. request.generation < nextGen'
  BY <1>1, <1>2 DEF Evolves, ServiceTypeOK
<1>4. lock'[bucket].gen = request.generation => lock'[bucket] = lock[bucket]
  BY <1>1, <1>2 DEF Evolves, ServiceTypeOK
<1> QED BY <1>1, <1>2, <1>3, <1>4 DEF Spent

(* Creating a lock: the lock of another run makes it fail, and success     *)
(* makes this run the owner.                                               *)
LEMMA AcquireStep ==
    ASSUME TypeOK, BucketsInv, LockInv, NEW r \in Runs, AcquireBucketLock(r)
    PROVE  LockInv'
<1>0. ServiceTypeOK /\ RunTypeOK /\ FreshInv /\ RunInv(r) /\ pc[r] = "create"
  BY TypeParts DEF LockInv, AcquireBucketLock
<1>a. PICK next : next = NextBucket(r)
  OBVIOUS
<1> DEFINE request == Create(next, r)
<1>1. /\ next \in todo[r] /\ next \in Buckets /\ request \in Requests
      /\ request.type = "create" /\ request.bucket = next /\ request.token = r
  BY <1>0, <1>a, RequestType DEF Acquiring, Create
<1>2. PICK e \in ErrorKinds :
         /\ Send(r, request, e)
         /\ IF e = "Ok"
            THEN /\ held' = [held EXCEPT ![r] = @ \cup {next}]
                 /\ gen' = [gen EXCEPT ![r][next] = nextGen]
                 /\ todo' = [todo EXCEPT ![r] = @ \ {next}]
                 /\ pc' = [pc EXCEPT ![r] = IF todo[r] = {next} THEN "register" ELSE "create"]
            ELSE /\ \/ pc' = [pc EXCEPT ![r] = "unwind"]
                    \/ pc' = [pc EXCEPT ![r] = "unacknowledged"]
                 /\ UNCHANGED <<held, gen, todo>>
  BY <1>a DEF AcquireBucketLock, Goto, Fail
<1>3. /\ Evolves /\ FreshInv'
      /\ wire' = wire \/ wire' = wire \cup {request}
      /\ \A bucket \in Buckets : lock[bucket].gen # 0 => lock'[bucket] = lock[bucket]
      /\ e = "Ok" => Status(request) = "Ok" /\ Process(request)
  BY <1>0, <1>1, <1>2, SendEffect
<1> HIDE DEF request
<1>4. active' = active
  BY DEF AcquireBucketLock
<1>5. \A s \in Runs \ {r} :
         /\ pc'[s] = pc[s] /\ todo'[s] = todo[s] /\ held'[s] = held[s]
         /\ gen'[s] = gen[s] /\ active'[s] = active[s]
  BY <1>0, <1>2, <1>4 DEF RunTypeOK
<1>6. ASSUME NEW bucket \in held[r] PROVE
         /\ bucket \in Buckets /\ bucket # next /\ Owns(r, bucket)
         /\ lock'[bucket] = lock[bucket]
  <2>1. bucket \in Buckets /\ bucket # next /\ Owns(r, bucket)
    BY <1>0, <1>1 DEF RunInv, Running, RunTypeOK
  <2> QED BY <1>3, <2>1 DEF Owns
<1>7. RunInv(r)'
  <2>1. CASE e = "Ok"
    <3>1. /\ held'[r] = held[r] \cup {next} /\ todo'[r] = todo[r] \ {next}
          /\ pc'[r] \in {"register", "create"}
      BY <1>0, <1>2, <2>1 DEF RunTypeOK
    <3>2. gen'[r][next] = nextGen /\ \A bucket \in Buckets \ {next} : gen'[r][bucket] = gen[r][bucket]
      BY <1>0, <1>1, <1>2, <2>1 DEF RunTypeOK
    <3>3. lock'[next] = [gen |-> nextGen, token |-> r] /\ nextGen # 0
      BY <1>0, <1>1, <1>3, <2>1 DEF Process, ServiceTypeOK
    <3>4. Owns(r, next)'
      <4>1. lock'[next] = [gen |-> gen'[r][next], token |-> r] /\ gen'[r][next] # 0
        BY <3>2, <3>3
      <4> QED BY <4>1 DEF Owns
    <3>5. \A bucket \in held[r] : Owns(r, bucket)'
      BY <1>6, <3>2 DEF Owns
    <3>6. \A bucket \in held'[r] : Owns(r, bucket)'
      BY <3>1, <3>4, <3>5
    <3>7. todo'[r] \cap held'[r] = {} /\ active'[r] = {}
      BY <1>0, <1>4, <3>1 DEF RunInv, Acquiring
    <3> QED BY <3>1, <3>6, <3>7 DEF RunInv
  <2>2. CASE e # "Ok"
    <3>1. /\ held'[r] = held[r] /\ todo'[r] = todo[r] /\ gen'[r] = gen[r]
          /\ pc'[r] \in {"unwind", "unacknowledged"}
      BY <1>0, <1>2, <2>2 DEF RunTypeOK
    <3>2. \A bucket \in held'[r] : Owns(r, bucket)'
      BY <1>6, <3>1 DEF Owns
    <3>3. todo'[r] \cap held'[r] = {} /\ active'[r] = {}
      BY <1>0, <1>4, <3>1 DEF RunInv, Acquiring
    <3> QED BY <3>1, <3>2, <3>3 DEF RunInv
  <2> QED BY <2>1, <2>2
<1>8. pc[r] \notin Releasing
  BY <1>0 DEF Releasing
<1>9. \A m \in wire' \ wire : m.type # "delete"
  BY <1>1, <1>3
<1> QED BY <1>0, <1>3, <1>5, <1>7, <1>8, <1>9, StepKept

(* Reading the lock after an ambiguous creation: recovery goes on only     *)
(* when the lock carries the token of this run.                            *)
LEMMA RecoverReadStep ==
    ASSUME TypeOK, BucketsInv, LockInv, NEW r \in Runs, RecoverBody(r) \/ RecoverGeneration(r)
    PROVE  LockInv'
<1>0. /\ ServiceTypeOK /\ RunTypeOK /\ FreshInv /\ RunInv(r)
      /\ pc[r] \in {"recoverBody", "recoverGeneration"}
  BY TypeParts DEF LockInv, RecoverBody, RecoverGeneration
<1>a. PICK next : next = NextBucket(r)
  OBVIOUS
<1> DEFINE request == Read(next, r)
<1>1. /\ next \in todo[r] /\ next \in Buckets /\ request \in Requests
      /\ request.type = "read" /\ request.bucket = next
  BY <1>0, <1>a, RequestType DEF Acquiring, Read
<1>2. PICK e \in ErrorKinds :
         /\ Send(r, request, e)
         /\ \/ pc' = [pc EXCEPT ![r] = "unwind"] /\ gen' = gen
            \/ /\ pc[r] = "recoverBody" /\ e = "Ok" /\ lock[next].token = r
               /\ pc' = [pc EXCEPT ![r] = "recoverGeneration"] /\ gen' = gen
            \/ /\ pc[r] = "recoverGeneration" /\ e = "Ok"
               /\ pc' = [pc EXCEPT ![r] = "recoverDelete"]
               /\ gen' = [gen EXCEPT ![r][next] = lock[next].gen]
  <2>1. CASE RecoverBody(r)
    BY <1>a, <2>1 DEF RecoverBody, Goto, Fail
  <2>2. CASE RecoverGeneration(r)
    BY <1>a, <2>2 DEF RecoverGeneration, Goto, Fail
  <2> QED BY <2>1, <2>2
<1>3. /\ Evolves /\ FreshInv' /\ wire' = wire
      /\ \A bucket \in Buckets : lock[bucket].gen # 0 => lock'[bucket] = lock[bucket]
      /\ e = "Ok" => Status(request) = "Ok" /\ Process(request)
  BY <1>0, <1>1, <1>2, SendEffect
<1>4. e = "Ok" => lock[next].gen # 0
  BY <1>1, <1>3 DEF Status, Unlocked
<1> HIDE DEF request
<1>5. UNCHANGED <<todo, held, active>>
  BY DEF RecoverBody, RecoverGeneration
<1>6. \A s \in Runs \ {r} :
         /\ pc'[s] = pc[s] /\ todo'[s] = todo[s] /\ held'[s] = held[s]
         /\ gen'[s] = gen[s] /\ active'[s] = active[s]
  BY <1>0, <1>2, <1>5 DEF RunTypeOK
<1>7. pc[r] \notin Releasing /\ Running(r)
  BY <1>0 DEF Releasing, Running
<1>8. RunInv(r)'
  <2>1. \A bucket \in Buckets \ {next} : gen'[r][bucket] = gen[r][bucket]
    BY <1>0, <1>1, <1>2 DEF RunTypeOK
  <2>2. ASSUME NEW bucket \in held[r] PROVE Owns(r, bucket)'
    <3>1. bucket \in Buckets \ {next} /\ Owns(r, bucket)
      BY <1>0, <1>1, <1>7 DEF RunInv, RunTypeOK
    <3> QED BY <1>3, <2>1, <3>1 DEF Owns
  <2>3. todo'[r] \cap held'[r] = {} /\ active'[r] = {} /\ NextBucket(r)' = next
    BY <1>0, <1>a, <1>5 DEF RunInv, Acquiring, NextBucket
  <2>4. CASE pc' = [pc EXCEPT ![r] = "unwind"]
    <3>1. pc'[r] = "unwind"
      BY <1>0, <2>4 DEF RunTypeOK
    <3> QED BY <1>5, <2>2, <2>3, <3>1 DEF RunInv
  <2>5. CASE /\ e = "Ok" /\ lock[next].token = r
             /\ pc' = [pc EXCEPT ![r] = "recoverGeneration"]
    <3>1. pc'[r] = "recoverGeneration" /\ lock'[next].gen # 0 /\ lock'[next].token = r
      BY <1>0, <1>1, <1>3, <1>4, <2>5 DEF RunTypeOK
    <3> QED BY <1>5, <2>2, <2>3, <3>1 DEF RunInv
  <2>6. CASE /\ pc[r] = "recoverGeneration" /\ e = "Ok"
             /\ pc' = [pc EXCEPT ![r] = "recoverDelete"]
             /\ gen' = [gen EXCEPT ![r][next] = lock[next].gen]
    <3>1. pc'[r] = "recoverDelete" /\ gen'[r][next] = lock[next].gen
      BY <1>0, <1>1, <2>6 DEF RunTypeOK
    <3>2. lock[next].token = r /\ lock'[next] = lock[next] /\ lock[next].gen # 0
      BY <1>0, <1>a, <1>1, <1>3, <1>4, <2>6 DEF RunInv
    <3>3. lock[next] = [gen |-> lock[next].gen, token |-> lock[next].token]
      BY <1>0, <1>1 DEF ServiceTypeOK
    <3>4. Owns(r, next)'
      BY <3>1, <3>2, <3>3 DEF Owns
    <3> QED BY <1>5, <2>2, <2>3, <3>1, <3>4 DEF RunInv
  <2> QED BY <1>2, <2>4, <2>5, <2>6
<1>9. \A bucket \in Buckets :
         lock[bucket].gen # 0 /\ lock'[bucket] # lock[bucket] => lock[bucket].token = r
  BY <1>3
<1> QED BY <1>0, <1>3, <1>6, <1>7, <1>8, <1>9, StepKept

(* Deleting a lock, in recovery or at release: it is this run's own, and   *)
(* the run gives it up whatever the answer.                                *)
LEMMA DeleteStep ==
    ASSUME TypeOK, BucketsInv, LockInv, NEW r \in Runs, RecoverDelete(r) \/ ReleaseBucketLock(r)
    PROVE  LockInv'
<1>0. /\ ServiceTypeOK /\ RunTypeOK /\ FreshInv /\ RunInv(r)
      /\ pc[r] \in {"recoverDelete", "release"} /\ Running(r)
  BY TypeParts DEF LockInv, RecoverDelete, ReleaseBucketLock, Running
<1>1. PICK bucket, request :
         /\ bucket \in Buckets /\ request \in Requests /\ Owns(r, bucket)
         /\ request = Delete(bucket, gen[r][bucket], r)
         /\ \E e \in ErrorKinds : Send(r, request, e)
         /\ held' = [held EXCEPT ![r] = @ \ {bucket}]
  <2>1. CASE RecoverDelete(r)
    <3>1. NextBucket(r) \in todo[r] /\ NextBucket(r) \in Buckets /\ Owns(r, NextBucket(r))
      BY <1>0, <2>1, RequestType DEF RecoverDelete, RunInv, Acquiring
    <3>2. held' = [held EXCEPT ![r] = @ \ {NextBucket(r)}]
      <4>1. held[r] \ {NextBucket(r)} = held[r]
        BY <1>0, <3>1 DEF RunInv
      <4> QED BY <1>0, <2>1, <4>1 DEF RecoverDelete, RunTypeOK
    <3>3. Delete(NextBucket(r), gen[r][NextBucket(r)], r) \in Requests
      BY <1>0, <2>1, RequestType DEF RecoverDelete, Acquiring
    <3> QED BY <2>1, <3>1, <3>2, <3>3 DEF RecoverDelete
  <2>2. CASE ReleaseBucketLock(r)
    <3>1. /\ LastBucket(r) \in held[r] /\ LastBucket(r) \in Buckets
          /\ Delete(LastBucket(r), gen[r][LastBucket(r)], r) \in Requests
      BY <1>0, <2>2, RequestType DEF ReleaseBucketLock
    <3>2. Owns(r, LastBucket(r))
      BY <1>0, <3>1 DEF RunInv
    <3> QED BY <2>2, <3>1, <3>2 DEF ReleaseBucketLock
  <2> QED BY <2>1, <2>2
<1>2. /\ pc' = [pc EXCEPT ![r] = IF pc[r] = "release" THEN "clear" ELSE "unwind"]
      /\ UNCHANGED <<todo, gen, active>>
  BY DEF RecoverDelete, ReleaseBucketLock, Goto, Fail
<1>3. /\ request.type = "delete" /\ request.bucket = bucket
      /\ request.generation = gen[r][bucket] /\ gen[r][bucket] \in Nat
  BY <1>0, <1>1 DEF Delete, RunTypeOK
<1>4. /\ Evolves /\ FreshInv' /\ (wire' = wire \/ wire' = wire \cup {request})
      /\ \A other \in Buckets :
            lock[other].gen # 0 /\ lock'[other] # lock[other] => other = bucket
  BY <1>0, <1>1, <1>3, SendEffect
<1>5. \A s \in Runs \ {r} :
         /\ pc'[s] = pc[s] /\ todo'[s] = todo[s] /\ held'[s] = held[s]
         /\ gen'[s] = gen[s] /\ active'[s] = active[s]
  BY <1>0, <1>1, <1>2 DEF RunTypeOK
<1>6. /\ pc'[r] \in {"clear", "unwind"} /\ held'[r] = held[r] \ {bucket}
      /\ todo'[r] = todo[r] /\ gen'[r] = gen[r]
  BY <1>0, <1>1, <1>2 DEF RunTypeOK
<1>7. RunInv(r)'
  <2>1. ASSUME NEW other \in held'[r] PROVE Owns(r, other)'
    <3>1. other \in Buckets /\ other # bucket /\ Owns(r, other)
      BY <1>0, <1>6 DEF RunInv, RunTypeOK
    <3>2. lock'[other] = lock[other]
      BY <1>4, <3>1 DEF Owns
    <3> QED BY <1>6, <3>1, <3>2 DEF Owns
  <2>2. todo'[r] \cap held'[r] = {}
    BY <1>0, <1>6 DEF RunInv
  <2> QED BY <1>6, <2>1, <2>2 DEF RunInv, Acquiring
<1>8. Spent(request)'
  <2>1. pc'[r] \in Releasing /\ (Running(r)' => bucket \notin held'[r])
    BY <1>6 DEF Releasing
  <2> QED BY <1>0, <1>1, <1>3, <1>4, <2>1, DeleteSpent
<1>9. /\ \A other \in Buckets :
            lock[other].gen # 0 /\ lock'[other] # lock[other] => lock[other].token = r
      /\ \A m \in wire' \ wire : m.type = "delete" => Spent(m)'
      /\ pc'[r] \in Releasing /\ held'[r] \subseteq held[r]
  BY <1>1, <1>4, <1>6, <1>8 DEF Owns, Releasing
<1> QED BY <1>0, <1>4, <1>5, <1>7, <1>9, StepKept

(* A kill: the last request of the run may have been executed, or be       *)
(* executed later, and the run owns nothing any more.                      *)
LEMMA CrashStep ==
    ASSUME TypeOK, BucketsInv, LockInv, NEW r \in Runs, Crash(r)
    PROVE  LockInv'
<1>0. /\ ServiceTypeOK /\ RunTypeOK /\ FreshInv /\ RunInv(r) /\ Running(r)
      /\ pc' = [pc EXCEPT ![r] = "crashed"] /\ UNCHANGED <<todo, held, gen, active>>
  BY TypeParts DEF LockInv, Crash, Goto
<1>1. /\ \A s \in Runs \ {r} :
            /\ pc'[s] = pc[s] /\ todo'[s] = todo[s] /\ held'[s] = held[s]
            /\ gen'[s] = gen[s] /\ active'[s] = active[s]
      /\ pc'[r] = "crashed" /\ held'[r] = held[r] /\ ~Running(r)'
  BY <1>0 DEF RunTypeOK, Running
<1>2. RunInv(r)'
  BY <1>0, <1>1 DEF RunInv, Acquiring
<1>3. pc'[r] \in Releasing
  BY <1>1 DEF Releasing
<1>4. CASE UNCHANGED <<service, wire>>
  <2>1. Evolves /\ FreshInv' /\ lock' = lock /\ wire' = wire
    BY <1>0, <1>4 DEF Evolves, FreshInv, ServiceTypeOK, service
  <2> QED BY <1>0, <1>1, <1>2, <1>3, <2>1, StepKept
<1>5. CASE pc[r] = "create" /\ Outcome(Create(NextBucket(r), r))
  <2>1. PICK request \in Requests : request.type = "create" /\ Outcome(request)
    BY <1>0, <1>5, RequestType DEF Acquiring, Create
  <2>2. \/ UNCHANGED <<service, wire>>
        \/ Process(request) /\ wire' = wire
        \/ UNCHANGED service /\ wire' = wire \cup {request}
    BY <2>1 DEF Outcome
  <2>3. /\ Evolves /\ FreshInv'
        /\ \A bucket \in Buckets : lock[bucket].gen # 0 => lock'[bucket] = lock[bucket]
    <3>1. CASE UNCHANGED service
      BY <1>0, <3>1 DEF Evolves, FreshInv, ServiceTypeOK, service
    <3>2. CASE Process(request)
      BY <1>0, <2>1, <3>2, ProcessEffect
    <3> QED BY <2>2, <3>1, <3>2
  <2>4. \A m \in wire' \ wire : m.type # "delete"
    BY <2>1, <2>2
  <2> QED BY <1>0, <1>1, <1>2, <1>3, <2>3, <2>4, StepKept
<1>6. ASSUME NEW bucket \in Buckets, Owns(r, bucket),
             Delete(bucket, gen[r][bucket], r) \in Requests,
             Outcome(Delete(bucket, gen[r][bucket], r))
      PROVE  LockInv'
  <2>1. PICK request \in Requests : request = Delete(bucket, gen[r][bucket], r)
    BY <1>6
  <2>2. /\ request.type = "delete" /\ request.bucket = bucket /\ gen[r][bucket] \in Nat
        /\ request.generation = gen[r][bucket]
    BY <1>0, <2>1 DEF Delete, RunTypeOK
  <2>3. \/ UNCHANGED <<service, wire>>
        \/ Process(request) /\ wire' = wire
        \/ UNCHANGED service /\ wire' = wire \cup {request}
    BY <1>6, <2>1 DEF Outcome
  <2>4. /\ Evolves /\ FreshInv'
        /\ \A other \in Buckets :
              lock[other].gen # 0 /\ lock'[other] # lock[other] => other = bucket
    <3>1. CASE UNCHANGED service
      BY <1>0, <3>1 DEF Evolves, FreshInv, ServiceTypeOK, service
    <3>2. CASE Process(request)
      BY <1>0, <2>2, <3>2, ProcessEffect
    <3> QED BY <2>3, <3>1, <3>2
  <2>5. Spent(request)'
    BY <1>0, <1>1, <1>3, <1>6, <2>1, <2>2, <2>4, DeleteSpent
  <2>6. /\ \A other \in Buckets :
              lock[other].gen # 0 /\ lock'[other] # lock[other] => lock[other].token = r
        /\ \A m \in wire' \ wire : m.type = "delete" => Spent(m)'
    BY <1>6, <2>3, <2>4, <2>5 DEF Owns
  <2> QED BY <1>0, <1>1, <1>2, <1>3, <2>4, <2>6, StepKept
<1>7. CASE /\ pc[r] = "recoverDelete"
           /\ Outcome(Delete(NextBucket(r), gen[r][NextBucket(r)], r))
  BY <1>0, <1>6, <1>7, RequestType DEF RunInv, Acquiring
<1>8. CASE pc[r] = "release" /\ Outcome(Delete(LastBucket(r), gen[r][LastBucket(r)], r))
  BY <1>0, <1>6, <1>8, RequestType DEF RunInv
<1> QED BY <1>4, <1>5, <1>7, <1>8 DEF Crash

(* An operator who makes sure that the run is not active removes no lock   *)
(* that is owned; neither does a request that is executed late.            *)
LEMMA EnvironmentStep ==
    ASSUME TypeOK, BucketsInv, LockInv, Land \/ \E bucket \in Buckets : RemoveLock(bucket)
    PROVE  LockInv'
<1>0. ServiceTypeOK /\ RunTypeOK /\ FreshInv /\ WireInv /\ (\A r \in Runs : RunInv(r))
  BY TypeParts DEF LockInv
<1>1. /\ UNCHANGED <<pc, todo, held, gen, active>> /\ wire' \subseteq wire
  BY DEF Land, RemoveLock, run
<1>2. SUFFICES
         /\ Evolves /\ FreshInv'
         /\ \A s \in Runs, bucket \in Buckets :
               /\ lock[bucket].gen # 0 /\ lock[bucket].token = s /\ Running(s)
               /\ bucket \in held[s] \/ pc[s] \notin Releasing
               => lock'[bucket] = lock[bucket]
  <2>1. ASSUME NEW s \in Runs PROVE RunInv(s)'
    BY <1>0, <1>1, <1>2, RunKept
  <2>2. ASSUME NEW request \in wire', request.type = "delete" PROVE Spent(request)'
    <3>1. request \in Requests /\ Spent(request)
      BY <1>0, <1>1, <2>2 DEF WireInv, ServiceTypeOK
    <3>2. pc'[request.token] \in Releasing
      BY <1>1, <3>1 DEF Spent
    <3> QED BY <1>0, <1>1, <1>2, <3>1, <3>2, SpentKept
  <2> QED BY <1>2, <2>1, <2>2 DEF LockInv, WireInv
<1>3. CASE \E bucket \in Buckets : RemoveLock(bucket)
  <2>1. PICK bucket \in Buckets :
           /\ ~Running(lock[bucket].token) /\ nextGen' = nextGen
           /\ lock' = [lock EXCEPT ![bucket] = Missing]
    BY <1>3 DEF RemoveLock
  <2> QED BY <1>0, <2>1 DEF Evolves, FreshInv, ServiceTypeOK, Missing
<1>4. CASE Land
  <2>1. PICK request \in wire : Process(request)
    BY <1>4 DEF Land
  <2>2. request \in Requests /\ (request.type = "delete" => Spent(request))
    BY <1>0 DEF ServiceTypeOK, WireInv
  <2>3. /\ Evolves /\ FreshInv'
        /\ \A bucket \in Buckets :
              lock[bucket].gen # 0 /\ lock'[bucket] # lock[bucket] =>
                 /\ request.type = "delete" /\ request.bucket = bucket
                 /\ request.generation = lock[bucket].gen
    BY <1>0, <2>1, <2>2, ProcessEffect
  <2> QED BY <2>2, <2>3 DEF Spent
<1> QED BY <1>3, <1>4

(* The invariant holds initially and is kept by every step. *)
LEMMA LockInductive ==
    /\ Init => LockInv
    /\ TypeOK /\ BucketsInv /\ LockInv /\ [Next]_vars => LockInv'
<1>1. ASSUME Init PROVE LockInv
  BY <1>1 DEF Init, LockInv, RunInv, FreshInv, WireInv, Missing
<1>2. ASSUME TypeOK, BucketsInv, LockInv, Next PROVE LockInv'
  <2>1. ASSUME NEW r \in Runs, Step(r) PROVE LockInv'
    BY <2>1, <1>2, SilentStep, AcquireStep, RecoverReadStep, DeleteStep
       DEF Step, Acquire, Release
  <2>2. CASE UNCHANGED vars
    BY <1>2, <2>2 DEF vars, service, run, LockInv, RunInv, FreshInv, WireInv, Spent, Owns,
       Running, NextBucket
  <2> QED BY <1>2, <2>1, <2>2, SilentStep, CrashStep, EnvironmentStep DEF Next, Terminated
<1>3. ASSUME LockInv, UNCHANGED vars PROVE LockInv'
  BY <1>3 DEF vars, service, run, LockInv, RunInv, FreshInv, WireInv, Spent, Owns,
     Running, NextBucket
<1> QED BY <1>1, <1>2, <1>3

(* For any number of runs, buckets, faults, signals and kills, and with    *)
(* requests that are executed late: two runs are never in their            *)
(* workflows with a bucket lock in common.                                 *)
THEOREM Exclusion == Spec => []MutualExclusion
<1>1. Init => TypeOK /\ BucketsInv /\ LockInv
  BY InitType, LockInductive
<1>2. TypeOK /\ BucketsInv /\ LockInv /\ [Next]_vars => TypeOK' /\ BucketsInv' /\ LockInv'
  BY NextType, LockInductive
<1>3. TypeOK /\ LockInv => MutualExclusion
  <2> SUFFICES ASSUME TypeOK, LockInv, NEW r \in Runs, NEW s \in Runs, r # s,
                      pc[r] = "operation", pc[s] = "operation",
                      NEW bucket \in active[r], bucket \in active[s]
               PROVE  FALSE
    BY DEF MutualExclusion
  <2>1. RunInv(r) /\ RunInv(s) /\ Running(r) /\ Running(s)
    BY DEF LockInv, Running
  <2>2. Owns(r, bucket) /\ Owns(s, bucket)
    BY <2>1 DEF RunInv
  <2> QED BY <2>2 DEF Owns
<1> QED BY <1>1, <1>2, <1>3, PTL DEF Spec

-----------------------------------------------------------------------------
(* The argument for the refinement.  What a run still has to acquire and   *)
(* what it holds are together what it asked for, so it enters with all of  *)
(* it; and a conflict is met only where something is left to acquire.      *)
AskedInv(r) ==
    /\ pc[r] \in Acquiring => todo[r] \cup held[r] = Requested[r]
    /\ pc[r] = "register" => held[r] = Requested[r]
    /\ pc[r] = "operation" => active[r] = Requested[r]
    /\ IsBucketLockConflict(error[r]) => todo[r] # {} /\ pc[r] \in Releasing

RequestedInv == \A r \in Runs : AskedInv(r)

(* What a run does to its own part of the state, it does to no other's. *)
LEMMA OthersKeepAsked ==
    ASSUME RequestedInv, NEW r \in Runs, AskedInv(r)',
           \A s \in Runs \ {r} : /\ pc'[s] = pc[s] /\ todo'[s] = todo[s]
                                 /\ held'[s] = held[s] /\ active'[s] = active[s]
                                 /\ error'[s] = error[s]
    PROVE  RequestedInv'
<1> SUFFICES ASSUME NEW s \in Runs PROVE AskedInv(s)'
  BY DEF RequestedInv
<1>1. CASE s = r
  BY <1>1
<1>2. CASE s # r
  BY <1>2 DEF RequestedInv, AskedInv, Requested
<1> QED BY <1>1, <1>2

(* BucketsToAcquire leaves out what the run has registered. *)
LEMMA ToAcquire ==
    ASSUME NEW r \in Runs PROVE BucketsToAcquire(r) = Requested[r] \ active[r]
  BY DEF BucketsToAcquire, Requested

(* The steps up to the workflow of a run. *)
LEMMA EnteringAsked ==
    ASSUME TypeOK, BucketsInv, LockInv, RequestedInv, NEW r \in Runs,
           \/ Start(r) \/ AcquireBucketLock(r) \/ ClearForRecovery(r)
           \/ RegisterActiveBucketLocks(r) \/ Operation(r)
    PROVE  RequestedInv'
<1>0. RunTypeOK /\ AskedInv(r) /\ RunInv(r)
  BY TypeParts DEF RequestedInv, LockInv
<1> USE DEF Acquiring, Releasing
<1>1. CASE Start(r)
  <2>1. BucketsToAcquire(r) = Requested[r] /\ held[r] = {} /\ active[r] = {}
    BY <1>0, <1>1, ToAcquire DEF Start, RunInv
  <2>2. AskedInv(r)'
    BY <1>0, <1>1, <2>1 DEF Start, AskedInv, Goto, RunTypeOK, Requested
  <2> QED BY <1>0, <1>1, <2>2, OthersKeepAsked DEF Start, Goto, RunTypeOK
<1>2. CASE AcquireBucketLock(r)
  <2>1. NextBucket(r) \in todo[r]
    BY <1>0, <1>2, LeastBucket DEF AcquireBucketLock, BucketsInv, NextBucket, RunTypeOK
  <2>2. ~IsBucketLockConflict(error[r]) /\ todo[r] \cup held[r] = Requested[r]
    BY <1>0, <1>2 DEF AcquireBucketLock, AskedInv
  <2>3. \/ /\ held' = [held EXCEPT ![r] = @ \cup {NextBucket(r)}]
           /\ todo' = [todo EXCEPT ![r] = @ \ {NextBucket(r)}]
           /\ Goto(r, IF todo[r] = {NextBucket(r)} THEN "register" ELSE "create")
           /\ UNCHANGED <<error, active>>
        \/ /\ \E kind : Fail(r, "unwind", Err(kind))
           /\ UNCHANGED <<held, todo, active>>
        \/ /\ \E kind : kind # "BucketLockConflict" /\ Fail(r, "unacknowledged", Err(kind))
           /\ UNCHANGED <<held, todo, active>>
    <3>1. ASSUME NEW e, Send(r, Create(NextBucket(r), r), e) PROVE e # "BucketLockConflict"
      BY <3>1 DEF Send, Unsent, Answered, Abandoned, Create, Status
    <3>2. PICK e \in ErrorKinds :
             /\ e # "BucketLockConflict"
             /\ \/ /\ held' = [held EXCEPT ![r] = @ \cup {NextBucket(r)}]
                   /\ todo' = [todo EXCEPT ![r] = @ \ {NextBucket(r)}]
                   /\ Goto(r, IF todo[r] = {NextBucket(r)} THEN "register" ELSE "create")
                   /\ UNCHANGED error
                \/ /\ \/ Fail(r, "unwind", Err("BucketLockConflict"))
                      \/ Fail(r, "unacknowledged", Err(e))
                      \/ Fail(r, "unwind", Err(e))
                   /\ UNCHANGED <<held, todo>>
      BY <1>2, <3>1 DEF AcquireBucketLock
    <3> QED BY <1>2, <3>2 DEF AcquireBucketLock
  <2>4. AskedInv(r)'
    BY <1>0, <2>1, <2>2, <2>3
       DEF AskedInv, Goto, Fail, RunTypeOK, Requested, IsBucketLockConflict, Err
  <2> QED BY <1>0, <2>3, <2>4, OthersKeepAsked DEF Goto, Fail, RunTypeOK
<1>3. CASE ClearForRecovery(r)
  <2>1. AskedInv(r)'
    BY <1>0, <1>3 DEF ClearForRecovery, AskedInv, Goto, RunTypeOK, Requested
  <2> QED BY <1>0, <1>3, <2>1, OthersKeepAsked DEF ClearForRecovery, Goto, RunTypeOK
<1>4. CASE RegisterActiveBucketLocks(r)
  <2>1. AskedInv(r)'
    BY <1>0, <1>4 DEF RegisterActiveBucketLocks, AskedInv, RunInv, Goto, RunTypeOK, Requested
  <2> QED BY <1>0, <1>4, <2>1, OthersKeepAsked DEF RegisterActiveBucketLocks, Goto, RunTypeOK
<1>5. CASE Operation(r)
  <2>1. BucketsToAcquire(r) = {}
    BY <1>0, <1>5, ToAcquire DEF Operation, AskedInv
  <2>2. PICK kind \in {"Ok", "Message"} : Fail(r, "unwind", Err(kind))
    BY <1>5, <2>1 DEF Operation
  <2>3. AskedInv(r)'
    BY <1>0, <1>5, <2>2
       DEF Operation, AskedInv, Fail, Goto, RunTypeOK, Requested, IsBucketLockConflict, Err
  <2> QED BY <1>0, <1>5, <2>2, <2>3, OthersKeepAsked DEF Operation, Fail, Goto, RunTypeOK
<1> QED BY <1>1, <1>2, <1>3, <1>4, <1>5

(* The recovery of a lock, the release and the environment leave what the  *)
(* run asked for alone.                                                    *)
LEMMA LeavingAsked ==
    ASSUME TypeOK, BucketsInv, RequestedInv, NEW r \in Runs,
           \/ RecoverBody(r) \/ RecoverGeneration(r) \/ RecoverDelete(r)
           \/ Release(r) \/ Signal(r) \/ Crash(r)
    PROVE  RequestedInv'
<1>0. RunTypeOK /\ AskedInv(r)
  BY TypeParts DEF RequestedInv
<1> USE DEF Acquiring, Releasing
<1>1. CASE RecoverBody(r) \/ RecoverGeneration(r) \/ RecoverDelete(r)
  <2>1. /\ pc[r] \in Acquiring /\ ~IsBucketLockConflict(error[r])
        /\ UNCHANGED <<todo, held, active>>
    BY <1>0, <1>1 DEF RecoverBody, RecoverGeneration, RecoverDelete, AskedInv
  <2>2. \/ UNCHANGED error /\ \E next \in Acquiring \cup {"unwind"} : Goto(r, next)
        \/ \E failed : Fail(r, "unwind", Rollback(error[r], failed))
    BY <1>1 DEF RecoverBody, RecoverGeneration, RecoverDelete
  <2>3. AskedInv(r)'
    BY <1>0, <2>1, <2>2
       DEF AskedInv, Goto, Fail, RunTypeOK, Requested, IsBucketLockConflict, Rollback, AppErrors
  <2> QED BY <1>0, <2>1, <2>2, <2>3, OthersKeepAsked DEF Goto, Fail, RunTypeOK
<1>2. CASE Unwind(r) \/ ClearForRelease(r)
  <2>1. AskedInv(r)'
    BY <1>0, <1>2 DEF Unwind, ClearForRelease, AskedInv, Goto, RunTypeOK, Requested
  <2> QED BY <1>0, <1>2, <2>1, OthersKeepAsked DEF Unwind, ClearForRelease, Goto, RunTypeOK
<1>3. CASE ReleaseBucketLock(r)
  <2>1. AskedInv(r)'
    BY <1>0, <1>3 DEF ReleaseBucketLock, AskedInv, Goto, RunTypeOK, Requested
  <2> QED BY <1>0, <1>3, <2>1, OthersKeepAsked DEF ReleaseBucketLock, Goto, RunTypeOK
<1>4. CASE Return(r)
  <2>1. /\ pc[r] = "clear" /\ UNCHANGED <<todo, held, active>>
        /\ \/ Fail(r, "ended", Err("Recovery"))
           \/ \E failed : Fail(r, "ended", Rollback(error[r], failed))
    BY <1>4 DEF Return
  <2>2. AskedInv(r)'
    BY <1>0, <2>1
       DEF AskedInv, Goto, Fail, RunTypeOK, Requested, IsBucketLockConflict, Rollback, Err, AppErrors
  <2> QED BY <1>0, <2>1, <2>2, OthersKeepAsked DEF Fail, Goto, RunTypeOK
<1>5. CASE Signal(r) \/ Crash(r)
  <2>1. AskedInv(r)'
    BY <1>0, <1>5 DEF Signal, Crash, AskedInv, Goto, RunTypeOK, Requested
  <2> QED BY <1>0, <1>5, <2>1, OthersKeepAsked DEF Signal, Crash, Goto, RunTypeOK
<1> QED BY <1>1, <1>2, <1>3, <1>4, <1>5 DEF Release

(* The strengthened invariant is inductive. *)
LEMMA RequestedInductive ==
    /\ Init => RequestedInv
    /\ TypeOK /\ BucketsInv /\ LockInv /\ RequestedInv /\ [Next]_vars => RequestedInv'
<1>1. ASSUME Init PROVE RequestedInv
  BY <1>1 DEF Init, RequestedInv, AskedInv, Acquiring, IsBucketLockConflict, NoError, Err
<1>2. ASSUME TypeOK, BucketsInv, LockInv, RequestedInv, [Next]_vars PROVE RequestedInv'
  <2>1. ASSUME NEW r \in Runs, Step(r) \/ Signal(r) \/ Crash(r) PROVE RequestedInv'
    BY <1>2, <2>1, EnteringAsked, LeavingAsked DEF Step, Acquire
  <2>2. CASE UNCHANGED run
    BY <1>2, <2>2 DEF run, RequestedInv, AskedInv, Requested
  <2> QED BY <1>2, <2>1, <2>2 DEF Next, RemoveLock, Land, Terminated, vars
<1> QED BY <1>1, <1>2

(* A run is turned away only while a bucket is left to acquire: the        *)
(* storage calls of its own workflow never meet its own lock, for any      *)
(* number of runs and buckets and whatever fails.                          *)
THEOREM OwnLocksReused == Spec => []NoSelfConflict
<1>1. Init => TypeOK /\ BucketsInv /\ LockInv /\ RequestedInv
  BY InitType, LockInductive, RequestedInductive
<1>2. TypeOK /\ BucketsInv /\ LockInv /\ RequestedInv /\ [Next]_vars =>
         TypeOK' /\ BucketsInv' /\ LockInv' /\ RequestedInv'
  BY NextType, LockInductive, RequestedInductive
<1>3. RequestedInv => NoSelfConflict
  BY DEF RequestedInv, AskedInv, NoSelfConflict
<1> QED BY <1>1, <1>2, <1>3, PTL DEF Spec

(* Seen from outside, a step of a run enters, leaves or does nothing. *)
LEMMA StepOfInside ==
    ASSUME TypeOK, BucketsInv, LockInv, RequestedInv, MutualExclusion', RequestedInv', [Next]_vars
    PROVE  [Lock!Next]_Inside
<1>0. RunTypeOK /\ RunTypeOK'
  <2>1. TypeOK'
    BY NextType
  <2> QED BY <2>1, TypeParts DEF TypeOK, RunTypeOK
<1>1. ASSUME NEW r \in Runs,
             \A s \in Runs \ {r} : pc'[s] = pc[s] /\ active'[s] = active[s],
             pc'[r] # "operation"
      PROVE  Lock!Leave(r)
  BY <1>0, <1>1 DEF Lock!Leave, Inside, RunTypeOK
<1>2. ASSUME NEW r \in Runs,
             \A s \in Runs \ {r} : pc'[s] = pc[s] /\ active'[s] = active[s],
             pc[r] # "operation", pc'[r] = "operation"
      PROVE  Lock!Enter(r)
  <2>1. Inside[r] = {} /\ Inside'[r] = Requested[r]
    BY <1>2 DEF Inside, RequestedInv, AskedInv, Requested
  <2>2. ASSUME NEW s \in Runs PROVE Inside[s] \cap Requested[r] = {}
    <3>1. CASE s = r
      BY <2>1, <3>1
    <3>2. CASE s # r /\ pc[s] = "operation"
      <4>1. active'[r] = Requested[r] /\ active'[s] = active[s] /\ pc'[s] = "operation"
        BY <1>2, <3>2 DEF RequestedInv, AskedInv, Requested
      <4> QED BY <1>2, <3>2, <4>1 DEF MutualExclusion, Inside
    <3>3. CASE s # r /\ pc[s] # "operation"
      BY <3>3 DEF Inside
    <3> QED BY <3>1, <3>2, <3>3
  <2>3. Inside' = [Inside EXCEPT ![r] = Requested[r]]
    BY <1>0, <1>2, <2>1 DEF Inside, RunTypeOK
  <2> QED BY <2>1, <2>2, <2>3 DEF Lock!Enter
<1>3. ASSUME NEW r \in Runs,
             \A s \in Runs \ {r} : pc'[s] = pc[s] /\ active'[s] = active[s],
             pc[r] = "operation" => pc'[r] # "operation" \/ UNCHANGED <<pc, active>>
      PROVE  [Lock!Next]_Inside
  BY <1>1, <1>2, <1>3 DEF Lock!Next, Inside
<1>4. ASSUME NEW r \in Runs, Step(r) PROVE [Lock!Next]_Inside
  <2>1. \A s \in Runs \ {r} : pc'[s] = pc[s] /\ active'[s] = active[s]
    BY <1>0, <1>4 DEF Step, Acquire, Release, Start, AcquireBucketLock, ClearForRecovery,
       RecoverBody, RecoverGeneration, RecoverDelete, RegisterActiveBucketLocks, Operation,
       Unwind, ClearForRelease, ReleaseBucketLock, Return, Goto, Fail, RunTypeOK
  <2>2. pc[r] = "operation" => pc'[r] # "operation"
    BY <1>0, <1>4 DEF Step, Acquire, Release, Start, AcquireBucketLock, ClearForRecovery,
       RecoverBody, RecoverGeneration, RecoverDelete, RegisterActiveBucketLocks, Operation,
       Unwind, ClearForRelease, ReleaseBucketLock, Return, Goto, Fail, RunTypeOK
  <2> QED BY <1>3, <2>1, <2>2
<1>5. ASSUME NEW r \in Runs, Signal(r) \/ Crash(r) PROVE [Lock!Next]_Inside
  <2>1. \A s \in Runs \ {r} : pc'[s] = pc[s] /\ active'[s] = active[s]
    BY <1>0, <1>5 DEF Signal, Crash, Goto, RunTypeOK
  <2>2. pc'[r] = "crashed" \/ UNCHANGED <<pc, active>>
    BY <1>0, <1>5 DEF Signal, Crash, Goto, RunTypeOK
  <2> QED BY <1>3, <2>1, <2>2
<1>6. CASE UNCHANGED <<pc, active>>
  BY <1>6 DEF Inside
<1> QED BY <1>4, <1>5, <1>6 DEF Next, RemoveLock, Land, Terminated, vars, run

(* For any number of runs, buckets, faults, signals and kills: the lock    *)
(* objects of with_bucket_locks implement a lock that is taken and         *)
(* returned in one step for all the buckets of a run.                      *)
THEOREM AtomicEntry == Spec => ImplementsAtomicLock
<1>1. Init => TypeOK /\ BucketsInv /\ LockInv /\ RequestedInv
  BY InitType, LockInductive, RequestedInductive
<1>2. TypeOK /\ BucketsInv /\ LockInv /\ RequestedInv /\ [Next]_vars =>
         TypeOK' /\ BucketsInv' /\ LockInv' /\ RequestedInv'
  BY NextType, LockInductive, RequestedInductive
<1>3. Spec => []MutualExclusion
  BY Exclusion
<1>4. Init => Lock!Init
  BY DEF Init, Lock!Init, Lock!Outside, Inside
<1>5. /\ TypeOK /\ BucketsInv /\ LockInv /\ RequestedInv
      /\ MutualExclusion' /\ RequestedInv' /\ [Next]_vars
      => [Lock!Next]_Inside
  BY StepOfInside
<1> QED BY <1>1, <1>2, <1>3, <1>4, <1>5, PTL DEF Spec, ImplementsAtomicLock, Lock!Spec

-----------------------------------------------------------------------------
(* The argument for the return of the locks, when no request is executed   *)
(* after its run gave up on it.  A lock with the token of a run is one it  *)
(* holds, the one it is recovering, or reported.                           *)
Recovering == {"unacknowledged", "recoverBody", "recoverGeneration", "recoverDelete"}

Locked(r, bucket) == lock[bucket].token = r

ReturnInv(r) ==
    \A bucket \in Buckets : Locked(r, bucket) =>
        /\ pc[r] \in {"start", "create", "register", "operation"} => bucket \in held[r]
        /\ pc[r] \in Recovering => bucket \in held[r] \/ bucket = NextBucket(r)
        /\ pc[r] \in {"unwind", "clear", "release"} =>
              bucket \in held[r] \/ error[r].rollback \/ releaseFailed[r]
        /\ pc[r] = "ended" => ReportsLeftovers(error[r])

NoneLate == wire = {} /\ \A r \in Runs : ReturnInv(r)

(* A request gives a lock no token but its own. *)
LEMMA ProcessToken ==
    ASSUME NEW request \in Requests, Process(request), ServiceTypeOK
    PROVE  /\ \A bucket \in Buckets :
                 lock'[bucket].token \in {lock[bucket].token, "none", request.token}
           /\ \A bucket \in Buckets : lock'[bucket].token # lock[bucket].token =>
                 bucket = request.bucket /\ request.type # "read" /\ Status(request) = "Ok"
           /\ request.type = "delete" /\ Status(request) = "Ok" =>
                 lock'[request.bucket].token = "none"
<1>0. /\ request.bucket \in Buckets
      /\ lock \in [Buckets -> [gen : Nat, token : Runs \cup {"none"}]]
  BY DEF Requests, ServiceTypeOK
<1>1. CASE request.type = "create" /\ Status(request) = "Ok"
  <2>1. lock' = [lock EXCEPT ![request.bucket] = [gen |-> nextGen, token |-> request.token]]
    BY <1>1 DEF Process
  <2> QED BY <1>0, <1>1, <2>1
<1>2. CASE request.type = "delete" /\ Status(request) = "Ok"
  <2>1. lock' = [lock EXCEPT ![request.bucket] = Missing]
    BY <1>2 DEF Process
  <2> QED BY <1>0, <1>2, <2>1 DEF Missing
<1>3. CASE ~(request.type \in {"create", "delete"} /\ Status(request) = "Ok")
  <2>1. lock' = lock
    BY <1>3 DEF Process, service
  <2> QED BY <1>3, <2>1
<1> QED BY <1>1, <1>2, <1>3

(* The answer tells whether the request may have been executed. *)
LEMMA SendToken ==
    ASSUME NEW r \in Runs, NEW request \in Requests, request.token = r, NEW e,
           Send(r, request, e), ServiceTypeOK, ~LateDelivery
    PROVE  /\ wire' = wire
           /\ \A bucket \in Buckets :
                 lock'[bucket].token \in {lock[bucket].token, "none", r}
           /\ \A bucket \in Buckets : lock'[bucket].token # lock[bucket].token =>
                 bucket = request.bucket /\ request.type # "read"
           /\ e \in {"PreconditionFailed", "HttpConnect", "Interrupted", "Token", "TokenInterrupted"} =>
                 \A bucket \in Buckets : lock'[bucket].token = lock[bucket].token
           /\ e = "Ok" /\ request.type = "delete" => lock'[request.bucket].token = "none"
           /\ e = "Ok" => Status(request) = "Ok"
<1>1. /\ wire' = wire
      /\ \/ lock' = lock /\ e # "Ok"
         \/ /\ Process(request)
            /\ e = Status(request) \/ e \in {"Http", "StorageResponse", "InterruptedAfterRequest"}
  BY DEF Send, Unsent, Answered, Abandoned, Outcome, service
<1>2. CASE lock' = lock /\ e # "Ok"
  BY <1>1, <1>2
<1>3. CASE /\ Process(request)
           /\ e = Status(request) \/ e \in {"Http", "StorageResponse", "InterruptedAfterRequest"}
  <2>1. Status(request) \in {"Ok", "PreconditionFailed", "NotFound"}
    BY DEF Status
  <2> QED BY <1>1, <1>3, <2>1, ProcessToken
<1> QED BY <1>1, <1>2, <1>3

(* A step of run r disturbs no other run. *)
LEMMA OthersReturn ==
    ASSUME RunTypeOK, NoneLate, NEW r \in Runs, wire' = {}, ReturnInv(r)',
           \A bucket \in Buckets : lock'[bucket].token \in {lock[bucket].token, "none", r},
           \A s \in Runs \ {r} :
              /\ pc'[s] = pc[s] /\ todo'[s] = todo[s] /\ held'[s] = held[s]
              /\ error'[s] = error[s] /\ releaseFailed'[s] = releaseFailed[s]
    PROVE  NoneLate'
<1>1. ASSUME NEW s \in Runs, s # r PROVE ReturnInv(s)'
  <2>1. \A bucket \in Buckets : Locked(s, bucket)' => Locked(s, bucket)
    BY <1>1, TokenAssumption DEF Locked
  <2>2. NextBucket(s)' = NextBucket(s)
    BY <1>1 DEF NextBucket
  <2>3. ReturnInv(s)
    BY DEF NoneLate
  <2> QED BY <1>1, <2>1, <2>2, <2>3 DEF ReturnInv
<1> QED BY <1>1 DEF NoneLate

(* The steps that send no request. *)
LEMMA SilentReturn ==
    ASSUME TypeOK, NoneLate, NEW r \in Runs,
           \/ Start(r) \/ ClearForRecovery(r) \/ RegisterActiveBucketLocks(r)
           \/ Operation(r) \/ Unwind(r) \/ ClearForRelease(r) \/ Return(r) \/ Signal(r)
    PROVE  NoneLate'
<1>0. RunTypeOK /\ ReturnInv(r) /\ wire = {}
  BY TypeParts DEF NoneLate
<1>1. UNCHANGED <<lock, wire, held, releaseFailed>>
  BY DEF Start, ClearForRecovery, RegisterActiveBucketLocks, Operation, Unwind,
         ClearForRelease, Return, Signal, service
<1>2. \A s \in Runs \ {r} :
         pc'[s] = pc[s] /\ todo'[s] = todo[s] /\ error'[s] = error[s]
  BY <1>0 DEF RunTypeOK, Goto, Fail, Start, ClearForRecovery, RegisterActiveBucketLocks,
         Operation, Unwind, ClearForRelease, Return, Signal
<1>3. \A bucket \in Buckets : Locked(r, bucket)' = Locked(r, bucket)
  BY <1>1 DEF Locked
<1>4. ReturnInv(r)'
  <2>1. CASE Start(r) \/ RegisterActiveBucketLocks(r) \/ Operation(r)
    <3>1. /\ pc[r] \in {"start", "register", "operation"}
          /\ pc'[r] \in {"create", "operation", "unwind"}
      BY <1>0, <2>1 DEF Start, RegisterActiveBucketLocks, Operation, Goto, Fail, RunTypeOK
    <3> QED BY <1>0, <1>1, <1>3, <3>1 DEF ReturnInv, Recovering
  <2>2. CASE ClearForRecovery(r)
    <3>1. /\ pc[r] = "unacknowledged" /\ pc'[r] = "recoverBody"
          /\ NextBucket(r)' = NextBucket(r)
      BY <1>0, <2>2 DEF ClearForRecovery, Goto, RunTypeOK, NextBucket
    <3> QED BY <1>0, <1>1, <1>3, <3>1 DEF ReturnInv, Recovering
  <2>3. CASE Unwind(r) \/ ClearForRelease(r)
    <3>1. /\ pc[r] \in {"unwind", "clear"} /\ pc'[r] \in {"clear", "release"}
          /\ error' = error
      BY <1>0, <2>3 DEF Unwind, ClearForRelease, Goto, RunTypeOK
    <3> QED BY <1>0, <1>1, <1>3, <3>1 DEF ReturnInv, Recovering
  <2>4. CASE Return(r)
    <3>1. /\ pc[r] = "clear" /\ pc'[r] = "ended" /\ held[r] = {}
          /\ error'[r] = IF IsOk(error[r]) /\ releaseFailed[r] THEN Err("Recovery")
                         ELSE Rollback(error[r], releaseFailed[r])
      BY <1>0, <2>4 DEF Return, Goto, Fail, RunTypeOK
    <3>2. error[r] \in AppErrors
      BY <1>0 DEF RunTypeOK
    <3>3. error[r].rollback \/ releaseFailed[r] => ReportsLeftovers(error'[r])
      BY <3>1, <3>2 DEF ReportsLeftovers, Rollback, Err, AppErrors
    <3> QED BY <1>0, <1>3, <3>1, <3>3 DEF ReturnInv, Recovering
  <2>5. CASE Signal(r)
    <3>1. UNCHANGED <<pc, todo, error>> /\ NextBucket(r)' = NextBucket(r)
      BY <2>5 DEF Signal, NextBucket
    <3> QED BY <1>0, <1>1, <1>3, <3>1 DEF ReturnInv
  <2> QED BY <2>1, <2>2, <2>3, <2>4, <2>5
<1> QED BY <1>0, <1>1, <1>2, <1>4, OthersReturn

(* A lock that a creation may have left is held or recovered. *)
LEMMA AcquireReturn ==
    ASSUME TypeOK, BucketsInv, NoneLate, ~LateDelivery, NEW r \in Runs, AcquireBucketLock(r)
    PROVE  NoneLate'
<1>0. ServiceTypeOK /\ RunTypeOK /\ ReturnInv(r) /\ wire = {} /\ pc[r] = "create"
  BY TypeParts DEF NoneLate, AcquireBucketLock
<1>a. PICK next : next = NextBucket(r)
  OBVIOUS
<1>1. PICK request \in Requests : request = Create(next, r)
  BY <1>0, <1>a, RequestType DEF Acquiring
<1>2. next \in Buckets /\ request.bucket = next /\ request.token = r
  BY <1>0, <1>a, <1>1, RequestType DEF Acquiring, Create
<1>3. PICK e \in ErrorKinds :
         /\ Send(r, request, e)
         /\ \/ /\ e = "Ok" /\ held' = [held EXCEPT ![r] = @ \cup {next}]
               /\ todo' = [todo EXCEPT ![r] = @ \ {next}] /\ error' = error
               /\ \E pcr \in {"register", "create"} : pc' = [pc EXCEPT ![r] = pcr]
            \/ /\ e \in {"PreconditionFailed", "HttpConnect", "Interrupted", "Token",
                         "TokenInterrupted", "UploadSource", "Command"}
               /\ UNCHANGED <<held, todo>> /\ pc' = [pc EXCEPT ![r] = "unwind"]
               /\ \E err : error' = [error EXCEPT ![r] = err]
            \/ /\ UNCHANGED <<held, todo>> /\ pc' = [pc EXCEPT ![r] = "unacknowledged"]
               /\ \E err : error' = [error EXCEPT ![r] = err]
  <2>1. PICK e \in ErrorKinds :
           /\ Send(r, request, e)
           /\ IF e = "Ok"
              THEN /\ held' = [held EXCEPT ![r] = @ \cup {next}]
                   /\ todo' = [todo EXCEPT ![r] = @ \ {next}]
                   /\ Goto(r, IF todo[r] = {next} THEN "register" ELSE "create")
                   /\ UNCHANGED error
              ELSE /\ CASE e = "PreconditionFailed" ->
                              Fail(r, "unwind", Err("BucketLockConflict"))
                        [] e # "PreconditionFailed" /\ MayHaveReachedStorage(Err(e)) ->
                              Fail(r, "unacknowledged", Err(e))
                        [] OTHER -> Fail(r, "unwind", Err(e))
                   /\ UNCHANGED <<held, todo>>
    BY <1>a, <1>1 DEF AcquireBucketLock
  <2>2. ~MayHaveReachedStorage(Err(e)) =>
           e \in {"HttpConnect", "Interrupted", "Token", "TokenInterrupted", "UploadSource", "Command"}
    BY DEF MayHaveReachedStorage, Err
  <2> QED BY <2>1, <2>2 DEF Goto, Fail
<1>4. /\ wire' = wire /\ releaseFailed' = releaseFailed
      /\ \A bucket \in Buckets : lock'[bucket].token \in {lock[bucket].token, "none", r}
      /\ \A bucket \in Buckets : lock'[bucket].token # lock[bucket].token => bucket = next
      /\ e \in {"PreconditionFailed", "HttpConnect", "Interrupted", "Token", "TokenInterrupted"} =>
            \A bucket \in Buckets : lock'[bucket].token = lock[bucket].token
  BY <1>0, <1>2, <1>3, SendToken DEF AcquireBucketLock
<1>5. e \notin {"UploadSource", "Command"}
  BY <1>3 DEF Send, Unsent, Answered, Abandoned, Status
<1>6. \A s \in Runs \ {r} :
         pc'[s] = pc[s] /\ todo'[s] = todo[s] /\ held'[s] = held[s] /\ error'[s] = error[s]
  BY <1>0, <1>3 DEF RunTypeOK
<1>7. \A bucket \in Buckets : Locked(r, bucket) => bucket \in held[r]
  BY <1>0 DEF ReturnInv
<1>8. ReturnInv(r)'
  <2>1. CASE pc'[r] \in {"register", "create"} /\ held'[r] = held[r] \cup {next}
    BY <1>4, <1>7, <2>1 DEF ReturnInv, Locked, Recovering
  <2>2. CASE /\ pc'[r] = "unwind" /\ held'[r] = held[r]
             /\ \A bucket \in Buckets : lock'[bucket].token = lock[bucket].token
    BY <1>7, <2>2 DEF ReturnInv, Locked, Recovering
  <2>3. CASE pc'[r] = "unacknowledged" /\ held'[r] = held[r] /\ todo'[r] = todo[r]
    <3>1. NextBucket(r)' = next
      BY <1>a, <2>3 DEF NextBucket
    <3> QED BY <1>4, <1>7, <2>3, <3>1 DEF ReturnInv, Locked, Recovering
  <2>4. held[r] \in SUBSET Buckets /\ DOMAIN pc = Runs /\ DOMAIN held = Runs
    BY <1>0 DEF RunTypeOK
  <2> QED BY <1>3, <1>4, <1>5, <2>1, <2>2, <2>3, <2>4
<1> QED BY <1>0, <1>4, <1>6, <1>8, OthersReturn

(* Recovery goes on with the lock it reads, reports it, or the lock is not *)
(* the run's own.                                                          *)
LEMMA RecoverReadReturn ==
    ASSUME TypeOK, BucketsInv, NoneLate, ~LateDelivery, NEW r \in Runs,
           RecoverBody(r) \/ RecoverGeneration(r)
    PROVE  NoneLate'
<1>0. /\ ServiceTypeOK /\ RunTypeOK /\ ReturnInv(r) /\ wire = {}
      /\ pc[r] \in {"recoverBody", "recoverGeneration"}
  BY TypeParts DEF NoneLate, RecoverBody, RecoverGeneration
<1>a. PICK next : next = NextBucket(r)
  OBVIOUS
<1>1. PICK request \in Requests : request = Read(next, r)
  BY <1>0, <1>a, RequestType DEF Acquiring
<1>2. next \in Buckets /\ request.type = "read" /\ request.token = r
  BY <1>0, <1>a, <1>1, RequestType DEF Acquiring, Read
<1>3. PICK e \in ErrorKinds :
         /\ Send(r, request, e)
         /\ \/ /\ pc' = [pc EXCEPT ![r] = "unwind"]
               /\ error' = [error EXCEPT ![r] = Rollback(error[r], TRUE)]
            \/ /\ pc' = [pc EXCEPT ![r] = "unwind"] /\ error' = error
               /\ lock[next].token # r
            \/ /\ \E pcr \in {"recoverGeneration", "recoverDelete"} :
                     pc' = [pc EXCEPT ![r] = pcr]
               /\ error' = error
  <2>1. CASE RecoverBody(r)
    BY <1>a, <1>1, <2>1 DEF RecoverBody, Goto, Fail
  <2>2. CASE RecoverGeneration(r)
    BY <1>a, <1>1, <2>2 DEF RecoverGeneration, Goto, Fail
  <2> QED BY <2>1, <2>2
<1>4. UNCHANGED <<todo, held, releaseFailed>>
  BY DEF RecoverBody, RecoverGeneration
<1>5. wire' = wire /\ \A bucket \in Buckets : lock'[bucket].token = lock[bucket].token
  BY <1>0, <1>2, <1>3, SendToken
<1>6. \A s \in Runs \ {r} : pc'[s] = pc[s] /\ error'[s] = error[s]
  BY <1>0, <1>3 DEF RunTypeOK
<1>7. \A bucket \in Buckets : Locked(r, bucket)' => bucket \in held'[r] \/ bucket = next
  BY <1>0, <1>a, <1>4, <1>5 DEF ReturnInv, Locked, Recovering
<1>8. ReturnInv(r)'
  <2>1. CASE pc'[r] = "unwind" /\ error'[r].rollback
    BY <2>1 DEF ReturnInv, Recovering
  <2>2. CASE pc'[r] = "unwind" /\ lock[next].token # r
    BY <1>2, <1>5, <1>7, <2>2 DEF ReturnInv, Locked, Recovering
  <2>3. CASE pc'[r] \in {"recoverGeneration", "recoverDelete"}
    <3>1. NextBucket(r)' = next
      BY <1>a, <1>4 DEF NextBucket
    <3> QED BY <1>7, <2>3, <3>1 DEF ReturnInv, Recovering
  <2>4. error[r] \in AppErrors /\ DOMAIN error = Runs /\ DOMAIN pc = Runs
    BY <1>0 DEF RunTypeOK
  <2>5. Rollback(error[r], TRUE).rollback
    BY <2>4 DEF Rollback, AppErrors
  <2> QED BY <1>3, <2>1, <2>2, <2>3, <2>4, <2>5
<1> QED BY <1>0, <1>4, <1>5, <1>6, <1>8, OthersReturn

(* A lock is deleted, or the failure is kept for the report. *)
LEMMA DeleteReturn ==
    ASSUME TypeOK, BucketsInv, NoneLate, ~LateDelivery, NEW r \in Runs,
           RecoverDelete(r) \/ ReleaseBucketLock(r)
    PROVE  NoneLate'
<1>0. /\ ServiceTypeOK /\ RunTypeOK /\ ReturnInv(r) /\ wire = {}
      /\ DOMAIN pc = Runs /\ DOMAIN held = Runs /\ DOMAIN error = Runs
      /\ DOMAIN releaseFailed = Runs
  BY TypeParts DEF NoneLate, RunTypeOK
<1>1. CASE RecoverDelete(r)
  <2>a. PICK next : next = NextBucket(r)
    OBVIOUS
  <2>b. pc[r] = "recoverDelete" /\ UNCHANGED <<todo, held, releaseFailed>>
    BY <1>1 DEF RecoverDelete
  <2>1. PICK request \in Requests : request = Delete(next, gen[r][next], r)
    BY <1>0, <2>a, <2>b, RequestType DEF Acquiring
  <2>2. /\ next \in Buckets /\ request.type = "delete" /\ request.token = r
        /\ request.bucket = next
    BY <1>0, <2>a, <2>b, <2>1, RequestType DEF Acquiring, Delete
  <2>3. PICK e \in ErrorKinds :
           /\ Send(r, request, e) /\ pc' = [pc EXCEPT ![r] = "unwind"]
           /\ error' = [error EXCEPT ![r] = Rollback(error[r], e # "Ok")]
    BY <1>1, <2>a, <2>1 DEF RecoverDelete, Goto, Fail
  <2>4. /\ wire' = wire
        /\ \A bucket \in Buckets : lock'[bucket].token \in {lock[bucket].token, "none", r}
        /\ \A bucket \in Buckets : lock'[bucket].token # lock[bucket].token => bucket = next
        /\ e = "Ok" => lock'[next].token = "none"
    BY <1>0, <2>2, <2>3, SendToken
  <2>5. \A s \in Runs \ {r} : pc'[s] = pc[s] /\ error'[s] = error[s]
    BY <1>0, <2>3
  <2>6. pc'[r] = "unwind" /\ (e # "Ok" => error'[r].rollback)
    <3>1. error[r] \in AppErrors
      BY <1>0 DEF RunTypeOK
    <3>2. Rollback(error[r], TRUE).rollback
      BY <3>1 DEF Rollback, AppErrors
    <3> QED BY <1>0, <2>3, <3>2
  <2>7. \A bucket \in Buckets : Locked(r, bucket) => bucket \in held[r] \/ bucket = next
    BY <1>0, <2>a, <2>b DEF ReturnInv, Recovering
  <2>8. e = "Ok" => \A bucket \in Buckets : Locked(r, bucket)' => bucket \in held'[r]
    BY <2>b, <2>4, <2>7, TokenAssumption DEF Locked
  <2>9. ReturnInv(r)'
    BY <2>6, <2>8 DEF ReturnInv, Recovering
  <2> QED BY <1>0, <2>b, <2>4, <2>5, <2>9, OthersReturn
<1>2. CASE ReleaseBucketLock(r)
  <2>a. PICK last : last = LastBucket(r)
    OBVIOUS
  <2>b. pc[r] = "release" /\ UNCHANGED <<todo, error>>
    BY <1>2 DEF ReleaseBucketLock
  <2>1. PICK request \in Requests : request = Delete(last, gen[r][last], r)
    BY <1>0, <2>a, <2>b, RequestType
  <2>2. /\ last \in Buckets /\ request.type = "delete" /\ request.token = r
        /\ request.bucket = last
    BY <1>0, <2>a, <2>b, <2>1, RequestType DEF Delete
  <2>3. PICK e \in ErrorKinds :
           /\ Send(r, request, e)
           /\ releaseFailed' = [releaseFailed EXCEPT ![r] = @ \/ e # "Ok"]
    BY <1>2, <2>a, <2>1 DEF ReleaseBucketLock
  <2>c. /\ held' = [held EXCEPT ![r] = @ \ {last}]
        /\ pc' = [pc EXCEPT ![r] = "clear"]
    BY <1>2, <2>a DEF ReleaseBucketLock, Goto
  <2>4. /\ wire' = wire
        /\ \A bucket \in Buckets : lock'[bucket].token \in {lock[bucket].token, "none", r}
        /\ \A bucket \in Buckets : lock'[bucket].token # lock[bucket].token => bucket = last
        /\ e = "Ok" => lock'[last].token = "none"
    BY <1>0, <2>2, <2>3, SendToken
  <2>5. \A s \in Runs \ {r} :
           pc'[s] = pc[s] /\ held'[s] = held[s] /\ releaseFailed'[s] = releaseFailed[s]
    BY <1>0, <2>3, <2>c
  <2>6. /\ pc'[r] = "clear" /\ held'[r] = held[r] \ {last}
        /\ (releaseFailed[r] \/ e # "Ok" => releaseFailed'[r])
    BY <1>0, <2>3, <2>c
  <2>7. \A bucket \in Buckets : Locked(r, bucket) =>
           bucket \in held[r] \/ error[r].rollback \/ releaseFailed[r]
    BY <1>0, <2>b DEF ReturnInv
  <2>8. ReturnInv(r)'
    <3>1. CASE e # "Ok"
      BY <2>6, <3>1 DEF ReturnInv, Recovering
    <3>2. CASE e = "Ok"
      <4>1. \A bucket \in Buckets : Locked(r, bucket)' => Locked(r, bucket) /\ bucket # last
        BY <2>4, <3>2, TokenAssumption DEF Locked
      <4> QED BY <2>b, <2>6, <2>7, <4>1 DEF ReturnInv, Recovering
    <3> QED BY <3>1, <3>2
  <2> QED BY <1>0, <2>b, <2>4, <2>5, <2>8, OthersReturn
<1> QED BY <1>1, <1>2

(* A killed run returns nothing; the request it was waiting for touches no *)
(* lock of another run but to delete it.                                   *)
LEMMA CrashReturn ==
    ASSUME TypeOK, BucketsInv, NoneLate, ~LateDelivery, NEW r \in Runs, Crash(r)
    PROVE  NoneLate'
<1>0. /\ ServiceTypeOK /\ RunTypeOK /\ wire = {}
      /\ pc' = [pc EXCEPT ![r] = "crashed"] /\ UNCHANGED <<todo, held, error, releaseFailed>>
  BY TypeParts DEF NoneLate, Crash, Goto
<1>1. pc'[r] = "crashed" /\ \A s \in Runs \ {r} : pc'[s] = pc[s]
  BY <1>0 DEF RunTypeOK
<1>2. ReturnInv(r)'
  BY <1>1 DEF ReturnInv, Recovering
<1>3. /\ wire' = wire
      /\ \A bucket \in Buckets : lock'[bucket].token \in {lock[bucket].token, "none", r}
  <2>1. ASSUME NEW request \in Requests, request.token = r, Outcome(request)
        PROVE  /\ wire' = wire
              /\ \A bucket \in Buckets :
                    lock'[bucket].token \in {lock[bucket].token, "none", r}
    <3>1. wire' = wire /\ (lock' = lock \/ Process(request))
      BY <2>1 DEF Outcome, service
    <3> QED BY <1>0, <2>1, <3>1, ProcessToken
  <2>2. CASE pc[r] = "create" /\ Outcome(Create(NextBucket(r), r))
    <3>1. Create(NextBucket(r), r) \in Requests /\ Create(NextBucket(r), r).token = r
      BY <1>0, <2>2, RequestType DEF Acquiring, Create
    <3> QED BY <2>1, <2>2, <3>1
  <2>3. CASE /\ pc[r] = "recoverDelete"
             /\ Outcome(Delete(NextBucket(r), gen[r][NextBucket(r)], r))
    <3>1. /\ Delete(NextBucket(r), gen[r][NextBucket(r)], r) \in Requests
          /\ Delete(NextBucket(r), gen[r][NextBucket(r)], r).token = r
      BY <1>0, <2>3, RequestType DEF Acquiring, Delete
    <3> QED BY <2>1, <2>3, <3>1
  <2>4. CASE pc[r] = "release" /\ Outcome(Delete(LastBucket(r), gen[r][LastBucket(r)], r))
    <3>1. /\ Delete(LastBucket(r), gen[r][LastBucket(r)], r) \in Requests
          /\ Delete(LastBucket(r), gen[r][LastBucket(r)], r).token = r
      BY <1>0, <2>4, RequestType DEF Delete
    <3> QED BY <2>1, <2>4, <3>1
  <2>5. CASE UNCHANGED <<service, wire>>
    BY <2>5 DEF service
  <2> QED BY <2>2, <2>3, <2>4, <2>5 DEF Crash
<1> QED BY <1>0, <1>1, <1>2, <1>3, OthersReturn

(* The operator only removes locks, and nothing is on the wire. *)
LEMMA EnvironmentReturn ==
    ASSUME TypeOK, NoneLate, Land \/ \E bucket \in Buckets : RemoveLock(bucket)
    PROVE  NoneLate'
<1>1. wire = {} /\ ServiceTypeOK
  BY TypeParts DEF NoneLate
<1>2. PICK bucket \in Buckets : RemoveLock(bucket)
  BY <1>1 DEF Land
<1>3. /\ lock' = [lock EXCEPT ![bucket] = Missing]
      /\ UNCHANGED <<wire, pc, todo, held, error, releaseFailed>>
  BY <1>2 DEF RemoveLock, run
<1>4. \A s \in Runs, other \in Buckets : Locked(s, other)' => Locked(s, other)
  BY <1>1, <1>3, TokenAssumption DEF Locked, Missing, ServiceTypeOK
<1>5. ASSUME NEW s \in Runs PROVE ReturnInv(s)'
  <2>1. NextBucket(s)' = NextBucket(s) /\ ReturnInv(s)
    BY <1>3 DEF NextBucket, NoneLate
  <2> QED BY <1>3, <1>4, <2>1 DEF ReturnInv
<1> QED BY <1>1, <1>3, <1>5 DEF NoneLate

(* The invariant holds initially and is kept by every step. *)
LEMMA ReturnInductive ==
    ASSUME ~LateDelivery
    PROVE  /\ Init => NoneLate
           /\ TypeOK /\ BucketsInv /\ NoneLate /\ [Next]_vars => NoneLate'
<1>1. ASSUME Init PROVE NoneLate
  BY <1>1, TokenAssumption DEF Init, NoneLate, ReturnInv, Locked, Missing
<1>2. ASSUME NoneLate, UNCHANGED vars PROVE NoneLate'
  <2>1. UNCHANGED <<lock, wire, pc, todo, held, error, releaseFailed>>
    BY <1>2 DEF vars, service, run
  <2> QED BY <1>2, <2>1 DEF NoneLate, ReturnInv, Locked, NextBucket
<1>3. ASSUME TypeOK, BucketsInv, NoneLate, Next PROVE NoneLate'
  <2>1. ASSUME NEW r \in Runs, Step(r) PROVE NoneLate'
    BY <2>1, <1>3, SilentReturn, AcquireReturn, RecoverReadReturn, DeleteReturn
       DEF Step, Acquire, Release
  <2> QED BY <1>2, <1>3, <2>1, SilentReturn, CrashReturn, EnvironmentReturn
          DEF Next, Terminated
<1> QED BY <1>1, <1>2, <1>3

(* For any number of runs, buckets, faults, signals and kills, when no     *)
(* request is executed after its run gave up on it: a run that returns     *)
(* without a report of leftovers has left no lock of its own               *)
(* (with_bucket_locks, recover_unacknowledged_bucket_lock).                *)
THEOREM LocksGivenBack ==
    ASSUME ~LateDelivery
    PROVE  Spec => []LocksReturned
<1>1. Init => TypeOK /\ BucketsInv /\ NoneLate
  BY InitType, ReturnInductive
<1>2. TypeOK /\ BucketsInv /\ NoneLate /\ [Next]_vars => TypeOK' /\ BucketsInv' /\ NoneLate'
  BY NextType, ReturnInductive
<1>3. NoneLate => LocksReturned
  BY DEF NoneLate, ReturnInv, Locked, LocksReturned
<1> QED BY <1>1, <1>2, <1>3, PTL DEF Spec

-----------------------------------------------------------------------------
(* The argument for the order of acquisition.  While nothing goes wrong, a *)
(* run that is turned away is turned away by one that is past the bucket   *)
(* it wanted, and that one can only be turned away further on.             *)
Undisturbed == faults = 0 /\ signals = 0 /\ crashes = 0

Passed(r, bucket) == pc[r] # "start" /\ \A other \in todo[r] : other > bucket

OrderInv(r) ==
    /\ ~interrupted[r] /\ pc[r] \notin Recovering
    /\ \A bucket \in Buckets : Locked(r, bucket) => Passed(r, bucket)
    /\ IsBucketLockConflict(error[r]) => \E s \in Runs : Passed(s, NextBucket(r))

WinInv ==
    Undisturbed =>
        /\ wire = {} /\ \A r \in Runs : OrderInv(r)
        /\ \A bucket \in Buckets : ~Unlocked(bucket) => lock[bucket].token \in Runs

(* The next bucket is the first of those left to acquire. *)
LEMMA LeastIsFirst ==
    ASSUME NEW S, S \subseteq Buckets, S # {}
    PROVE  \A x \in S : Least(S) <= x
<1>1. S \subseteq Nat
  BY LockAssumption DEF Buckets
<1>2. \E x \in S : \A y \in S : x <= y
  BY <1>1, LeastNatural, Zenon
<1> QED BY <1>2 DEF Least

(* What has gone wrong stays counted. *)
LEMMA SendCounts ==
    ASSUME CountersTypeOK, NEW r, NEW request, NEW e, Send(r, request, e), Undisturbed'
    PROVE  Undisturbed
<1>1. /\ faults' = faults \/ faults' = faults + 1
      /\ signals' = signals \/ signals' = signals + 1
      /\ crashes' = crashes
  BY DEF Send, Unsent, Answered, Abandoned
<1> QED BY <1>1 DEF CountersTypeOK, Undisturbed

(* The same for every step. *)
LEMMA StepCounts ==
    ASSUME TypeOK, Next, Undisturbed'
    PROVE  Undisturbed
<1>0. CountersTypeOK
  BY TypeParts
<1>1. ASSUME NEW r \in Runs, Step(r) PROVE Undisturbed
  <2>1. CASE AcquireBucketLock(r)
    BY <1>0, <2>1, SendCounts DEF AcquireBucketLock
  <2>2. CASE RecoverBody(r) \/ RecoverGeneration(r) \/ RecoverDelete(r)
    BY <1>0, <2>2, SendCounts DEF RecoverBody, RecoverGeneration, RecoverDelete
  <2>3. CASE ReleaseBucketLock(r)
    BY <1>0, <2>3, SendCounts DEF ReleaseBucketLock
  <2>4. CASE \/ Start(r) \/ ClearForRecovery(r) \/ RegisterActiveBucketLocks(r)
             \/ Operation(r) \/ Unwind(r) \/ ClearForRelease(r) \/ Return(r)
    <3>1. UNCHANGED counters
      BY <2>4 DEF Start, ClearForRecovery, RegisterActiveBucketLocks, Operation, Unwind,
                  ClearForRelease, Return
    <3> QED BY <3>1 DEF counters, Undisturbed
  <2> QED BY <1>1, <2>1, <2>2, <2>3, <2>4 DEF Step, Acquire, Release
<1>2. ASSUME NEW r \in Runs, Signal(r) \/ Crash(r) PROVE Undisturbed
  <2>1. /\ faults' = faults
        /\ signals' = signals \/ signals' = signals + 1
        /\ crashes' = crashes \/ crashes' = crashes + 1
    BY <1>2 DEF Signal, Crash
  <2> QED BY <1>0, <2>1 DEF CountersTypeOK, Undisturbed
<1>3. CASE Land \/ Terminated \/ \E bucket \in Buckets : RemoveLock(bucket)
  BY <1>3 DEF Land, Terminated, RemoveLock, vars, counters, Undisturbed
<1> QED BY <1>1, <1>2, <1>3 DEF Next

(* While nothing goes wrong, every request is answered. *)
LEMMA UndisturbedSend ==
    ASSUME Undisturbed, Undisturbed', NEW r, ~interrupted[r], NEW request, NEW e,
           Send(r, request, e)
    PROVE  e = Status(request) /\ Process(request) /\ UNCHANGED <<wire, interrupted>>
BY DEF Undisturbed, Send, Unsent, Answered, Abandoned

(* A step of run r that passes on in its order disturbs no other run. *)
LEMMA OthersOrder ==
    ASSUME RunTypeOK, WinInv, Undisturbed, NEW r \in Runs, wire' = {}, interrupted' = interrupted,
           pc'[r] \notin Recovering,
           \A bucket \in Buckets : Passed(r, bucket) => Passed(r, bucket)',
           \A bucket \in Buckets : Locked(r, bucket)' => Passed(r, bucket)',
           IsBucketLockConflict(error'[r]) =>
              \E s \in Runs : Passed(s, NextBucket(r)) /\ NextBucket(r)' = NextBucket(r)
                              /\ NextBucket(r) \in Buckets,
           \A bucket \in Buckets : /\ lock'[bucket].token \in {lock[bucket].token, "none", r}
                                   /\ ~Unlocked(bucket)' => lock'[bucket].token \in Runs,
           \A s \in Runs : IsBucketLockConflict(error[s]) => NextBucket(s) \in Buckets,
           \A s \in Runs \ {r} : pc'[s] = pc[s] /\ todo'[s] = todo[s] /\ error'[s] = error[s]
    PROVE  WinInv'
<1>1. \A s \in Runs : OrderInv(s)
  BY DEF WinInv
<1>2. \A s \in Runs, bucket \in Buckets : Passed(s, bucket) => Passed(s, bucket)'
  BY DEF Passed
<1>3. ASSUME NEW s \in Runs PROVE OrderInv(s)'
  <2>1. ~interrupted'[s] /\ pc'[s] \notin Recovering
    BY <1>1 DEF OrderInv
  <2>2. ASSUME NEW bucket \in Buckets, Locked(s, bucket)' PROVE Passed(s, bucket)'
    BY <1>1, <1>2, <2>2, TokenAssumption DEF OrderInv, Locked
  <2>3. ASSUME IsBucketLockConflict(error'[s]) PROVE \E t \in Runs : Passed(t, NextBucket(s))'
    <3>1. /\ NextBucket(s)' = NextBucket(s) /\ NextBucket(s) \in Buckets
          /\ \E t \in Runs : Passed(t, NextBucket(s))
      <4>1. CASE s = r
        BY <2>3, <4>1
      <4>2. CASE s # r
        BY <1>1, <2>3, <4>2 DEF OrderInv, NextBucket
      <4> QED BY <4>1, <4>2
    <3>2. PICK t \in Runs : Passed(t, NextBucket(s))
      BY <3>1
    <3>3. \A bucket \in Buckets : Passed(t, bucket) => Passed(t, bucket)'
      BY <1>2
    <3> QED BY <3>1, <3>2, <3>3 DEF Passed
  <2> QED BY <2>1, <2>2, <2>3 DEF OrderInv
<1> QED BY <1>3 DEF WinInv

(* A run that was turned away still wants a bucket. *)
LEMMA ConflictBucket ==
    ASSUME RunTypeOK, RequestedInv, NEW r \in Runs, IsBucketLockConflict(error[r])
    PROVE  NextBucket(r) \in Buckets /\ pc[r] \in Releasing
BY LeastBucket DEF RequestedInv, AskedInv, NextBucket, RunTypeOK

(* The steps that acquire nothing. *)
LEMMA SilentOrder ==
    ASSUME TypeOK, RequestedInv, RequestedInv', WinInv, Undisturbed, NEW r \in Runs,
           \/ Start(r) \/ ClearForRecovery(r) \/ RegisterActiveBucketLocks(r)
           \/ Operation(r) \/ Unwind(r) \/ ClearForRelease(r) \/ Return(r)
    PROVE  WinInv'
<1>0. /\ ServiceTypeOK /\ RunTypeOK /\ OrderInv(r) /\ wire = {} /\ pc \in [Runs -> Pcs]
      /\ interrupted \in [Runs -> BOOLEAN] /\ (\A s \in Runs : ~interrupted[s])
  BY TypeParts DEF WinInv, OrderInv, RunTypeOK
<1>1. UNCHANGED <<lock, wire>> /\ pc[r] \notin Recovering
  BY <1>0 DEF Start, ClearForRecovery, RegisterActiveBucketLocks, Operation, Unwind,
         ClearForRelease, Return, service, OrderInv
<1>2. /\ \A s \in Runs \ {r} : pc'[s] = pc[s] /\ todo'[s] = todo[s] /\ error'[s] = error[s]
      /\ pc'[r] \in {"create", "operation", "unwind", "clear", "release", "ended"}
  BY <1>0, <1>1 DEF RunTypeOK, Goto, Fail, Start, ClearForRecovery, RegisterActiveBucketLocks,
         Operation, Unwind, ClearForRelease, Return, Recovering
<1>3. interrupted' = interrupted
  BY <1>0, <1>1 DEF Start, ClearForRecovery, RegisterActiveBucketLocks, Operation, Unwind,
         ClearForRelease, Return, Recovering
<1>4. pc[r] = "start" \/ todo'[r] = todo[r]
  BY <1>0, <1>1 DEF Start, ClearForRecovery, RegisterActiveBucketLocks, Operation, Unwind,
         ClearForRelease, Return, Recovering
<1>5. \A bucket \in Buckets : Passed(r, bucket) => Passed(r, bucket)'
  BY <1>2, <1>4 DEF Passed
<1>6. \A bucket \in Buckets : Locked(r, bucket)' => Passed(r, bucket)'
  BY <1>0, <1>1, <1>5 DEF OrderInv, Locked
<1>7. ASSUME IsBucketLockConflict(error'[r])
      PROVE  /\ NextBucket(r)' = NextBucket(r) /\ NextBucket(r) \in Buckets
             /\ \E s \in Runs : Passed(s, NextBucket(r))
  <2>1. IsBucketLockConflict(error[r])
    <3>1. CASE Operation(r)
      <4>1. AskedInv(r) /\ pc[r] = "operation"
        BY <3>1 DEF RequestedInv, Operation
      <4>2. BucketsToAcquire(r) = {}
        BY <4>1, ToAcquire DEF AskedInv
      <4>3. PICK kind \in {"Ok", "Message"} : Fail(r, "unwind", Err(kind))
        BY <3>1, <4>2 DEF Operation
      <4>4. error'[r] = Err(kind)
        BY <1>0, <4>3 DEF Fail, RunTypeOK
      <4> QED BY <1>7, <4>4 DEF IsBucketLockConflict, Err
    <3>2. CASE Return(r)
      <4>1. \/ error'[r] = Err("Recovery")
            \/ \E failed : error'[r] = Rollback(error[r], failed)
        BY <1>0, <3>2 DEF Return, Fail, RunTypeOK
      <4>2. error[r] \in AppErrors
        BY <1>0 DEF RunTypeOK
      <4> QED BY <1>7, <4>1, <4>2 DEF IsBucketLockConflict, Rollback, Err, AppErrors
    <3>3. CASE error' = error
      BY <1>7, <3>3
    <3> QED BY <3>1, <3>2, <3>3 DEF Start, ClearForRecovery, RegisterActiveBucketLocks,
               Unwind, ClearForRelease
  <2>2. NextBucket(r) \in Buckets /\ pc[r] \in Releasing
    BY <1>0, <2>1, ConflictBucket
  <2>3. NextBucket(r)' = NextBucket(r)
    BY <1>4, <2>2 DEF NextBucket, Releasing
  <2> QED BY <1>0, <2>1, <2>2, <2>3 DEF OrderInv
<1>8. \A bucket \in Buckets : /\ lock'[bucket].token \in {lock[bucket].token, "none", r}
                              /\ ~Unlocked(bucket)' => lock'[bucket].token \in Runs
  BY <1>1 DEF WinInv, Unlocked
<1>9. \A s \in Runs : IsBucketLockConflict(error[s]) => NextBucket(s) \in Buckets
  BY <1>0, ConflictBucket
<1>10. wire' = {} /\ pc'[r] \notin Recovering
  BY <1>0, <1>1, <1>2 DEF Recovering
<1> QED BY <1>0, <1>2, <1>3, <1>5, <1>6, <1>7, <1>8, <1>9, <1>10, OthersOrder

(* A run acquires its buckets from the first to the last; the lock it      *)
(* meets is that of a run which is past it.                                *)
LEMMA AcquireOrder ==
    ASSUME TypeOK, BucketsInv, RequestedInv, WinInv, Undisturbed, Undisturbed',
           NEW r \in Runs, AcquireBucketLock(r)
    PROVE  WinInv'
<1>0. /\ ServiceTypeOK /\ RunTypeOK /\ OrderInv(r) /\ wire = {} /\ pc[r] = "create"
      /\ ~interrupted[r]
  BY TypeParts DEF WinInv, OrderInv, AcquireBucketLock
<1>a. PICK next : next = NextBucket(r)
  OBVIOUS
<1>1. PICK request \in Requests : request = Create(next, r)
  BY <1>0, <1>a, RequestType DEF Acquiring
<1>2. /\ next \in Buckets /\ next \in todo[r]
      /\ request.bucket = next /\ request.token = r /\ request.type = "create"
  BY <1>0, <1>a, <1>1, RequestType DEF Acquiring, Create
<1>3. \A other \in todo[r] \ {next} : other > next
  <2>1. todo[r] \subseteq Buckets
    BY <1>0 DEF RunTypeOK
  <2>2. \A other \in todo[r] : next <= other
    BY <1>2, <1>a, <2>1, LeastIsFirst DEF NextBucket
  <2> QED BY <1>2, <2>1, <2>2, LockAssumption DEF Buckets
<1>4. PICK e : Send(r, request, e) /\
         IF e = "Ok"
         THEN /\ todo' = [todo EXCEPT ![r] = @ \ {next}]
              /\ \E pcr \in {"register", "create"} : pc' = [pc EXCEPT ![r] = pcr]
              /\ UNCHANGED error
         ELSE /\ e = "PreconditionFailed" =>
                    /\ pc' = [pc EXCEPT ![r] = "unwind"] /\ UNCHANGED todo
                    /\ error' = [error EXCEPT ![r] = Err("BucketLockConflict")]
  BY <1>a, <1>1 DEF AcquireBucketLock, Goto, Fail
<1>5. e = Status(request) /\ Process(request) /\ UNCHANGED <<wire, interrupted>>
  BY <1>0, <1>4, UndisturbedSend
<1>6. /\ lock \in [Buckets -> [gen : Nat, token : Runs \cup {"none"}]] /\ nextGen \in Nat \ {0}
      /\ DOMAIN pc = Runs /\ DOMAIN todo = Runs /\ DOMAIN error = Runs
  BY <1>0 DEF ServiceTypeOK, RunTypeOK
<1>7. \A s \in Runs : IsBucketLockConflict(error[s]) => NextBucket(s) \in Buckets
  BY <1>0, ConflictBucket
<1>8. CASE e = "Ok"
  <2>1. /\ todo'[r] = todo[r] \ {next} /\ pc'[r] \in {"register", "create"}
        /\ error' = error
        /\ \A s \in Runs \ {r} : pc'[s] = pc[s] /\ todo'[s] = todo[s] /\ error'[s] = error[s]
    BY <1>4, <1>6, <1>8
  <2>2. lock' = [lock EXCEPT ![next] = [gen |-> nextGen, token |-> r]]
    BY <1>2, <1>5, <1>8 DEF Process
  <2>3. \A bucket \in Buckets :
           /\ lock'[bucket].token \in {lock[bucket].token, "none", r}
           /\ ~Unlocked(bucket)' => lock'[bucket].token \in Runs
           /\ Locked(r, bucket)' => Locked(r, bucket) \/ bucket = next
    BY <1>2, <1>6, <2>2 DEF WinInv, Unlocked, Locked
  <2>4. \A bucket \in Buckets : Passed(r, bucket) => Passed(r, bucket)'
    BY <2>1 DEF Passed
  <2>5. Passed(r, next)'
    BY <1>3, <2>1 DEF Passed
  <2>6. \A bucket \in Buckets : Locked(r, bucket)' => Passed(r, bucket)'
    BY <1>0, <2>3, <2>4, <2>5 DEF OrderInv
  <2>7. ~IsBucketLockConflict(error'[r])
    BY <1>0, <2>1, ConflictBucket DEF Releasing
  <2>8. wire' = {} /\ interrupted' = interrupted /\ pc'[r] \notin Recovering
    BY <1>0, <1>5, <2>1 DEF Recovering
  <2> QED BY <1>0, <1>7, <2>1, <2>3, <2>4, <2>6, <2>7, <2>8, OthersOrder
<1>9. CASE e # "Ok"
  <2>1. e = "PreconditionFailed" /\ ~Unlocked(next)
    BY <1>2, <1>5, <1>9 DEF Status
  <2>2. lock' = lock
    BY <1>2, <1>5, <1>9 DEF Process, service
  <2>3. /\ pc'[r] = "unwind" /\ todo' = todo
        /\ \A s \in Runs \ {r} : pc'[s] = pc[s] /\ todo'[s] = todo[s] /\ error'[s] = error[s]
    BY <1>4, <1>6, <2>1
  <2>4. \A bucket \in Buckets :
           /\ lock'[bucket].token \in {lock[bucket].token, "none", r}
           /\ ~Unlocked(bucket)' => lock'[bucket].token \in Runs
           /\ Locked(r, bucket)' = Locked(r, bucket)
    BY <2>2 DEF WinInv, Unlocked, Locked
  <2>5. \A bucket \in Buckets : Passed(r, bucket) => Passed(r, bucket)'
    BY <2>3 DEF Passed
  <2>6. \A bucket \in Buckets : Locked(r, bucket)' => Passed(r, bucket)'
    BY <1>0, <2>4, <2>5 DEF OrderInv
  <2>7. \E s \in Runs : Passed(s, next)
    <3>1. lock[next].token \in Runs
      BY <1>2, <2>1 DEF WinInv
    <3>2. Locked(lock[next].token, next) /\ OrderInv(lock[next].token)
      BY <3>1 DEF Locked, WinInv
    <3> QED BY <1>2, <3>1, <3>2 DEF OrderInv
  <2>8. NextBucket(r)' = next
    BY <1>a, <2>3 DEF NextBucket
  <2>9. wire' = {} /\ interrupted' = interrupted /\ pc'[r] \notin Recovering
    BY <1>0, <1>5, <2>3 DEF Recovering
  <2> QED BY <1>0, <1>2, <1>7, <1>a, <2>3, <2>4, <2>5, <2>6, <2>7, <2>8, <2>9, OthersOrder
<1> QED BY <1>8, <1>9

(* A released bucket was passed before. *)
LEMMA ReleaseOrder ==
    ASSUME TypeOK, BucketsInv, RequestedInv, WinInv, Undisturbed, Undisturbed',
           NEW r \in Runs, ReleaseBucketLock(r)
    PROVE  WinInv'
<1>0. /\ ServiceTypeOK /\ RunTypeOK /\ OrderInv(r) /\ wire = {} /\ pc[r] = "release"
      /\ ~interrupted[r]
  BY TypeParts DEF WinInv, OrderInv, ReleaseBucketLock
<1>1. PICK request \in Requests :
         request = Delete(LastBucket(r), gen[r][LastBucket(r)], r)
  BY <1>0, RequestType
<1>2. request.type = "delete" /\ request.bucket \in Buckets
  BY <1>1 DEF Delete, Requests
<1>3. /\ \E e : Send(r, request, e)
      /\ pc' = [pc EXCEPT ![r] = "clear"] /\ UNCHANGED <<todo, error>>
  BY <1>1 DEF ReleaseBucketLock, Goto
<1>4. Process(request) /\ UNCHANGED <<wire, interrupted>>
  BY <1>0, <1>3, UndisturbedSend
<1>5. lock' = lock \/ lock' = [lock EXCEPT ![request.bucket] = Missing]
  BY <1>2, <1>4 DEF Process, service
<1>6. \A bucket \in Buckets :
         /\ lock'[bucket].token \in {lock[bucket].token, "none", r}
         /\ ~Unlocked(bucket)' => lock'[bucket].token \in Runs
         /\ Locked(r, bucket)' => Locked(r, bucket)
  BY <1>0, <1>2, <1>5, TokenAssumption DEF WinInv, Unlocked, Locked, Missing, ServiceTypeOK
<1>7. pc'[r] = "clear" /\ \A s \in Runs \ {r} : pc'[s] = pc[s]
  BY <1>0, <1>3 DEF RunTypeOK
<1>8. \A bucket \in Buckets : Passed(r, bucket) => Passed(r, bucket)'
  BY <1>3, <1>7 DEF Passed
<1>9. \A bucket \in Buckets : Locked(r, bucket)' => Passed(r, bucket)'
  BY <1>0, <1>6, <1>8 DEF OrderInv
<1>10. \A s \in Runs : IsBucketLockConflict(error[s]) => NextBucket(s) \in Buckets
  BY <1>0, ConflictBucket
<1>11. NextBucket(r)' = NextBucket(r) /\ wire' = {} /\ pc'[r] \notin Recovering
  BY <1>0, <1>3, <1>4, <1>7 DEF NextBucket, Recovering
<1> QED BY <1>0, <1>3, <1>4, <1>6, <1>7, <1>8, <1>9, <1>10, <1>11, OthersOrder DEF OrderInv

(* The invariant holds initially and is kept by every step. *)
LEMMA OrderInductive ==
    /\ Init => WinInv
    /\ /\ TypeOK /\ BucketsInv /\ RequestedInv /\ RequestedInv' /\ WinInv
       /\ [Next]_vars
       => WinInv'
<1>1. ASSUME Init PROVE WinInv
  BY <1>1, TokenAssumption DEF Init, WinInv, OrderInv, Locked, Missing, Unlocked, Recovering,
     IsBucketLockConflict, NoError, Err
<1>2. ASSUME WinInv, UNCHANGED vars PROVE WinInv'
  <2>1. UNCHANGED <<lock, wire, pc, todo, error, interrupted, faults, signals, crashes>>
    BY <1>2 DEF vars, service, counters, run
  <2>2. /\ Undisturbed' = Undisturbed /\ (\A bucket : Unlocked(bucket)' = Unlocked(bucket))
        /\ \A r : OrderInv(r)' = OrderInv(r)
    BY <2>1 DEF Undisturbed, Unlocked, OrderInv, Passed, Locked, NextBucket
  <2> QED BY <1>2, <2>1, <2>2 DEF WinInv
<1>3. ASSUME TypeOK, BucketsInv, RequestedInv, RequestedInv', WinInv, Next, Undisturbed'
      PROVE  WinInv'
  <2>0. Undisturbed
    BY <1>3, StepCounts
  <2>1. ASSUME NEW r \in Runs, Step(r) PROVE WinInv'
    <3>1. ~(RecoverBody(r) \/ RecoverGeneration(r) \/ RecoverDelete(r))
      BY <1>3, <2>0 DEF WinInv, OrderInv, Recovering, RecoverBody, RecoverGeneration,
         RecoverDelete
    <3> QED BY <1>3, <2>0, <2>1, <3>1, SilentOrder, AcquireOrder, ReleaseOrder
            DEF Step, Acquire, Release
  <2>2. ASSUME NEW r \in Runs, Signal(r) \/ Crash(r) PROVE FALSE
    BY <1>3, <2>0, <2>2 DEF Undisturbed, Signal, Crash
  <2>3. ASSUME NEW bucket \in Buckets, RemoveLock(bucket) PROVE WinInv'
    <3>1. /\ lock' = [lock EXCEPT ![bucket] = Missing]
          /\ UNCHANGED <<wire, pc, todo, error, interrupted>>
      BY <2>3 DEF RemoveLock, run
    <3>2. ServiceTypeOK
      BY <1>3, TypeParts
    <3>3. /\ \A s \in Runs, other \in Buckets : Locked(s, other)' => Locked(s, other)
          /\ \A other \in Buckets : ~Unlocked(other)' => lock'[other].token \in Runs
      BY <1>3, <2>0, <3>1, <3>2, TokenAssumption
         DEF WinInv, Unlocked, Locked, Missing, ServiceTypeOK
    <3>4. ASSUME NEW s \in Runs PROVE OrderInv(s)'
      BY <1>3, <2>0, <3>1, <3>3 DEF WinInv, OrderInv, Passed, NextBucket
    <3> QED BY <1>3, <2>0, <3>1, <3>3, <3>4 DEF WinInv
  <2>4. CASE Land
    BY <1>3, <2>0, <2>4 DEF Land, WinInv
  <2> QED BY <1>2, <1>3, <2>1, <2>2, <2>3, <2>4 DEF Next, Terminated
<1>4. ~Undisturbed' => WinInv'
  BY DEF WinInv
<1> QED BY <1>1, <1>2, <1>3, <1>4

(* For any number of runs and buckets, in whatever order they are named:   *)
(* when no request fails, no signal arrives and no run is killed, the runs *)
(* that contend do not all turn each other away (buckets_to_acquire.sort). *)
THEOREM SortedOrderWins ==
    ASSUME Runs # {}
    PROVE  Spec => []SomeRunWins
<1>1. Init => TypeOK /\ BucketsInv /\ LockInv /\ RequestedInv /\ WinInv
  BY InitType, LockInductive, RequestedInductive, OrderInductive
<1>2. TypeOK /\ BucketsInv /\ LockInv /\ RequestedInv /\ WinInv /\ [Next]_vars =>
         TypeOK' /\ BucketsInv' /\ LockInv' /\ RequestedInv' /\ WinInv'
  BY NextType, LockInductive, RequestedInductive, OrderInductive
<1>3. TypeOK /\ RequestedInv /\ WinInv => SomeRunWins
  <2> SUFFICES ASSUME TypeOK, RequestedInv, WinInv, faults + signals + crashes = 0,
                      \A r \in Runs : pc[r] = "ended",
                      \A r \in Runs : IsBucketLockConflict(error[r])
               PROVE  FALSE
    BY DEF SomeRunWins
  <2>0. RunTypeOK /\ CountersTypeOK
    BY TypeParts
  <2>1. Undisturbed
    BY <2>0, LockAssumption DEF Undisturbed, CountersTypeOK
  <2>2. \A r \in Runs : NextBucket(r) \in Buckets /\ NextBucket(r) \in todo[r]
    BY <2>0, LeastBucket DEF RequestedInv, AskedInv, NextBucket, RunTypeOK
  <2> DEFINE wanted == {NextBucket(r) : r \in Runs}
  <2>3. wanted \subseteq Buckets /\ wanted # {}
    BY <2>2
  <2>4. PICK r \in Runs : \A s \in Runs : NextBucket(r) >= NextBucket(s)
    <3>1. \E x \in wanted : \A y \in wanted : x >= y
      <4> HIDE DEF wanted
      <4> QED BY <2>3, GreatestIsLast
    <3> QED BY <3>1
  <2>5. PICK s \in Runs : Passed(s, NextBucket(r))
    BY <2>1 DEF WinInv, OrderInv
  <2>6. NextBucket(s) > NextBucket(r) /\ NextBucket(r) \in Nat /\ NextBucket(s) \in Nat
    BY <2>2, <2>5, LockAssumption DEF Passed, Buckets
  <2> QED BY <2>4, <2>6
<1> QED BY <1>1, <1>2, <1>3, PTL DEF Spec
=============================================================================
