----------------------------- MODULE BucketLock -----------------------------
(***************************************************************************)
(* The bucket lock of StorageApi (src/storage.rs): several runs of the     *)
(* program, each wrapping its workflow in with_bucket_locks.  A lock is an *)
(* object with a reserved name, created on the condition that it is        *)
(* missing, whose body is a token drawn for this acquisition.              *)
(*                                                                         *)
(* A bucket is a number: bucket names are acquired in sorted order and     *)
(* only that order matters.  A run acquires each of its buckets once, so   *)
(* the run itself stands for the token it writes.  `Signal` sets the       *)
(* interrupt flag of a run, `Crash` ends it without cleanup, `RemoveLock`  *)
(* is the operator who deletes a lock whose run is not active any more     *)
(* and `Land` is a request that its run gave up on and that the service    *)
(* executes late.                                                          *)
(***************************************************************************)
EXTENDS Naturals, Sequences, AppError

CONSTANTS
    Runs, BucketCount,
    Wanted,         \* the buckets each run passes to with_bucket_locks
    FaultKinds, MaxFaults, MaxSignals, MaxCrashes,
    LateDelivery    \* may an abandoned request be executed later?

Buckets == 1..BucketCount

Faults == {"Token", "HttpConnect", "Http", "StorageResponse"}

ASSUME LockAssumption ==
    /\ BucketCount \in Nat
    /\ Wanted \in [Runs -> Seq(Buckets)]
    /\ MaxFaults \in Nat /\ MaxSignals \in Nat /\ MaxCrashes \in Nat
    /\ FaultKinds \subseteq Faults /\ LateDelivery \in BOOLEAN

(* No run draws the value that stands for the token of a missing lock. *)
ASSUME TokenAssumption == "none" \notin Runs

VARIABLES
    lock,         \* the lock object of every bucket; generation 0: missing
    nextGen, wire,
    faults, signals, crashes,
    pc, interrupted,
    todo,         \* buckets_to_acquire that are still to be acquired
    held,         \* buckets of the vector `locks` of with_bucket_locks
    gen,          \* their generations, and the one recovery has read
    active,       \* active_bucket_locks
    error,        \* the result of acquisition or operation, then of the run
    releaseFailed, committed

service == <<lock, nextGen>>
counters == <<faults, signals, crashes>>
run == <<pc, interrupted, todo, held, gen, active, error, releaseFailed, committed>>
vars == <<service, wire, counters, run>>

Missing == [gen |-> 0, token |-> "none"]
Unlocked(bucket) == lock[bucket].gen = 0

Pcs == {"start", "create", "unacknowledged", "recoverBody", "recoverGeneration",
        "recoverDelete", "register", "operation", "unwind", "clear", "release",
        "ended", "crashed"}
Running(r) == pc[r] \notin {"ended", "crashed"}

-----------------------------------------------------------------------------
(* The service. *)

Create(bucket, r) ==
    [type |-> "create", bucket |-> bucket, generation |-> 0, token |-> r]
Read(bucket, r) ==
    [type |-> "read", bucket |-> bucket, generation |-> 0, token |-> r]
Delete(bucket, generation, r) ==
    [type |-> "delete", bucket |-> bucket, generation |-> generation, token |-> r]

Requests == [type : {"create", "read", "delete"}, bucket : Buckets,
             generation : Nat, token : Runs]

Status(request) ==
    CASE request.type = "create" ->
            IF Unlocked(request.bucket) THEN "Ok" ELSE "PreconditionFailed"
      [] request.type = "read" ->
            IF Unlocked(request.bucket) THEN "NotFound" ELSE "Ok"
      [] OTHER ->
            IF ~Unlocked(request.bucket) /\ request.generation = lock[request.bucket].gen
            THEN "Ok" ELSE "NotFound"

Process(request) ==
    CASE request.type = "create" /\ Status(request) = "Ok" ->
            /\ lock' = [lock EXCEPT ![request.bucket] =
                           [gen |-> nextGen, token |-> request.token]]
            /\ nextGen' = nextGen + 1
      [] request.type = "delete" /\ Status(request) = "Ok" ->
            /\ lock' = [lock EXCEPT ![request.bucket] = Missing]
            /\ UNCHANGED nextGen
      [] OTHER -> UNCHANGED service

-----------------------------------------------------------------------------
(* StorageTransport::send_request, as in RemoteMoves. *)

Unsent(r, e) ==
    /\ \/ interrupted[r] /\ e \in {"TokenInterrupted", "Interrupted"} /\ UNCHANGED faults
       \/ /\ e = "Token" \/ (e = "HttpConnect" /\ ~interrupted[r])
          /\ e \in FaultKinds /\ faults < MaxFaults
          /\ faults' = faults + 1
    /\ UNCHANGED <<service, wire, signals, interrupted>>

Answered(r, request, e) ==
    /\ ~interrupted[r]
    /\ e = Status(request)
    /\ Process(request)
    /\ UNCHANGED <<wire, faults, signals, interrupted>>

Outcome(request) ==
    \/ Process(request) /\ UNCHANGED wire
    \/ UNCHANGED <<service, wire>>
    \/ /\ LateDelivery /\ request.type # "read"
       /\ wire' = wire \cup {request} /\ UNCHANGED service

Abandoned(r, request, e) ==
    /\ ~interrupted[r]
    /\ \/ /\ e = "Http" /\ e \in FaultKinds /\ faults < MaxFaults
          /\ faults' = faults + 1
          /\ Outcome(request)
          /\ UNCHANGED <<signals, interrupted>>
       \/ /\ e = "StorageResponse" /\ e \in FaultKinds /\ faults < MaxFaults
          /\ request.type # "delete" /\ Status(request) = "Ok"
          /\ faults' = faults + 1
          /\ Process(request)
          /\ UNCHANGED <<wire, signals, interrupted>>
       \/ /\ e = "InterruptedAfterRequest" /\ signals < MaxSignals
          /\ signals' = signals + 1
          /\ interrupted' = [interrupted EXCEPT ![r] = TRUE]
          /\ Outcome(request)
          /\ UNCHANGED faults

Send(r, request, e) ==
    /\ Unsent(r, e) \/ Answered(r, request, e) \/ Abandoned(r, request, e)
    /\ UNCHANGED crashes

-----------------------------------------------------------------------------
Goto(r, next) == pc' = [pc EXCEPT ![r] = next]
Fail(r, next, err) == Goto(r, next) /\ error' = [error EXCEPT ![r] = err]

(* with_bucket_locks sorts and deduplicates the names and leaves out the   *)
(* buckets that this thread has registered.                                *)
BucketsToAcquire(r) == {Wanted[r][i] : i \in DOMAIN Wanted[r]} \ active[r]

Least(buckets) == CHOOSE bucket \in buckets : \A other \in buckets : bucket <= other
Greatest(buckets) == CHOOSE bucket \in buckets : \A other \in buckets : bucket >= other

(* Mutant: acquires in the order in which the caller names the buckets. *)
NextBucketAsNamed(r) ==
    LET first == Least({i \in DOMAIN Wanted[r] : Wanted[r][i] \in todo[r]})
    IN  Wanted[r][first]

NextBucket(r) == Least(todo[r])
LastBucket(r) == Greatest(held[r])

Start(r) ==
    /\ pc[r] = "start"
    /\ todo' = [todo EXCEPT ![r] = BucketsToAcquire(r)]
    /\ Goto(r, IF BucketsToAcquire(r) = {} THEN "operation" ELSE "create")
    /\ UNCHANGED <<service, wire, counters, interrupted, held, gen, active, error,
                   releaseFailed, committed>>

(* acquire_bucket_lock: a 412 is a conflict, an ambiguous failure is       *)
(* recovered, any other failure is returned.                               *)
AcquireBucketLock(r) ==
    /\ pc[r] = "create"
    /\ \E e \in ErrorKinds :
          /\ Send(r, Create(NextBucket(r), r), e)
          /\ IF e = "Ok"
             THEN /\ held' = [held EXCEPT ![r] = @ \cup {NextBucket(r)}]
                  /\ gen' = [gen EXCEPT ![r][NextBucket(r)] = nextGen]
                  /\ todo' = [todo EXCEPT ![r] = @ \ {NextBucket(r)}]
                  /\ Goto(r, IF todo[r] = {NextBucket(r)} THEN "register" ELSE "create")
                  /\ UNCHANGED error
             ELSE /\ CASE e = "PreconditionFailed" ->
                             Fail(r, "unwind", Err("BucketLockConflict"))
                       [] e # "PreconditionFailed" /\ MayHaveReachedStorage(Err(e)) ->
                             Fail(r, "unacknowledged", Err(e))
                       [] OTHER -> Fail(r, "unwind", Err(e))
                  /\ UNCHANGED <<held, gen, todo>>
    /\ UNCHANGED <<active, releaseFailed, committed>>

(* A timeout can occur after the create request succeeded. *)
ClearForRecovery(r) ==
    /\ pc[r] = "unacknowledged"
    /\ interrupted' = [interrupted EXCEPT ![r] = FALSE]
    /\ Goto(r, "recoverBody")
    /\ UNCHANGED <<service, wire, counters, todo, held, gen, active, error,
                   releaseFailed, committed>>

(* Mutant: takes any lock for its own. *)
RecoverBodyUnchecked(r) ==
    /\ pc[r] = "recoverBody"
    /\ \E e \in ErrorKinds \ {"StorageResponse"} :
          /\ Send(r, Read(NextBucket(r), r), e)
          /\ IF e # "Ok" THEN Fail(r, "unwind", Rollback(error[r], TRUE))
             ELSE Goto(r, "recoverGeneration") /\ UNCHANGED error
    /\ UNCHANGED <<todo, held, gen, active, releaseFailed, committed>>

(* recover_unacknowledged_bucket_lock: read the body, and delete the lock  *)
(* only when the body is the token of this run.                            *)
RecoverBody(r) ==
    /\ pc[r] = "recoverBody"
    /\ \E e \in ErrorKinds \ {"StorageResponse"} :
          /\ Send(r, Read(NextBucket(r), r), e)
          /\ CASE e # "Ok" -> Fail(r, "unwind", Rollback(error[r], TRUE))
               [] e = "Ok" /\ lock[NextBucket(r)].token # r ->
                     Goto(r, "unwind") /\ UNCHANGED error
               [] OTHER -> Goto(r, "recoverGeneration") /\ UNCHANGED error
    /\ UNCHANGED <<todo, held, gen, active, releaseFailed, committed>>

(* Mutant: keeps the body of the lock where its generation belongs. *)
RecoverGenerationOfBody(r) ==
    /\ pc[r] = "recoverGeneration"
    /\ \E e \in ErrorKinds :
          /\ Send(r, Read(NextBucket(r), r), e)
          /\ IF e = "Ok"
             THEN /\ gen' = [gen EXCEPT ![r][NextBucket(r)] = lock[NextBucket(r)].token]
                  /\ Goto(r, "recoverDelete") /\ UNCHANGED error
             ELSE Fail(r, "unwind", Rollback(error[r], TRUE)) /\ UNCHANGED gen
    /\ UNCHANGED <<todo, held, active, releaseFailed, committed>>

RecoverGeneration(r) ==
    /\ pc[r] = "recoverGeneration"
    /\ \E e \in ErrorKinds :
          /\ Send(r, Read(NextBucket(r), r), e)
          /\ IF e = "Ok"
             THEN /\ gen' = [gen EXCEPT ![r][NextBucket(r)] = lock[NextBucket(r)].gen]
                  /\ Goto(r, "recoverDelete") /\ UNCHANGED error
             ELSE Fail(r, "unwind", Rollback(error[r], TRUE)) /\ UNCHANGED gen
    /\ UNCHANGED <<todo, held, active, releaseFailed, committed>>

RecoverDelete(r) ==
    /\ pc[r] = "recoverDelete"
    /\ \E e \in ErrorKinds :
          /\ Send(r, Delete(NextBucket(r), gen[r][NextBucket(r)], r), e)
          /\ Fail(r, "unwind", Rollback(error[r], e # "Ok"))
    /\ UNCHANGED <<todo, held, gen, active, releaseFailed, committed>>

(* Mutant: registers only the last lock it acquired. *)
RegisterLastBucketLock(r) ==
    /\ pc[r] = "register"
    /\ active' = [active EXCEPT ![r] = @ \cup {LastBucket(r)}]
    /\ Goto(r, "operation")
    /\ UNCHANGED <<service, wire, counters, interrupted, todo, held, gen, error,
                   releaseFailed, committed>>

RegisterActiveBucketLocks(r) ==
    /\ pc[r] = "register"
    /\ active' = [active EXCEPT ![r] = @ \cup held[r]]
    /\ Goto(r, "operation")
    /\ UNCHANGED <<service, wire, counters, interrupted, todo, held, gen, error,
                   releaseFailed, committed>>

(* The workflow.  Its storage calls ask for the buckets again: they are    *)
(* registered, otherwise the call would meet the lock of its own run.      *)
(* "Message" stands for any error of the workflow.                         *)
Operation(r) ==
    /\ pc[r] = "operation"
    /\ \E outcome \in {"Ok", "Message"} :
          LET kind == IF BucketsToAcquire(r) = {} THEN outcome ELSE "BucketLockConflict"
          IN  /\ Fail(r, "unwind", Err(kind))
              /\ committed' = [committed EXCEPT ![r] = kind = "Ok"]
    /\ UNCHANGED <<service, wire, counters, interrupted, todo, held, gen, active,
                   releaseFailed>>

(* unregister_active_bucket_locks, then clear the flag and release. *)
Unwind(r) ==
    /\ pc[r] = "unwind"
    /\ active' = [active EXCEPT ![r] = {}]
    /\ interrupted' = [interrupted EXCEPT ![r] = FALSE]
    /\ Goto(r, "clear")
    /\ UNCHANGED <<service, wire, counters, todo, held, gen, error, releaseFailed,
                   committed>>

(* release_bucket_locks, from the last lock to the first, clears the flag  *)
(* before every delete and goes on after a failure.                        *)
ClearForRelease(r) ==
    /\ pc[r] = "clear" /\ held[r] # {}
    /\ interrupted' = [interrupted EXCEPT ![r] = FALSE]
    /\ Goto(r, "release")
    /\ UNCHANGED <<service, wire, counters, todo, held, gen, active, error,
                   releaseFailed, committed>>

(* Mutant: releases a lock again until the service agrees. *)
ReleaseBucketLockRetrying(r) ==
    /\ pc[r] = "release"
    /\ \E e \in ErrorKinds :
          /\ Send(r, Delete(LastBucket(r), gen[r][LastBucket(r)], r), e)
          /\ releaseFailed' = [releaseFailed EXCEPT ![r] = @ \/ e # "Ok"]
          /\ held' = IF e = "Ok" THEN [held EXCEPT ![r] = @ \ {LastBucket(r)}] ELSE held
    /\ Goto(r, "clear")
    /\ UNCHANGED <<todo, gen, active, error, committed>>

ReleaseBucketLock(r) ==
    /\ pc[r] = "release"
    /\ \E e \in ErrorKinds :
          /\ Send(r, Delete(LastBucket(r), gen[r][LastBucket(r)], r), e)
          /\ releaseFailed' = [releaseFailed EXCEPT ![r] = @ \/ e # "Ok"]
    /\ held' = [held EXCEPT ![r] = @ \ {LastBucket(r)}]
    /\ Goto(r, "clear")
    /\ UNCHANGED <<todo, gen, active, error, committed>>

Return(r) ==
    /\ pc[r] = "clear" /\ held[r] = {}
    /\ Fail(r, "ended",
            IF IsOk(error[r]) /\ releaseFailed[r] THEN Err("Recovery")
            ELSE Rollback(error[r], releaseFailed[r]))
    /\ UNCHANGED <<service, wire, counters, interrupted, todo, held, gen, active,
                   releaseFailed, committed>>

-----------------------------------------------------------------------------
(* The environment. *)

Signal(r) ==
    /\ Running(r) /\ signals < MaxSignals /\ ~interrupted[r]
    /\ signals' = signals + 1
    /\ interrupted' = [interrupted EXCEPT ![r] = TRUE]
    /\ UNCHANGED <<service, wire, faults, crashes, pc, todo, held, gen, active, error,
                   releaseFailed, committed>>

(* A forced termination, between two requests or during one. *)
Crash(r) ==
    /\ Running(r) /\ crashes < MaxCrashes
    /\ crashes' = crashes + 1
    /\ CASE pc[r] = "create" -> Outcome(Create(NextBucket(r), r))
         [] pc[r] = "recoverDelete" ->
               Outcome(Delete(NextBucket(r), gen[r][NextBucket(r)], r))
         [] pc[r] = "release" -> Outcome(Delete(LastBucket(r), gen[r][LastBucket(r)], r))
         [] OTHER -> UNCHANGED <<service, wire>>
    /\ Goto(r, "crashed")
    /\ UNCHANGED <<faults, signals, interrupted, todo, held, gen, active, error,
                   releaseFailed, committed>>

(* The README asks the operator to make sure first that no run is active.  *)
RemoveLock(bucket) ==
    /\ ~Unlocked(bucket) /\ ~Running(lock[bucket].token)
    /\ lock' = [lock EXCEPT ![bucket] = Missing]
    /\ UNCHANGED <<nextGen, wire, counters, run>>

Land ==
    \E request \in wire :
        /\ Process(request)
        /\ wire' = wire \ {request}
        /\ UNCHANGED <<counters, run>>

Terminated == (\A r \in Runs : ~Running(r)) /\ UNCHANGED vars

Acquire(r) ==
    \/ Start(r) \/ AcquireBucketLock(r) \/ ClearForRecovery(r) \/ RecoverBody(r)
    \/ RecoverGeneration(r) \/ RecoverDelete(r) \/ RegisterActiveBucketLocks(r)
Release(r) == Unwind(r) \/ ClearForRelease(r) \/ ReleaseBucketLock(r) \/ Return(r)
Step(r) == Acquire(r) \/ Operation(r) \/ Release(r)

Next ==
    \/ \E r \in Runs : Step(r) \/ Signal(r) \/ Crash(r)
    \/ \E bucket \in Buckets : RemoveLock(bucket)
    \/ Land
    \/ Terminated

Init ==
    /\ lock = [bucket \in Buckets |-> Missing]
    /\ nextGen = 1 /\ wire = {}
    /\ faults = 0 /\ signals = 0 /\ crashes = 0
    /\ pc = [r \in Runs |-> "start"]
    /\ interrupted = [r \in Runs |-> FALSE]
    /\ todo = [r \in Runs |-> {}] /\ held = [r \in Runs |-> {}]
    /\ gen = [r \in Runs |-> [bucket \in Buckets |-> 0]]
    /\ active = [r \in Runs |-> {}]
    /\ error = [r \in Runs |-> NoError]
    /\ releaseFailed = [r \in Runs |-> FALSE] /\ committed = [r \in Runs |-> FALSE]

Spec == Init /\ [][Next]_vars

(* A run that is not killed goes on: every request is answered or times    *)
(* out, and nothing in with_bucket_locks waits for another run.            *)
FairSpec == Spec /\ \A r \in Runs : WF_vars(Step(r))

-----------------------------------------------------------------------------
(* The shape of every variable. *)
TypeOK ==
    /\ lock \in [Buckets -> [gen : Nat, token : Runs \cup {"none"}]]
    /\ nextGen \in Nat \ {0} /\ wire \subseteq Requests
    /\ faults \in 0..MaxFaults /\ signals \in 0..MaxSignals /\ crashes \in 0..MaxCrashes
    /\ pc \in [Runs -> Pcs] /\ interrupted \in [Runs -> BOOLEAN]
    /\ todo \in [Runs -> SUBSET Buckets] /\ held \in [Runs -> SUBSET Buckets]
    /\ gen \in [Runs -> [Buckets -> Nat]] /\ active \in [Runs -> SUBSET Buckets]
    /\ error \in [Runs -> AppErrors]
    /\ releaseFailed \in [Runs -> BOOLEAN] /\ committed \in [Runs -> BOOLEAN]

(* Two runs never work on one bucket at the same time, whatever answers    *)
(* are lost, whatever requests are executed late and whichever runs are    *)
(* killed and cleaned up after by an operator who follows the README.      *)
MutualExclusion ==
    \A r, s \in Runs :
        r # s /\ pc[r] = "operation" /\ pc[s] = "operation" => active[r] \cap active[s] = {}

(* The refinement mapping: a run is inside while its workflow runs. *)
Requested == [r \in Runs |-> {Wanted[r][i] : i \in DOMAIN Wanted[r]}]
Inside == [r \in Runs |-> IF pc[r] = "operation" THEN active[r] ELSE {}]

Lock == INSTANCE AtomicLock WITH inside <- Inside

(* The lock objects implement AtomicLock: although the buckets are         *)
(* acquired one request at a time, in an order of their own, with lost     *)
(* answers and killed runs in between, a run enters all of them at once or *)
(* none, never while another is inside one (with_bucket_locks).            *)
ImplementsAtomicLock == Lock!Spec

(* A run that returns success or an error that does not report leftovers   *)
(* has left no lock of its own: an ambiguous creation is recovered before  *)
(* acquire_bucket_lock returns.                                            *)
LocksReturned ==
    \A r \in Runs :
        pc[r] = "ended" /\ ~ReportsLeftovers(error[r]) =>
            \A bucket \in Buckets : lock[bucket].token # r

(* The sorted acquisition order lets a run win: if no request fails, no    *)
(* signal arrives and no run is killed, the runs that contend for several  *)
(* buckets do not all turn each other away.                                *)
SomeRunWins ==
    (\A r \in Runs : pc[r] = "ended") /\ faults + signals + crashes = 0 =>
        \E r \in Runs : ~IsBucketLockConflict(error[r])

(* The nested calls of a workflow reuse its locks: a run is turned away    *)
(* only while a bucket is left to acquire, never by its own lock.          *)
NoSelfConflict ==
    \A r \in Runs : IsBucketLockConflict(error[r]) => todo[r] # {}

(* Every run that is not killed returns: none waits for another's lock.    *)
Termination == \A r \in Runs : <>~Running(r)

(* "Once the operation reports success, its changes are committed; a       *)
(* signal observed while releasing the lock must not make callers retry    *)
(* it" (with_bucket_locks): signals alone never turn a success into an     *)
(* error.                                                                  *)
SignalKeepsSuccess ==
    \A r \in Runs :
        pc[r] = "ended" /\ committed[r] /\ faults + crashes = 0 => IsOk(error[r])
=============================================================================
