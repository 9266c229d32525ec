---------------------------- MODULE RemoteMoves ----------------------------
(***************************************************************************)
(* One remote object move, its undo and the confirmation after a failure,  *)
(* one step per Cloud Storage request: StorageApi::move_object,            *)
(* rollback_object and confirm_move_after_failure (src/storage.rs),        *)
(* object_move::execute (src/object_move.rs), the request classification   *)
(* of StorageTransport::send_request (src/storage_transport.rs) and the    *)
(* interrupt flag (src/lib.rs).                                            *)
(*                                                                         *)
(* The program is sequential: `op` is its call stack inside the move.      *)
(* Around it move the signal handler (Signal), other writers of the bucket *)
(* (ForeignWrite, ForeignDelete) and, when LateDelivery holds, requests    *)
(* the client has given up on and the service still executes (Land).       *)
(***************************************************************************)
EXTENDS Naturals, AppError

CONSTANTS
    Names,          \* object names of the bucket
    FaultKinds,     \* the ways a request may fail, a subset of Faults
    MaxFaults,      \* how many requests fail
    MaxSignals,     \* how many times SIGINT or SIGTERM arrives
    MaxPages,       \* rewrite responses with done = false before the last one
    MaxForeign,     \* writes and deletes of writers that ignore the lock
    LateDelivery    \* may an abandoned request be executed later?

Faults == {"Token", "HttpConnect", "Http", "StorageResponse"}

ASSUME BoundsAssumption ==
    /\ MaxFaults \in Nat /\ MaxSignals \in Nat /\ MaxPages \in Nat /\ MaxForeign \in Nat
    /\ FaultKinds \subseteq Faults
    /\ LateDelivery \in BOOLEAN

VARIABLES
    objects,      \* the live version of every name; generation 0: missing
    nextGen,      \* the generation the service gives to the next version
    wire,         \* abandoned requests that the service may still execute
    interrupted,  \* InterruptFlag
    faults, signals, meddled,  \* how often the environment has acted
    others,       \* generations of other writers that this run has not copied
    op            \* the remote operation in progress

service == <<objects, nextGen, others>>
environment == <<wire, faults, signals, meddled>>
moveVars == <<service, environment, interrupted, op>>

Versions == [gen : Nat, data : Names \cup {"none", "foreign"}]
Absent == [gen |-> 0, data |-> "none"]
Present(name) == objects[name].gen # 0

-----------------------------------------------------------------------------
(* The service.  A generation of 0 in a request means that none was given. *)

Get(name, generation) ==
    [type |-> "get", name |-> name, generation |-> generation, to |-> name]
Rewrite(name, generation, to) ==
    [type |-> "rewrite", name |-> name, generation |-> generation, to |-> to]
RewritePage(name, generation, to) ==
    [type |-> "page", name |-> name, generation |-> generation, to |-> to]
Delete(name, generation) ==
    [type |-> "delete", name |-> name, generation |-> generation, to |-> name]

(* An upload; `to` is the content. *)
Write(name, data) == [type |-> "write", name |-> name, generation |-> 0, to |-> data]

Requests == [type : {"get", "rewrite", "page", "delete", "write"}, name : Names,
             generation : Nat, to : Names]

(* Every write and rewrite carries ifGenerationMatch=0 for what it creates. *)
Status(request) ==
    LET created == IF request.type = "write" THEN request.name ELSE request.to
    IN  IF /\ request.type # "write"
           /\ \/ ~Present(request.name)
              \/ request.generation \notin {0, objects[request.name].gen}
        THEN "NotFound"
        ELSE IF request.type \in {"rewrite", "page", "write"} /\ Present(created)
        THEN "PreconditionFailed" ELSE "Ok"

(* The generation in the response of a request that succeeds. *)
Generation(request) ==
    IF request.type \in {"rewrite", "write"} THEN nextGen ELSE objects[request.name].gen

(* What the service does with a request when it executes it. *)
Process(request) ==
    CASE request.type = "rewrite" /\ Status(request) = "Ok" ->
            /\ objects' = [objects EXCEPT ![request.to] =
                              [gen |-> nextGen, data |-> objects[request.name].data]]
            /\ nextGen' = nextGen + 1
            /\ others' = others \ {objects[request.name].gen}
      [] request.type = "write" /\ Status(request) = "Ok" ->
            /\ objects' = [objects EXCEPT ![request.name] =
                              [gen |-> nextGen, data |-> request.to]]
            /\ nextGen' = nextGen + 1
            /\ UNCHANGED others
      [] request.type = "delete" /\ Status(request) = "Ok" ->
            /\ objects' = [objects EXCEPT ![request.name] = Absent]
            /\ UNCHANGED <<nextGen, others>>
      [] OTHER -> UNCHANGED service

-----------------------------------------------------------------------------
(* StorageTransport::send_body and send_json: the result of one request,   *)
(* from the token lookup to the classified answer.                         *)

(* The request does not leave: gcloud gives no token, the flag is already  *)
(* set, or no connection can be made.                                      *)
Unsent(e) ==
    /\ \/ interrupted /\ e \in {"TokenInterrupted", "Interrupted"} /\ UNCHANGED faults
       \/ /\ e = "Token" \/ (e = "HttpConnect" /\ ~interrupted)
          /\ e \in FaultKinds /\ faults < MaxFaults
          /\ faults' = faults + 1
    /\ UNCHANGED <<service, wire, signals, meddled, interrupted>>

(* The answer arrives and no signal has come: response_data. *)
Answered(request, e) ==
    /\ ~interrupted
    /\ e = Status(request)
    /\ Process(request)
    /\ UNCHANGED <<environment, interrupted>>

(* A request whose answer is lost: it was executed, was not, or still is   *)
(* on its way.                                                             *)
Outcome(request) ==
    \/ Process(request) /\ UNCHANGED wire
    \/ UNCHANGED <<service, wire>>
    \/ /\ LateDelivery /\ request.type \in {"rewrite", "delete", "write"}
       /\ wire' = wire \cup {request} /\ UNCHANGED service

(* "Http" stands for a broken or timed out exchange and for a 5xx answer,  *)
(* "StorageResponse" for a success whose body cannot be parsed (a delete   *)
(* ignores its body), "InterruptedAfterRequest" for a signal that arrives  *)
(* while the request is under way.                                         *)
Abandoned(request, e) ==
    /\ ~interrupted
    /\ \/ /\ e = "Http" /\ e \in FaultKinds /\ faults < MaxFaults
          /\ faults' = faults + 1
          /\ Outcome(request)
          /\ UNCHANGED <<signals, interrupted>>
       \/ /\ e = "StorageResponse" /\ e \in FaultKinds /\ faults < MaxFaults
          /\ request.type # "delete" /\ Status(request) = "Ok"
          /\ faults' = faults + 1
          /\ Process(request)
          /\ UNCHANGED <<wire, signals, interrupted>>
       \/ /\ e = "InterruptedAfterRequest" /\ signals < MaxSignals
          /\ signals' = signals + 1 /\ interrupted' = TRUE
          /\ Outcome(request)
          /\ UNCHANGED faults
    /\ UNCHANGED meddled

Send(request, e) == Unsent(e) \/ Answered(request, e) \/ Abandoned(request, e)

-----------------------------------------------------------------------------
(* The operation in progress.  Its caller is object_move::execute ("move") *)
(* or the rollback of a transaction ("transaction", and "cleanup" when it  *)
(* removes an object instead of moving it back).  A move reads sgen        *)
(* and creates tgen; an undo owns tgen and creates sgen.  sourceSeen and   *)
(* targetSeen hold an ObjectState, or "failed" for a lookup that failed.   *)

MovePcs == {"generation", "copy", "confirmCopy", "deleteSource", "sourceState",
            "confirmMove", "interruptedMove", "undoSource"}
UndoPcs == {"cleanupState", "cleanupDelete", "cleanupConfirm", "rbSource", "rbTarget",
            "rbCopy", "rbConfirmCopy", "rbDelete", "rbTargetState", "rbConfirm"}
FailurePcs == {"failed", "confirmSource", "confirmTarget"}

Lookups == {"present", "missing", "failed"}

OpPcs == MovePcs \cup UndoPcs \cup FailurePcs \cup {"done"}
Ops == [pc : OpPcs,
        caller : {"move", "transaction", "cleanup"}, source : Names, target : Names,
        sgen : Nat, tgen : Nat, pages : Nat, sourceSeen : Lookups,
        targetSeen : Lookups, error : AppErrors]

Idle == [pc |-> "idle"]

Call(pc, caller, source, target, sgen, tgen) ==
    [pc |-> pc, caller |-> caller, source |-> source, target |-> target,
     sgen |-> sgen, tgen |-> tgen, pages |-> 0, sourceSeen |-> "failed",
     targetSeen |-> "failed", error |-> NoError]

(* object_move::execute; a generation of 0 stands for None. *)
MoveCall(source, target, generation) ==
    Call(IF generation = 0 THEN "generation" ELSE "copy", "move",
         source, target, generation, 0)

(* StorageClient::rollback_object. *)
RollbackCall(source, target, generation) ==
    Call("rbSource", "transaction", source, target, 0, generation)

(* StorageClient::cleanup_object. *)
CleanupCall(target, generation) ==
    Call("cleanupState", "cleanup", target, target, 0, generation)

Goto(pc) == [op EXCEPT !.pc = pc]
Return(error) == [op EXCEPT !.pc = "done", !.error = error]
(* move_object returns an error to execute, which confirms it. *)
Fail(error) == [op EXCEPT !.pc = "failed", !.error = error]

(* An error inside the body of move_object_unlocked: only an interrupt is  *)
(* undone on the spot.                                                     *)
MoveFailed(error) ==
    [op EXCEPT !.pc = IF IsInterrupted(error) THEN "interruptedMove" ELSE "failed",
               !.error = error]

(* The undo inside a move wraps the interrupt; the undo of a transaction   *)
(* returns its own error.                                                  *)
UndoFailed(error) ==
    IF op.caller = "move" THEN Fail(Rollback(op.error, TRUE)) ELSE Return(error)

CleanupDone == IF op.caller = "move" THEN Fail(Err("Interrupted")) ELSE Return(NoError)
RollbackDone ==
    Return(IF op.caller = "move" THEN InterruptedAfterMoveRollback(op.sgen) ELSE NoError)

(* object_state: a 404 is an answer, every other error is one. *)
Seen(e) == CASE e = "Ok" -> "present" [] e = "NotFound" -> "missing" [] OTHER -> "failed"

-----------------------------------------------------------------------------
(* move_object_unlocked *)

ObjectGeneration ==
    /\ op.pc = "generation"
    /\ \E e \in ErrorKinds :
          /\ Send(Get(op.source, 0), e)
          /\ op' = IF e = "Ok"
                   THEN [op EXCEPT !.pc = "copy", !.sgen = Generation(Get(op.source, 0))]
                   ELSE Fail(Err(e))

(* copy_object_unlocked marks the errors of every page but the first. *)
PageError(e) == IF op.pages > 0 THEN MarkStorageReached(Err(e)) ELSE Err(e)

(* Mutant: takes a rewrite response with done = false for the last one. *)
CopyPageTakenForDone ==
    /\ op.pc = "copy" /\ op.pages < MaxPages
    /\ \E e \in ErrorKinds :
          /\ Send(RewritePage(op.source, op.sgen, op.target), e)
          /\ op' = IF e = "Ok" THEN [op EXCEPT !.pc = "confirmCopy", !.tgen = nextGen]
                   ELSE Fail(PageError(e))

CopyPage ==
    /\ op.pc = "copy" /\ op.pages < MaxPages
    /\ \E e \in ErrorKinds :
          /\ Send(RewritePage(op.source, op.sgen, op.target), e)
          /\ op' = IF e = "Ok" THEN [op EXCEPT !.pages = @ + 1] ELSE Fail(PageError(e))

CopyObject ==
    /\ op.pc = "copy"
    /\ \E e \in ErrorKinds :
          /\ Send(Rewrite(op.source, op.sgen, op.target), e)
          /\ op' = IF e = "Ok"
                   THEN [op EXCEPT !.pc = "confirmCopy", !.tgen = nextGen]
                   ELSE Fail(PageError(e))

(* confirm_move_generation: an interrupt is passed on, every other failure *)
(* and every other version is Recovery.                                    *)
ConfirmGeneration(e, found, expected) ==
    CASE e = "Ok" /\ found = expected -> NoError
      [] IsInterrupted(Err(e)) -> MarkStorageReached(Err(e))
      [] OTHER -> Err("Recovery")

ConfirmCopy ==
    /\ op.pc = "confirmCopy"
    /\ \E e \in ErrorKinds :
          /\ Send(Get(op.target, 0), e)
          /\ LET confirmed == ConfirmGeneration(e, objects[op.target].gen, op.tgen)
             IN  op' = IF IsOk(confirmed) THEN Goto("deleteSource") ELSE MoveFailed(confirmed)

(* Mutant: forgets mark_storage_reached. *)
DeleteSourceUnmarked ==
    /\ op.pc = "deleteSource"
    /\ \E e \in ErrorKinds :
          /\ Send(Delete(op.source, op.sgen), e)
          /\ op' = IF e = "Ok" THEN Goto("sourceState") ELSE MoveFailed(Err(e))

DeleteSource ==
    /\ op.pc = "deleteSource"
    /\ \E e \in ErrorKinds :
          /\ Send(Delete(op.source, op.sgen), e)
          /\ op' = IF e = "Ok" THEN Goto("sourceState")
                   ELSE MoveFailed(MarkStorageReached(Err(e)))

SourceState ==
    /\ op.pc = "sourceState"
    /\ \E e \in ErrorKinds :
          /\ Send(Get(op.source, 0), e)
          /\ op' = IF Seen(e) = "failed" THEN MoveFailed(MarkStorageReached(Err(e)))
                   ELSE [op EXCEPT !.pc = "confirmMove", !.sourceSeen = Seen(e)]

ConfirmMove ==
    /\ op.pc = "confirmMove"
    /\ \E e \in ErrorKinds :
          /\ Send(Get(op.target, 0), e)
          /\ LET confirmed == ConfirmGeneration(e, objects[op.target].gen, op.tgen)
             IN  op' = IF ~IsOk(confirmed) THEN MoveFailed(confirmed)
                       ELSE IF op.sourceSeen = "missing" THEN Return(NoError)
                       ELSE Fail(Err("Message"))

(* The interrupt arm of move_object_unlocked clears the flag first. *)
ClearInterruptForRollback ==
    /\ op.pc = "interruptedMove"
    /\ interrupted' = FALSE
    /\ op' = Goto("undoSource")
    /\ UNCHANGED <<service, environment>>

(* Mutant: cleans the target up without asking whether the source is left. *)
UndoSourceUnchecked ==
    /\ op.pc = "undoSource"
    /\ \E e \in ErrorKinds :
          /\ Send(Get(op.source, 0), e)
          /\ op' = IF Seen(e) = "failed" THEN UndoFailed(Err(e)) ELSE Goto("cleanupState")

(* rollback_interrupted_move_unlocked *)
UndoSource ==
    /\ op.pc = "undoSource"
    /\ \E e \in ErrorKinds :
          /\ Send(Get(op.source, 0), e)
          /\ op' = CASE Seen(e) = "present" -> Goto("cleanupState")
                     [] Seen(e) = "missing" -> [op EXCEPT !.pc = "rbSource", !.pages = 0]
                     [] OTHER -> UndoFailed(Err(e))

-----------------------------------------------------------------------------
(* cleanup_object_unlocked *)

CleanupState ==
    /\ op.pc = "cleanupState"
    /\ \E e \in ErrorKinds :
          /\ Send(Get(op.target, op.tgen), e)
          /\ op' = CASE Seen(e) = "present" -> Goto("cleanupDelete")
                     [] Seen(e) = "missing" -> Goto("cleanupConfirm")
                     [] OTHER -> UndoFailed(Err(e))

(* Mutant: deletes whatever version is there. *)
CleanupDeleteAny ==
    /\ op.pc = "cleanupDelete"
    /\ \E e \in ErrorKinds :
          /\ Send(Delete(op.target, 0), e)
          /\ op' = IF e = "Ok" THEN Goto("cleanupConfirm")
                   ELSE UndoFailed(MarkStorageReached(Err(e)))

CleanupDelete ==
    /\ op.pc = "cleanupDelete"
    /\ \E e \in ErrorKinds :
          /\ Send(Delete(op.target, op.tgen), e)
          /\ op' = IF e = "Ok" THEN Goto("cleanupConfirm")
                   ELSE UndoFailed(MarkStorageReached(Err(e)))

CleanupConfirm ==
    /\ op.pc = "cleanupConfirm"
    /\ \E e \in ErrorKinds :
          /\ Send(Get(op.target, 0), e)
          /\ op' = CASE Seen(e) = "missing" -> CleanupDone
                     [] Seen(e) = "present" -> UndoFailed(Err("Message"))
                     [] OTHER -> UndoFailed(MarkStorageReached(Err(e)))

-----------------------------------------------------------------------------
(* rollback_object_unlocked *)

RbSource ==
    /\ op.pc = "rbSource"
    /\ \E e \in ErrorKinds :
          /\ Send(Get(op.source, 0), e)
          /\ op' = CASE Seen(e) = "missing" -> Goto("rbTarget")
                     [] Seen(e) = "present" -> UndoFailed(Err("Message"))
                     [] OTHER -> UndoFailed(Err(e))

RbTarget ==
    /\ op.pc = "rbTarget"
    /\ \E e \in ErrorKinds :
          /\ Send(Get(op.target, op.tgen), e)
          /\ op' = CASE Seen(e) = "present" -> Goto("rbCopy")
                     [] Seen(e) = "missing" -> UndoFailed(Err("Message"))
                     [] OTHER -> UndoFailed(Err(e))

RbCopyPage ==
    /\ op.pc = "rbCopy" /\ op.pages < MaxPages
    /\ \E e \in ErrorKinds :
          /\ Send(RewritePage(op.target, op.tgen, op.source), e)
          /\ op' = IF e = "Ok" THEN [op EXCEPT !.pages = @ + 1] ELSE UndoFailed(PageError(e))

RbCopy ==
    /\ op.pc = "rbCopy"
    /\ \E e \in ErrorKinds :
          /\ Send(Rewrite(op.target, op.tgen, op.source), e)
          /\ op' = IF e = "Ok"
                   THEN [op EXCEPT !.pc = "rbConfirmCopy", !.sgen = nextGen]
                   ELSE UndoFailed(PageError(e))

(* confirm_object_generation: whatever goes wrong is Recovery. *)
RbConfirmCopy ==
    /\ op.pc = "rbConfirmCopy"
    /\ \E e \in ErrorKinds :
          /\ Send(Get(op.source, 0), e)
          /\ op' = IF e = "Ok" /\ objects[op.source].gen = op.sgen
                   THEN Goto("rbDelete") ELSE UndoFailed(Err("Recovery"))

RbDelete ==
    /\ op.pc = "rbDelete"
    /\ \E e \in ErrorKinds :
          /\ Send(Delete(op.target, op.tgen), e)
          /\ op' = IF e = "Ok" THEN Goto("rbTargetState")
                   ELSE UndoFailed(MarkStorageReached(Err(e)))

RbTargetState ==
    /\ op.pc = "rbTargetState"
    /\ \E e \in ErrorKinds :
          /\ Send(Get(op.target, 0), e)
          /\ op' = IF Seen(e) = "failed" THEN UndoFailed(MarkStorageReached(Err(e)))
                   ELSE [op EXCEPT !.pc = "rbConfirm", !.targetSeen = Seen(e)]

RbConfirm ==
    /\ op.pc = "rbConfirm"
    /\ \E e \in ErrorKinds :
          /\ Send(Get(op.source, 0), e)
          /\ op' = IF ~(e = "Ok" /\ objects[op.source].gen = op.sgen)
                   THEN UndoFailed(Err("Recovery"))
                   ELSE IF op.targetSeen = "missing" THEN RollbackDone
                   ELSE UndoFailed(Err("Message"))

-----------------------------------------------------------------------------
(* object_move::confirmed_failure and confirm_move_after_failure.  The     *)
(* bucket lock is already held, so no lock conflict reaches this point.    *)

ConfirmedFailure ==
    /\ op.pc = "failed"
    /\ interrupted' = (interrupted /\ ~IsInterrupted(op.error))
    /\ op' = IF MayHaveReachedStorage(op.error) THEN Goto("confirmSource")
             ELSE Return(op.error)
    /\ UNCHANGED <<service, environment>>

ConfirmSource ==
    /\ op.pc = "confirmSource"
    /\ \E e \in ErrorKinds :
          /\ Send(Get(op.source, 0), e)
          /\ op' = [op EXCEPT !.pc = "confirmTarget", !.sourceSeen = Seen(e)]

ConfirmTarget ==
    /\ op.pc = "confirmTarget"
    /\ \E e \in ErrorKinds :
          /\ Send(Get(op.target, 0), e)
          /\ op' = LET noChange == op.sourceSeen = "present" /\ Seen(e) = "missing"
                   IN  Return(IF noChange /\ ~MayHaveSentStorageRequest(op.error)
                              THEN op.error ELSE Err("Recovery"))

-----------------------------------------------------------------------------
(* The environment. *)

Signal ==
    /\ signals < MaxSignals /\ ~interrupted
    /\ signals' = signals + 1
    /\ interrupted' = TRUE
    /\ UNCHANGED <<service, wire, faults, meddled, op>>

Land ==
    \E request \in wire :
        /\ Process(request)
        /\ wire' = wire \ {request}
        /\ UNCHANGED <<faults, signals, meddled, interrupted, op>>

ForeignWrite ==
    /\ meddled < MaxForeign
    /\ \E name \in Names :
          objects' = [objects EXCEPT ![name] = [gen |-> nextGen, data |-> "foreign"]]
    /\ nextGen' = nextGen + 1
    /\ others' = others \cup {nextGen}
    /\ meddled' = meddled + 1
    /\ UNCHANGED <<wire, faults, signals, interrupted, op>>

ForeignDelete ==
    /\ meddled < MaxForeign
    /\ \E name \in Names :
          /\ Present(name)
          /\ objects' = [objects EXCEPT ![name] = Absent]
    /\ meddled' = meddled + 1
    /\ UNCHANGED <<nextGen, others, wire, faults, signals, interrupted, op>>

Meddling == Signal \/ ForeignWrite \/ ForeignDelete

MoveStep ==
    \/ ObjectGeneration \/ CopyPage \/ CopyObject \/ ConfirmCopy
    \/ DeleteSource \/ SourceState \/ ConfirmMove
UndoStep ==
    \/ ClearInterruptForRollback \/ UndoSource
    \/ CleanupState \/ CleanupDelete \/ CleanupConfirm
    \/ RbSource \/ RbTarget \/ RbCopyPage \/ RbCopy \/ RbConfirmCopy
    \/ RbDelete \/ RbTargetState \/ RbConfirm
FailureStep == ConfirmedFailure \/ ConfirmSource \/ ConfirmTarget

OpStep == MoveStep \/ UndoStep \/ FailureStep

MoveInit(present) ==
    /\ objects = [name \in Names |->
                     IF name \in present THEN [gen |-> 1, data |-> name] ELSE Absent]
    /\ nextGen = 2
    /\ wire = {} /\ others = {}
    /\ interrupted = FALSE
    /\ faults = 0 /\ signals = 0 /\ meddled = 0
    /\ op = Idle

MoveTypeOK ==
    /\ objects \in [Names -> Versions]
    /\ nextGen \in Nat \ {0}
    /\ wire \subseteq Requests /\ others \subseteq Nat
    /\ interrupted \in BOOLEAN
    /\ faults \in 0..MaxFaults /\ signals \in 0..MaxSignals /\ meddled \in 0..MaxForeign
    /\ op \in Ops \cup {Idle}

HoldsData(name, data) == Present(name) /\ objects[name].data = data

CopiedPcs == {"confirmCopy", "deleteSource", "sourceState", "confirmMove",
              "interruptedMove", "undoSource"}
KeptPcs == {"cleanupState", "cleanupDelete", "cleanupConfirm", "rbConfirmCopy", "rbDelete"}

(* A version is deleted only while its copy is in place.  From the rewrite *)
(* of a move on, the target is there and agrees with what is left of the   *)
(* source; while an undo deletes the target, the source is there and       *)
(* agrees with what is left of the target.  This holds when no other       *)
(* writer interferes and no abandoned request is executed late.            *)
CopyBeforeDelete ==
    /\ op.pc \in CopiedPcs =>
          /\ op.source # op.target /\ Present(op.target)
          /\ Present(op.source) => objects[op.source].data = objects[op.target].data
    /\ op.pc \in KeptPcs =>
          /\ op.source # op.target /\ Present(op.source)
          /\ Present(op.target) => objects[op.source].data = objects[op.target].data
=============================================================================
