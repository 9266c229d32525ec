------------------------- MODULE RemoteMovesProofs -------------------------
(***************************************************************************)
(* Facts about single remote requests and moves that the proofs about the  *)
(* workflows rest on.                                                      *)
(***************************************************************************)
EXTENDS RemoteMoves, TLAPS

-----------------------------------------------------------------------------
(* Every constructor of an error yields an error (src/error.rs). *)
LEMMA ErrType ==
    /\ \A kind \in ErrorKinds : Err(kind) \in AppErrors
    /\ \A g \in Nat : InterruptedAfterMoveRollback(g) \in AppErrors
    /\ \A error \in AppErrors, failed \in BOOLEAN : Rollback(error, failed) \in AppErrors
    /\ \A error \in AppErrors : MarkStorageReached(error) \in AppErrors
    /\ NoError \in AppErrors
<1>1. \A kind \in ErrorKinds : Err(kind) \in AppErrors
  BY DEF Err, AppErrors
<1>2. \A g \in Nat : InterruptedAfterMoveRollback(g) \in AppErrors
  BY DEF InterruptedAfterMoveRollback, AppErrors, ErrorKinds
<1>3. \A error \in AppErrors, failed \in BOOLEAN : Rollback(error, failed) \in AppErrors
  BY DEF Rollback, AppErrors
<1>4. \A error \in AppErrors : MarkStorageReached(error) \in AppErrors
  BY DEF MarkStorageReached, AppErrors, ErrorKinds, TokenKinds
<1>5. NoError \in AppErrors
  BY <1>1 DEF NoError, ErrorKinds
<1> QED BY <1>1, <1>2, <1>3, <1>4, <1>5

(* The variables of the service and of the environment keep their shape    *)
(* when a request is sent, whatever becomes of it.                         *)
ServiceTypeOK ==
    /\ objects \in [Names -> Versions]
    /\ nextGen \in Nat \ {0}
    /\ wire \subseteq Requests /\ others \subseteq Nat
    /\ interrupted \in BOOLEAN
    /\ faults \in 0..MaxFaults /\ signals \in 0..MaxSignals /\ meddled \in 0..MaxForeign

(* Process: executing a request keeps the shape of the service. *)
LEMMA ProcessType ==
    ASSUME NEW request \in Requests, Process(request),
           objects \in [Names -> Versions],
           nextGen \in Nat \ {0}, others \subseteq Nat
    PROVE  /\ objects' \in [Names -> Versions]
           /\ nextGen' \in Nat \ {0} /\ others' \subseteq Nat
<1>1. request.name \in Names /\ request.to \in Names
  BY DEF Requests
<1>2. CASE request.type = "rewrite" /\ Status(request) = "Ok"
  <2>1. /\ objects' = [objects EXCEPT ![request.to] =
                          [gen |-> nextGen, data |-> objects[request.name].data]]
        /\ nextGen' = nextGen + 1
        /\ others' = others \ {objects[request.name].gen}
    BY <1>2 DEF Process
  <2>2. [gen |-> nextGen, data |-> objects[request.name].data] \in Versions
    BY <1>1 DEF Versions
  <2> QED BY <1>1, <2>1, <2>2
<1>3. CASE request.type = "delete" /\ Status(request) = "Ok"
  <2>1. /\ objects' = [objects EXCEPT ![request.name] = Absent]
        /\ UNCHANGED <<nextGen, others>>
    BY <1>3 DEF Process
  <2>2. Absent \in Versions
    BY DEF Absent, Versions
  <2> QED BY <1>1, <2>1, <2>2
<1>4. CASE request.type = "write" /\ Status(request) = "Ok"
  <2>1. /\ objects' = [objects EXCEPT ![request.name] =
                          [gen |-> nextGen, data |-> request.to]]
        /\ nextGen' = nextGen + 1
        /\ UNCHANGED others
    BY <1>4 DEF Process
  <2>2. [gen |-> nextGen, data |-> request.to] \in Versions
    BY <1>1 DEF Versions
  <2> QED BY <1>1, <2>1, <2>2
<1>5. CASE ~(request.type \in {"rewrite", "write", "delete"} /\ Status(request) = "Ok")
  <2>1. UNCHANGED service
    BY <1>5 DEF Process
  <2> QED BY <2>1 DEF service
<1> QED BY <1>2, <1>3, <1>4, <1>5

(* Outcome: the same for a request whose answer is lost. *)
LEMMA OutcomeType ==
    ASSUME NEW request \in Requests, Outcome(request), ServiceTypeOK
    PROVE  /\ objects' \in [Names -> Versions]
           /\ nextGen' \in Nat \ {0} /\ others' \subseteq Nat
           /\ wire' \subseteq Requests
BY ProcessType DEF Outcome, ServiceTypeOK, service

(* Sending a request keeps the shape of everything it touches. *)
LEMMA SendType ==
    ASSUME NEW request \in Requests, NEW e, Send(request, e), ServiceTypeOK
    PROVE  ServiceTypeOK'
<1>1. CASE Unsent(e)
  BY <1>1, BoundsAssumption DEF Unsent, ServiceTypeOK, service
<1>2. CASE Answered(request, e)
  BY <1>2, ProcessType DEF Answered, ServiceTypeOK, environment
<1>3. CASE Abandoned(request, e)
  <2>1. CASE faults < MaxFaults /\ faults' = faults + 1 /\ Outcome(request)
                /\ UNCHANGED <<signals, interrupted, meddled>>
    BY <2>1, BoundsAssumption, OutcomeType DEF ServiceTypeOK
  <2>2. CASE faults < MaxFaults /\ faults' = faults + 1 /\ Process(request)
                /\ UNCHANGED <<wire, signals, interrupted, meddled>>
    BY <2>2, BoundsAssumption, ProcessType DEF ServiceTypeOK
  <2>3. CASE /\ signals < MaxSignals /\ signals' = signals + 1 /\ interrupted' = TRUE
             /\ Outcome(request) /\ UNCHANGED <<faults, meddled>>
    BY <2>3, BoundsAssumption, OutcomeType DEF ServiceTypeOK
  <2> QED BY <1>3, <2>1, <2>2, <2>3 DEF Abandoned
<1> QED BY <1>1, <1>2, <1>3 DEF Send

-----------------------------------------------------------------------------
(* The call stack keeps its shape under every way a step can end. *)
LEMMA OpUpdates ==
    ASSUME op \in Ops
    PROVE  /\ \A next \in OpPcs : Goto(next) \in Ops
           /\ \A error \in AppErrors :
                 /\ Return(error) \in Ops /\ Fail(error) \in Ops
                 /\ MoveFailed(error) \in Ops /\ UndoFailed(error) \in Ops
           /\ CleanupDone \in Ops /\ RollbackDone \in Ops
<1>1. \A next \in OpPcs : Goto(next) \in Ops
  BY DEF Goto, Ops
<1>2. \A error \in AppErrors : Return(error) \in Ops /\ Fail(error) \in Ops
  BY DEF Return, Fail, Ops, OpPcs, FailurePcs
<1>3. \A error \in AppErrors : MoveFailed(error) \in Ops
  BY DEF MoveFailed, Ops, OpPcs, FailurePcs, MovePcs
<1>4. op.error \in AppErrors /\ op.sgen \in Nat
  BY DEF Ops
<1>5. \A error \in AppErrors : UndoFailed(error) \in Ops
  BY <1>2, <1>4, ErrType DEF UndoFailed
<1>6. CleanupDone \in Ops
  BY <1>2, ErrType DEF CleanupDone, ErrorKinds
<1>7. RollbackDone \in Ops
  BY <1>2, <1>4, ErrType DEF RollbackDone
<1> QED BY <1>1, <1>2, <1>3, <1>5, <1>6, <1>7

(* The requests of an operation name its source or its target. *)
LEMMA RequestType ==
    ASSUME op \in Ops
    PROVE  /\ \A name \in {op.source, op.target}, g \in Nat :
                 Get(name, g) \in Requests /\ Delete(name, g) \in Requests
           /\ \A name, to \in {op.source, op.target}, g \in Nat :
                 Rewrite(name, g, to) \in Requests /\ RewritePage(name, g, to) \in Requests
           /\ op.sgen \in Nat /\ op.tgen \in Nat /\ op.pages \in Nat
BY DEF Ops, Get, Delete, Rewrite, RewritePage, Requests

(* The errors that the handlers make of the outcome of a request. *)
LEMMA HandlerErrors ==
    ASSUME NEW e \in ErrorKinds
    PROVE  /\ Err(e) \in AppErrors /\ MarkStorageReached(Err(e)) \in AppErrors
           /\ PageError(e) \in AppErrors
           /\ \A found, expected : ConfirmGeneration(e, found, expected) \in AppErrors
           /\ Seen(e) \in Lookups
<1>1. Err(e) \in AppErrors /\ MarkStorageReached(Err(e)) \in AppErrors
  BY ErrType
<1>2. PageError(e) \in AppErrors
  BY <1>1 DEF PageError
<1>3. NoError \in AppErrors /\ Err("Recovery") \in AppErrors
  BY ErrType DEF ErrorKinds
<1>4. \A found, expected : ConfirmGeneration(e, found, expected) \in AppErrors
  BY <1>1, <1>3 DEF ConfirmGeneration
<1>5. Seen(e) \in Lookups
  BY DEF Seen, Lookups
<1> QED BY <1>1, <1>2, <1>4, <1>5

(* A step of an operation needs an operation. *)
LEMMA OpStepBusy == OpStep => op.pc # "idle"
<1>1. MoveStep => op.pc # "idle"
  BY DEF MoveStep, ObjectGeneration, CopyPage, CopyObject, ConfirmCopy, DeleteSource,
     SourceState, ConfirmMove
<1>2. ClearInterruptForRollback \/ UndoSource \/ CleanupState \/ CleanupDelete
         \/ CleanupConfirm => op.pc # "idle"
  BY DEF ClearInterruptForRollback, UndoSource, CleanupState, CleanupDelete, CleanupConfirm
<1>3. RbSource \/ RbTarget \/ RbCopyPage \/ RbCopy \/ RbConfirmCopy \/ RbDelete
         \/ RbTargetState \/ RbConfirm => op.pc # "idle"
  BY DEF RbSource, RbTarget, RbCopyPage, RbCopy, RbConfirmCopy, RbDelete, RbTargetState,
     RbConfirm
<1>4. FailureStep => op.pc # "idle"
  BY DEF FailureStep, ConfirmedFailure, ConfirmSource, ConfirmTarget
<1> QED BY <1>1, <1>2, <1>3, <1>4 DEF OpStep, UndoStep

(* The shape of the variables is kept by every step of a move, of an undo  *)
(* and of the confirmation of a failure.                                   *)
LEMMA OpStepType ==
    ASSUME MoveTypeOK, OpStep
    PROVE  MoveTypeOK' /\ op' \in Ops
<1> SUFFICES ServiceTypeOK' /\ op' \in Ops
  BY DEF MoveTypeOK, ServiceTypeOK
<1>0. ServiceTypeOK /\ (op.pc # "idle" => op \in Ops)
  BY DEF MoveTypeOK, ServiceTypeOK, Idle
<1> USE DEF OpPcs, MovePcs, UndoPcs, FailurePcs
<1>1. CASE ObjectGeneration
  <2>1. op \in Ops
    BY <1>0, <1>1 DEF ObjectGeneration
  <2>2. PICK e \in ErrorKinds :
            /\ Send(Get(op.source, 0), e)
            /\ \/ op' = [op EXCEPT !.pc = "copy", !.sgen = objects[op.source].gen]
               \/ op' = Fail(Err(e))
    BY <1>1 DEF ObjectGeneration, Generation, Get
  <2>3. ServiceTypeOK'
    BY <1>0, <2>1, <2>2, SendType, RequestType
  <2>4. [op EXCEPT !.pc = "copy", !.sgen = objects[op.source].gen] \in Ops
    BY <1>0, <2>1 DEF Ops, ServiceTypeOK, Versions
  <2> QED BY <2>1, <2>2, <2>3, <2>4, OpUpdates, HandlerErrors
<1>2. CASE CopyPage
  <2>1. op \in Ops
    BY <1>0, <1>2 DEF CopyPage
  <2> QED BY <1>0, <1>2, <2>1, SendType, RequestType, OpUpdates, HandlerErrors DEF CopyPage, Ops
<1>3. CASE CopyObject
  <2>1. op \in Ops
    BY <1>0, <1>3 DEF CopyObject
  <2>2. PICK e \in ErrorKinds :
            /\ Send(Rewrite(op.source, op.sgen, op.target), e)
            /\ \/ op' = [op EXCEPT !.pc = "confirmCopy", !.tgen = nextGen]
               \/ op' = Fail(PageError(e))
    BY <1>3 DEF CopyObject
  <2>3. ServiceTypeOK'
    BY <1>0, <2>1, <2>2, SendType, RequestType
  <2>4. [op EXCEPT !.pc = "confirmCopy", !.tgen = nextGen] \in Ops
    BY <1>0, <2>1 DEF Ops, ServiceTypeOK
  <2> QED BY <2>1, <2>2, <2>3, <2>4, OpUpdates, HandlerErrors
<1>4. CASE ConfirmCopy
  <2>1. op \in Ops
    BY <1>0, <1>4 DEF ConfirmCopy
  <2> QED BY <1>0, <1>4, <2>1, SendType, RequestType, OpUpdates, HandlerErrors DEF ConfirmCopy
<1>5. CASE DeleteSource
  <2>1. op \in Ops
    BY <1>0, <1>5 DEF DeleteSource
  <2> QED BY <1>0, <1>5, <2>1, SendType, RequestType, OpUpdates, HandlerErrors DEF DeleteSource
<1>6. CASE SourceState
  <2>1. op \in Ops
    BY <1>0, <1>6 DEF SourceState
  <2>2. PICK e \in ErrorKinds :
            /\ Send(Get(op.source, 0), e)
            /\ \/ op' = [op EXCEPT !.pc = "confirmMove", !.sourceSeen = Seen(e)]
               \/ op' = MoveFailed(MarkStorageReached(Err(e)))
    BY <1>6 DEF SourceState
  <2>3. ServiceTypeOK'
    BY <1>0, <2>1, <2>2, SendType, RequestType
  <2>4. [op EXCEPT !.pc = "confirmMove", !.sourceSeen = Seen(e)] \in Ops
    BY <2>1, HandlerErrors DEF Ops
  <2> QED BY <2>1, <2>2, <2>3, <2>4, OpUpdates, HandlerErrors
<1>7. CASE ConfirmMove
  <2>1. op \in Ops
    BY <1>0, <1>7 DEF ConfirmMove
  <2> QED BY <1>0, <1>7, <2>1, SendType, RequestType, OpUpdates, HandlerErrors, ErrType
             DEF ConfirmMove, ErrorKinds
<1>8. CASE ClearInterruptForRollback
  <2>1. op \in Ops
    BY <1>0, <1>8 DEF ClearInterruptForRollback
  <2> QED BY <1>0, <1>8, <2>1, SendType, RequestType, OpUpdates, HandlerErrors
             DEF ClearInterruptForRollback, ServiceTypeOK, service, environment
<1>9. CASE UndoSource
  <2>1. op \in Ops
    BY <1>0, <1>9 DEF UndoSource
  <2>2. PICK e \in ErrorKinds :
            /\ Send(Get(op.source, 0), e)
            /\ \/ op' = [op EXCEPT !.pc = "rbSource", !.pages = 0]
               \/ op' = Goto("cleanupState")
               \/ op' = UndoFailed(Err(e))
    BY <1>9 DEF UndoSource
  <2>3. ServiceTypeOK'
    BY <1>0, <2>1, <2>2, SendType, RequestType
  <2>4. [op EXCEPT !.pc = "rbSource", !.pages = 0] \in Ops
    BY <2>1 DEF Ops
  <2> QED BY <2>1, <2>2, <2>3, <2>4, OpUpdates, HandlerErrors
<1>10. CASE CleanupState
  <2>1. op \in Ops
    BY <1>0, <1>10 DEF CleanupState
  <2> QED BY <1>0, <1>10, <2>1, SendType, RequestType, OpUpdates, HandlerErrors DEF CleanupState
<1>11. CASE CleanupDelete
  <2>1. op \in Ops
    BY <1>0, <1>11 DEF CleanupDelete
  <2> QED BY <1>0, <1>11, <2>1, SendType, RequestType, OpUpdates, HandlerErrors
             DEF CleanupDelete
<1>12. CASE CleanupConfirm
  <2>1. op \in Ops
    BY <1>0, <1>12 DEF CleanupConfirm
  <2> QED BY <1>0, <1>12, <2>1, SendType, RequestType, OpUpdates, HandlerErrors, ErrType
             DEF CleanupConfirm, ErrorKinds
<1>13. CASE RbSource
  <2>1. op \in Ops
    BY <1>0, <1>13 DEF RbSource
  <2> QED BY <1>0, <1>13, <2>1, SendType, RequestType, OpUpdates, HandlerErrors, ErrType
             DEF RbSource, ErrorKinds
<1>14. CASE RbTarget
  <2>1. op \in Ops
    BY <1>0, <1>14 DEF RbTarget
  <2> QED BY <1>0, <1>14, <2>1, SendType, RequestType, OpUpdates, HandlerErrors, ErrType
             DEF RbTarget, ErrorKinds
<1>15. CASE RbCopyPage
  <2>1. op \in Ops
    BY <1>0, <1>15 DEF RbCopyPage
  <2> QED BY <1>0, <1>15, <2>1, SendType, RequestType, OpUpdates, HandlerErrors
             DEF RbCopyPage, Ops
<1>16. CASE RbCopy
  <2>1. op \in Ops
    BY <1>0, <1>16 DEF RbCopy
  <2>2. PICK e \in ErrorKinds :
            /\ Send(Rewrite(op.target, op.tgen, op.source), e)
            /\ \/ op' = [op EXCEPT !.pc = "rbConfirmCopy", !.sgen = nextGen]
               \/ op' = UndoFailed(PageError(e))
    BY <1>16 DEF RbCopy
  <2>3. ServiceTypeOK'
    BY <1>0, <2>1, <2>2, SendType, RequestType
  <2>4. [op EXCEPT !.pc = "rbConfirmCopy", !.sgen = nextGen] \in Ops
    BY <1>0, <2>1 DEF Ops, ServiceTypeOK
  <2> QED BY <2>1, <2>2, <2>3, <2>4, OpUpdates, HandlerErrors
<1>17. CASE RbConfirmCopy
  <2>1. op \in Ops
    BY <1>0, <1>17 DEF RbConfirmCopy
  <2> QED BY <1>0, <1>17, <2>1, SendType, RequestType, OpUpdates, HandlerErrors, ErrType
             DEF RbConfirmCopy, ErrorKinds
<1>18. CASE RbDelete
  <2>1. op \in Ops
    BY <1>0, <1>18 DEF RbDelete
  <2> QED BY <1>0, <1>18, <2>1, SendType, RequestType, OpUpdates, HandlerErrors DEF RbDelete
<1>19. CASE RbTargetState
  <2>1. op \in Ops
    BY <1>0, <1>19 DEF RbTargetState
  <2>2. PICK e \in ErrorKinds :
            /\ Send(Get(op.target, 0), e)
            /\ \/ op' = [op EXCEPT !.pc = "rbConfirm", !.targetSeen = Seen(e)]
               \/ op' = UndoFailed(MarkStorageReached(Err(e)))
    BY <1>19 DEF RbTargetState
  <2>3. ServiceTypeOK'
    BY <1>0, <2>1, <2>2, SendType, RequestType
  <2>4. [op EXCEPT !.pc = "rbConfirm", !.targetSeen = Seen(e)] \in Ops
    BY <2>1, HandlerErrors DEF Ops
  <2> QED BY <2>1, <2>2, <2>3, <2>4, OpUpdates, HandlerErrors
<1>20. CASE RbConfirm
  <2>1. op \in Ops
    BY <1>0, <1>20 DEF RbConfirm
  <2> QED BY <1>0, <1>20, <2>1, SendType, RequestType, OpUpdates, HandlerErrors, ErrType
             DEF RbConfirm, ErrorKinds
<1>21. CASE ConfirmedFailure
  <2>1. op \in Ops
    BY <1>0, <1>21 DEF ConfirmedFailure
  <2> QED BY <1>0, <1>21, <2>1, SendType, RequestType, OpUpdates, HandlerErrors
             DEF ConfirmedFailure, Ops, ServiceTypeOK, service, environment
<1>22. CASE ConfirmSource
  <2>1. op \in Ops
    BY <1>0, <1>22 DEF ConfirmSource
  <2>2. PICK e \in ErrorKinds :
            /\ Send(Get(op.source, 0), e)
            /\ op' = [op EXCEPT !.pc = "confirmTarget", !.sourceSeen = Seen(e)]
    BY <1>22 DEF ConfirmSource
  <2>3. ServiceTypeOK'
    BY <1>0, <2>1, <2>2, SendType, RequestType
  <2>4. [op EXCEPT !.pc = "confirmTarget", !.sourceSeen = Seen(e)] \in Ops
    BY <2>1, HandlerErrors DEF Ops
  <2> QED BY <2>1, <2>2, <2>3, <2>4, OpUpdates, HandlerErrors
<1>23. CASE ConfirmTarget
  <2>1. op \in Ops
    BY <1>0, <1>23 DEF ConfirmTarget
  <2> QED BY <1>0, <1>23, <2>1, SendType, RequestType, OpUpdates, HandlerErrors, ErrType
             DEF ConfirmTarget, Ops, ErrorKinds
<1> QED BY <1>1, <1>2, <1>3, <1>4, <1>5, <1>6, <1>7, <1>8, <1>9, <1>10, <1>11, <1>12, <1>13,
           <1>14, <1>15, <1>16, <1>17, <1>18, <1>19, <1>20, <1>21, <1>22, <1>23
       DEF OpStep, MoveStep, UndoStep, FailureStep

(* The calls that a workflow makes. *)
LEMMA CallType ==
    ASSUME NEW source \in Names, NEW target \in Names, NEW g \in Nat
    PROVE  /\ MoveCall(source, target, g) \in Ops
           /\ RollbackCall(source, target, g) \in Ops
           /\ CleanupCall(target, g) \in Ops
BY ErrType DEF MoveCall, RollbackCall, CleanupCall, Call, Ops, OpPcs, MovePcs, UndoPcs, Lookups

(* What is left alone when a step only touches the service through Send    *)
(* or not at all.                                                          *)
LEMMA FrameType ==
    ASSUME ServiceTypeOK, UNCHANGED <<service, environment>>, interrupted' \in BOOLEAN,
           op' \in Ops \cup {Idle}
    PROVE  MoveTypeOK'
BY DEF ServiceTypeOK, MoveTypeOK, service, environment

(* Signals, other writers and late requests keep the shape as well. *)
LEMMA DisturbanceType ==
    ASSUME MoveTypeOK, Meddling \/ Land
    PROVE  MoveTypeOK'
<1>1. CASE Signal
  BY <1>1, BoundsAssumption DEF Signal, MoveTypeOK, service
<1>2. CASE ForeignWrite
  <2>1. [gen |-> nextGen, data |-> "foreign"] \in Versions
    BY DEF MoveTypeOK, Versions
  <2> QED BY <1>2, <2>1, BoundsAssumption DEF ForeignWrite, MoveTypeOK
<1>3. CASE ForeignDelete
  <2>1. Absent \in Versions
    BY DEF Absent, Versions
  <2> QED BY <1>3, <2>1, BoundsAssumption DEF ForeignDelete, MoveTypeOK
<1>4. CASE Land
  BY <1>4, ProcessType DEF Land, MoveTypeOK
<1> QED BY <1>1, <1>2, <1>3, <1>4 DEF Meddling

-----------------------------------------------------------------------------
(* What the ways a step can end do to the call stack. *)
LEMMA OpEnds ==
    ASSUME op \in Ops
    PROVE  /\ \A next : /\ Goto(next).pc = next
                        /\ Goto(next).source = op.source /\ Goto(next).target = op.target
           /\ \A error : /\ Return(error).pc = "done" /\ Fail(error).pc = "failed"
                         /\ MoveFailed(error).pc \in {"interruptedMove", "failed"}
                         /\ MoveFailed(error).source = op.source
                         /\ MoveFailed(error).target = op.target
                         /\ UndoFailed(error).pc \in {"failed", "done"}
           /\ CleanupDone.pc \in {"failed", "done"} /\ RollbackDone.pc = "done"
BY DEF Ops, Goto, Return, Fail, MoveFailed, UndoFailed, CleanupDone, RollbackDone

(* Without late delivery, a request is executed while it is sent or never. *)
LEMMA SendEffect ==
    ASSUME ~LateDelivery, NEW request, NEW e, Send(request, e)
    PROVE  /\ wire' = wire
           /\ Process(request) \/ UNCHANGED service
           /\ e \in {"Ok", "NotFound", "PreconditionFailed"} =>
                 e = Status(request) /\ Process(request)
<1>1. CASE Unsent(e)
  BY <1>1 DEF Unsent
<1>2. CASE Answered(request, e)
  BY <1>2 DEF Answered, environment
<1>3. CASE Abandoned(request, e)
  BY <1>3 DEF Abandoned, Outcome
<1> QED BY <1>1, <1>2, <1>3 DEF Send

(* A lookup changes nothing, and its answer is the state of the object. *)
LEMMA GetEffect ==
    ASSUME ~LateDelivery, NEW name, NEW g, NEW e, Send(Get(name, g), e)
    PROVE  /\ objects' = objects /\ wire' = wire
           /\ Seen(e) = "present" => Present(name)
           /\ Seen(e) = "missing" /\ g = 0 => ~Present(name)
<1>1. Get(name, g).type = "get" /\ Get(name, g).name = name /\ Get(name, g).generation = g
  BY DEF Get
<1>2. objects' = objects /\ wire' = wire
  BY <1>1, SendEffect DEF Process, service
<1>3. ASSUME Seen(e) = "present" PROVE Present(name)
  BY <1>1, <1>3, SendEffect DEF Seen, Status
<1>4. ASSUME Seen(e) = "missing", g = 0 PROVE ~Present(name)
  BY <1>1, <1>4, SendEffect DEF Seen, Status
<1> QED BY <1>2, <1>3, <1>4

(* A rewrite page that is not the last one changes nothing. *)
LEMMA PageEffect ==
    ASSUME ~LateDelivery, NEW name, NEW g, NEW to, NEW e, Send(RewritePage(name, g, to), e)
    PROVE  objects' = objects /\ wire' = wire
<1>1. RewritePage(name, g, to).type = "page"
  BY DEF RewritePage
<1> QED BY <1>1, SendEffect DEF Process, service

(* A rewrite copies the source to a missing target, or does nothing. *)
LEMMA RewriteEffect ==
    ASSUME ~LateDelivery, NEW name \in Names, NEW g, NEW to \in Names, NEW e,
           Send(Rewrite(name, g, to), e)
    PROVE  /\ wire' = wire
           /\ \/ objects' = objects /\ e # "Ok"
              \/ /\ Present(name) /\ ~Present(to)
                 /\ objects' = [objects EXCEPT ![to] =
                                   [gen |-> nextGen, data |-> objects[name].data]]
<1>1. /\ Rewrite(name, g, to).type = "rewrite" /\ Rewrite(name, g, to).name = name
      /\ Rewrite(name, g, to).to = to
  BY DEF Rewrite
<1>2. Status(Rewrite(name, g, to)) = "Ok" => Present(name) /\ ~Present(to)
  BY <1>1 DEF Status
<1>3. CASE Process(Rewrite(name, g, to)) /\ Status(Rewrite(name, g, to)) = "Ok"
  BY <1>1, <1>2, <1>3, SendEffect DEF Process
<1>4. CASE Process(Rewrite(name, g, to)) /\ Status(Rewrite(name, g, to)) # "Ok"
  <2>1. objects' = objects
    BY <1>1, <1>4 DEF Process, service
  <2> QED BY <1>4, <2>1, SendEffect
<1>5. CASE UNCHANGED service /\ ~Process(Rewrite(name, g, to))
  BY <1>5, SendEffect DEF service
<1> QED BY <1>3, <1>4, <1>5, SendEffect

(* A delete removes one version, or does nothing. *)
LEMMA DeleteEffect ==
    ASSUME ~LateDelivery, NEW name \in Names, NEW g, NEW e, Send(Delete(name, g), e)
    PROVE  /\ wire' = wire
           /\ objects' = objects \/ objects' = [objects EXCEPT ![name] = Absent]
<1>1. Delete(name, g).type = "delete" /\ Delete(name, g).name = name
  BY DEF Delete
<1> QED BY <1>1, SendEffect DEF Process, service

-----------------------------------------------------------------------------
(* Without late delivery an operation leaves nothing on the wire, and it   *)
(* is no other writer.                                                     *)
LEMMA OpStepFrame ==
    ASSUME ~LateDelivery, OpStep
    PROVE  wire' = wire /\ meddled' = meddled
<1>1. ASSUME NEW request, NEW e, Send(request, e) PROVE wire' = wire /\ meddled' = meddled
  BY <1>1, SendEffect DEF Send, Unsent, Answered, Abandoned, environment
<1>2. CASE MoveStep
  BY <1>1, <1>2 DEF MoveStep, ObjectGeneration, CopyPage, CopyObject, ConfirmCopy,
     DeleteSource, SourceState, ConfirmMove
<1>3. CASE UndoStep
  BY <1>1, <1>3 DEF UndoStep, ClearInterruptForRollback, UndoSource, CleanupState,
     CleanupDelete, CleanupConfirm, RbSource, RbTarget, RbCopyPage, RbCopy, RbConfirmCopy,
     RbDelete, RbTargetState, RbConfirm, environment
<1>4. CASE FailureStep
  BY <1>1, <1>4 DEF FailureStep, ConfirmedFailure, ConfirmSource, ConfirmTarget, environment
<1> QED BY <1>2, <1>3, <1>4 DEF OpStep

Live(data) == \E name \in Names : HoldsData(name, data)

(* A step that changes no object only has to reach a place where the copy  *)
(* it relies on is known to be there.                                      *)
LEMMA QuietStep ==
    ASSUME objects' = objects,
           op'.pc \in CopiedPcs => op.pc \in CopiedPcs,
           op'.pc \in KeptPcs => \/ op.pc \in KeptPcs
                                 \/ op.pc \in CopiedPcs /\ Present(op.source),
           op'.pc \in CopiedPcs \cup KeptPcs => op'.source = op.source /\ op'.target = op.target,
           CopyBeforeDelete
    PROVE  CopyBeforeDelete' /\ \A data : Live(data) => Live(data)'
BY DEF CopyBeforeDelete, Live, HoldsData, Present

(* Every step of a move or of its undo keeps the copy it relies on in      *)
(* place, and no step removes the last copy of any content.                *)
LEMMA OpStepContent ==
    ASSUME ~LateDelivery, MoveTypeOK, CopyBeforeDelete, OpStep
    PROVE  CopyBeforeDelete' /\ \A data : Live(data) => Live(data)'
<1>0. /\ op.pc # "idle" => op \in Ops
      /\ op \in Ops => op.source \in Names /\ op.target \in Names
  BY DEF MoveTypeOK, Idle, Ops
<1> USE DEF CopiedPcs, KeptPcs
<1>1. CASE ObjectGeneration
  <2>1. op \in Ops
    BY <1>0, <1>1 DEF ObjectGeneration
  <2> QED BY <1>1, <2>1, GetEffect, QuietStep, OpEnds DEF ObjectGeneration, Ops
<1>2. CASE CopyPage
  <2>1. op \in Ops
    BY <1>0, <1>2 DEF CopyPage
  <2> QED BY <1>2, <2>1, PageEffect, QuietStep, OpEnds DEF CopyPage, Ops
<1>3. CASE CopyObject
  <2>1. op \in Ops
    BY <1>0, <1>3 DEF CopyObject
  <2>2. PICK e \in ErrorKinds :
            /\ Send(Rewrite(op.source, op.sgen, op.target), e)
            /\ op' = IF e = "Ok" THEN [op EXCEPT !.pc = "confirmCopy", !.tgen = nextGen]
                     ELSE Fail(PageError(e))
    BY <1>3 DEF CopyObject
  <2>3. CASE objects' = objects /\ e # "Ok"
    BY <2>1, <2>2, <2>3, QuietStep, OpEnds
  <2>4. CASE /\ Present(op.source) /\ ~Present(op.target)
             /\ objects' = [objects EXCEPT ![op.target] =
                               [gen |-> nextGen, data |-> objects[op.source].data]]
    <3>1. op.source # op.target /\ nextGen # 0
      BY <2>4 DEF MoveTypeOK
    <3>2. /\ objects'[op.target] = [gen |-> nextGen, data |-> objects[op.source].data]
          /\ \A name \in Names : name # op.target => objects'[name] = objects[name]
      BY <1>0, <2>1, <2>4 DEF MoveTypeOK
    <3>3. \A data : Live(data) => Live(data)'
      BY <2>4, <3>2 DEF Live, HoldsData, Present
    <3>4. op'.pc \in {"confirmCopy", "failed", "done"}
      BY <2>1, <2>2, OpEnds DEF Ops
    <3>5. ASSUME op'.pc = "confirmCopy" PROVE op'.source = op.source /\ op'.target = op.target
      BY <2>1, <2>2, <3>5, OpEnds DEF Ops
    <3>6. CopyBeforeDelete'
      BY <1>0, <2>1, <2>4, <3>1, <3>2, <3>4, <3>5 DEF CopyBeforeDelete, Present
    <3> QED BY <3>3, <3>6
  <2> QED BY <1>0, <2>1, <2>2, <2>3, <2>4, RewriteEffect
<1>4. CASE ConfirmCopy
  <2>1. op \in Ops
    BY <1>0, <1>4 DEF ConfirmCopy
  <2> QED BY <1>4, <2>1, GetEffect, QuietStep, OpEnds DEF ConfirmCopy
<1>5. CASE DeleteSource
  <2>1. op \in Ops
    BY <1>0, <1>5 DEF DeleteSource
  <2>2. PICK e \in ErrorKinds :
            /\ Send(Delete(op.source, op.sgen), e)
            /\ op' = IF e = "Ok" THEN Goto("sourceState")
                  ELSE MoveFailed(MarkStorageReached(Err(e)))
    BY <1>5 DEF DeleteSource
  <2>3. CASE objects' = objects
    BY <1>5, <2>1, <2>2, <2>3, QuietStep, OpEnds DEF DeleteSource
  <2>4. CASE objects' = [objects EXCEPT ![op.source] = Absent]
    <3>1. /\ op.source # op.target /\ Present(op.target)
          /\ Present(op.source) => objects[op.source].data = objects[op.target].data
      BY <1>5 DEF DeleteSource, CopyBeforeDelete
    <3>2. /\ objects'[op.source].gen = 0
          /\ \A name \in Names : name # op.source => objects'[name] = objects[name]
      BY <1>0, <2>1, <2>4 DEF MoveTypeOK, Absent
    <3>3. \A data : Live(data) => Live(data)'
      BY <1>0, <2>1, <3>1, <3>2 DEF Live, HoldsData, Present
    <3>4. /\ op'.pc \in {"sourceState", "interruptedMove", "failed", "done"}
          /\ op'.pc \in CopiedPcs \cup KeptPcs => op'.source = op.source /\ op'.target = op.target
      BY <2>1, <2>2, OpEnds
    <3>5. op'.pc \in KeptPcs => op.pc \in KeptPcs
      BY <1>5, <2>1, <2>2, OpEnds DEF DeleteSource
    <3>6. op'.pc \in CopiedPcs => op.pc \in CopiedPcs
      BY <1>5, <2>1, <2>2, OpEnds DEF DeleteSource
    <3>7. CopyBeforeDelete'
      BY <1>0, <1>5, <2>1, <3>1, <3>2, <3>4, <3>5, <3>6
         DEF CopyBeforeDelete, Present, DeleteSource
    <3> QED BY <3>3, <3>7
  <2> QED BY <1>0, <2>1, <2>2, <2>3, <2>4, DeleteEffect
<1>6. CASE SourceState
  <2>1. op \in Ops
    BY <1>0, <1>6 DEF SourceState
  <2> QED BY <1>6, <2>1, GetEffect, QuietStep, OpEnds DEF SourceState, Ops
<1>7. CASE ConfirmMove
  <2>1. op \in Ops
    BY <1>0, <1>7 DEF ConfirmMove
  <2> QED BY <1>7, <2>1, GetEffect, QuietStep, OpEnds DEF ConfirmMove
<1>8. CASE ClearInterruptForRollback
  <2>1. op \in Ops
    BY <1>0, <1>8 DEF ClearInterruptForRollback
  <2> QED BY <1>8, <2>1, QuietStep, OpEnds DEF ClearInterruptForRollback, service
<1>9. CASE UndoSource
  <2>1. op \in Ops
    BY <1>0, <1>9 DEF UndoSource
  <2> QED BY <1>9, <2>1, GetEffect, QuietStep, OpEnds DEF UndoSource, Ops
<1>10. CASE CleanupState
  <2>1. op \in Ops
    BY <1>0, <1>10 DEF CleanupState
  <2> QED BY <1>10, <2>1, GetEffect, QuietStep, OpEnds DEF CleanupState
<1>11. CASE CleanupDelete
  <2>1. op \in Ops
    BY <1>0, <1>11 DEF CleanupDelete
  <2>2. PICK e \in ErrorKinds :
            /\ Send(Delete(op.target, op.tgen), e)
            /\ op' = IF e = "Ok" THEN Goto("cleanupConfirm")
                        ELSE UndoFailed(MarkStorageReached(Err(e)))
    BY <1>11 DEF CleanupDelete
  <2>3. CASE objects' = objects
    BY <1>11, <2>1, <2>2, <2>3, QuietStep, OpEnds DEF CleanupDelete
  <2>4. CASE objects' = [objects EXCEPT ![op.target] = Absent]
    <3>1. /\ op.target # op.source /\ Present(op.source)
          /\ Present(op.target) => objects[op.target].data = objects[op.source].data
      BY <1>11 DEF CleanupDelete, CopyBeforeDelete
    <3>2. /\ objects'[op.target].gen = 0
          /\ \A name \in Names : name # op.target => objects'[name] = objects[name]
      BY <1>0, <2>1, <2>4 DEF MoveTypeOK, Absent
    <3>3. \A data : Live(data) => Live(data)'
      BY <1>0, <2>1, <3>1, <3>2 DEF Live, HoldsData, Present
    <3>4. /\ op'.pc \in {"cleanupConfirm", "interruptedMove", "failed", "done"}
          /\ op'.pc \in CopiedPcs \cup KeptPcs => op'.source = op.source /\ op'.target = op.target
      BY <2>1, <2>2, OpEnds
    <3>5. op'.pc \in KeptPcs => op.pc \in KeptPcs
      BY <1>11, <2>1, <2>2, OpEnds DEF CleanupDelete
    <3>6. op'.pc \in CopiedPcs => op.pc \in CopiedPcs
      BY <1>11, <2>1, <2>2, OpEnds DEF CleanupDelete
    <3>7. CopyBeforeDelete'
      BY <1>0, <1>11, <2>1, <3>1, <3>2, <3>4, <3>5, <3>6
         DEF CopyBeforeDelete, Present, CleanupDelete
    <3> QED BY <3>3, <3>7
  <2> QED BY <1>0, <2>1, <2>2, <2>3, <2>4, DeleteEffect
<1>12. CASE CleanupConfirm
  <2>1. op \in Ops
    BY <1>0, <1>12 DEF CleanupConfirm
  <2> QED BY <1>12, <2>1, GetEffect, QuietStep, OpEnds DEF CleanupConfirm
<1>13. CASE RbSource
  <2>1. op \in Ops
    BY <1>0, <1>13 DEF RbSource
  <2> QED BY <1>13, <2>1, GetEffect, QuietStep, OpEnds DEF RbSource
<1>14. CASE RbTarget
  <2>1. op \in Ops
    BY <1>0, <1>14 DEF RbTarget
  <2> QED BY <1>14, <2>1, GetEffect, QuietStep, OpEnds DEF RbTarget
<1>15. CASE RbCopyPage
  <2>1. op \in Ops
    BY <1>0, <1>15 DEF RbCopyPage
  <2> QED BY <1>15, <2>1, PageEffect, QuietStep, OpEnds DEF RbCopyPage, Ops
<1>16. CASE RbCopy
  <2>1. op \in Ops
    BY <1>0, <1>16 DEF RbCopy
  <2>2. PICK e \in ErrorKinds :
            /\ Send(Rewrite(op.target, op.tgen, op.source), e)
            /\ op' = IF e = "Ok" THEN [op EXCEPT !.pc = "rbConfirmCopy", !.sgen = nextGen]
                     ELSE UndoFailed(PageError(e))
    BY <1>16 DEF RbCopy
  <2>3. CASE objects' = objects /\ e # "Ok"
    BY <2>1, <2>2, <2>3, QuietStep, OpEnds
  <2>4. CASE /\ Present(op.target) /\ ~Present(op.source)
             /\ objects' = [objects EXCEPT ![op.source] =
                               [gen |-> nextGen, data |-> objects[op.target].data]]
    <3>1. op.target # op.source /\ nextGen # 0
      BY <2>4 DEF MoveTypeOK
    <3>2. /\ objects'[op.source] = [gen |-> nextGen, data |-> objects[op.target].data]
          /\ \A name \in Names : name # op.source => objects'[name] = objects[name]
      BY <1>0, <2>1, <2>4 DEF MoveTypeOK
    <3>3. \A data : Live(data) => Live(data)'
      BY <2>4, <3>2 DEF Live, HoldsData, Present
    <3>4. op'.pc \in {"rbConfirmCopy", "failed", "done"}
      BY <2>1, <2>2, OpEnds DEF Ops
    <3>5. ASSUME op'.pc = "rbConfirmCopy" PROVE op'.source = op.source /\ op'.target = op.target
      BY <2>1, <2>2, <3>5, OpEnds DEF Ops
    <3>6. CopyBeforeDelete'
      BY <1>0, <2>1, <2>4, <3>1, <3>2, <3>4, <3>5 DEF CopyBeforeDelete, Present
    <3> QED BY <3>3, <3>6
  <2> QED BY <1>0, <2>1, <2>2, <2>3, <2>4, RewriteEffect
<1>17. CASE RbConfirmCopy
  <2>1. op \in Ops
    BY <1>0, <1>17 DEF RbConfirmCopy
  <2> QED BY <1>17, <2>1, GetEffect, QuietStep, OpEnds DEF RbConfirmCopy
<1>18. CASE RbDelete
  <2>1. op \in Ops
    BY <1>0, <1>18 DEF RbDelete
  <2>2. PICK e \in ErrorKinds :
            /\ Send(Delete(op.target, op.tgen), e)
            /\ op' = IF e = "Ok" THEN Goto("rbTargetState")
                        ELSE UndoFailed(MarkStorageReached(Err(e)))
    BY <1>18 DEF RbDelete
  <2>3. CASE objects' = objects
    BY <1>18, <2>1, <2>2, <2>3, QuietStep, OpEnds DEF RbDelete
  <2>4. CASE objects' = [objects EXCEPT ![op.target] = Absent]
    <3>1. /\ op.target # op.source /\ Present(op.source)
          /\ Present(op.target) => objects[op.target].data = objects[op.source].data
      BY <1>18 DEF RbDelete, CopyBeforeDelete
    <3>2. /\ objects'[op.target].gen = 0
          /\ \A name \in Names : name # op.target => objects'[name] = objects[name]
      BY <1>0, <2>1, <2>4 DEF MoveTypeOK, Absent
    <3>3. \A data : Live(data) => Live(data)'
      BY <1>0, <2>1, <3>1, <3>2 DEF Live, HoldsData, Present
    <3>4. /\ op'.pc \in {"rbTargetState", "interruptedMove", "failed", "done"}
          /\ op'.pc \in CopiedPcs \cup KeptPcs => op'.source = op.source /\ op'.target = op.target
      BY <2>1, <2>2, OpEnds
    <3>5. op'.pc \in KeptPcs => op.pc \in KeptPcs
      BY <1>18, <2>1, <2>2, OpEnds DEF RbDelete
    <3>6. op'.pc \in CopiedPcs => op.pc \in CopiedPcs
      BY <1>18, <2>1, <2>2, OpEnds DEF RbDelete
    <3>7. CopyBeforeDelete'
      BY <1>0, <1>18, <2>1, <3>1, <3>2, <3>4, <3>5, <3>6 DEF CopyBeforeDelete, Present, RbDelete
    <3> QED BY <3>3, <3>7
  <2> QED BY <1>0, <2>1, <2>2, <2>3, <2>4, DeleteEffect
<1>19. CASE RbTargetState
  <2>1. op \in Ops
    BY <1>0, <1>19 DEF RbTargetState
  <2> QED BY <1>19, <2>1, GetEffect, QuietStep, OpEnds DEF RbTargetState, Ops
<1>20. CASE RbConfirm
  <2>1. op \in Ops
    BY <1>0, <1>20 DEF RbConfirm
  <2> QED BY <1>20, <2>1, GetEffect, QuietStep, OpEnds DEF RbConfirm
<1>21. CASE ConfirmedFailure
  <2>1. op \in Ops
    BY <1>0, <1>21 DEF ConfirmedFailure
  <2> QED BY <1>21, <2>1, QuietStep, OpEnds DEF ConfirmedFailure, service
<1>22. CASE ConfirmSource
  <2>1. op \in Ops
    BY <1>0, <1>22 DEF ConfirmSource
  <2> QED BY <1>22, <2>1, GetEffect, QuietStep, OpEnds DEF ConfirmSource, Ops
<1>23. CASE ConfirmTarget
  <2>1. op \in Ops
    BY <1>0, <1>23 DEF ConfirmTarget
  <2> QED BY <1>23, <2>1, GetEffect, QuietStep, OpEnds DEF ConfirmTarget
<1> QED BY <1>1, <1>2, <1>3, <1>4, <1>5, <1>6, <1>7, <1>8, <1>9, <1>10, <1>11, <1>12, <1>13,
           <1>14, <1>15, <1>16, <1>17, <1>18, <1>19, <1>20, <1>21, <1>22, <1>23
       DEF OpStep, MoveStep, UndoStep, FailureStep
=============================================================================
