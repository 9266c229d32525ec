-------------------------- MODULE NormalizeProofs --------------------------
(***************************************************************************)
(* The normalize workflow, for every bucket, every plan and any number of  *)
(* faults, signals and rewrite pages: its variables keep their shape, no   *)
(* content of the bucket is lost, what other writers put in place is left  *)
(* alone, the workflow implements ObjectRenames, and a single disturbance  *)
(* costs at most one move.                                                 *)
(***************************************************************************)
EXTENDS Normalize, RemoteTransactionProofs

(* Where `index` points, and no more staged objects than planned moves. *)
IndexInv ==
    /\ TransactionIndexInv
    /\ Len(staged) <= Len(moves)
    /\ phase \in {"build", "plan"} => staged = <<>> /\ finalized = <<>>

PlanTypeOK == listing \in Seq(Names) /\ moves \in Seq(PlannedMoves)

-----------------------------------------------------------------------------
(* The variables keep their shape in the initial states ... *)
LEMMA InitType == Init => TypeOK /\ IndexInv
<1> SUFFICES ASSUME Init PROVE TypeOK /\ IndexInv
  OBVIOUS
<1>1. TransactionInv
  BY InitTransaction DEF Init
<1>2. listing \in Seq(Names) /\ moves \in Seq(PlannedMoves)
  BY ListingsAssumption DEF Init
<1>3. IndexInv
  BY <1>1 DEF Init, TransactionInit, TransactionInv, IndexInv
<1> QED BY <1>1, <1>2, <1>3 DEF TransactionInv, TypeOK

(* ... and in every step. *)
LEMMA NextType == TypeOK /\ IndexInv /\ [Next]_vars => TypeOK' /\ IndexInv'
<1> SUFFICES ASSUME TypeOK, IndexInv, [Next]_vars PROVE TypeOK' /\ IndexInv'
  OBVIOUS
<1>0. /\ TransactionInv /\ MoveTypeOK /\ TransactionTypeOK /\ TransactionIndexInv
      /\ PlanTypeOK /\ op \in Ops \cup {Idle}
      /\ Len(staged) <= Len(moves) /\ Len(staged) \in Nat /\ Len(moves) \in Nat
      /\ phase \in {"build", "plan"} => staged = <<>> /\ finalized = <<>>
  BY DEF TypeOK, MoveTypeOK, TransactionTypeOK, PlanTypeOK, IndexInv, TransactionInv
<1> SUFFICES /\ TransactionInv' /\ PlanTypeOK' /\ Len(staged') <= Len(moves')
             /\ phase' \in {"build", "plan"} => staged' = <<>> /\ finalized' = <<>>
  BY DEF TypeOK, PlanTypeOK, IndexInv, TransactionInv
<1>f. UNCHANGED <<listing, moves>> => PlanTypeOK'
  BY <1>0 DEF PlanTypeOK
<1>1. CASE Build
  <2>1. MoveTypeOK'
    BY <1>0, <1>1 DEF Build, moveVars, service, environment, MoveTypeOK
  <2>2. TransactionTypeOK'
    BY <1>0, <1>1, ErrType DEF Build, TransactionTypeOK, Phases, ErrorKinds
  <2>3. TransactionIndexInv'
    BY <1>1 DEF Build, TransactionIndexInv, RollingBack
  <2> QED BY <1>0, <1>1, <1>f, <2>1, <2>2, <2>3 DEF Build, TransactionInv
<1>2. CASE PlanEntry
  <2>1. MoveTypeOK'
    BY <1>0, <1>2 DEF PlanEntry, moveVars, service, environment, MoveTypeOK
  <2>2. PlannedMove(listing[index]) \in PlannedMoves
    BY <1>0, <1>2, NormalizedAssumption, TemporaryAssumption
       DEF PlanEntry, PlannedMove, PlannedMoves, PlanTypeOK
  <2>3. TransactionTypeOK' /\ PlanTypeOK' /\ Len(moves') >= Len(moves) /\ Len(moves') \in Nat
    <3>1. Err("Message") \in AppErrors
      BY ErrType DEF ErrorKinds
    <3>2. CASE moves' = moves
      BY <1>0, <1>2, <3>1, <3>2 DEF PlanEntry, PlanTypeOK, TransactionTypeOK, Phases
    <3>3. CASE moves' = Append(moves, PlannedMove(listing[index])) /\ index' = index + 1
      BY <1>0, <1>2, <2>2, <3>3 DEF PlanEntry, PlanTypeOK, TransactionTypeOK
    <3> QED BY <1>2, <3>2, <3>3 DEF PlanEntry
  <2>4. TransactionIndexInv'
    BY <1>0, <1>2 DEF PlanEntry, TransactionIndexInv, RollingBack
  <2> QED BY <1>0, <1>2, <2>1, <2>3, <2>4 DEF PlanEntry, TransactionInv
<1>3. CASE PlanDone
  <2>1. MoveTypeOK'
    BY <1>0, <1>3 DEF PlanDone, moveVars, service, environment, MoveTypeOK
  <2>2. TransactionTypeOK' /\ TransactionIndexInv'
    BY <1>0, <1>3 DEF PlanDone, TransactionTypeOK, Phases, TransactionIndexInv, RollingBack
  <2> QED BY <1>0, <1>3, <1>f, <2>1, <2>2 DEF PlanDone, TransactionInv
<1>4. CASE BeginStageMove
  <2>0. moves[index] \in PlannedMoves
    BY <1>0, <1>4 DEF BeginStageMove, PlanTypeOK
  <2>1. moves[index].source \in Names /\ moves[index].temporary \in Names
    BY <2>0 DEF PlannedMoves
  <2>2. PICK g \in Nat, source \in Names, target \in Names : BeginMove(source, target, g)
    BY <1>4, <2>1 DEF BeginStageMove
  <2>3. phase = "stage" /\ UNCHANGED <<listing, moves>>
    BY <1>4 DEF BeginStageMove
  <2> QED BY <1>0, <1>f, <2>2, <2>3, BeginMoveType
<1>5. CASE EndStageMove
  <2>1. op \in Ops /\ index \in DOMAIN moves /\ UNCHANGED <<listing, moves>>
    BY <1>0, <1>5 DEF EndStageMove, EndStage, Idle
  <2>2. PICK change \in RemoteChanges : EndStage(change)
    <3>1. Change(moves[index].source, moves[index].temporary, op.tgen) \in RemoteChanges
      <4>1. moves[index] \in PlannedMoves /\ op.tgen \in Nat
        BY <1>0, <2>1 DEF PlanTypeOK, Ops
      <4> QED BY <4>1 DEF Change, RemoteChanges, PlannedMoves
    <3> QED BY <1>5, <3>1 DEF EndStageMove
  <2>3. index <= Len(moves)
    BY <1>0, <2>1 DEF PlanTypeOK
  <2> QED BY <1>0, <1>f, <2>1, <2>2, <2>3, EndStageType
<1>6. CASE StageDone \/ FinalizeDone
  <2>1. UNCHANGED <<listing, moves>> /\ (StagingDone(Len(moves)) \/ FinalizingDone)
    BY <1>6 DEF StageDone, FinalizeDone
  <2> QED BY <1>0, <1>f, <2>1, PhaseType
<1>7. CASE BeginFinalizeMove
  <2>0. staged[index] \in RemoteChanges /\ moves[index] \in PlannedMoves
    BY <1>0, <1>7 DEF BeginFinalizeMove, PlanTypeOK, TransactionTypeOK
  <2>1. /\ staged[index].target \in Names /\ moves[index].target \in Names
        /\ staged[index].generation \in Nat
    BY <2>0 DEF RemoteChanges, PlannedMoves
  <2>2. PICK g \in Nat, source \in Names, target \in Names : BeginMove(source, target, g)
    BY <1>7, <2>1 DEF BeginFinalizeMove
  <2>3. phase = "finalize" /\ UNCHANGED <<listing, moves>>
    BY <1>7 DEF BeginFinalizeMove
  <2> QED BY <1>0, <1>f, <2>2, <2>3, BeginMoveType
<1>8. CASE EndFinalizeMove
  <2>1. op \in Ops /\ index \in DOMAIN staged /\ UNCHANGED <<listing, moves>>
    BY <1>0, <1>8 DEF EndFinalizeMove, EndFinalize, Idle
  <2>2. PICK change \in RemoteChanges : EndFinalize(change)
    <3>1. index \in DOMAIN moves
      BY <1>0, <2>1 DEF PlanTypeOK, TransactionTypeOK
    <3>2. Change(staged[index].source, moves[index].target, op.tgen) \in RemoteChanges
      <4>1. /\ staged[index] \in RemoteChanges /\ moves[index] \in PlannedMoves
            /\ op.tgen \in Nat
        BY <1>0, <2>1, <3>1 DEF PlanTypeOK, TransactionTypeOK, Ops
      <4> QED BY <4>1 DEF Change, RemoteChanges, PlannedMoves
    <3> QED BY <1>8, <3>2 DEF EndFinalizeMove
  <2> QED BY <1>0, <1>f, <2>1, <2>2, EndFinalizeType
<1>9. CASE RollbackMoves
  <2>1. UNCHANGED <<listing, moves>>
    BY <1>9 DEF RollbackMoves
  <2>2. CASE BeginRollback(RollbackOf(Recorded[index]))
    <3>1. Recorded[index] \in RemoteChanges
      BY <1>0, <2>2, RecordedType DEF BeginRollback
    <3>2. RollbackOf(Recorded[index]) \in Ops
      BY <3>1, CallType DEF RollbackOf, RemoteChanges
    <3> QED BY <1>0, <1>f, <2>1, <2>2, <3>2, RollbackType
  <2>3. CASE SkipRollback \/ EndRollback \/ RollbackStagedNext \/ RollbackDoneAll
    BY <1>0, <1>f, <2>1, <2>3, RollbackType
  <2> QED BY <1>9, <2>2, <2>3 DEF RollbackMoves
<1>10. CASE Operation \/ Disturbance
  <2>1. /\ UNCHANGED <<transactionVars, listing, moves>>
        /\ OpStep \/ Meddling \/ Land
    BY <1>10 DEF Operation, Disturbance
  <2> QED BY <1>0, <1>f, <2>1, OperationType DEF transactionVars
<1>11. CASE UNCHANGED vars
  BY <1>0, <1>11 DEF vars, moveVars, service, environment, transactionVars, MoveTypeOK,
     PlanTypeOK, TransactionTypeOK, TransactionInv, TransactionIndexInv, RollingBack
<1> QED
  BY <1>1, <1>2, <1>3, <1>4, <1>5, <1>6, <1>7, <1>8, <1>9, <1>10, <1>11
     DEF Next, RunStep, Terminated

(* TypeOK holds in every reachable state of the normalize workflow. *)
THEOREM TypeCorrect == Spec => []TypeOK
<1>1. Init => TypeOK /\ IndexInv
  BY InitType
<1>2. TypeOK /\ IndexInv /\ [Next]_vars => TypeOK' /\ IndexInv'
  BY NextType
<1> QED BY <1>1, <1>2, PTL DEF Spec

-----------------------------------------------------------------------------
(* No content is lost.  The inductive invariant says where the copy of the *)
(* version in transit is (CopyBeforeDelete) and that no request is left    *)
(* under way.                                                              *)
ContentInv ==
    /\ wire = {} /\ meddled = 0
    /\ CopyBeforeDelete
    /\ NoContentLoss

(* Initially the listed objects hold their own content. *)
LEMMA InitContent == Init => ContentInv
<1> SUFFICES ASSUME Init PROVE ContentInv
  OBVIOUS
<1>1. op = Idle /\ wire = {} /\ meddled = 0
  BY DEF Init, MoveInit
<1>2. CopyBeforeDelete
  BY <1>1 DEF CopyBeforeDelete, Idle, CopiedPcs, KeptPcs
<1>3. listing \in Seq(Names)
  BY ListingsAssumption DEF Init
<1>4. \A name \in Listed : name \in Names /\ HoldsData(name, name)
  BY <1>3 DEF Listed, Init, MoveInit, HoldsData, Present
<1> QED BY <1>1, <1>2, <1>4 DEF ContentInv, NoContentLoss

(* A step of the workflow that is not a step of a move touches no object   *)
(* and leaves no move half done.                                           *)
LEMMA BookkeepingStep ==
    ASSUME TypeOK, ContentInv, UNCHANGED <<service, environment, listing>>,
           op' = op \/ op'.pc \notin CopiedPcs \cup KeptPcs
    PROVE  ContentInv'
BY DEF ContentInv, CopyBeforeDelete, NoContentLoss, Listed, HoldsData, Present, service,
       environment

(* Only the steps of a move or of its undo touch objects, and each of them *)
(* keeps the copy it relies on.                                            *)
LEMMA NextContent ==
    ASSUME ~LateDelivery, MaxForeign = 0, TypeOK, ContentInv, [Next]_vars
    PROVE  ContentInv'
<1> USE DEF CopiedPcs, KeptPcs
<1>1. CASE Operation
  <2>1. CopyBeforeDelete' /\ \A data : Live(data) => Live(data)'
    BY <1>1, OpStepContent DEF Operation, TypeOK, ContentInv
  <2>2. wire' = wire /\ meddled' = meddled
    BY <1>1, OpStepFrame DEF Operation
  <2>3. Listed' = Listed
    BY <1>1 DEF Operation, Listed
  <2> QED BY <2>1, <2>2, <2>3 DEF ContentInv, NoContentLoss, Live
<1>2. CASE Disturbance
  <2>1. Signal
    BY <1>2 DEF Disturbance, Meddling, Land, ForeignWrite, ForeignDelete, ContentInv
  <2> QED BY <1>2, <2>1 DEF Disturbance, Signal, ContentInv, CopyBeforeDelete, NoContentLoss,
             Listed, HoldsData, Present, service
<1>3. CASE Build \/ PlanEntry \/ PlanDone \/ StageDone \/ FinalizeDone \/ Terminated
              \/ UNCHANGED vars
  BY <1>3, BookkeepingStep DEF Build, PlanEntry, PlanDone, StageDone, StagingDone,
     FinalizeDone, FinalizingDone, Terminated, vars, moveVars
<1>4. CASE BeginStageMove \/ BeginFinalizeMove
  BY <1>4, BookkeepingStep
     DEF BeginStageMove, BeginFinalizeMove, BeginMove, MoveCall, Call, Idle
<1>5. CASE EndStageMove \/ EndFinalizeMove
  BY <1>5, BookkeepingStep DEF EndStageMove, EndFinalizeMove, EndStage, EndFinalize, Idle
<1>6. CASE RollbackMoves
  BY <1>6, BookkeepingStep DEF RollbackMoves, BeginRollback, SkipRollback, EndRollback,
     RollbackStagedNext, RollbackDoneAll, RollbackOf, RollbackCall, Call, Idle, moveVars
<1> QED BY <1>1, <1>2, <1>3, <1>4, <1>5, <1>6 DEF Next, RunStep

(* NoContentLoss: as long as every writer honours the lock and the service *)
(* executes no request after the client has given up on it, the normalize  *)
(* workflow loses the content of no object, whatever fails and whenever it *)
(* is interrupted.                                                         *)
THEOREM ContentPreserved ==
    ASSUME ~LateDelivery, MaxForeign = 0
    PROVE  Spec => []NoContentLoss
<1>1. Init => ContentInv
  BY InitContent
<1>2. TypeOK /\ ContentInv /\ [Next]_vars => ContentInv'
  BY NextContent
<1>3. ContentInv => NoContentLoss
  BY DEF ContentInv
<1> QED BY <1>1, <1>2, <1>3, TypeCorrect, PTL DEF Spec

(* CopyBeforeDelete, under the same assumptions: at every point of a move  *)
(* and of its undo a copy of what is about to be deleted is in place.      *)
THEOREM CopyKept ==
    ASSUME ~LateDelivery, MaxForeign = 0
    PROVE  Spec => []CopyBeforeDelete
<1>1. Init => ContentInv
  BY InitContent
<1>2. TypeOK /\ ContentInv /\ [Next]_vars => ContentInv'
  BY NextContent
<1>3. ContentInv => CopyBeforeDelete
  BY DEF ContentInv
<1> QED BY <1>1, <1>2, <1>3, TypeCorrect, PTL DEF Spec

-----------------------------------------------------------------------------
(* The versions of others are left alone.  The inductive invariant is      *)
(* ChangesOwned: every generation the run may still delete is its own.     *)

(* Every step keeps it so, and only another writer touches the versions of *)
(* others.                                                                 *)
LEMMA NextOwned ==
    ASSUME TypeOK, IndexInv, ChangesOwned, [Next]_vars
    PROVE  ChangesOwned' /\ (meddled' = meddled => OthersKept)
<1>0. TransactionInv /\ MoveTypeOK /\ TransactionTypeOK
  BY DEF TypeOK, IndexInv, TransactionInv
<1>1. CASE Operation \/ Disturbance
  <2>1. UNCHANGED transactionVars /\ (OpStep \/ Meddling \/ Land)
    BY <1>1 DEF Operation, Disturbance
  <2> QED BY <1>0, <2>1, OperationOwned
<1>2. CASE Build \/ PlanEntry \/ PlanDone \/ StageDone \/ FinalizeDone \/ Terminated
              \/ UNCHANGED vars
  <2>1. UNCHANGED <<service, environment, op, staged, finalized>>
    BY <1>2 DEF Build, PlanEntry, PlanDone, StageDone, StagingDone, FinalizeDone,
       FinalizingDone, Terminated, vars, moveVars, transactionVars
  <2> QED BY <1>0, <2>1, QuietChangesOwned
<1>3. CASE BeginStageMove \/ BeginFinalizeMove
  <2>1. PICK source, target, g : BeginMove(source, target, g)
    BY <1>3 DEF BeginStageMove, BeginFinalizeMove
  <2> QED BY <1>0, <2>1, BeginMoveOwned
<1>4. CASE EndStageMove
  <2>1. PICK change : EndStage(change) /\ change.generation = op.tgen
    BY <1>4 DEF EndStageMove, Change
  <2> QED BY <1>0, <2>1, EndStageOwned
<1>5. CASE EndFinalizeMove
  <2>1. PICK change : EndFinalize(change) /\ change.generation = op.tgen
    BY <1>5 DEF EndFinalizeMove, Change
  <2>2. index \in DOMAIN staged
    BY <1>5 DEF EndFinalizeMove
  <2> QED BY <1>0, <2>1, <2>2, EndFinalizeOwned
<1>6. CASE RollbackMoves
  <2>1. CASE BeginRollback(RollbackOf(Recorded[index]))
    <3>1. Mine(Recorded[index].generation) /\ UNCHANGED service
      BY <1>0, <2>1, RecordedOwned DEF BeginRollback
    <3>2. \A g : g = Recorded[index].generation => Mine(g)'
      BY <3>1 DEF Mine, service
    <3>3. OpOwned'
      BY <2>1, <3>2, CallOwned DEF BeginRollback, RollbackOf
    <3> QED BY <1>0, <2>1, <3>3, RollbackOwned
  <2>2. CASE SkipRollback \/ EndRollback \/ RollbackStagedNext \/ RollbackDoneAll
    BY <1>0, <2>2, RollbackOwned
  <2> QED BY <1>6, <2>1, <2>2 DEF RollbackMoves
<1> QED BY <1>1, <1>2, <1>3, <1>4, <1>5, <1>6 DEF Next, RunStep

(* OthersUntouched: whatever fails, whoever else writes to the bucket and  *)
(* however late the service executes an abandoned request, the normalize   *)
(* workflow neither overwrites nor deletes a version of another writer     *)
(* that it has not copied.                                                 *)
THEOREM StrangersKept == Spec => OthersUntouched
<1>1. Init => TypeOK /\ IndexInv /\ ChangesOwned
  BY InitType, InitOwned DEF Init
<1>2. /\ TypeOK /\ IndexInv /\ ChangesOwned /\ [Next]_vars
      => TypeOK' /\ IndexInv' /\ ChangesOwned'
  BY NextType, NextOwned
<1>3. /\ TypeOK /\ IndexInv /\ ChangesOwned /\ [Next]_vars
      => [meddled' = meddled =>
             \A name \in Names :
                objects[name].gen \in others => objects'[name] = objects[name]]_vars
  BY NextOwned DEF OthersKept
<1> QED BY <1>1, <1>2, <1>3, PTL DEF Spec, OthersUntouched

-----------------------------------------------------------------------------
(* The refinement of ObjectRenames.  Its steps follow from                 *)
(* CopyBeforeDelete; its ending needs an account of the names that are     *)
(* free while the run has no error to report.                              *)

(* The plan: one move for every listed name that changes. *)
PlanInv ==
    /\ listing \in Listings
    /\ phase = "build" => moves = <<>>
    /\ phase \notin {"build", "end"} => ~Collides
    /\ \A i \in DOMAIN moves :
          /\ moves[i] = PlannedMove(moves[i].source)
          /\ NeedsMove(moves[i].source) /\ moves[i].source \in Listed
    /\ \A i, j \in DOMAIN moves : moves[i].source = moves[j].source => i = j
    /\ phase = "plan" =>
          /\ index # 0
          /\ \A i \in DOMAIN moves : \E j \in DOMAIN listing :
                j < index /\ moves[i].source = listing[j]
          /\ \A j \in DOMAIN listing : j < index /\ NeedsMove(listing[j]) =>
                \E i \in DOMAIN moves : moves[i].source = listing[j]
    /\ phase \in {"stage", "finalize"} =>
          \A j \in DOMAIN listing : NeedsMove(listing[j]) =>
             \E i \in DOMAIN moves : moves[i].source = listing[j]

(* What is found under a name: the object that was listed, or a copy of    *)
(* the source of the move that the name belongs to.                        *)
ContentsInv ==
    \A name \in Names : Present(name) =>
        \/ name \in Listed /\ objects[name].data = name
        \/ /\ phase \notin {"build", "plan"}
           /\ \E i \in DOMAIN moves :
                 /\ name \in {moves[i].temporary, moves[i].target}
                 /\ objects[name].data = moves[i].source

(* The recorded changes are about the planned moves, in their order. *)
RecordsInv ==
    /\ Len(finalized) <= Len(staged) /\ Len(staged) <= Len(moves)
    /\ \A i \in DOMAIN staged :
          staged[i].source = moves[i].source /\ staged[i].target = moves[i].temporary
    /\ \A i \in DOMAIN finalized :
          finalized[i].source = moves[i].source /\ finalized[i].target = moves[i].target
    /\ phase = "finalize" => Len(staged) = Len(moves) /\ index = Len(finalized) + 1

(* The operation is about the move that `index` points to. *)
OpFits ==
    \/ /\ phase = "stage" /\ op.caller = "move" /\ index \in DOMAIN moves
       /\ op.source = moves[index].source /\ op.target = moves[index].temporary
    \/ /\ phase = "finalize" /\ op.caller = "move" /\ index \in DOMAIN moves
       /\ op.source = moves[index].temporary /\ op.target = moves[index].target
    \/ /\ phase = "rollbackFinalized" /\ op.caller = "transaction" /\ index \in DOMAIN finalized
       /\ op.source = moves[index].source /\ op.target = moves[index].target
    \/ /\ phase = "rollbackStaged" /\ op.caller = "transaction" /\ index \in DOMAIN staged
       /\ op.source = moves[index].source /\ op.target = moves[index].temporary
       /\ index > Len(finalized)

(* The names that are free.  While the run rolls back, that is known only  *)
(* as long as it will not tell the operator to look.                       *)
Plain == undone /\ ~Look(result)
FreeInv ==
    \A i \in DOMAIN moves :
       /\ phase = "stage" =>
             /\ ~Present(moves[i].target)
             /\ i < index => ~Present(moves[i].source)
             /\ i > index \/ (i = index /\ op = Idle) => ~Present(moves[i].temporary)
       /\ phase = "finalize" =>
             /\ ~Present(moves[i].source)
             /\ i < index => ~Present(moves[i].temporary)
             /\ i > index \/ (i = index /\ op = Idle) => ~Present(moves[i].target)
       /\ phase = "rollbackFinalized" /\ Plain =>
             /\ i > index => ~Present(moves[i].target)
             /\ i <= Len(finalized) \/ i > Len(staged) => ~Present(moves[i].temporary)
       /\ phase = "rollbackStaged" /\ Plain =>
             /\ ~Present(moves[i].target)
             /\ i <= Len(finalized) \/ i > index => ~Present(moves[i].temporary)

ResultInv ==
    /\ RollingBack => ~IsOk(result)
    /\ phase \in {"build", "plan", "stage", "finalize"} => IsOk(result) /\ undone

RenamesInv ==
    /\ CallerInv /\ OpSettled /\ (op # Idle => OpFits)
    /\ PlanInv /\ ContentsInv /\ RecordsInv /\ FreeInv /\ ResultInv

-----------------------------------------------------------------------------
(* The names of the moves are apart: no target is listed, because the      *)
(* listing would collide, and temporary names are new.                     *)
LEMMA NamesApart ==
    ASSUME TypeOK, PlanInv, phase \notin {"build", "end"}, NEW i \in DOMAIN moves
    PROVE  /\ moves[i].source \in Names /\ moves[i].temporary \in Names
           /\ moves[i].target \in Names
           /\ moves[i].temporary \notin Listed /\ moves[i].target \notin Listed
           /\ moves[i].source \in Listed
           /\ \A j \in DOMAIN moves :
                 /\ moves[i].temporary # moves[j].target
                 /\ moves[i].temporary = moves[j].temporary => i = j
                 /\ moves[i].target = moves[j].target => i = j
                 /\ moves[i].source = moves[j].source => i = j
<1>0. /\ listing \in Seq(Names) /\ moves \in Seq(PlannedMoves) /\ listing \in Listings /\ ~Collides
      /\ \A j \in DOMAIN moves :
            /\ moves[j].target = Normalized[moves[j].source]
            /\ moves[j].temporary = Temporary[moves[j].source]
            /\ NeedsMove(moves[j].source)
            /\ \E k \in DOMAIN listing : listing[k] = moves[j].source
      /\ \A j, k \in DOMAIN moves : moves[j].source = moves[k].source => j = k
  BY DEF TypeOK, PlanInv, PlannedMove, Listed
<1>1. moves[i].source \in Names /\ moves[i].temporary \in Names /\ moves[i].target \in Names
  <2>1. moves[i] \in PlannedMoves
    BY <1>0
  <2> QED BY <2>1 DEF PlannedMoves
<1>2. PICK k \in DOMAIN listing : listing[k] = moves[i].source
  BY <1>0
<1>3. moves[i].temporary \notin Listed
  BY <1>0, <1>2, TemporaryAssumption DEF Listed
<1>4. moves[i].target \notin Listed
  <2> SUFFICES ASSUME NEW j \in DOMAIN listing, listing[j] = moves[i].target PROVE FALSE
    BY DEF Listed
  <2>1. Normalized[listing[j]] = Normalized[listing[k]]
    BY <1>0, <1>1, <1>2, NormalizedAssumption
  <2>2. j # k
    BY <1>0, <1>2 DEF NeedsMove
  <2> QED BY <1>0, <2>1, <2>2 DEF Collides
<1>5. ASSUME NEW j \in DOMAIN moves
      PROVE  /\ moves[i].temporary # moves[j].target
             /\ moves[i].temporary = moves[j].temporary => i = j
             /\ moves[i].target = moves[j].target => i = j
  <2>1. PICK l \in DOMAIN listing : listing[l] = moves[j].source
    BY <1>0
  <2>2. moves[i].temporary # moves[j].target
    BY <1>0, <1>2, <2>1, TemporaryAssumption
  <2>3. ASSUME i # j PROVE moves[i].temporary # moves[j].temporary
    <3>1. k # l
      BY <1>0, <1>2, <2>1, <2>3
    <3> QED BY <1>0, <1>2, <2>1, <3>1, TemporaryAssumption
  <2>4. ASSUME i # j PROVE moves[i].target # moves[j].target
    <3>1. k # l
      BY <1>0, <1>2, <2>1, <2>4
    <3> QED BY <1>0, <1>2, <2>1, <3>1 DEF Collides
  <2> QED BY <2>2, <2>3, <2>4
<1> QED BY <1>0, <1>1, <1>2, <1>3, <1>4, <1>5 DEF Listed

(* Whatever is under one of the three names of a move is a copy of its     *)
(* source.                                                                 *)
LEMMA MoveContents ==
    ASSUME TypeOK, PlanInv, ContentsInv, phase \notin {"build", "end"}, NEW i \in DOMAIN moves,
           NEW name \in {moves[i].source, moves[i].temporary, moves[i].target}, Present(name)
    PROVE  objects[name].data = moves[i].source
<1>1. name \in Names
  BY NamesApart
<1>2. CASE name \in Listed /\ objects[name].data = name
  BY <1>2, NamesApart
<1>3. ASSUME NEW j \in DOMAIN moves, name \in {moves[j].temporary, moves[j].target},
             objects[name].data = moves[j].source
      PROVE  objects[name].data = moves[i].source
  BY <1>3, NamesApart
<1> QED BY <1>1, <1>2, <1>3 DEF ContentsInv

-----------------------------------------------------------------------------
(* Seen from outside, bookkeeping that does not end the run is nothing. *)
LEMMA QuietRenames ==
    ASSUME objects' = objects, phase # "end" => phase' # "end", phase = "end" => UNCHANGED <<phase, result>>
    PROVE  UNCHANGED Renames!vars
<1>1. Locations' = Locations
  BY DEF Locations, HoldsData, Present
<1>2. Told' = Told
  BY DEF Told
<1> QED BY <1>1, <1>2 DEF Renames!vars

(* A step of an operation copies a content or drops a copy. *)
LEMMA OperationRenames ==
    ASSUME ~LateDelivery, TypeOK, ContentInv, PlanInv, ContentsInv, OpFits, Operation
    PROVE  [Renames!Next]_Renames!vars
<1>0. /\ phase # "end" /\ phase' = phase /\ MoveTypeOK /\ CopyBeforeDelete /\ OpStep
      /\ op \in Ops /\ op.source \in Names /\ op.target \in Names /\ nextGen # 0
      /\ objects \in [Names -> Versions]
  BY OpStepBusy DEF OpFits, Operation, transactionVars, TypeOK, ContentInv, MoveTypeOK, Idle, Ops
<1>1. Told = "running" /\ Told' = "running"
  BY <1>0 DEF Told
<1>2. CASE objects' = objects
  BY <1>0, <1>2, QuietRenames
<1>3. ASSUME NEW name \in Names, Present(name)
      PROVE  objects[name].data \in Names
  <2>1. phase \notin {"build", "end"}
    BY DEF OpFits
  <2>2. \A i \in DOMAIN moves : moves[i].source \in Names
    BY <2>1, NamesApart
  <2> QED BY <1>3, <2>2 DEF ContentsInv
<1>4. ASSUME NEW one \in {op.source, op.target}, NEW two \in {op.source, op.target},
             Copies(one, two)
      PROVE  Renames!Next
  <2> DEFINE content == objects[one].data
  <2>0. /\ content \in Names /\ two \in Names /\ one \in Names
        /\ objects'[two] = [gen |-> nextGen, data |-> content] /\ ~Present(two)
        /\ \A name \in Names : name # two => objects'[name] = objects[name]
    BY <1>0, <1>3, <1>4 DEF Copies
  <2>1. Locations[content] # {} /\ Renames!Free(two)
    BY <1>4, <2>0 DEF Locations, HoldsData, Copies, Renames!Free
  <2>2. Locations' = [Locations EXCEPT ![content] = @ \cup {two}]
    <3>1. \A name \in Names : Present(name)' <=> Present(name) \/ name = two
      BY <1>0, <2>0 DEF Present
    <3>2. ASSUME NEW data \in Names
          PROVE  Locations'[data] = IF data = content THEN Locations[data] \cup {two}
                                    ELSE Locations[data]
      BY <2>0, <3>1 DEF Locations, HoldsData
    <3> QED BY <2>0, <3>2 DEF Locations
  <2>3. Renames!Copy(content, two)
    BY <1>1, <2>1, <2>2 DEF Renames!Copy
  <2> QED BY <2>0, <2>3 DEF Renames!Next
<1>5. ASSUME NEW one \in {op.source, op.target}, NEW two \in {op.source, op.target},
             Drops(one, two), objects' # objects
      PROVE  Renames!Next \/ UNCHANGED Renames!vars
  <2> DEFINE content == objects[two].data
  <2>0. /\ content \in Names /\ two \in Names /\ one \in Names /\ one # two /\ Present(two)
        /\ objects'[one].gen = 0
        /\ Present(one) => objects[one].data = content
        /\ \A name \in Names : name # one => objects'[name] = objects[name]
    BY <1>0, <1>3, <1>5 DEF Drops, Absent
  <2>1. CASE Present(one)
    <3>1. one \in Locations[content] /\ two \in Locations[content]
      BY <2>0, <2>1 DEF Locations, HoldsData
    <3>2. Locations' = [Locations EXCEPT ![content] = @ \ {one}]
      BY <2>0, <2>1 DEF Locations, HoldsData, Present
    <3>3. Renames!Drop(content, one)
      BY <1>1, <2>0, <3>1, <3>2 DEF Renames!Drop
    <3> QED BY <2>0, <3>3 DEF Renames!Next
  <2>2. CASE ~Present(one)
    <3>1. Locations' = Locations
      BY <2>0, <2>2 DEF Locations, HoldsData, Present
    <3> QED BY <1>1, <3>1 DEF Renames!vars
  <2> QED BY <2>1, <2>2
<1> QED BY <1>0, <1>2, <1>4, <1>5, OpStepObjects

-----------------------------------------------------------------------------
(* A step of an operation touches the names of one move only. *)
LEMMA OperationHeld ==
    ASSUME ~LateDelivery, TypeOK, IndexInv, ChangesOwned, ContentInv, RenamesInv, Operation
    PROVE  RenamesInv'
<1>0. /\ MoveTypeOK /\ CopyBeforeDelete /\ OpStep /\ OwnedInv /\ OpOwned /\ CallerInv
      /\ OpSettled /\ PlanInv /\ ContentsInv /\ RecordsInv /\ FreeInv /\ ResultInv
      /\ UNCHANGED <<phase, index, staged, finalized, undone, result, listing, moves>>
  BY DEF TypeOK, ContentInv, ChangesOwned, OwnedInv, RenamesInv, Operation, transactionVars
<1>1. /\ op \in Ops /\ OpFits /\ op' \in Ops /\ op' # Idle
      /\ op'.source = op.source /\ op'.target = op.target /\ op'.caller = op.caller
  <2>1. op \in Ops /\ op # Idle
    BY <1>0, OpStepBusy DEF MoveTypeOK, Idle
  <2>2. op' \in Ops
    BY <1>0, OpStepType
  <2>3. op' # Idle
    BY <2>2 DEF Ops, OpPcs, MovePcs, UndoPcs, FailurePcs, Idle
  <2> QED BY <1>0, <2>1, <2>2, <2>3, NamesKept, CallerKept DEF RenamesInv
<1>2. CallerInv' /\ OpSettled'
  BY <1>0, OpStepOwned, OpStepCallers, OpStepSettled
<1>3. OpFits'
  BY <1>0, <1>1 DEF OpFits
<1>4. PlanInv' /\ RecordsInv' /\ ResultInv'
  BY <1>0 DEF PlanInv, RecordsInv, ResultInv, Collides, Listed, RollingBack
<1>5. /\ phase \notin {"build", "plan", "end"} /\ index \in DOMAIN moves
      /\ op.source \in {moves[index].source, moves[index].temporary}
      /\ op.target \in {moves[index].temporary, moves[index].target}
      /\ phase \in {"stage", "rollbackStaged"} => op.target = moves[index].temporary
      /\ phase # "finalize" => op.source = moves[index].source
  <2>1. /\ moves \in Seq(PlannedMoves) /\ staged \in Seq(RemoteChanges)
        /\ finalized \in Seq(RemoteChanges)
        /\ Len(finalized) <= Len(staged) /\ Len(staged) <= Len(moves)
    BY <1>0 DEF TypeOK, TransactionTypeOK, RecordsInv
  <2>2. DOMAIN finalized \subseteq DOMAIN moves /\ DOMAIN staged \subseteq DOMAIN moves
    BY <2>1
  <2> QED BY <1>1, <2>2 DEF OpFits
<1>6. /\ op.source \in Names /\ op.target \in Names
      /\ \A name \in Names : name \notin {op.source, op.target} => objects'[name] = objects[name]
  <2>1. op.source \in Names /\ op.target \in Names /\ objects \in [Names -> Versions]
    BY <1>0, <1>1 DEF Ops, MoveTypeOK
  <2> QED BY <1>0, <2>1, OpStepObjects DEF Copies, Drops
<1>7. ContentsInv'
  <2> SUFFICES ASSUME NEW name \in Names, Present(name)'
               PROVE  \/ name \in Listed /\ objects'[name].data = name
                      \/ \E i \in DOMAIN moves :
                            /\ name \in {moves[i].temporary, moves[i].target}
                            /\ objects'[name].data = moves[i].source
    BY <1>0, <1>5 DEF ContentsInv, Listed
  <2>1. CASE objects'[name] = objects[name]
    BY <1>0, <2>1 DEF ContentsInv, Present
  <2>2. CASE objects'[name] # objects[name]
    <3>1. name \in {op.source, op.target}
      BY <1>6, <2>2
    <3>2. PICK one \in {op.source, op.target} :
             Present(one) /\ objects'[name].data = objects[one].data
      <4>1. objects \in [Names -> Versions]
        BY <1>0 DEF MoveTypeOK
      <4>2. ASSUME NEW one \in {op.source, op.target}, NEW two \in {op.source, op.target},
                   Copies(one, two)
            PROVE  Present(one) /\ objects'[name].data = objects[one].data
        BY <1>6, <2>2, <4>1, <4>2 DEF Copies
      <4>3. ASSUME NEW one \in {op.source, op.target}, NEW two \in {op.source, op.target},
                   Drops(one, two)
            PROVE  FALSE
        BY <1>6, <2>2, <4>1, <4>3 DEF Drops, Present, Absent
      <4> QED BY <1>0, <2>2, <4>2, <4>3, OpStepObjects
    <3>3. objects[one].data = moves[index].source
      BY <1>0, <1>5, <3>2, MoveContents
    <3>4. moves[index].source \in Listed
      BY <1>0, <1>5, NamesApart
    <3> QED BY <1>5, <3>1, <3>2, <3>3, <3>4
  <2> QED BY <2>1, <2>2
<1>8. FreeInv'
  <2>1. ASSUME NEW i \in DOMAIN moves, NEW name \in {moves[i].source, moves[i].temporary,
                                                     moves[i].target},
               ~Present(name), name \notin {op.source, op.target}
        PROVE  ~Present(name)'
    BY <1>0, <1>5, <1>6, <2>1, NamesApart DEF Present
  <2>2. ASSUME NEW i \in DOMAIN moves, i # index
        PROVE  /\ moves[i].source \notin {op.source, op.target}
               /\ moves[i].temporary \notin {op.source, op.target}
               /\ moves[i].target \notin {op.source, op.target}
    BY <1>0, <1>5, <2>2, NamesApart
  <2>3. /\ moves[index].source # moves[index].target
        /\ moves[index].source # moves[index].temporary
        /\ moves[index].temporary # moves[index].target
    BY <1>0, <1>5, NamesApart
  <2> SUFFICES ASSUME NEW i \in DOMAIN moves
               PROVE  /\ phase = "stage" =>
                         /\ ~Present(moves[i].target)'
                         /\ i < index => ~Present(moves[i].source)'
                         /\ i > index => ~Present(moves[i].temporary)'
                      /\ phase = "finalize" =>
                         /\ ~Present(moves[i].source)'
                         /\ i < index => ~Present(moves[i].temporary)'
                         /\ i > index => ~Present(moves[i].target)'
                      /\ phase = "rollbackFinalized" /\ Plain =>
                         /\ i > index => ~Present(moves[i].target)'
                         /\ i <= Len(finalized) \/ i > Len(staged) => ~Present(moves[i].temporary)'
                      /\ phase = "rollbackStaged" /\ Plain =>
                         /\ ~Present(moves[i].target)'
                         /\ i <= Len(finalized) \/ i > index => ~Present(moves[i].temporary)'
    BY <1>0, <1>1 DEF FreeInv, Plain, Present
  <2>4. index \in Nat /\ i \in Nat
    BY <1>0 DEF TypeOK, TransactionTypeOK
  <2>5. CASE i # index
    <3>1. /\ ~Present(moves[i].source) => ~Present(moves[i].source)'
          /\ ~Present(moves[i].temporary) => ~Present(moves[i].temporary)'
          /\ ~Present(moves[i].target) => ~Present(moves[i].target)'
      BY <1>0, <2>1, <2>2, <2>5 DEF Present
    <3> QED BY <1>0, <2>4, <2>5, <3>1 DEF FreeInv
  <2>6. CASE i = index
    <3>1. CASE phase = "stage"
      <4>1. ~Present(moves[i].target) /\ moves[i].target \notin {op.source, op.target}
        BY <1>0, <1>5, <2>3, <2>6, <3>1 DEF FreeInv
      <4> QED BY <1>0, <2>1, <2>4, <2>6, <3>1, <4>1 DEF Present
    <3>2. CASE phase = "finalize"
      <4>1. ~Present(moves[i].source) /\ moves[i].source \notin {op.source, op.target}
        BY <1>0, <1>1, <2>3, <2>6, <3>2 DEF FreeInv, OpFits
      <4> QED BY <1>0, <2>1, <2>4, <2>6, <3>2, <4>1 DEF Present
    <3>3. CASE phase = "rollbackFinalized" /\ Plain
      <4>1. moves[i].temporary \notin {op.source, op.target}
        BY <1>1, <2>3, <2>6, <3>3 DEF OpFits
      <4>2. ~Present(moves[i].temporary) => ~Present(moves[i].temporary)'
        BY <1>0, <2>1, <4>1 DEF Present
      <4> QED BY <1>0, <2>4, <2>6, <3>3, <4>2 DEF FreeInv
    <3>4. CASE phase = "rollbackStaged" /\ Plain
      <4>1. ~Present(moves[i].target) /\ moves[i].target \notin {op.source, op.target}
        BY <1>0, <1>5, <2>3, <2>6, <3>4 DEF FreeInv
      <4>2. index > Len(finalized) /\ Len(finalized) \in Nat
        BY <1>1, <3>4 DEF OpFits, TypeOK, TransactionTypeOK
      <4> QED BY <1>0, <2>1, <2>4, <2>6, <3>4, <4>1, <4>2 DEF Present
    <3> QED BY <3>1, <3>2, <3>3, <3>4
  <2> QED BY <2>5, <2>6
<1> QED BY <1>2, <1>3, <1>4, <1>7, <1>8 DEF RenamesInv

-----------------------------------------------------------------------------
(* The ways a run may end. *)
LEMMA UnchangedEnding ==
    ASSUME ContentsInv,
           \/ phase \in {"build", "plan"}
           \/ \A i \in DOMAIN moves : ~Present(moves[i].temporary) /\ ~Present(moves[i].target)
    PROVE  \A content \in Names : Locations[content] \subseteq {content}
BY DEF ContentsInv, Locations, HoldsData

LEMMA RenamedEnding ==
    ASSUME TypeOK, PlanInv, ContentsInv, phase = "finalize",
           \A i \in DOMAIN moves : ~Present(moves[i].source) /\ ~Present(moves[i].temporary)
    PROVE  \A content \in Names : Locations[content] \subseteq {Normalized[content]}
<1> SUFFICES ASSUME NEW name \in Names, Present(name)
             PROVE  name = Normalized[objects[name].data]
  BY DEF Locations, HoldsData
<1>1. CASE name \in Listed /\ objects[name].data = name
  <2>1. \A i \in DOMAIN moves : moves[i].source # name
    OBVIOUS
  <2>2. ~NeedsMove(name)
    BY <1>1, <2>1 DEF Listed, PlanInv
  <2> QED BY <1>1, <2>2 DEF NeedsMove
<1>2. ASSUME NEW i \in DOMAIN moves, name \in {moves[i].temporary, moves[i].target},
             objects[name].data = moves[i].source
      PROVE  name = Normalized[objects[name].data]
  <2>1. moves[i].target = Normalized[moves[i].source]
    BY DEF PlanInv, PlannedMove
  <2> QED BY <1>2, <2>1
<1> QED BY <1>1, <1>2 DEF ContentsInv

(* Returning: the operator learns that everything is renamed, that nothing *)
(* has changed, or that it is time to look.                                *)
LEMMA FinishRenames ==
    ASSUME objects' = objects, phase # "end", phase' = "end",
           \/ ~IsOk(result') /\ Look(result')
           \/ ~IsOk(result') /\ \A content \in Names : Locations[content] \subseteq {content}
           \/ IsOk(result') /\ \A content \in Names : Locations[content] \subseteq {Normalized[content]}
    PROVE  Renames!Next
<1>1. Told = "running"
  BY DEF Told
<1>2. Told' = IF IsOk(result') THEN "renamed" ELSE IF Look(result') THEN "look" ELSE "unchanged"
  BY DEF Told, Look
<1>3. Locations' = Locations
  BY DEF Locations, HoldsData, Present
<1> QED BY <1>1, <1>2, <1>3 DEF Renames!Next, Renames!Finish

(* Planning touches no object. *)
LEMMA PlanningHeld ==
    ASSUME TypeOK, IndexInv, RenamesInv, Build \/ PlanEntry \/ PlanDone
    PROVE  RenamesInv' /\ [Renames!Next]_Renames!vars
<1>0. /\ phase \in {"build", "plan"} /\ UNCHANGED <<moveVars, staged, finalized, undone, listing>>
      /\ PlanInv /\ ContentsInv /\ RecordsInv /\ ResultInv /\ CallerInv /\ OpSettled
      /\ staged = <<>> /\ finalized = <<>> /\ listing \in Seq(Names)
      /\ moves \in Seq(PlannedMoves) /\ index \in Nat
  BY DEF Build, PlanEntry, PlanDone, RenamesInv, IndexInv, TypeOK, TransactionTypeOK
<1>1. op = Idle /\ op' = Idle /\ objects' = objects /\ Listed' = Listed /\ Collides' = Collides
  BY <1>0 DEF RenamesInv, OpFits, moveVars, service, Listed, Collides
<1>2. CallerInv' /\ OpSettled'
  BY <1>1, NewCallers, NewSettled
<1>3. ~Look(Err("Message")) /\ ~IsOk(Err("Message"))
  BY DEF Look, ReportsLeftovers, Err, IsOk
<1>4. CASE phase' = "end" /\ result' = Err("Message") /\ moves' = moves
  <2>1. PlanInv' /\ ContentsInv' /\ RecordsInv' /\ FreeInv' /\ ResultInv'
    BY <1>0, <1>1, <1>4 DEF PlanInv, ContentsInv, RecordsInv, FreeInv, ResultInv, Present, RollingBack
  <2>2. Renames!Next
    BY <1>0, <1>1, <1>3, <1>4, UnchangedEnding, FinishRenames
  <2> QED BY <1>1, <1>2, <2>1, <2>2 DEF RenamesInv
<1>5. CASE phase' # "end"
  <2>1. UNCHANGED Renames!vars
    BY <1>0, <1>1, <1>5, QuietRenames
  <2>2. ResultInv'
    BY <1>0, <1>5 DEF Build, PlanEntry, PlanDone, ResultInv, RollingBack
  <2>3. CASE Build
    <3>1. phase' = "plan" /\ ~Collides /\ index' = 1 /\ moves' = moves /\ moves = <<>>
      BY <1>0, <1>5, <2>3 DEF Build, PlanInv
    <3>2. \A j \in DOMAIN listing : ~(j < 1)
      BY <1>0
    <3>3. PlanInv'
      BY <1>0, <1>1, <3>1, <3>2 DEF PlanInv
    <3>4. ContentsInv' /\ RecordsInv' /\ FreeInv'
      BY <1>0, <1>1, <3>1, <2>3 DEF ContentsInv, RecordsInv, FreeInv, Present, Build
    <3> QED BY <1>1, <1>2, <2>1, <2>2, <3>3, <3>4 DEF RenamesInv
  <2>4. CASE PlanEntry
    <3>0. /\ phase = "plan" /\ phase' = "plan" /\ index' = index + 1 /\ index \in DOMAIN listing
          /\ moves' = IF NeedsMove(listing[index]) THEN Append(moves, PlannedMove(listing[index]))
                      ELSE moves
      BY <1>5, <2>4 DEF PlanEntry
    <3>1. ContentsInv' /\ FreeInv'
      BY <1>0, <1>1, <3>0 DEF ContentsInv, FreeInv, Present
    <3>2. CASE ~NeedsMove(listing[index])
      <4>0. moves' = moves /\ index + 1 # 0 /\ (\A j \in DOMAIN listing : j \in Nat)
        BY <1>0, <3>0, <3>2
      <4>1. \A i \in DOMAIN moves : \E j \in DOMAIN listing :
               j < index' /\ moves[i].source = listing[j]
        BY <1>0, <3>0, <4>0 DEF PlanInv
      <4>2. \A j \in DOMAIN listing : j < index' /\ NeedsMove(listing[j]) => j < index
        BY <1>0, <3>0, <3>2, <4>0
      <4>3. PlanInv'
        BY <1>0, <1>1, <3>0, <4>0, <4>1, <4>2 DEF PlanInv
      <4>4. RecordsInv'
        BY <1>0, <3>0, <4>0 DEF RecordsInv
      <4> QED BY <1>1, <1>2, <2>1, <2>2, <3>1, <4>3, <4>4 DEF RenamesInv
    <3>3. CASE NeedsMove(listing[index])
      <4> DEFINE name == listing[index]
                 n == Len(moves) + 1
      <4>1. /\ n \in Nat /\ DOMAIN moves' = 1..n /\ DOMAIN moves = 1..(n - 1)
            /\ moves'[n] = PlannedMove(name)
            /\ \A i \in DOMAIN moves : moves'[i] = moves[i] /\ i # n
            /\ \A i \in DOMAIN moves' : i \in DOMAIN moves \/ i = n
        BY <1>0, <3>0, <3>3
      <4>2. PlannedMove(name).source = name /\ name \in Listed
        BY <3>0 DEF PlannedMove, Listed
      <4>3. ASSUME NEW i \in DOMAIN moves PROVE moves[i].source # name
        <5>1. PICK j \in DOMAIN listing : j < index /\ moves[i].source = listing[j]
          BY <1>0, <3>0 DEF PlanInv
        <5>2. j # index
          BY <1>0, <5>1
        <5> QED BY <1>0, <3>0, <5>1, <5>2, ListingsAssumption DEF PlanInv
      <4>4. \A i \in DOMAIN moves' :
               /\ moves'[i] = PlannedMove(moves'[i].source)
               /\ NeedsMove(moves'[i].source) /\ moves'[i].source \in Listed
        BY <1>0, <3>3, <4>1, <4>2 DEF PlanInv
      <4>5. \A i, j \in DOMAIN moves' : moves'[i].source = moves'[j].source => i = j
        BY <1>0, <4>1, <4>2, <4>3 DEF PlanInv
      <4>6. \A i \in DOMAIN moves' : \E j \in DOMAIN listing :
               j < index' /\ moves'[i].source = listing[j]
        <5>1. ASSUME NEW i \in DOMAIN moves
              PROVE  \E j \in DOMAIN listing : j < index' /\ moves'[i].source = listing[j]
          <6>1. PICK j \in DOMAIN listing : j < index /\ moves[i].source = listing[j]
            BY <1>0, <3>0 DEF PlanInv
          <6>2. j < index'
            BY <1>0, <3>0, <6>1
          <6> QED BY <4>1, <6>1, <6>2
        <5>2. index < index' /\ moves'[n].source = listing[index]
          BY <1>0, <3>0, <4>1, <4>2
        <5> QED BY <3>0, <4>1, <5>1, <5>2
      <4>7. ASSUME NEW j \in DOMAIN listing, j < index', NeedsMove(listing[j])
            PROVE  \E i \in DOMAIN moves' : moves'[i].source = listing[j]
        <5>1. CASE j = index
          BY <4>1, <4>2, <5>1
        <5>2. CASE j < index
          BY <1>0, <3>0, <4>1, <4>7, <5>2 DEF PlanInv
        <5> QED BY <1>0, <3>0, <4>7, <5>1, <5>2
      <4>8. PlanInv'
        <5>1. listing' = listing /\ listing \in Listings /\ ~Collides' /\ index' # 0
          BY <1>0, <1>1, <3>0 DEF PlanInv
        <5> QED BY <1>1, <3>0, <4>4, <4>5, <4>6, <4>7, <5>1 DEF PlanInv
      <4>9. RecordsInv'
        BY <1>0, <3>0, <4>1 DEF RecordsInv
      <4> QED BY <1>1, <1>2, <2>1, <2>2, <3>1, <4>8, <4>9 DEF RenamesInv
    <3> QED BY <3>2, <3>3
  <2>5. CASE PlanDone
    <3>1. /\ phase = "plan" /\ index \notin DOMAIN listing /\ phase' = "stage" /\ index' = 1
          /\ moves' = moves
      BY <2>5 DEF PlanDone
    <3>2. index \in Nat \ {0} /\ DOMAIN listing = 1..Len(listing) /\ Len(listing) \in Nat
      BY <1>0, <3>1 DEF PlanInv
    <3>3. \A j \in DOMAIN listing : j < index
      BY <3>1, <3>2
    <3>4. PlanInv'
      BY <1>0, <1>1, <3>1, <3>3 DEF PlanInv
    <3>5. ContentsInv' /\ RecordsInv'
      BY <1>0, <1>1, <3>1 DEF ContentsInv, RecordsInv, Present
    <3>6. FreeInv'
      <4>1. \A i \in DOMAIN moves : ~Present(moves[i].temporary) /\ ~Present(moves[i].target)
        BY <1>0, <3>1, NamesApart DEF ContentsInv
      <4>2. \A i \in DOMAIN moves : ~(i < 1)
        BY <1>0
      <4> QED BY <1>1, <3>1, <4>1, <4>2 DEF FreeInv, Present
    <3> QED BY <1>1, <1>2, <2>1, <2>2, <3>4, <3>5, <3>6 DEF RenamesInv
  <2> QED BY <1>5, <2>3, <2>4, <2>5
<1> QED BY <1>4, <1>5 DEF Build, PlanEntry, PlanDone

-----------------------------------------------------------------------------
(* Bookkeeping on the moves leaves the plan and the objects as they are. *)
LEMMA BookkeepingPlan ==
    ASSUME PlanInv, ContentsInv, objects' = objects, UNCHANGED <<listing, moves>>,
           phase \notin {"build", "plan"}, phase' \notin {"build", "plan"},
           phase' \in {"stage", "finalize"} => phase \in {"stage", "finalize"},
           phase = "end" => phase' = "end"
    PROVE  PlanInv' /\ ContentsInv'
<1>1. Listed' = Listed /\ Collides' = Collides
  BY DEF Listed, Collides
<1>2. PlanInv'
  BY <1>1 DEF PlanInv
<1>3. ContentsInv'
  BY <1>1 DEF ContentsInv, Present
<1> QED BY <1>2, <1>3

(* An interrupt before the first request of a move starts the rollback. *)
LEMMA BeginMoveHeld ==
    ASSUME TypeOK, IndexInv, RenamesInv, BeginStageMove \/ BeginFinalizeMove
    PROVE  RenamesInv' /\ UNCHANGED Renames!vars
<1>0. /\ phase \in {"stage", "finalize"} /\ op = Idle /\ index \in DOMAIN moves
      /\ UNCHANGED <<objects, listing, moves, staged, finalized, undone>>
      /\ PlanInv /\ ContentsInv /\ RecordsInv /\ FreeInv /\ ResultInv
      /\ staged \in Seq(RemoteChanges) /\ finalized \in Seq(RemoteChanges)
      /\ moves \in Seq(PlannedMoves) /\ index \in Nat
      /\ phase = "stage" => index = Len(staged) + 1 /\ finalized = <<>>
      /\ phase = "finalize" => /\ index = Len(finalized) + 1 /\ Len(staged) = Len(moves)
                               /\ staged[index].target = moves[index].temporary
  <2>1. /\ phase \in {"stage", "finalize"} /\ op = Idle
        /\ UNCHANGED <<objects, listing, moves, staged, finalized, undone>>
        /\ PlanInv /\ ContentsInv /\ RecordsInv /\ FreeInv /\ ResultInv
        /\ staged \in Seq(RemoteChanges) /\ finalized \in Seq(RemoteChanges)
        /\ moves \in Seq(PlannedMoves) /\ index \in Nat
        /\ phase = "stage" => index = Len(staged) + 1 /\ finalized = <<>>
        /\ phase = "finalize" => index = Len(finalized) + 1 /\ Len(staged) = Len(moves)
    BY DEF BeginStageMove, BeginFinalizeMove, BeginMove, Abort, service, RenamesInv, TypeOK,
       TransactionTypeOK, IndexInv, TransactionIndexInv, RecordsInv
  <2>2. CASE BeginStageMove
    BY <2>1, <2>2 DEF BeginStageMove
  <2>3. CASE BeginFinalizeMove
    <3>1. index \in DOMAIN staged /\ phase = "finalize"
      BY <2>3 DEF BeginFinalizeMove
    <3>2. index \in DOMAIN moves
      BY <2>1, <3>1
    <3> QED BY <2>1, <3>1, <3>2 DEF RecordsInv
  <2> QED BY <2>2, <2>3
<1>1. CASE interrupted
  <2>0. /\ phase' = "rollbackFinalized" /\ index' = Len(finalized) /\ op' = Idle
        /\ result' = Err("Interrupted")
    BY <1>1 DEF BeginStageMove, BeginFinalizeMove, BeginMove, Abort
  <2>1. CallerInv' /\ OpSettled'
    BY <2>0, NewCallers, NewSettled
  <2>2. PlanInv' /\ ContentsInv' /\ UNCHANGED Renames!vars
    BY <1>0, <2>0, BookkeepingPlan, QuietRenames
  <2>3. RecordsInv' /\ ResultInv'
    BY <1>0, <2>0 DEF RecordsInv, ResultInv, IsOk, Err
  <2>4. FreeInv'
    <3> SUFFICES ASSUME NEW i \in DOMAIN moves
                 PROVE  /\ i > Len(finalized) => ~Present(moves[i].target)
                        /\ i <= Len(finalized) \/ i > Len(staged) => ~Present(moves[i].temporary)
      BY <1>0, <2>0 DEF FreeInv, Present
    <3>1. i \in Nat /\ Len(staged) \in Nat /\ Len(finalized) \in Nat /\ i <= Len(moves)
      BY <1>0
    <3>2. CASE phase = "stage"
      BY <1>0, <3>1, <3>2 DEF FreeInv
    <3>3. CASE phase = "finalize"
      BY <1>0, <3>1, <3>3 DEF FreeInv
    <3> QED BY <1>0, <3>2, <3>3
  <2> QED BY <2>0, <2>1, <2>2, <2>3, <2>4 DEF RenamesInv
<1>2. CASE ~interrupted
  <2>0. /\ UNCHANGED <<phase, index, result>>
        /\ \/ /\ phase = "stage" /\ op' = MoveCall(moves[index].source, moves[index].temporary, 0)
           \/ /\ phase = "finalize"
              /\ op' = MoveCall(moves[index].temporary, moves[index].target, staged[index].generation)
    BY <1>0, <1>2 DEF BeginStageMove, BeginFinalizeMove, BeginMove
  <2>1. /\ ~Present(moves[index].temporary) \/ phase # "stage"
        /\ ~Present(moves[index].target) \/ phase # "finalize"
    BY <1>0 DEF FreeInv
  <2>2. CallerInv'
    BY <2>0, NewCallers DEF MoveCall, Call
  <2>3. OpSettled'
    <3>1. \A name : ~Present(name) => ~Present(name)'
      BY <1>0 DEF Present
    <3> QED BY <2>0, <2>1, <3>1, NewSettled
  <2>4. OpFits'
    BY <1>0, <2>0 DEF OpFits, MoveCall, Call
  <2>5. PlanInv' /\ ContentsInv' /\ UNCHANGED Renames!vars
    BY <1>0, <2>0, BookkeepingPlan, QuietRenames
  <2>6. RecordsInv' /\ ResultInv'
    BY <1>0, <2>0 DEF RecordsInv, ResultInv, RollingBack
  <2>7. FreeInv'
    BY <1>0, <2>0 DEF FreeInv, Present
  <2> QED BY <2>2, <2>3, <2>4, <2>5, <2>6, <2>7 DEF RenamesInv
<1> QED BY <1>1, <1>2

(* A staged move is recorded, or its failure starts the rollback. *)
LEMMA EndStageHeld ==
    ASSUME TypeOK, IndexInv, RenamesInv, EndStageMove
    PROVE  RenamesInv' /\ UNCHANGED Renames!vars
<1>0. /\ phase = "stage" /\ op.pc = "done" /\ op' = Idle /\ index \in DOMAIN moves
      /\ UNCHANGED <<objects, listing, moves, finalized, undone>> /\ undone
      /\ PlanInv /\ ContentsInv /\ RecordsInv /\ FreeInv /\ ResultInv /\ OpSettled
      /\ staged \in Seq(RemoteChanges) /\ finalized = <<>>
      /\ moves \in Seq(PlannedMoves) /\ index \in Nat
      /\ index = Len(staged) + 1
  BY DEF EndStageMove, EndStage, CheckedStep, Abort, service, RenamesInv, TypeOK,
     TransactionTypeOK, IndexInv, TransactionIndexInv, ResultInv
<1>1. /\ op # Idle /\ op.source = moves[index].source /\ op.target = moves[index].temporary
      /\ op.caller = "move"
  <2>1. op # Idle
    BY <1>0 DEF Idle
  <2> QED BY <1>0, <2>1 DEF RenamesInv, OpFits
<1>2. CallerInv' /\ OpSettled' /\ op' = Idle
  BY <1>0, NewCallers, NewSettled
<1>3. CASE IsOk(op.error)
  <2> DEFINE change == Change(moves[index].source, moves[index].temporary, op.tgen)
  <2>0. staged' = Append(staged, change) /\ CheckedStep(0)
    BY <1>3 DEF EndStageMove, EndStage
  <2>1. /\ \/ phase' = "rollbackFinalized" /\ index' = 0 /\ result' = Err("Interrupted")
           \/ phase' = phase /\ index' = index + 1 /\ result' = result
    BY <2>0 DEF CheckedStep, Abort
  <2>2. /\ Len(staged') = index /\ DOMAIN staged' = 1..index
        /\ \A i \in DOMAIN staged : staged'[i] = staged[i]
        /\ \A i \in DOMAIN staged' : i \in DOMAIN staged \/ i = index
        /\ staged'[index] = change
    BY <1>0, <2>0
  <2>3. ~Present(moves[index].source)
    BY <1>0, <1>1, <1>3 DEF OpSettled
  <2>4. PlanInv' /\ ContentsInv' /\ UNCHANGED Renames!vars
    BY <1>0, <2>1, BookkeepingPlan, QuietRenames
  <2>5. ResultInv'
    BY <1>0, <2>1 DEF ResultInv, RollingBack, IsOk, Err
  <2>6. RecordsInv'
    <3>1. \A i \in DOMAIN staged' : /\ staged'[i].source = moves[i].source
                                    /\ staged'[i].target = moves[i].temporary
      BY <1>0, <2>2 DEF RecordsInv, Change
    <3>2. Len(finalized') <= Len(staged') /\ Len(staged') <= Len(moves') /\ phase' # "finalize"
      BY <1>0, <2>1, <2>2
    <3> QED BY <1>0, <3>1, <3>2 DEF RecordsInv
  <2>7. FreeInv'
    <3> SUFFICES ASSUME NEW i \in DOMAIN moves
                 PROVE  /\ ~Present(moves[i].target)
                        /\ i < index + 1 => ~Present(moves[i].source)
                        /\ i > index => ~Present(moves[i].temporary)
      <4>1. /\ \A i \in DOMAIN moves : ~(i <= 0) /\ i \in Nat
            /\ Len(finalized) = 0 /\ \A i \in DOMAIN moves : i >= index + 1 => i > index
        BY <1>0
      <4>2. phase' # "finalize" /\ phase' # "rollbackStaged"
        BY <1>0, <2>1
      <4>3. CASE phase' = phase /\ index' = index + 1
        BY <1>0, <4>1, <4>2, <4>3 DEF FreeInv, Present
      <4>4. CASE phase' = "rollbackFinalized" /\ index' = 0
        BY <1>0, <2>2, <4>1, <4>2, <4>4 DEF FreeInv, Present
      <4> QED BY <2>1, <4>3, <4>4
    <3>1. i \in Nat
      BY <1>0
    <3> QED BY <1>0, <2>3, <3>1 DEF FreeInv
  <2> QED BY <1>2, <2>4, <2>5, <2>6, <2>7 DEF RenamesInv
<1>4. CASE ~IsOk(op.error)
  <2>0. /\ phase' = "rollbackFinalized" /\ index' = 0 /\ result' = op.error /\ staged' = staged
    BY <1>4 DEF EndStageMove, EndStage, Abort
  <2>1. Look(op.error) \/ ~Present(moves[index].temporary)
    BY <1>0, <1>1, <1>4 DEF OpSettled
  <2>4. PlanInv' /\ ContentsInv' /\ UNCHANGED Renames!vars
    BY <1>0, <2>0, BookkeepingPlan, QuietRenames
  <2>5. ResultInv' /\ RecordsInv'
    BY <1>0, <1>4, <2>0 DEF ResultInv, RecordsInv
  <2>7. FreeInv'
    <3> SUFFICES ASSUME NEW i \in DOMAIN moves, ~Look(op.error)
                 PROVE  /\ ~Present(moves[i].target)
                        /\ i <= Len(finalized) \/ i > Len(staged) => ~Present(moves[i].temporary)
      BY <1>0, <2>0 DEF FreeInv, Present, Plain
    <3>1. i \in Nat /\ i > 0 /\ Len(finalized) = 0
      BY <1>0
    <3> QED BY <1>0, <2>1, <3>1 DEF FreeInv
  <2> QED BY <1>2, <2>4, <2>5, <2>7 DEF RenamesInv
<1> QED BY <1>3, <1>4

(* So is a finalized one. *)
LEMMA EndFinalizeHeld ==
    ASSUME TypeOK, IndexInv, RenamesInv, EndFinalizeMove
    PROVE  RenamesInv' /\ UNCHANGED Renames!vars
<1>0. /\ phase = "finalize" /\ op.pc = "done" /\ op' = Idle /\ index \in DOMAIN staged
      /\ UNCHANGED <<objects, listing, moves, undone>> /\ undone
      /\ PlanInv /\ ContentsInv /\ RecordsInv /\ FreeInv /\ ResultInv /\ OpSettled
      /\ staged \in Seq(RemoteChanges) /\ finalized \in Seq(RemoteChanges)
      /\ moves \in Seq(PlannedMoves) /\ index \in Nat
      /\ index = Len(finalized) + 1 /\ Len(staged) = Len(moves)
  BY DEF EndFinalizeMove, EndFinalize, CheckedStep, Abort, service, RenamesInv, TypeOK,
     TransactionTypeOK, RecordsInv, ResultInv
<1>1. /\ op # Idle /\ op.source = moves[index].temporary /\ op.target = moves[index].target
      /\ op.caller = "move" /\ index \in DOMAIN moves
  <2>1. op # Idle
    BY <1>0 DEF Idle
  <2> QED BY <1>0, <2>1 DEF RenamesInv, OpFits
<1>2. CallerInv' /\ OpSettled' /\ op' = Idle
  BY <1>0, NewCallers, NewSettled
<1>3. CASE IsOk(op.error)
  <2> DEFINE change == Change(staged[index].source, moves[index].target, op.tgen)
  <2>0. finalized' = Append(finalized, change) /\ staged' = staged /\ CheckedStep(Len(finalized) + 1)
    BY <1>3 DEF EndFinalizeMove, EndFinalize
  <2>1. /\ \/ phase' = "rollbackFinalized" /\ index' = index /\ result' = Err("Interrupted")
           \/ phase' = phase /\ index' = index + 1 /\ result' = result
    BY <1>0, <2>0 DEF CheckedStep, Abort
  <2>2. /\ Len(finalized') = index /\ DOMAIN finalized' = 1..index
        /\ \A i \in DOMAIN finalized : finalized'[i] = finalized[i]
        /\ \A i \in DOMAIN finalized' : i \in DOMAIN finalized \/ i = index
        /\ finalized'[index] = change
    BY <1>0, <2>0
  <2>3. ~Present(moves[index].temporary)
    BY <1>0, <1>1, <1>3 DEF OpSettled
  <2>4. PlanInv' /\ ContentsInv' /\ UNCHANGED Renames!vars
    BY <1>0, <2>1, BookkeepingPlan, QuietRenames
  <2>5. ResultInv'
    BY <1>0, <2>1 DEF ResultInv, RollingBack, IsOk, Err
  <2>6. RecordsInv'
    <3>1. \A i \in DOMAIN finalized' : /\ finalized'[i].source = moves[i].source
                                       /\ finalized'[i].target = moves[i].target
      BY <1>0, <2>2 DEF RecordsInv, Change
    <3>2. /\ Len(finalized') <= Len(staged') /\ Len(staged') = Len(moves')
          /\ phase' = "finalize" => index' = Len(finalized') + 1
      BY <1>0, <2>0, <2>1, <2>2
    <3> QED BY <1>0, <2>0, <3>1, <3>2 DEF RecordsInv
  <2>7. FreeInv'
    <3> SUFFICES ASSUME NEW i \in DOMAIN moves
                 PROVE  /\ ~Present(moves[i].source)
                        /\ i < index + 1 => ~Present(moves[i].temporary)
                        /\ i > index => ~Present(moves[i].target)
      <4>1. /\ \A i \in DOMAIN moves : /\ i \in Nat /\ i <= Len(staged)
                                       /\ i >= index + 1 => i > index
                                       /\ i <= index => i < index + 1
        BY <1>0
      <4>2. phase' # "stage" /\ phase' # "rollbackStaged"
        BY <1>0, <2>1
      <4>3. CASE phase' = phase /\ index' = index + 1
        BY <1>0, <4>1, <4>2, <4>3 DEF FreeInv, Present
      <4>4. CASE phase' = "rollbackFinalized" /\ index' = index
        BY <1>0, <2>0, <2>2, <4>1, <4>2, <4>4 DEF FreeInv, Present
      <4> QED BY <2>1, <4>3, <4>4
    <3>1. i \in Nat
      BY <1>0
    <3> QED BY <1>0, <2>3, <3>1 DEF FreeInv
  <2> QED BY <1>2, <2>4, <2>5, <2>6, <2>7 DEF RenamesInv
<1>4. CASE ~IsOk(op.error)
  <2>0. /\ phase' = "rollbackFinalized" /\ index' = Len(finalized) /\ result' = op.error
        /\ staged' = KeepRestoredGeneration(op.error) /\ finalized' = finalized
    BY <1>4 DEF EndFinalizeMove, EndFinalize, Abort
  <2>1. Look(op.error) \/ ~Present(moves[index].target)
    BY <1>0, <1>1, <1>4 DEF OpSettled
  <2>2. /\ Len(staged') = Len(staged) /\ DOMAIN staged' = DOMAIN staged
        /\ \A i \in DOMAIN staged : /\ staged'[i].source = staged[i].source
                                    /\ staged'[i].target = staged[i].target
    <3>1. \A i \in DOMAIN staged : staged[i] \in RemoteChanges
      BY <1>0
    <3> QED BY <1>0, <2>0, <3>1 DEF KeepRestoredGeneration, RemoteChanges
  <2>4. PlanInv' /\ ContentsInv' /\ UNCHANGED Renames!vars
    BY <1>0, <2>0, BookkeepingPlan, QuietRenames
  <2>5. ResultInv' /\ RecordsInv'
    BY <1>0, <1>4, <2>0, <2>2 DEF ResultInv, RecordsInv
  <2>7. FreeInv'
    <3> SUFFICES ASSUME NEW i \in DOMAIN moves, ~Look(op.error)
                 PROVE  /\ i > Len(finalized) => ~Present(moves[i].target)
                        /\ i <= Len(finalized) \/ i > Len(staged) => ~Present(moves[i].temporary)
      BY <1>0, <2>0, <2>2 DEF FreeInv, Present, Plain
    <3>1. i \in Nat /\ Len(finalized) \in Nat /\ i <= Len(staged) /\ Len(staged) \in Nat
      BY <1>0
    <3> QED BY <1>0, <2>1, <3>1 DEF FreeInv
  <2> QED BY <1>2, <2>4, <2>5, <2>7 DEF RenamesInv
<1> QED BY <1>3, <1>4

(* Staging ends when every source is under its temporary name, finalizing  *)
(* when every one is under its target: then the run is done.               *)
LEMMA PhasesHeld ==
    ASSUME TypeOK, IndexInv, RenamesInv, StageDone \/ FinalizeDone
    PROVE  RenamesInv' /\ [Renames!Next]_Renames!vars
<1>0. /\ op = Idle /\ op' = Idle /\ UNCHANGED <<objects, listing, moves, staged, finalized, undone, result>>
      /\ PlanInv /\ ContentsInv /\ RecordsInv /\ FreeInv /\ ResultInv
      /\ staged \in Seq(RemoteChanges) /\ finalized \in Seq(RemoteChanges)
      /\ moves \in Seq(PlannedMoves) /\ index \in Nat
  BY DEF StageDone, StagingDone, FinalizeDone, FinalizingDone, moveVars, service, RenamesInv,
     TypeOK, TransactionTypeOK
<1>1. CallerInv' /\ OpSettled'
  BY <1>0, NewCallers, NewSettled
<1>2. CASE StageDone
  <2>0. /\ phase = "stage" /\ index > Len(moves) /\ phase' = "finalize" /\ index' = 1
        /\ index = Len(staged) + 1 /\ finalized = <<>> /\ Len(staged) <= Len(moves)
    BY <1>2 DEF StageDone, StagingDone, IndexInv, TransactionIndexInv
  <2>1. PlanInv' /\ ContentsInv' /\ UNCHANGED Renames!vars
    BY <1>0, <2>0, BookkeepingPlan, QuietRenames
  <2>2. RecordsInv' /\ ResultInv'
    BY <1>0, <2>0 DEF RecordsInv, ResultInv, RollingBack
  <2>3. FreeInv'
    <3>1. \A i \in DOMAIN moves : i < index /\ ~(i < 1)
      BY <1>0, <2>0
    <3> QED BY <1>0, <2>0, <3>1 DEF FreeInv, Present
  <2> QED BY <1>0, <1>1, <2>1, <2>2, <2>3 DEF RenamesInv
<1>3. CASE FinalizeDone
  <2>0. phase = "finalize" /\ index > Len(staged) /\ phase' = "end" /\ Len(staged) = Len(moves)
    BY <1>0, <1>3 DEF FinalizeDone, FinalizingDone, RecordsInv
  <2>1. PlanInv' /\ ContentsInv'
    BY <1>0, <2>0, BookkeepingPlan
  <2>2. RecordsInv' /\ ResultInv' /\ FreeInv'
    BY <1>0, <2>0 DEF RecordsInv, ResultInv, RollingBack, FreeInv
  <2>3. \A i \in DOMAIN moves : ~Present(moves[i].source) /\ ~Present(moves[i].temporary)
    <3>1. \A i \in DOMAIN moves : i < index
      BY <1>0, <2>0
    <3> QED BY <1>0, <2>0, <3>1 DEF FreeInv
  <2>4. \A content \in Names : Locations[content] \subseteq {Normalized[content]}
    BY <1>0, <2>0, <2>3, RenamedEnding
  <2>5. IsOk(result')
    BY <1>0, <2>0 DEF ResultInv
  <2>6. Renames!Next
    BY <1>0, <2>0, <2>4, <2>5, FinishRenames
  <2> QED BY <1>0, <1>1, <2>1, <2>2, <2>6 DEF RenamesInv
<1> QED BY <1>2, <1>3

(* The rollback: a change that cannot be undone makes the operator look,   *)
(* every other leaves its target free.                                     *)
LEMMA RollbackHeld ==
    ASSUME TypeOK, IndexInv, RenamesInv, RollbackMoves
    PROVE  RenamesInv' /\ [Renames!Next]_Renames!vars
<1>0. /\ phase \in {"rollbackFinalized", "rollbackStaged"}
      /\ UNCHANGED <<objects, listing, moves, staged, finalized>>
      /\ PlanInv /\ ContentsInv /\ RecordsInv /\ FreeInv /\ ResultInv /\ OpSettled
      /\ staged \in Seq(RemoteChanges) /\ finalized \in Seq(RemoteChanges)
      /\ moves \in Seq(PlannedMoves) /\ index \in Nat /\ result \in AppErrors
      /\ phase = "rollbackFinalized" => index <= Len(finalized)
      /\ phase = "rollbackStaged" => index <= Len(staged)
  BY DEF RollbackMoves, BeginRollback, SkipRollback, EndRollback, RollbackStagedNext,
     RollbackDoneAll, RollingBack, moveVars, service, transactionVars, RenamesInv, TypeOK,
     TransactionTypeOK, IndexInv, TransactionIndexInv
<1>1. /\ Len(finalized) \in Nat /\ Len(staged) \in Nat /\ Len(moves) \in Nat
      /\ Len(finalized) <= Len(staged) /\ Len(staged) <= Len(moves)
      /\ DOMAIN finalized = 1..Len(finalized) /\ DOMAIN staged = 1..Len(staged)
      /\ DOMAIN moves = 1..Len(moves)
  BY <1>0 DEF RecordsInv
<1>2. CASE BeginRollback(RollbackOf(Recorded[index]))
  <2>0. /\ op = Idle /\ index > 0 /\ ~Skipped(Recorded[index]) /\ UNCHANGED transactionVars
        /\ op' = RollbackOf(Recorded[index])
    BY <1>2 DEF BeginRollback
  <2>1. CallerInv' /\ OpSettled'
    BY <2>0, NewCallers, NewSettled DEF RollbackOf
  <2>2. PlanInv' /\ ContentsInv' /\ UNCHANGED Renames!vars
    BY <1>0, <2>0, BookkeepingPlan, QuietRenames DEF transactionVars
  <2>3. RecordsInv' /\ ResultInv'
    BY <1>0, <2>0 DEF RecordsInv, ResultInv, RollingBack, transactionVars
  <2>4. FreeInv'
    BY <1>0, <2>0 DEF FreeInv, Present, Plain, transactionVars
  <2>5. OpFits'
    <3>1. CASE phase = "rollbackFinalized"
      <4>1. index \in DOMAIN finalized
        BY <1>0, <1>1, <2>0, <3>1
      <4> QED BY <1>0, <2>0, <3>1, <4>1
              DEF OpFits, Recorded, RollbackOf, RollbackCall, Call, RecordsInv, transactionVars
    <3>2. CASE phase = "rollbackStaged"
      <4>1. index \in DOMAIN staged
        BY <1>0, <1>1, <2>0, <3>2
      <4>2. index > Len(finalized)
        <5> SUFFICES ASSUME index <= Len(finalized) PROVE FALSE
          BY <1>0, <1>1
        <5>1. index \in DOMAIN finalized
          BY <1>0, <1>1, <2>0
        <5>2. staged[index].source = finalized[index].source
          BY <1>0, <4>1, <5>1 DEF RecordsInv
        <5> QED BY <2>0, <3>2, <5>1, <5>2 DEF Skipped, Recorded, FinalizedSources
      <4> QED BY <1>0, <2>0, <3>2, <4>1, <4>2
              DEF OpFits, Recorded, RollbackOf, RollbackCall, Call, RecordsInv, transactionVars
    <3> QED BY <1>0, <3>1, <3>2
  <2> QED BY <2>1, <2>2, <2>3, <2>4, <2>5 DEF RenamesInv
<1>3. CASE SkipRollback
  <2>0. /\ op = Idle /\ op' = Idle /\ index > 0 /\ Skipped(staged[index]) /\ phase = "rollbackStaged"
        /\ UNCHANGED <<phase, undone, result>> /\ index' = index - 1
    BY <1>3 DEF SkipRollback, Skipped, Recorded, moveVars
  <2>1. CallerInv' /\ OpSettled'
    BY <2>0, NewCallers, NewSettled
  <2>2. PlanInv' /\ ContentsInv' /\ UNCHANGED Renames!vars
    BY <1>0, <2>0, BookkeepingPlan, QuietRenames
  <2>3. RecordsInv' /\ ResultInv'
    BY <1>0, <2>0 DEF RecordsInv, ResultInv, RollingBack
  <2>4. index <= Len(finalized)
    <3>1. PICK j \in DOMAIN finalized : staged[index].source = finalized[j].source
      BY <2>0 DEF Skipped, FinalizedSources
    <3>2. index \in DOMAIN staged /\ index \in DOMAIN moves /\ j \in DOMAIN moves
      BY <1>0, <1>1, <2>0
    <3>3. moves[index].source = moves[j].source
      BY <1>0, <3>1, <3>2 DEF RecordsInv
    <3>4. index = j
      BY <1>0, <3>2, <3>3 DEF PlanInv
    <3> QED BY <1>1, <3>4
  <2>5. FreeInv'
    <3>1. \A i \in DOMAIN moves : i > index' => i > index \/ i <= Len(finalized)
      BY <1>0, <1>1, <2>0, <2>4
    <3> QED BY <1>0, <2>0, <3>1 DEF FreeInv, Present, Plain
  <2> QED BY <2>0, <2>1, <2>2, <2>3, <2>5 DEF RenamesInv
<1>4. CASE EndRollback
  <2>0. /\ op.pc = "done" /\ op' = Idle /\ UNCHANGED <<phase, result>> /\ index' = index - 1
        /\ undone' = (undone /\ IsOk(op.error))
    BY <1>4 DEF EndRollback
  <2>1. CallerInv' /\ OpSettled'
    BY <2>0, NewCallers, NewSettled
  <2>2. PlanInv' /\ ContentsInv' /\ UNCHANGED Renames!vars
    BY <1>0, <2>0, BookkeepingPlan, QuietRenames
  <2>3. RecordsInv' /\ ResultInv'
    BY <1>0, <2>0 DEF RecordsInv, ResultInv, RollingBack
  <2>4. OpFits /\ op.caller = "transaction"
    BY <1>0, <2>0 DEF RenamesInv, OpFits, Idle
  <2>5. Plain' => Plain /\ ~Present(op.target)
    BY <1>0, <2>0, <2>4 DEF Plain, OpSettled
  <2>6. FreeInv'
    <3>1. \A i \in DOMAIN moves : i > index' => i > index \/ i = index
      BY <1>0, <1>1, <2>0
    <3>2. CASE phase = "rollbackFinalized"
      <4>1. op.target = moves[index].target
        BY <2>4, <3>2 DEF OpFits
      <4> QED BY <1>0, <2>0, <2>5, <3>1, <3>2, <4>1 DEF FreeInv, Present
    <3>3. CASE phase = "rollbackStaged"
      <4>1. op.target = moves[index].temporary
        BY <2>4, <3>3 DEF OpFits
      <4> QED BY <1>0, <2>0, <2>5, <3>1, <3>3, <4>1 DEF FreeInv, Present
    <3> QED BY <1>0, <3>2, <3>3
  <2> QED BY <2>0, <2>1, <2>2, <2>3, <2>6 DEF RenamesInv
<1>5. CASE RollbackStagedNext
  <2>0. /\ op' = Idle /\ UNCHANGED <<undone, result>> /\ phase = "rollbackFinalized"
        /\ phase' = "rollbackStaged" /\ index = 0 /\ index' = Len(staged)
    BY <1>5 DEF RollbackStagedNext, moveVars
  <2>1. CallerInv' /\ OpSettled'
    BY <2>0, NewCallers, NewSettled
  <2>2. PlanInv' /\ ContentsInv' /\ UNCHANGED Renames!vars
    BY <1>0, <2>0, BookkeepingPlan, QuietRenames
  <2>3. RecordsInv' /\ ResultInv'
    BY <1>0, <2>0 DEF RecordsInv, ResultInv, RollingBack
  <2>4. FreeInv'
    <3>1. \A i \in DOMAIN moves : i > 0
      BY <1>1
    <3> QED BY <1>0, <2>0, <3>1 DEF FreeInv, Present, Plain
  <2> QED BY <2>0, <2>1, <2>2, <2>3, <2>4 DEF RenamesInv
<1>6. CASE RollbackDoneAll
  <2>0. /\ op' = Idle /\ undone' = undone /\ phase = "rollbackStaged" /\ phase' = "end"
        /\ index = 0 /\ result' = Rollback(result, ~undone)
    BY <1>6 DEF RollbackDoneAll, moveVars
  <2>1. CallerInv' /\ OpSettled'
    BY <2>0, NewCallers, NewSettled
  <2>2. PlanInv' /\ ContentsInv'
    BY <1>0, <2>0, BookkeepingPlan
  <2>3. RecordsInv' /\ ResultInv' /\ FreeInv'
    BY <1>0, <2>0 DEF RecordsInv, ResultInv, RollingBack, FreeInv
  <2>4. ~IsOk(result') /\ (~undone => Look(result')) /\ (undone => result' = result)
    BY <1>0, <2>0 DEF ResultInv, RollingBack, Rollback, IsOk, Look, ReportsLeftovers, AppErrors
  <2>5. CASE Plain
    <3>1. \A i \in DOMAIN moves : ~Present(moves[i].temporary) /\ ~Present(moves[i].target)
      <4>1. \A i \in DOMAIN moves : i > 0
        BY <1>1
      <4> QED BY <1>0, <2>0, <2>5, <4>1 DEF FreeInv
    <3>2. \A content \in Names : Locations[content] \subseteq {content}
      BY <1>0, <3>1, UnchangedEnding
    <3>3. Renames!Next
      BY <1>0, <2>0, <2>4, <3>2, FinishRenames
    <3> QED BY <2>0, <2>1, <2>2, <2>3, <3>3 DEF RenamesInv
  <2>6. CASE ~Plain
    <3>1. Look(result')
      BY <2>4, <2>6 DEF Plain
    <3>2. Renames!Next
      BY <1>0, <2>0, <2>4, <3>1, FinishRenames
    <3> QED BY <2>0, <2>1, <2>2, <2>3, <3>2 DEF RenamesInv
  <2> QED BY <2>5, <2>6
<1> QED BY <1>2, <1>3, <1>4, <1>5, <1>6 DEF RollbackMoves

-----------------------------------------------------------------------------
(* A signal, or nothing at all, is not seen from outside. *)
LEMMA QuietHeld ==
    ASSUME TypeOK, RenamesInv, UNCHANGED <<service, op, transactionVars, listing, moves>>
    PROVE  RenamesInv' /\ UNCHANGED Renames!vars
<1>0. /\ UNCHANGED <<objects, others, nextGen, op, phase, index, staged, finalized, undone, result>>
      /\ MoveTypeOK
  BY DEF service, transactionVars, TypeOK
<1>1. CallerInv'
  BY <1>0, CallersKept DEF RenamesInv, OwnKept, Mine
<1>2. OpSettled'
  BY <1>0, SettledKept DEF RenamesInv
<1>3. op' # Idle => OpFits'
  BY <1>0 DEF RenamesInv, OpFits
<1>4. Listed' = Listed /\ Collides' = Collides
  BY DEF Listed, Collides
<1>5. PlanInv' /\ ContentsInv'
  BY <1>0, <1>4 DEF RenamesInv, PlanInv, ContentsInv, Present
<1>6. RecordsInv' /\ FreeInv' /\ ResultInv'
  BY <1>0 DEF RenamesInv, RecordsInv, FreeInv, ResultInv, RollingBack, Plain, Present
<1>7. UNCHANGED Renames!vars
  BY <1>0, QuietRenames
<1> QED BY <1>1, <1>2, <1>3, <1>5, <1>6, <1>7 DEF RenamesInv

(* Initially every listed content is under its own name. *)
LEMMA InitRenames == Init => RenamesInv /\ Renames!Init
<1> SUFFICES ASSUME Init PROVE RenamesInv /\ Renames!Init
  OBVIOUS
<1>0. /\ listing \in Listings /\ listing \in Seq(Names) /\ moves = <<>> /\ op = Idle
      /\ phase = "build" /\ staged = <<>> /\ finalized = <<>> /\ undone = TRUE /\ result = NoError
      /\ objects = [name \in Names |-> IF name \in Listed THEN [gen |-> 1, data |-> name] ELSE Absent]
      /\ Listed \subseteq Names
  BY ListingsAssumption DEF Init, MoveInit, TransactionInit, Listed
<1>1. CallerInv /\ OpSettled
  BY <1>0 DEF CallerInv, OpSettled, Idle, MovePcs, FailurePcs, CleanupPcs
<1>2. PlanInv /\ RecordsInv /\ FreeInv /\ ResultInv
  BY <1>0 DEF PlanInv, RecordsInv, FreeInv, ResultInv, RollingBack, IsOk, NoError, Err
<1>3. \A name \in Names : /\ Present(name) <=> name \in Listed
                          /\ name \in Listed => objects[name].data = name
  BY <1>0 DEF Present, Absent
<1>4. ContentsInv
  BY <1>3 DEF ContentsInv
<1>5. Locations = [content \in Names |-> IF content \in Listed THEN {content} ELSE {}]
  BY <1>3 DEF Locations, HoldsData
<1>6. Told = "running"
  BY <1>0 DEF Told
<1> QED BY <1>0, <1>1, <1>2, <1>4, <1>5, <1>6 DEF RenamesInv, Renames!Init

(* Every step of the workflow keeps the account and is a step of           *)
(* ObjectRenames or none.                                                  *)
LEMMA NextRenames ==
    ASSUME ~LateDelivery, MaxForeign = 0, TypeOK, IndexInv, ChangesOwned, ContentInv,
           RenamesInv, [Next]_vars
    PROVE  RenamesInv' /\ [Renames!Next]_Renames!vars
<1>1. CASE Operation
  <2>1. OpFits
    BY <1>1, OpStepBusy DEF Operation, RenamesInv, Idle
  <2> QED BY <1>1, <2>1, OperationHeld, OperationRenames DEF RenamesInv
<1>2. CASE Disturbance
  <2>1. Signal /\ UNCHANGED <<transactionVars, listing, moves>>
    BY <1>2 DEF Disturbance, Meddling, Land, ForeignWrite, ForeignDelete, ContentInv
  <2>2. UNCHANGED <<service, op>>
    BY <2>1 DEF Signal
  <2> QED BY <2>1, <2>2, QuietHeld
<1>3. CASE Terminated \/ UNCHANGED vars
  BY <1>3, QuietHeld DEF Terminated, vars, moveVars
<1>4. CASE RunStep /\ ~Operation
  BY <1>4, PlanningHeld, BeginMoveHeld, EndStageHeld, EndFinalizeHeld, PhasesHeld, RollbackHeld
     DEF RunStep
<1> QED BY <1>1, <1>2, <1>3, <1>4 DEF Next

(* ImplementsRenames: as long as every writer honours the lock and the     *)
(* service executes no request after the client has given up on it, the    *)
(* normalize workflow implements ObjectRenames, for every bucket and every *)
(* plan and whatever fails: contents get and lose names one at a time,     *)
(* never their last one and never over another object, and a run that      *)
(* does not tell the operator to look has renamed everything or nothing.   *)
THEOREM RenamesImplemented ==
    ASSUME ~LateDelivery, MaxForeign = 0
    PROVE  Spec => ImplementsRenames
<1> DEFINE IInv == TypeOK /\ IndexInv /\ ChangesOwned /\ ContentInv /\ RenamesInv
<1>1. Init => IInv /\ Renames!Init
  BY InitType, InitOwned, InitContent, InitRenames DEF Init
<1>2. IInv /\ [Next]_vars => IInv'
  BY NextType, NextOwned, NextContent, NextRenames
<1>3. IInv /\ [Next]_vars => [Renames!Next]_Renames!vars
  BY NextRenames
<1> QED BY <1>1, <1>2, <1>3, PTL DEF Spec, ImplementsRenames, Renames!Spec

-----------------------------------------------------------------------------
(* A single disturbance is contained.                                      *)

(* Where move i should be: under its target once it is recorded as         *)
(* finalized, under its temporary name once it is recorded as staged, and  *)
(* under its source otherwise or once it is rolled back.                   *)
Final(i) == /\ phase \in {"finalize", "rollbackFinalized"} /\ i <= Len(finalized)
            /\ phase = "rollbackFinalized" => i <= index
Staged(i) == /\ phase \in {"stage", "finalize", "rollbackFinalized", "rollbackStaged"}
             /\ Len(finalized) < i /\ i <= Len(staged)
             /\ phase = "rollbackStaged" => i <= index

InPlace(i) ==
    IF Final(i)
    THEN /\ ~Present(moves[i].source) /\ ~Present(moves[i].temporary)
         /\ Stands(moves[i].target, finalized[i].generation)
    ELSE IF Staged(i)
    THEN /\ ~Present(moves[i].source) /\ ~Present(moves[i].target)
         /\ Stands(moves[i].temporary, staged[i].generation)
    ELSE Restored(moves[i])

(* The move under way is on course, and its third name is free. *)
UnderWay(i) ==
    /\ OpCourse
    /\ phase \in {"stage", "rollbackStaged"} => ~Present(moves[i].target)
    /\ phase = "finalize" => ~Present(moves[i].source)
    /\ phase = "rollbackFinalized" => ~Present(moves[i].temporary)

(* Every move but at most one, k, is in place.  That one has failed; after *)
(* a signal what is recorded of it can be rolled back nevertheless.        *)
Spared(k) ==
    /\ k # 0 => RollingBack /\ k > Len(finalized)
    /\ \A i \in DOMAIN moves : i # k =>
          IF op # Idle /\ i = index THEN UnderWay(i) ELSE InPlace(i)
    /\ faults = 0 /\ Staged(k) =>
          IF op # Idle /\ k = index /\ phase = "rollbackStaged" THEN OpCourse
          ELSE ~Present(moves[k].source) /\ Stands(moves[k].temporary, staged[k].generation)

ContainedInv ==
    /\ Signalled /\ SingleFailureContained
    /\ faults + signals <= 1 =>
          /\ faults = 0 => undone
          /\ RollingBack => ~interrupted /\ faults + signals # 0
          /\ phase = "finalize" /\ op # Idle =>
                op.pc # "generation" /\ (Original => op.sgen = staged[index].generation)
          /\ phase \notin {"build", "plan", "end"} => \E k \in Nat : Spared(k)

(* The domains of the sequences, and where `index` may point. *)
LEMMA Domains ==
    ASSUME TypeOK, IndexInv, RecordsInv
    PROVE  /\ Len(finalized) \in Nat /\ Len(staged) \in Nat /\ Len(moves) \in Nat /\ index \in Nat
           /\ Len(finalized) <= Len(staged) /\ Len(staged) <= Len(moves)
           /\ DOMAIN finalized = 1..Len(finalized) /\ DOMAIN staged = 1..Len(staged)
           /\ DOMAIN moves = 1..Len(moves)
           /\ phase = "stage" => index = Len(staged) + 1 /\ finalized = <<>> /\ Len(finalized) = 0
           /\ phase = "finalize" => index = Len(finalized) + 1 /\ Len(staged) = Len(moves)
           /\ phase = "rollbackFinalized" => index <= Len(finalized)
           /\ phase = "rollbackStaged" => index <= Len(staged)
<1>1. /\ staged \in Seq(RemoteChanges) /\ finalized \in Seq(RemoteChanges)
      /\ moves \in Seq(PlannedMoves) /\ index \in Nat
  BY DEF TypeOK, TransactionTypeOK
<1> QED BY <1>1 DEF IndexInv, TransactionIndexInv, RecordsInv

(* A move stays in place while its names and its records do. *)
LEMMA PlaceKept ==
    ASSUME NEW i \in DOMAIN moves, moves' = moves, InPlace(i),
           \A name \in {moves[i].source, moves[i].temporary, moves[i].target} :
              objects'[name] = objects[name],
           Final(i)' <=> Final(i), Staged(i)' <=> Staged(i),
           Final(i) => finalized'[i].generation = finalized[i].generation,
           Staged(i) => staged'[i].generation = staged[i].generation
    PROVE  InPlace(i)'
<1>1. CASE Final(i)
  BY <1>1 DEF InPlace, Present, Stands
<1>2. CASE ~Final(i) /\ Staged(i)
  BY <1>2 DEF InPlace, Present, Stands
<1>3. CASE ~Final(i) /\ ~Staged(i)
  BY <1>3 DEF InPlace, Restored, HoldsData, Present
<1> QED BY <1>1, <1>2, <1>3

(* Only the source of a move is left when its other names are free. *)
LEMMA BackHome ==
    ASSUME TypeOK, PlanInv, ContentsInv, phase \notin {"build", "end"}, NEW i \in DOMAIN moves,
           Present(moves[i].source), ~Present(moves[i].temporary), ~Present(moves[i].target)
    PROVE  Restored(moves[i])
BY MoveContents DEF Restored, HoldsData

(* Before the first move every source is there. *)
LEMMA PlannedRestored ==
    ASSUME TypeOK, PlanInv, ContentsInv, NoContentLoss, phase = "plan", NEW i \in DOMAIN moves
    PROVE  Restored(moves[i])
<1>1. /\ moves[i].source \in Listed /\ moves[i].temporary \in Names /\ moves[i].target \in Names
      /\ moves[i].temporary \notin Listed /\ moves[i].target \notin Listed
  BY NamesApart
<1>2. ~Present(moves[i].temporary) /\ ~Present(moves[i].target)
  BY <1>1 DEF ContentsInv
<1>3. PICK name \in Names : HoldsData(name, moves[i].source)
  BY <1>1 DEF NoContentLoss
<1>4. name = moves[i].source
  BY <1>3 DEF ContentsInv, HoldsData
<1> QED BY <1>2, <1>3, <1>4 DEF Restored

(* What every step leaves behind of the environment's account. *)
LEMMA OpStepSignals ==
    ASSUME MoveTypeOK, OpStep
    PROVE  /\ faults' + signals' <= 1 => faults + signals <= 1
           /\ faults' = 0 => faults = 0
           /\ Signalled => Signalled'
<1>0. faults \in Nat /\ signals \in Nat
  BY BoundsAssumption DEF MoveTypeOK
<1>1. ASSUME NEW request, NEW e, Send(request, e)
      PROVE  /\ faults' = faults \/ faults' = faults + 1
             /\ signals' = signals \/ signals' = signals + 1
             /\ interrupted' = interrupted \/ signals' # 0
             /\ signals # 0 => signals' # 0
  BY <1>0, <1>1 DEF Send, Unsent, Answered, Abandoned, environment
<1>2. CASE ClearInterruptForRollback \/ ConfirmedFailure
  BY <1>2 DEF ClearInterruptForRollback, ConfirmedFailure, environment, Signalled
<1>3. CASE \E request, e : Send(request, e)
  BY <1>0, <1>1, <1>3 DEF Signalled
<1>4. CASE MoveStep
  BY <1>3, <1>4 DEF MoveStep, ObjectGeneration, CopyPage, CopyObject, ConfirmCopy,
     DeleteSource, SourceState, ConfirmMove
<1>5. CASE UndoStep
  BY <1>2, <1>3, <1>5 DEF UndoStep, UndoSource, CleanupState, CleanupDelete, CleanupConfirm,
     RbSource, RbTarget, RbCopyPage, RbCopy, RbConfirmCopy, RbDelete, RbTargetState, RbConfirm
<1>6. CASE FailureStep
  BY <1>2, <1>3, <1>6 DEF FailureStep, ConfirmSource, ConfirmTarget
<1> QED BY <1>4, <1>5, <1>6 DEF OpStep

(* After the disturbance the environment does not act in a step. *)
LEMMA OpStepWary ==
    ASSUME ~LateDelivery, MoveTypeOK, Signalled, OpStep, ~interrupted, faults + signals # 0,
           faults' + signals' <= 1
    PROVE  ~interrupted' /\ faults' + signals' # 0
<1>1. ASSUME NEW request, NEW e, Send(request, e)
      PROVE  ~interrupted' /\ faults' + signals' # 0
  BY <1>1, WarySend DEF Undisturbed
<1>2. CASE ClearInterruptForRollback \/ ConfirmedFailure
  BY <1>2 DEF ClearInterruptForRollback, ConfirmedFailure, environment
<1>4. CASE MoveStep
  BY <1>1, <1>4 DEF MoveStep, ObjectGeneration, CopyPage, CopyObject, ConfirmCopy,
     DeleteSource, SourceState, ConfirmMove
<1>5. CASE UndoStep
  BY <1>1, <1>2, <1>5 DEF UndoStep, UndoSource, CleanupState, CleanupDelete, CleanupConfirm,
     RbSource, RbTarget, RbCopyPage, RbCopy, RbConfirmCopy, RbDelete, RbTargetState, RbConfirm
<1>6. CASE FailureStep
  BY <1>1, <1>2, <1>6 DEF FailureStep, ConfirmSource, ConfirmTarget
<1> QED BY <1>4, <1>5, <1>6 DEF OpStep

(* A step of an operation touches the names of one move. *)
LEMMA OperationContained ==
    ASSUME ~LateDelivery, TypeOK, IndexInv, ChangesOwned, ContentInv, RenamesInv, ContainedInv,
           Operation
    PROVE  ContainedInv'
<1>0. /\ MoveTypeOK /\ CopyBeforeDelete /\ OpStep /\ OpOwned /\ CallerInv /\ PlanInv /\ ContentsInv
      /\ RecordsInv /\ Signalled
      /\ UNCHANGED <<phase, index, staged, finalized, undone, result, listing, moves>>
  BY DEF TypeOK, ContentInv, ChangesOwned, OwnedInv, RenamesInv, Operation, transactionVars,
     ContainedInv
<1>d. /\ Len(finalized) \in Nat /\ Len(staged) \in Nat /\ Len(moves) \in Nat /\ index \in Nat
      /\ Len(finalized) <= Len(staged) /\ Len(staged) <= Len(moves)
      /\ DOMAIN finalized = 1..Len(finalized) /\ DOMAIN staged = 1..Len(staged)
      /\ DOMAIN moves = 1..Len(moves)
      /\ phase = "stage" => index = Len(staged) + 1
      /\ phase = "finalize" => index = Len(finalized) + 1
      /\ phase = "rollbackFinalized" => index <= Len(finalized)
  BY <1>0, Domains
<1>1. /\ op \in Ops /\ op # Idle /\ OpFits /\ op' # Idle
      /\ op'.source = op.source /\ op'.target = op.target /\ op'.caller = op.caller
  <2>1. op \in Ops /\ op # Idle
    BY <1>0, OpStepBusy DEF MoveTypeOK, Idle
  <2>2. op' \in Ops
    BY <1>0, OpStepType
  <2>3. op' # Idle
    BY <2>2 DEF Ops, OpPcs, MovePcs, UndoPcs, FailurePcs, Idle
  <2> QED BY <1>0, <2>1, <2>3, NamesKept, CallerKept DEF RenamesInv
<1>2. /\ phase \notin {"build", "plan", "end"} /\ index \in DOMAIN moves
      /\ op.source \in {moves[index].source, moves[index].temporary}
      /\ op.target \in {moves[index].temporary, moves[index].target}
      /\ phase \in {"stage", "rollbackStaged"} =>
            op.source = moves[index].source /\ op.target = moves[index].temporary
      /\ phase = "finalize" =>
            op.source = moves[index].temporary /\ op.target = moves[index].target
      /\ phase = "rollbackFinalized" =>
            /\ op.source = moves[index].source /\ op.target = moves[index].target
            /\ index <= Len(finalized)
      /\ phase \in {"stage", "finalize"} => op.caller = "move"
  BY <1>0, <1>1, <1>d DEF OpFits
<1>3. \A name \in Names : name \notin {op.source, op.target} => objects'[name] = objects[name]
  <2>1. op.source \in Names /\ op.target \in Names /\ objects \in [Names -> Versions]
    BY <1>0, <1>1 DEF Ops, MoveTypeOK
  <2> QED BY <1>0, <2>1, OpStepObjects DEF Copies, Drops
<1>4. ASSUME NEW i \in DOMAIN moves, i # index
      PROVE  \A name \in {moves[i].source, moves[i].temporary, moves[i].target} :
                objects'[name] = objects[name]
  BY <1>0, <1>2, <1>3, <1>4, NamesApart
<1>5. ASSUME NEW name \in {moves[index].source, moves[index].temporary, moves[index].target},
             name \notin {op.source, op.target}
      PROVE  Present(name)' <=> Present(name)
  BY <1>0, <1>2, <1>3, <1>5, NamesApart DEF Present
<1>6. /\ moves[index].source # moves[index].target
      /\ moves[index].source # moves[index].temporary
      /\ moves[index].temporary # moves[index].target
  BY <1>0, <1>2, NamesApart
<1>7. /\ Signalled' /\ SingleFailureContained'
      /\ faults' + signals' <= 1 => faults + signals <= 1
      /\ faults' = 0 => faults = 0
  BY <1>0, <1>2, OpStepSignals DEF SingleFailureContained
<1> SUFFICES ASSUME faults' + signals' <= 1
             PROVE  /\ faults' = 0 => undone'
                    /\ RollingBack' => ~interrupted' /\ faults' + signals' # 0
                    /\ phase' = "finalize" /\ op' # Idle =>
                          /\ op'.pc # "generation"
                          /\ Original' => op'.sgen = staged'[index'].generation
                    /\ \E k \in Nat : Spared(k)'
  BY <1>7 DEF ContainedInv
<1>8. /\ faults = 0 => undone
      /\ RollingBack => ~interrupted /\ faults + signals # 0
      /\ phase = "finalize" => /\ op.pc # "generation"
                               /\ Original => op.sgen = staged[index].generation
      /\ \E k \in Nat : Spared(k)
  BY <1>1, <1>2, <1>7 DEF ContainedInv
<1>9. RollingBack' => ~interrupted' /\ faults' + signals' # 0
  BY <1>0, <1>8, OpStepWary DEF RollingBack
<1>10. PICK k \in Nat : Spared(k)
  BY <1>8
<1>11. /\ \A i : Final(i)' <=> Final(i)
       /\ \A i : Staged(i)' <=> Staged(i)
       /\ RollingBack' <=> RollingBack
  BY <1>0 DEF Final, Staged, RollingBack
<1>12. ASSUME NEW i \in DOMAIN moves, i # k, i # index
       PROVE  InPlace(i)'
  <2>1. InPlace(i)
    BY <1>10, <1>12 DEF Spared
  <2> QED BY <1>0, <1>4, <1>11, <1>12, <2>1, PlaceKept
<1>13. OpCourse => OpCourse' /\ GoesOn
  BY <1>0, OpStepCourse
<1>14. ASSUME index # k
       PROVE  UnderWay(index) /\ UnderWay(index)'
  <2>1. UnderWay(index)
    BY <1>1, <1>2, <1>10, <1>14 DEF Spared
  <2>2. OpCourse'
    BY <1>13, <2>1 DEF UnderWay
  <2>3. /\ phase \in {"stage", "rollbackStaged"} => ~Present(moves[index].target)'
        /\ phase = "finalize" => ~Present(moves[index].source)'
        /\ phase = "rollbackFinalized" => ~Present(moves[index].temporary)'
    BY <1>0, <1>2, <1>5, <1>6, <2>1 DEF UnderWay
  <2> QED BY <1>0, <2>1, <2>2, <2>3 DEF UnderWay
<1>15. ASSUME faults' = 0, Staged(k)
       PROVE  IF k = index /\ phase = "rollbackStaged" THEN OpCourse'
              ELSE ~Present(moves[k].source)' /\ Stands(moves[k].temporary, staged[k].generation)'
  <2>1. k \in DOMAIN moves /\ Len(finalized) < k
    BY <1>d, <1>15 DEF Staged
  <2>2. CASE k = index
    <3>1. phase = "rollbackStaged"
      BY <1>0, <1>2, <1>10, <2>1, <2>2, <1>d DEF Spared, RollingBack
    <3> QED BY <1>1, <1>7, <1>10, <1>13, <1>15, <2>2, <3>1 DEF Spared
  <2>3. CASE k # index
    <3>1. ~Present(moves[k].source) /\ Stands(moves[k].temporary, staged[k].generation)
      BY <1>7, <1>10, <1>15, <2>3 DEF Spared
    <3> QED BY <1>0, <1>4, <2>1, <2>3, <3>1 DEF Present, Stands
  <2> QED BY <2>2, <2>3
<1>16. Spared(k)'
  BY <1>0, <1>1, <1>10, <1>11, <1>12, <1>14, <1>15 DEF Spared
<1>17. phase = "finalize" => /\ op'.pc # "generation"
                             /\ Original' => op'.sgen = staged[index].generation
  <2>1. phase = "finalize" => k = 0
    BY <1>10 DEF Spared, RollingBack
  <2>2. phase = "finalize" => UnderWay(index)
    BY <1>2, <1>d, <1>14, <2>1
  <2> QED BY <1>2, <1>8, <1>13, <2>2 DEF UnderWay, GoesOn
<1> QED BY <1>0, <1>7, <1>8, <1>9, <1>16, <1>17

(* A signal gets no undo: after the first disturbance there is no other. *)
LEMMA SignalContained ==
    ASSUME TypeOK, ContainedInv, Signal, UNCHANGED <<transactionVars, listing, moves>>, phase # "end"
    PROVE  ContainedInv'
<1>0. /\ objects' = objects /\ op' = op /\ signals' = signals + 1 /\ faults' = faults
      /\ UNCHANGED <<phase, index, staged, finalized, undone, result, listing, moves>>
      /\ faults \in Nat /\ signals \in Nat /\ Signalled /\ interrupted' = TRUE
  BY BoundsAssumption DEF Signal, service, transactionVars, TypeOK, MoveTypeOK, ContainedInv
<1>1. Signalled' /\ SingleFailureContained'
  BY <1>0 DEF Signalled, SingleFailureContained
<1>2. CASE faults' + signals' > 1
  BY <1>0, <1>1, <1>2 DEF ContainedInv
<1>3. CASE faults' + signals' <= 1
  <2>1. faults = 0 /\ signals = 0 /\ faults' = 0 /\ signals' = 1 /\ ~RollingBack /\ undone
    BY <1>0, <1>3 DEF ContainedInv
  <2>2. OpCourse => OpCourse'
    BY <1>0, <2>1 DEF OpCourse, Present, Stands
  <2>3. \A i : UnderWay(i) => UnderWay(i)'
    BY <1>0, <2>2 DEF UnderWay, Present
  <2>4. \A i \in DOMAIN moves : InPlace(i) => InPlace(i)'
    BY <1>0 DEF InPlace, Final, Staged, Restored, HoldsData, Present, Stands
  <2>5. \A k : Spared(k) => Spared(k)'
    <3> SUFFICES ASSUME NEW k, Spared(k) PROVE Spared(k)'
      OBVIOUS
    <3>1. \A i \in DOMAIN moves' : i # k =>
             IF op' # Idle /\ i = index' THEN UnderWay(i)' ELSE InPlace(i)'
      BY <1>0, <2>3, <2>4 DEF Spared
    <3>2. k = 0 /\ (Staged(k)' <=> Staged(k))
      BY <1>0, <2>1 DEF Spared, Staged
    <3>3. Staged(k)' => IF op' # Idle /\ k = index' /\ phase' = "rollbackStaged" THEN OpCourse'
                        ELSE ~Present(moves[k].source)' /\ Stands(moves[k].temporary, staged[k].generation)'
      BY <1>0, <2>1, <2>2, <3>2 DEF Spared, Present, Stands
    <3> QED BY <3>1, <3>2, <3>3 DEF Spared
  <2>6. Original' <=> Original
    BY <1>0 DEF Original
  <2> QED BY <1>0, <1>1, <2>1, <2>5, <2>6 DEF ContainedInv, RollingBack
<1> QED BY <1>0, <1>2, <1>3

(* Bookkeeping leaves the account of the environment as it is. *)
LEMMA QuietCount ==
    ASSUME UNCHANGED <<faults, signals>>, interrupted' => interrupted, Signalled
    PROVE  Signalled'
BY DEF Signalled

(* Planning leaves every source where it is. *)
LEMMA PlanningContained ==
    ASSUME TypeOK, IndexInv, ContentInv, RenamesInv, ContainedInv, Build \/ PlanEntry \/ PlanDone
    PROVE  ContainedInv'
<1>0. /\ phase \in {"build", "plan"} /\ UNCHANGED <<moveVars, staged, finalized, undone, listing>>
      /\ UNCHANGED <<objects, op, faults, signals, interrupted>>
      /\ PlanInv /\ ContentsInv /\ NoContentLoss /\ op = Idle /\ Signalled
      /\ staged = <<>> /\ finalized = <<>> /\ moves \in Seq(PlannedMoves)
      /\ phase' \in {"plan", "stage", "end"} /\ (phase' # "plan" => moves' = moves)
      /\ phase' = "stage" => phase = "plan" /\ index' = 1
  BY DEF Build, PlanEntry, PlanDone, RenamesInv, OpFits, ContentInv, ContainedInv, IndexInv,
     TypeOK, moveVars, service, environment
<1>1. Signalled'
  BY <1>0, QuietCount
<1>2. \A i \in DOMAIN moves : Restored(moves[i])
  <2>1. CASE phase = "build"
    BY <1>0, <2>1 DEF PlanInv
  <2>2. CASE phase = "plan"
    BY <1>0, <2>2, PlannedRestored
  <2> QED BY <1>0, <2>1, <2>2
<1>3. phase' # "plan" => \A i \in DOMAIN moves : Restored(moves[i])'
  BY <1>0, <1>2 DEF Restored, HoldsData, Present
<1>4. faults + signals <= 1 /\ faults = 0 => undone
  BY DEF ContainedInv
<1>5. SingleFailureContained'
  BY <1>0, <1>3, <1>4 DEF SingleFailureContained
<1>6. phase' = "stage" => Spared(0)'
  <2> SUFFICES ASSUME phase' = "stage" PROVE Spared(0)'
    OBVIOUS
  <2>1. \A i \in DOMAIN moves : ~Final(i)' /\ ~Staged(i)'
    BY <1>0 DEF Final, Staged
  <2>2. ~Staged(0)'
    BY <1>0 DEF Staged
  <2>3. \A i \in DOMAIN moves' : InPlace(i)'
    BY <1>0, <1>3, <2>1 DEF InPlace
  <2> QED BY <1>0, <2>2, <2>3 DEF Spared
<1> QED BY <1>0, <1>1, <1>4, <1>5, <1>6 DEF ContainedInv, RollingBack

(* What is known before a move begins or when it has returned. *)
LEMMA ForwardContained ==
    ASSUME ContainedInv, phase \in {"stage", "finalize"}, faults + signals <= 1
    PROVE  Spared(0)
<1>1. PICK k \in Nat : Spared(k)
  BY DEF ContainedInv
<1>2. k = 0
  BY <1>1 DEF Spared, RollingBack
<1> QED BY <1>1, <1>2

(* A move begins where its object is; a signal before it begins stops the  *)
(* run with every move in place.                                           *)
LEMMA BeginMoveContained ==
    ASSUME TypeOK, IndexInv, RenamesInv, ContainedInv, BeginStageMove \/ BeginFinalizeMove
    PROVE  ContainedInv'
<1>0. /\ phase \in {"stage", "finalize"} /\ op = Idle
      /\ UNCHANGED <<objects, faults, signals, listing, moves, staged, finalized, undone>>
      /\ RecordsInv /\ ResultInv /\ Signalled /\ undone /\ faults \in Nat /\ signals \in Nat
  BY BoundsAssumption DEF BeginStageMove, BeginFinalizeMove, BeginMove, Abort, service,
     environment, RenamesInv, ResultInv, ContainedInv, TypeOK, MoveTypeOK
<1>d. /\ Len(finalized) \in Nat /\ Len(staged) \in Nat /\ Len(moves) \in Nat /\ index \in Nat
      /\ Len(finalized) <= Len(staged) /\ Len(staged) <= Len(moves)
      /\ DOMAIN finalized = 1..Len(finalized) /\ DOMAIN staged = 1..Len(staged)
      /\ DOMAIN moves = 1..Len(moves)
      /\ phase = "stage" => index = Len(staged) + 1 /\ Len(finalized) = 0
      /\ phase = "finalize" => index = Len(finalized) + 1
  BY <1>0, Domains
<1>1. SingleFailureContained' /\ Signalled'
  <2>1. phase' # "end" /\ (interrupted' => interrupted)
    BY <1>0 DEF BeginStageMove, BeginFinalizeMove, BeginMove, Abort
  <2> QED BY <1>0, <2>1, QuietCount DEF SingleFailureContained
<1> SUFFICES ASSUME faults + signals <= 1
             PROVE  /\ RollingBack' => ~interrupted' /\ faults + signals # 0
                    /\ phase' = "finalize" /\ op' # Idle =>
                          /\ op'.pc # "generation"
                          /\ Original' => op'.sgen = staged[index'].generation
                    /\ Spared(0)'
  BY <1>0, <1>1 DEF ContainedInv
<1>2. Spared(0) /\ \A i \in DOMAIN moves : InPlace(i)
  <2>1. Spared(0)
    BY <1>0, ForwardContained
  <2> QED BY <1>0, <1>d, <2>1 DEF Spared
<1>3. CASE interrupted
  <2>0. phase' = "rollbackFinalized" /\ index' = Len(finalized) /\ op' = Idle /\ ~interrupted'
    BY <1>3 DEF BeginStageMove, BeginFinalizeMove, BeginMove, Abort
  <2>1. faults + signals # 0
    BY <1>0, <1>3 DEF Signalled
  <2>2. \A i \in DOMAIN moves : (Final(i)' <=> Final(i)) /\ (Staged(i)' <=> Staged(i))
    BY <1>0, <1>d, <2>0 DEF Final, Staged
  <2>3. \A i \in DOMAIN moves : InPlace(i)'
    BY <1>0, <1>2, <2>2, PlaceKept
  <2>4. ~Staged(0)'
    BY <1>0, <1>d DEF Staged
  <2>5. Spared(0)'
    BY <1>0, <2>0, <2>3, <2>4 DEF Spared
  <2> QED BY <2>0, <2>1, <2>5
<1>4. CASE ~interrupted
  <2>0. /\ UNCHANGED <<phase, index, interrupted>> /\ index \in DOMAIN moves
        /\ \/ /\ phase = "stage" /\ op' = MoveCall(moves[index].source, moves[index].temporary, 0)
           \/ /\ phase = "finalize" /\ index \in DOMAIN staged
              /\ op' = MoveCall(moves[index].temporary, moves[index].target, staged[index].generation)
    <3>1. CASE BeginStageMove
      BY <1>0, <1>4, <3>1 DEF BeginStageMove, BeginMove
    <3>2. CASE BeginFinalizeMove
      <4>1. index \in DOMAIN staged /\ index \in DOMAIN moves
        BY <1>d, <3>2 DEF BeginFinalizeMove
      <4>2. staged[index].target = moves[index].temporary
        BY <1>0, <4>1 DEF RecordsInv
      <4> QED BY <1>0, <1>4, <3>2, <4>1, <4>2 DEF BeginFinalizeMove, BeginMove
    <3> QED BY <3>1, <3>2
  <2>1. \A i \in DOMAIN moves : (Final(i)' <=> Final(i)) /\ (Staged(i)' <=> Staged(i))
    BY <1>0, <2>0 DEF Final, Staged
  <2>2. \A i \in DOMAIN moves : InPlace(i)'
    BY <1>0, <1>2, <2>1, PlaceKept
  <2>3. ~Staged(0)'
    BY <1>0, <1>d DEF Staged
  <2> USE DEF SourceStandsPcs, SourceGonePcs, TargetStandsPcs, TargetGonePcs, CleanupPcs,
              RestoredPcs, CopiedPcs, UndoPcs, FailurePcs
  <2>4. CASE phase = "stage"
    <3>1. ~Final(index) /\ ~Staged(index)
      BY <1>d, <2>4 DEF Final, Staged
    <3>2. /\ Present(moves[index].source)' /\ ~Present(moves[index].temporary)'
          /\ ~Present(moves[index].target)'
      BY <1>0, <1>2, <2>0, <3>1 DEF InPlace, Restored, HoldsData, Present
    <3>3. /\ op'.pc = "generation" /\ op'.sgen = 0 /\ op'.source = moves[index].source
          /\ op'.target = moves[index].temporary
      BY <2>0, <2>4 DEF MoveCall, Call
    <3>4. OpCourse'
      BY <1>0, <2>0, <3>2, <3>3 DEF OpCourse, Present
    <3>5. UnderWay(index)'
      BY <1>0, <2>0, <2>4, <3>2, <3>4 DEF UnderWay, Present
    <3>6. Spared(0)'
      BY <1>0, <1>d, <2>0, <2>2, <2>3, <3>5 DEF Spared
    <3> QED BY <2>0, <2>4, <3>6 DEF RollingBack
  <2>5. CASE phase = "finalize"
    <3>1. ~Final(index) /\ Staged(index)
      BY <1>d, <2>0, <2>5 DEF Final, Staged
    <3>2. /\ Stands(moves[index].temporary, staged[index].generation)'
          /\ ~Present(moves[index].source)' /\ ~Present(moves[index].target)'
      BY <1>0, <1>2, <2>0, <3>1 DEF InPlace, Present, Stands
    <3>3. /\ op'.pc = "copy" /\ op'.sgen = staged[index].generation
          /\ op'.source = moves[index].temporary /\ op'.target = moves[index].target
      BY <1>0, <2>0, <2>5, <3>2 DEF MoveCall, Call, Stands
    <3>4. OpCourse'
      BY <1>0, <2>0, <3>2, <3>3 DEF OpCourse, Present, Stands
    <3>5. UnderWay(index)'
      BY <1>0, <2>0, <2>5, <3>2, <3>4 DEF UnderWay, Present
    <3>6. Spared(0)'
      BY <1>0, <1>d, <2>0, <2>2, <2>3, <3>5 DEF Spared
    <3> QED BY <2>0, <2>5, <3>3, <3>6 DEF RollingBack
  <2> QED BY <1>0, <2>4, <2>5
<1> QED BY <1>3, <1>4

(* A staged move stands under its temporary name; the one that fails is    *)
(* the one that is not spared.                                             *)
LEMMA EndStageContained ==
    ASSUME TypeOK, IndexInv, RenamesInv, ContainedInv, EndStageMove
    PROVE  ContainedInv'
<1>0. /\ phase = "stage" /\ op.pc = "done" /\ op # Idle /\ op' = Idle /\ index \in DOMAIN moves
      /\ UNCHANGED <<objects, faults, signals, listing, moves, finalized, undone>> /\ undone
      /\ OpFits /\ RecordsInv /\ Signalled /\ staged \in Seq(RemoteChanges)
      /\ faults \in Nat /\ signals \in Nat
  <2>1. op # Idle /\ Signalled /\ faults \in Nat /\ signals \in Nat
    BY BoundsAssumption DEF EndStageMove, EndStage, Idle, ContainedInv, TypeOK, MoveTypeOK
  <2>2. OpFits /\ RecordsInv /\ ResultInv /\ staged \in Seq(RemoteChanges)
        /\ finalized \in Seq(RemoteChanges)
    BY <2>1 DEF RenamesInv, TypeOK, TransactionTypeOK
  <2> QED BY <2>1, <2>2 DEF EndStageMove, EndStage, CheckedStep, Abort, service, environment, ResultInv
<1>d. /\ Len(finalized) = 0 /\ Len(staged) \in Nat /\ Len(moves) \in Nat /\ index \in Nat
      /\ DOMAIN staged = 1..Len(staged) /\ DOMAIN moves = 1..Len(moves)
      /\ index = Len(staged) + 1
  BY <1>0, Domains
<1>1. /\ op.source = moves[index].source /\ op.target = moves[index].temporary
      /\ op.caller = "move"
  BY <1>0 DEF OpFits
<1>2. SingleFailureContained' /\ Signalled'
  <2>1. phase' # "end" /\ (interrupted' => interrupted)
    BY <1>0 DEF EndStageMove, EndStage, CheckedStep, Abort
  <2> QED BY <1>0, <2>1, QuietCount DEF SingleFailureContained
<1> SUFFICES ASSUME faults + signals <= 1
             PROVE  /\ phase' # "finalize"
                    /\ RollingBack' => ~interrupted' /\ faults + signals # 0
                    /\ \E k \in Nat : Spared(k)'
  BY <1>0, <1>2 DEF ContainedInv
<1>3. UnderWay(index) /\ \A i \in DOMAIN moves : i # index => InPlace(i)
  <2>1. Spared(0)
    BY <1>0, ForwardContained
  <2> QED BY <1>0, <1>d, <2>1 DEF Spared
<1>4. CASE IsOk(op.error)
  <2> DEFINE change == Change(moves[index].source, moves[index].temporary, op.tgen)
  <2>0. staged' = Append(staged, change) /\ CheckedStep(0)
    BY <1>4 DEF EndStageMove, EndStage
  <2>1. \/ /\ phase' = "rollbackFinalized" /\ index' = 0 /\ ~interrupted' /\ interrupted
        \/ phase' = "stage" /\ index' = index + 1
    BY <1>0, <2>0 DEF CheckedStep, Abort
  <2>2. /\ Len(staged') = index /\ staged'[index].generation = op.tgen
        /\ \A i \in DOMAIN staged : staged'[i] = staged[i]
    BY <1>0, <1>d, <2>0 DEF Change
  <2>3. /\ \A i : i = index => Staged(i)' /\ ~Final(i)'
        /\ ~Staged(0)'
        /\ \A i \in DOMAIN moves : i # index => /\ Final(i)' <=> Final(i)
                                                /\ Staged(i)' <=> Staged(i)
                                                /\ ~Final(i)
    BY <1>0, <1>d, <2>1, <2>2 DEF Final, Staged
  <2>4. \A i : i = index => InPlace(i)'
    <3>1. /\ ~Present(moves[index].source) /\ ~Present(moves[index].target)
          /\ Stands(moves[index].temporary, op.tgen)
      BY <1>0, <1>1, <1>3, <1>4 DEF UnderWay, OpCourse
    <3> HIDE DEF change
    <3> QED BY <1>0, <2>2, <2>3, <3>1 DEF InPlace, Present, Stands
  <2>5. \A i \in DOMAIN moves : i # index => InPlace(i)'
    <3> SUFFICES ASSUME NEW i \in DOMAIN moves, i # index PROVE InPlace(i)'
      OBVIOUS
    <3>1. Staged(i) => staged'[i].generation = staged[i].generation
      BY <1>d, <2>2 DEF Staged
    <3> QED BY <1>0, <1>3, <2>3, <3>1, PlaceKept
  <2>6. Spared(0)'
    BY <1>0, <2>3, <2>4, <2>5 DEF Spared
  <2>7. interrupted => faults + signals # 0
    BY <1>0 DEF Signalled
  <2> QED BY <2>1, <2>6, <2>7 DEF RollingBack
<1>5. CASE ~IsOk(op.error)
  <2>0. phase' = "rollbackFinalized" /\ index' = 0 /\ staged' = staged /\ ~interrupted'
    BY <1>5 DEF EndStageMove, EndStage, Abort
  <2>1. faults + signals # 0
    BY <1>0, <1>1, <1>3, <1>5 DEF UnderWay, OpCourse
  <2>2. /\ \A k : k = index => ~Staged(k)'
        /\ \A i \in DOMAIN moves : (Final(i)' <=> Final(i)) /\ (Staged(i)' <=> Staged(i))
    BY <1>0, <1>d, <2>0 DEF Final, Staged
  <2>3. \A i \in DOMAIN moves : i # index => InPlace(i)'
    BY <1>0, <1>3, <2>0, <2>2, PlaceKept
  <2>4. \A k : k = index => Spared(k)'
    BY <1>0, <1>d, <2>0, <2>2, <2>3 DEF Spared, RollingBack
  <2> QED BY <1>d, <2>0, <2>1, <2>4
<1> QED BY <1>4, <1>5

(* A finalized move stands under its target.  When a signal makes one      *)
(* fail, its staged object is still there, under the generation on record. *)
LEMMA EndFinalizeContained ==
    ASSUME TypeOK, IndexInv, ChangesOwned, RenamesInv, ContainedInv, EndFinalizeMove
    PROVE  ContainedInv'
<1>0. /\ phase = "finalize" /\ op.pc = "done" /\ op # Idle /\ op' = Idle /\ index \in DOMAIN staged
      /\ UNCHANGED <<objects, faults, signals, listing, moves, undone>> /\ undone
      /\ OpFits /\ RecordsInv /\ Signalled /\ staged \in Seq(RemoteChanges)
      /\ finalized \in Seq(RemoteChanges)
      /\ faults \in Nat /\ signals \in Nat
  <2>1. op # Idle /\ Signalled /\ faults \in Nat /\ signals \in Nat
    BY BoundsAssumption DEF EndFinalizeMove, EndFinalize, Idle, ContainedInv, TypeOK, MoveTypeOK
  <2>2. OpFits /\ RecordsInv /\ ResultInv /\ staged \in Seq(RemoteChanges)
        /\ finalized \in Seq(RemoteChanges)
    BY <2>1 DEF RenamesInv, TypeOK, TransactionTypeOK
  <2> QED BY <2>1, <2>2 DEF EndFinalizeMove, EndFinalize, CheckedStep, Abort, service, environment, ResultInv
<1>d. /\ Len(finalized) \in Nat /\ Len(staged) \in Nat /\ Len(moves) \in Nat /\ index \in Nat
      /\ DOMAIN finalized = 1..Len(finalized) /\ DOMAIN staged = 1..Len(staged)
      /\ DOMAIN moves = 1..Len(moves)
      /\ index = Len(finalized) + 1 /\ Len(staged) = Len(moves)
  BY <1>0, Domains
<1>1. /\ op.source = moves[index].temporary /\ op.target = moves[index].target
      /\ op.caller = "move" /\ index \in DOMAIN moves
  BY <1>0 DEF OpFits
<1>2. SingleFailureContained' /\ Signalled'
  <2>1. phase' # "end" /\ (interrupted' => interrupted)
    BY <1>0 DEF EndFinalizeMove, EndFinalize, CheckedStep, Abort
  <2> QED BY <1>0, <2>1, QuietCount DEF SingleFailureContained
<1> SUFFICES ASSUME faults + signals <= 1
             PROVE  /\ RollingBack' => ~interrupted' /\ faults + signals # 0
                    /\ \E k \in Nat : Spared(k)'
  BY <1>0, <1>2 DEF ContainedInv
<1>3. UnderWay(index) /\ \A i \in DOMAIN moves : i # index => InPlace(i)
  <2>1. Spared(0)
    BY <1>0, ForwardContained
  <2> QED BY <1>0, <1>d, <1>1, <2>1 DEF Spared
<1>4. CASE IsOk(op.error)
  <2> DEFINE change == Change(staged[index].source, moves[index].target, op.tgen)
  <2>0. finalized' = Append(finalized, change) /\ staged' = staged /\ CheckedStep(Len(finalized) + 1)
    BY <1>4 DEF EndFinalizeMove, EndFinalize
  <2>1. \/ /\ phase' = "rollbackFinalized" /\ index' = index /\ ~interrupted' /\ interrupted
        \/ phase' = "finalize" /\ index' = index + 1
    BY <1>0, <1>d, <2>0 DEF CheckedStep, Abort
  <2>2. /\ Len(finalized') = index /\ finalized'[index].generation = op.tgen
        /\ \A i \in DOMAIN finalized : finalized'[i] = finalized[i]
    BY <1>0, <1>d, <2>0 DEF Change
  <2>3. /\ \A i : i = index => Final(i)'
        /\ ~Staged(0)'
        /\ \A i \in DOMAIN moves : i # index => /\ Final(i)' <=> Final(i)
                                                /\ Staged(i)' <=> Staged(i)
    BY <1>0, <1>d, <2>0, <2>1, <2>2 DEF Final, Staged
  <2>4. \A i : i = index => InPlace(i)'
    <3>1. /\ ~Present(moves[index].source) /\ ~Present(moves[index].temporary)
          /\ Stands(moves[index].target, op.tgen)
      BY <1>0, <1>1, <1>3, <1>4 DEF UnderWay, OpCourse
    <3> HIDE DEF change
    <3> QED BY <1>0, <2>2, <2>3, <3>1 DEF InPlace, Present, Stands
  <2>5. \A i \in DOMAIN moves : i # index => InPlace(i)'
    <3> SUFFICES ASSUME NEW i \in DOMAIN moves, i # index PROVE InPlace(i)'
      OBVIOUS
    <3>1. Final(i) => finalized'[i].generation = finalized[i].generation
      BY <1>d, <2>2 DEF Final
    <3> QED BY <1>0, <1>3, <2>0, <2>3, <3>1, PlaceKept
  <2>6. Spared(0)'
    BY <1>0, <2>3, <2>4, <2>5 DEF Spared
  <2>7. interrupted => faults + signals # 0
    BY <1>0 DEF Signalled
  <2> QED BY <2>1, <2>6, <2>7 DEF RollingBack
<1>5. CASE ~IsOk(op.error)
  <2>0. /\ phase' = "rollbackFinalized" /\ index' = Len(finalized) /\ ~interrupted'
        /\ staged' = KeepRestoredGeneration(op.error) /\ finalized' = finalized
    BY <1>5 DEF EndFinalizeMove, EndFinalize, Abort
  <2>1. faults + signals # 0
    BY <1>0, <1>1, <1>3, <1>5 DEF UnderWay, OpCourse
  <2>2. /\ Len(staged') = Len(staged)
        /\ \A i \in DOMAIN staged : i # index => staged'[i] = staged[i]
        /\ staged'[index].generation = IF HasRestoredGeneration(op.error) THEN op.error.generation
                                       ELSE staged[index].generation
    <3>1. \A i \in DOMAIN staged : staged[i] \in RemoteChanges
      BY <1>0
    <3> QED BY <1>0, <2>0, <3>1 DEF KeepRestoredGeneration, RemoteChanges
  <2>3. \A i \in DOMAIN moves : (Final(i)' <=> Final(i)) /\ (Staged(i)' <=> Staged(i))
    BY <1>0, <1>d, <2>0, <2>2 DEF Final, Staged
  <2>4. \A i \in DOMAIN moves : i # index => InPlace(i)'
    <3> SUFFICES ASSUME NEW i \in DOMAIN moves, i # index PROVE InPlace(i)'
      OBVIOUS
    <3>1. staged'[i].generation = staged[i].generation
      BY <1>d, <2>2
    <3> QED BY <1>0, <1>3, <2>0, <2>3, <3>1, PlaceKept
  <2>5. faults = 0 => /\ ~Present(moves[index].source)
                      /\ Stands(moves[index].temporary, staged'[index].generation)
    <3>1. ~Present(moves[index].source)
      BY <1>0, <1>3 DEF UnderWay
    <3>2. CASE HasRestoredGeneration(op.error)
      <4>1. Stands(op.source, op.error.generation)
        BY <1>0, <1>1, <1>3, <3>2 DEF UnderWay, OpCourse
      <4> QED BY <1>1, <2>2, <3>1, <3>2, <4>1
    <3>3. CASE ~HasRestoredGeneration(op.error)
      <4>1. Original
        BY <1>0, <3>3 DEF Original, RestoredPcs
      <4>2. op.sgen = staged[index].generation
        BY <1>0, <4>1 DEF ContainedInv
      <4>3. staged[index].generation # 0
        BY <1>0 DEF ChangesOwned, RecordsOwned, Mine
      <4>4. faults = 0 => Stands(op.source, op.sgen)
        BY <1>0, <1>1, <1>3, <1>5, <3>3, <4>2, <4>3 DEF UnderWay, OpCourse, Failure
      <4> QED BY <1>1, <2>2, <3>1, <3>3, <4>2, <4>4
    <3> QED BY <3>2, <3>3
  <2>6. \A k : k = index => Spared(k)'
    <3>1. index # 0 /\ index > Len(finalized) /\ RollingBack'
      BY <1>d, <2>0 DEF RollingBack
    <3> QED BY <1>0, <2>0, <2>4, <2>5, <3>1 DEF Spared, Present, Stands
  <2> QED BY <1>d, <2>0, <2>1, <2>6
<1> QED BY <1>4, <1>5

(* From staging to finalizing every move keeps its place. *)
LEMMA PhasesContained ==
    ASSUME TypeOK, IndexInv, RenamesInv, ContainedInv, StageDone \/ FinalizeDone
    PROVE  ContainedInv'
<1>0. /\ op = Idle /\ op' = Idle /\ phase \in {"stage", "finalize"} /\ RecordsInv
      /\ UNCHANGED <<objects, faults, signals, interrupted, listing, moves, staged, finalized,
                     undone, result>>
      /\ Signalled /\ undone /\ IsOk(result)
  BY DEF StageDone, StagingDone, FinalizeDone, FinalizingDone, moveVars, service, environment,
     RenamesInv, ResultInv, ContainedInv
<1>d. /\ Len(finalized) \in Nat /\ Len(staged) \in Nat /\ Len(moves) \in Nat
      /\ DOMAIN moves = 1..Len(moves) /\ (phase = "stage" => Len(finalized) = 0)
  BY <1>0, Domains
<1>1. Signalled' /\ SingleFailureContained'
  BY <1>0, QuietCount DEF SingleFailureContained
<1>2. CASE FinalizeDone
  BY <1>0, <1>1, <1>2 DEF FinalizeDone, FinalizingDone, ContainedInv, RollingBack
<1>3. CASE StageDone
  <2>0. phase = "stage" /\ phase' = "finalize"
    BY <1>3 DEF StageDone, StagingDone
  <2>1. ~Staged(0)' /\ \A i \in DOMAIN moves : (Final(i)' <=> Final(i)) /\ (Staged(i)' <=> Staged(i))
    BY <1>0, <1>d, <2>0 DEF Final, Staged
  <2>2. faults + signals <= 1 => Spared(0)'
    <3> SUFFICES ASSUME faults + signals <= 1 PROVE Spared(0)'
      OBVIOUS
    <3>1. Spared(0)
      BY <2>0, ForwardContained
    <3>2. \A i \in DOMAIN moves : InPlace(i)
      BY <1>0, <1>d, <3>1 DEF Spared
    <3>3. \A i \in DOMAIN moves : InPlace(i)'
      BY <1>0, <2>1, <3>2, PlaceKept
    <3> QED BY <1>0, <2>1, <3>3 DEF Spared
  <2> QED BY <1>0, <1>1, <2>0, <2>2 DEF ContainedInv, RollingBack
<1> QED BY <1>2, <1>3

(* The rollback brings every move back but the one that is not spared;     *)
(* after a signal the rollback of what is recorded of that one succeeds,   *)
(* too.                                                                    *)
LEMMA RollbackContained ==
    ASSUME TypeOK, IndexInv, RenamesInv, ContainedInv, RollbackMoves
    PROVE  ContainedInv'
<1>0. /\ phase \in {"rollbackFinalized", "rollbackStaged"} /\ RollingBack
      /\ UNCHANGED <<objects, faults, signals, interrupted, listing, moves, staged, finalized>>
      /\ PlanInv /\ ContentsInv /\ RecordsInv /\ Signalled
      /\ op # Idle => OpFits
  BY DEF RollbackMoves, BeginRollback, SkipRollback, EndRollback, RollbackStagedNext,
     RollbackDoneAll, RollingBack, moveVars, service, environment, transactionVars, RenamesInv,
     ContainedInv
<1>d. /\ Len(finalized) \in Nat /\ Len(staged) \in Nat /\ Len(moves) \in Nat /\ index \in Nat
      /\ Len(finalized) <= Len(staged) /\ Len(staged) <= Len(moves)
      /\ DOMAIN finalized = 1..Len(finalized) /\ DOMAIN staged = 1..Len(staged)
      /\ DOMAIN moves = 1..Len(moves)
      /\ phase = "rollbackFinalized" => index <= Len(finalized)
      /\ phase = "rollbackStaged" => index <= Len(staged)
  BY <1>0, Domains
<1>1. Signalled'
  BY <1>0, QuietCount
<1>2. CASE faults + signals > 1
  BY <1>0, <1>1, <1>2 DEF ContainedInv, SingleFailureContained, TypeOK, MoveTypeOK, BoundsAssumption
<1> SUFFICES ASSUME faults + signals <= 1 PROVE ContainedInv'
  <2>1. faults \in Nat /\ signals \in Nat
    BY BoundsAssumption DEF TypeOK, MoveTypeOK
  <2> QED BY <1>2, <2>1
<1>3. /\ faults = 0 => undone
      /\ ~interrupted /\ faults + signals # 0
      /\ \E k \in Nat : Spared(k)
  BY <1>0 DEF ContainedInv
<1>4. PICK k \in Nat : Spared(k)
  BY <1>3
<1>5. k # 0 => k > Len(finalized)
  BY <1>4 DEF Spared
<1>6. ASSUME phase' # "end", faults = 0 => undone', Spared(k)', RollingBack'
      PROVE  ContainedInv'
  BY <1>0, <1>1, <1>3, <1>6 DEF ContainedInv, SingleFailureContained, RollingBack
<1>7. CASE BeginRollback(RollbackOf(Recorded[index]))
  <2>0. /\ op = Idle /\ index > 0 /\ ~Skipped(Recorded[index])
        /\ UNCHANGED <<phase, index, undone>>
        /\ op' = RollbackOf(Recorded[index])
    BY <1>7 DEF BeginRollback, transactionVars
  <2>1. /\ index \in DOMAIN moves /\ op' # Idle
        /\ phase = "rollbackFinalized" => index \in DOMAIN finalized
        /\ phase = "rollbackStaged" => index \in DOMAIN staged /\ index > Len(finalized)
    <3>1. index \in DOMAIN moves
      BY <1>d, <2>0, <1>0
    <3>2. op' # Idle
      BY <2>0 DEF RollbackOf, RollbackCall, Call, Idle
    <3>3. phase = "rollbackFinalized" => index \in DOMAIN finalized
      BY <1>d, <2>0
    <3>4. phase = "rollbackStaged" => index \in DOMAIN staged
      BY <1>d, <2>0
    <3>5. ASSUME phase = "rollbackStaged", index <= Len(finalized) PROVE FALSE
      <4>1. index \in DOMAIN finalized
        BY <1>d, <2>0, <3>5
      <4>2. staged[index].source = finalized[index].source
        BY <1>0, <3>4, <3>5, <4>1 DEF RecordsInv
      <4> QED BY <2>0, <3>5, <4>1, <4>2 DEF Skipped, Recorded, FinalizedSources
    <3> QED BY <1>d, <3>1, <3>2, <3>3, <3>4, <3>5
  <2>2. \A i : (Final(i)' <=> Final(i)) /\ (Staged(i)' <=> Staged(i))
    BY <1>0, <2>0 DEF Final, Staged
  <2>3. \A i \in DOMAIN moves : i # k => InPlace(i) /\ InPlace(i)'
    <3>1. \A i \in DOMAIN moves : i # k => InPlace(i)
      BY <1>4, <2>0 DEF Spared
    <3> QED BY <1>0, <2>2, <3>1, PlaceKept
  <2> DEFINE change == Recorded[index]
  <2>4. ASSUME ~Present(change.source), Stands(change.target, change.generation)
        PROVE  OpCourse'
    <3>1. /\ op'.pc = "rbSource" /\ op'.caller = "transaction" /\ op'.source = change.source
          /\ op'.target = change.target /\ op'.tgen = change.generation
      BY <2>0 DEF RollbackOf, RollbackCall, Call
    <3>2. ~Present(op.source)' /\ Stands(op.target, op.tgen)'
      <4> HIDE DEF change
      <4> QED BY <1>0, <2>4, <3>1 DEF Present, Stands
    <3> HIDE DEF change
    <3> QED BY <1>0, <1>3, <3>1, <3>2 DEF OpCourse, SourceStandsPcs, SourceGonePcs,
            TargetStandsPcs, TargetGonePcs, CleanupPcs, RestoredPcs, CopiedPcs, UndoPcs, FailurePcs
  <2>5. index # k => UnderWay(index)'
    <3> SUFFICES ASSUME index # k PROVE UnderWay(index)'
      OBVIOUS
    <3>1. InPlace(index)
      BY <2>1, <2>3
    <3>2. CASE phase = "rollbackFinalized"
      <4>1. Final(index)
        BY <1>d, <2>1, <3>2 DEF Final
      <4>2. /\ ~Present(moves[index].source) /\ ~Present(moves[index].temporary)
            /\ Stands(moves[index].target, finalized[index].generation)
        BY <3>1, <4>1 DEF InPlace
      <4>3. change = finalized[index] /\ change.source = moves[index].source
            /\ change.target = moves[index].target
        BY <1>0, <2>1, <3>2 DEF Recorded, RecordsInv
      <4>4. OpCourse'
        <5> HIDE DEF change
        <5> QED BY <2>4, <4>2, <4>3
      <4> QED BY <1>0, <2>0, <3>2, <4>2, <4>4 DEF UnderWay, Present
    <3>3. CASE phase = "rollbackStaged"
      <4>1. Staged(index) /\ ~Final(index)
        BY <1>d, <2>1, <3>3 DEF Final, Staged
      <4>2. /\ ~Present(moves[index].source) /\ ~Present(moves[index].target)
            /\ Stands(moves[index].temporary, staged[index].generation)
        BY <3>1, <4>1 DEF InPlace
      <4>3. change = staged[index] /\ change.source = moves[index].source
            /\ change.target = moves[index].temporary
        BY <1>0, <2>1, <3>3 DEF Recorded, RecordsInv
      <4>4. OpCourse'
        <5> HIDE DEF change
        <5> QED BY <2>4, <4>2, <4>3
      <4> QED BY <1>0, <2>0, <3>3, <4>2, <4>4 DEF UnderWay, Present
    <3> QED BY <1>0, <3>2, <3>3
  <2>6. faults = 0 /\ Staged(k)' =>
           IF k = index /\ phase = "rollbackStaged" THEN OpCourse'
           ELSE ~Present(moves[k].source) /\ Stands(moves[k].temporary, staged[k].generation)
    <3> SUFFICES ASSUME faults = 0, Staged(k)
                 PROVE  IF k = index /\ phase = "rollbackStaged" THEN OpCourse'
                        ELSE ~Present(moves[k].source) /\ Stands(moves[k].temporary, staged[k].generation)
      BY <2>2
    <3>1. ~Present(moves[k].source) /\ Stands(moves[k].temporary, staged[k].generation)
      BY <1>4, <2>0 DEF Spared
    <3>2. k = index /\ phase = "rollbackStaged" =>
             /\ change = staged[k] /\ change.source = moves[k].source
             /\ change.target = moves[k].temporary
      BY <1>0, <2>1 DEF Recorded, RecordsInv
    <3> HIDE DEF change
    <3> QED BY <2>4, <3>1, <3>2
  <2>7. Spared(k)'
    <3>1. k # 0 => RollingBack' /\ k > Len(finalized')
      BY <1>0, <1>5, <2>0 DEF RollingBack
    <3>2. \A i \in DOMAIN moves' : i # k =>
             IF op' # Idle /\ i = index' THEN UnderWay(i)' ELSE InPlace(i)'
      BY <1>0, <2>0, <2>3, <2>5
    <3>3. faults' = 0 /\ Staged(k)' =>
             IF op' # Idle /\ k = index' /\ phase' = "rollbackStaged" THEN OpCourse'
             ELSE ~Present(moves[k].source)' /\ Stands(moves[k].temporary, staged[k].generation)'
      BY <1>0, <2>0, <2>1, <2>6 DEF Present, Stands
    <3> QED BY <3>1, <3>2, <3>3 DEF Spared
  <2> QED BY <1>0, <1>3, <1>6, <2>0, <2>7 DEF RollingBack
<1>8. CASE SkipRollback
  <2>0. /\ op = Idle /\ op' = Idle /\ index > 0 /\ Skipped(staged[index]) /\ phase = "rollbackStaged"
        /\ UNCHANGED <<phase, undone>> /\ index' = index - 1
    BY <1>8 DEF SkipRollback, Skipped, Recorded, moveVars
  <2>1. index <= Len(finalized)
    <3>1. PICK j \in DOMAIN finalized : staged[index].source = finalized[j].source
      BY <2>0 DEF Skipped, FinalizedSources
    <3>2. index \in DOMAIN staged /\ index \in DOMAIN moves /\ j \in DOMAIN moves
      BY <1>d, <2>0
    <3>3. moves[index].source = moves[j].source
      BY <1>0, <3>1, <3>2 DEF RecordsInv
    <3>4. index = j
      BY <1>0, <3>2, <3>3 DEF PlanInv
    <3> QED BY <1>d, <3>4
  <2>2. /\ \A i \in DOMAIN moves : (Final(i)' <=> Final(i)) /\ (Staged(i)' <=> Staged(i))
        /\ Staged(k)' <=> Staged(k)
    BY <1>0, <1>d, <2>0, <2>1 DEF Final, Staged
  <2>3. \A i \in DOMAIN moves : i # k => InPlace(i)'
    <3>1. \A i \in DOMAIN moves : i # k => InPlace(i)
      BY <1>4, <2>0 DEF Spared
    <3> QED BY <1>0, <2>2, <3>1, PlaceKept
  <2>4. RollingBack' /\ (faults = 0 => undone')
    BY <1>3, <2>0 DEF RollingBack
  <2>5. Spared(k)'
    BY <1>0, <1>4, <1>5, <2>0, <2>2, <2>3, <2>4 DEF Spared, Present, Stands
  <2> QED BY <1>6, <2>0, <2>4, <2>5
<1>9. CASE EndRollback
  <2>0. /\ op.pc = "done" /\ op # Idle /\ op' = Idle /\ phase' = phase /\ index' = index - 1
        /\ undone' = (undone /\ IsOk(op.error))
    BY <1>9 DEF EndRollback, Idle
  <2>1. /\ OpFits /\ op.caller = "transaction" /\ op.source = moves[index].source
        /\ op.target = IF phase = "rollbackFinalized" THEN moves[index].target
                       ELSE moves[index].temporary
        /\ phase = "rollbackFinalized" => index <= Len(finalized)
        /\ phase = "rollbackStaged" => index > Len(finalized)
        /\ index > 0 /\ index \in DOMAIN moves
    BY <1>0, <1>d, <2>0 DEF OpFits
  <2>2. /\ \A i : i = index => ~Final(i)' /\ ~Staged(i)'
        /\ \A i \in DOMAIN moves : i # index => (Final(i)' <=> Final(i)) /\ (Staged(i)' <=> Staged(i))
        /\ k # index => (Staged(k)' <=> Staged(k))
    BY <1>0, <1>d, <2>0, <2>1 DEF Final, Staged
  <2>3. \A i \in DOMAIN moves : i # k /\ i # index => InPlace(i)'
    <3>1. \A i \in DOMAIN moves : i # k /\ i # index => InPlace(i)
      BY <1>4 DEF Spared
    <3> QED BY <1>0, <2>2, <3>1, PlaceKept
  <2>4. CASE index # k
    <3>1. UnderWay(index)
      BY <1>4, <2>0, <2>1, <2>4 DEF Spared
    <3>2. IsOk(op.error) /\ Present(op.source) /\ ~Present(op.target)
      BY <2>0, <2>1, <3>1 DEF UnderWay, OpCourse
    <3>3. /\ Present(moves[index].source) /\ ~Present(moves[index].temporary)
          /\ ~Present(moves[index].target)
      BY <1>0, <2>1, <3>1, <3>2 DEF UnderWay
    <3>4. Restored(moves[index])
      BY <1>0, <2>1, <3>3, BackHome
    <3>5. \A i : i = index => InPlace(i)'
      BY <1>0, <2>2, <3>4 DEF InPlace, Restored, HoldsData, Present
    <3>6. RollingBack' /\ (faults = 0 => undone')
      BY <1>0, <1>3, <2>0, <3>2 DEF RollingBack
    <3>7. Spared(k)'
      BY <1>0, <1>4, <1>5, <2>0, <2>2, <2>3, <2>4, <3>5, <3>6 DEF Spared, Present, Stands
    <3> QED BY <1>0, <1>6, <2>0, <3>6, <3>7
  <2>5. CASE index = k
    <3>1. phase = "rollbackStaged"
      BY <1>0, <1>5, <1>d, <2>1, <2>5
    <3>2. Staged(k)
      BY <1>0, <1>d, <2>1, <2>5, <3>1 DEF Staged
    <3>3. faults = 0 => IsOk(op.error)
      <4>1. faults = 0 => OpCourse
        BY <1>4, <2>0, <2>5, <3>1, <3>2 DEF Spared
      <4> QED BY <2>0, <2>1, <4>1 DEF OpCourse
    <3>4. RollingBack' /\ (faults = 0 => undone')
      BY <1>0, <1>3, <2>0, <3>3 DEF RollingBack
    <3>5. Spared(k)'
      BY <1>0, <1>5, <2>0, <2>2, <2>3, <2>5, <3>4 DEF Spared
    <3> QED BY <1>0, <1>6, <2>0, <3>4, <3>5
  <2> QED BY <2>4, <2>5
<1>10. CASE RollbackStagedNext
  <2>0. /\ op = Idle /\ op' = Idle /\ undone' = undone /\ phase = "rollbackFinalized"
        /\ phase' = "rollbackStaged" /\ index = 0 /\ index' = Len(staged)
    BY <1>10 DEF RollbackStagedNext, moveVars
  <2>1. /\ \A i \in DOMAIN moves : (Final(i)' <=> Final(i)) /\ (Staged(i)' <=> Staged(i))
        /\ Staged(k)' <=> Staged(k)
    BY <1>0, <1>d, <2>0 DEF Final, Staged
  <2>2. \A i \in DOMAIN moves : i # k => InPlace(i)'
    <3>1. \A i \in DOMAIN moves : i # k => InPlace(i)
      BY <1>4, <2>0 DEF Spared
    <3> QED BY <1>0, <2>1, <3>1, PlaceKept
  <2>3. RollingBack' /\ (faults = 0 => undone')
    BY <1>3, <2>0 DEF RollingBack
  <2>4. Spared(k)'
    BY <1>0, <1>4, <1>5, <2>0, <2>1, <2>2, <2>3 DEF Spared, Present, Stands
  <2> QED BY <1>6, <2>0, <2>3, <2>4
<1>11. CASE RollbackDoneAll
  <2>0. /\ op = Idle /\ undone' = undone /\ phase = "rollbackStaged" /\ phase' = "end" /\ index = 0
    BY <1>11 DEF RollbackDoneAll
  <2>1. \A i \in DOMAIN moves : ~Final(i) /\ ~Staged(i)
    BY <1>d, <2>0 DEF Final, Staged
  <2>2. \A i \in DOMAIN moves : i # k => Restored(moves[i])'
    <3>1. \A i \in DOMAIN moves : i # k => Restored(moves[i])
      BY <1>4, <2>0, <2>1 DEF Spared, InPlace
    <3> QED BY <1>0, <3>1 DEF Restored, HoldsData, Present
  <2>3. SingleFailureContained'
    BY <1>0, <1>3, <2>0, <2>2 DEF SingleFailureContained
  <2> QED BY <1>0, <1>1, <1>3, <2>0, <2>3 DEF ContainedInv, RollingBack
<1> QED BY <1>7, <1>8, <1>9, <1>10, <1>11 DEF RollbackMoves

-----------------------------------------------------------------------------
(* Nothing happens. *)
LEMMA QuietContained ==
    ASSUME ContainedInv, UNCHANGED vars
    PROVE  ContainedInv'
<1>0. UNCHANGED <<objects, op, faults, signals, interrupted, phase, index, staged, finalized, undone,
                  result, listing, moves>>
  BY DEF vars, moveVars, transactionVars, service, environment
<1>1. Signalled' /\ SingleFailureContained'
  BY <1>0 DEF ContainedInv, Signalled, SingleFailureContained, Restored, HoldsData, Present
<1>2. OpCourse' <=> OpCourse
  BY <1>0 DEF OpCourse, Present, Stands
<1>3. \A i : (Final(i)' <=> Final(i)) /\ (Staged(i)' <=> Staged(i))
  BY <1>0 DEF Final, Staged
<1>4. \A i : (UnderWay(i) => UnderWay(i)') /\ (InPlace(i) => InPlace(i)')
  BY <1>0, <1>2, <1>3 DEF UnderWay, InPlace, Restored, HoldsData, Present, Stands
<1>5. \A k : Spared(k) => Spared(k)'
  <2> SUFFICES ASSUME NEW k, Spared(k) PROVE Spared(k)'
    OBVIOUS
  <2>1. k # 0 => RollingBack' /\ k > Len(finalized')
    BY <1>0 DEF Spared, RollingBack
  <2>2. \A i \in DOMAIN moves' : i # k =>
           IF op' # Idle /\ i = index' THEN UnderWay(i)' ELSE InPlace(i)'
    BY <1>0, <1>4 DEF Spared
  <2>3. faults' = 0 /\ Staged(k)' =>
           IF op' # Idle /\ k = index' /\ phase' = "rollbackStaged" THEN OpCourse'
           ELSE ~Present(moves[k].source)' /\ Stands(moves[k].temporary, staged[k].generation)'
    BY <1>0, <1>2, <1>3 DEF Spared, Present, Stands
  <2> QED BY <2>1, <2>2, <2>3 DEF Spared
<1>6. Original' <=> Original
  BY <1>0 DEF Original
<1> QED BY <1>0, <1>1, <1>5, <1>6 DEF ContainedInv, RollingBack

(* Initially nothing has happened. *)
LEMMA InitContained == Init => ContainedInv
<1> SUFFICES ASSUME Init PROVE ContainedInv
  OBVIOUS
<1>1. phase = "build" /\ undone = TRUE /\ interrupted = FALSE
  BY DEF Init, MoveInit, TransactionInit
<1> QED BY <1>1 DEF ContainedInv, Signalled, SingleFailureContained, RollingBack

(* Every step of the workflow keeps the account. *)
LEMMA NextContained ==
    ASSUME ~LateDelivery, MaxForeign = 0, TypeOK, IndexInv, ChangesOwned, ContentInv,
           RenamesInv, ContainedInv, [Next]_vars
    PROVE  ContainedInv'
<1>1. CASE Disturbance
  <2>1. Signal /\ phase # "end" /\ UNCHANGED <<transactionVars, listing, moves>>
    BY <1>1 DEF Disturbance, Meddling, Land, ForeignWrite, ForeignDelete, ContentInv
  <2> QED BY <2>1, SignalContained
<1>2. CASE Terminated \/ UNCHANGED vars
  BY <1>2, QuietContained DEF Terminated
<1>3. CASE RunStep
  BY <1>3, OperationContained, PlanningContained, BeginMoveContained, EndStageContained,
     EndFinalizeContained, PhasesContained, RollbackContained DEF RunStep
<1> QED BY <1>1, <1>2, <1>3 DEF Next

(* SingleFailureContained: as long as every writer honours the lock and    *)
(* the service executes no request after the client has given up on it, a  *)
(* single signal or failed request leaves at most one planned move to      *)
(* recover, for every bucket and every plan and wherever it strikes; after *)
(* a signal the rollback of every recorded change succeeds.                *)
THEOREM DisturbanceContained ==
    ASSUME ~LateDelivery, MaxForeign = 0
    PROVE  Spec => []SingleFailureContained
<1> DEFINE IInv == TypeOK /\ IndexInv /\ ChangesOwned /\ ContentInv /\ RenamesInv /\ ContainedInv
<1>1. Init => IInv
  BY InitType, InitOwned, InitContent, InitRenames, InitContained DEF Init
<1>2. IInv /\ [Next]_vars => IInv'
  BY NextType, NextOwned, NextContent, NextRenames, NextContained
<1>3. IInv => SingleFailureContained
  BY DEF ContainedInv
<1> QED BY <1>1, <1>2, <1>3, PTL DEF Spec
=============================================================================
