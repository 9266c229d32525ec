----------------------- MODULE RemoteTransactionProofs -----------------------
(***************************************************************************)
(* Facts about the bookkeeping that the two workflows share: `index` stays *)
(* within the list it points into, and every generation recorded for the   *)
(* rollback is one of the run's.                                           *)
(***************************************************************************)
EXTENDS RemoteTransaction, RemoteOwnershipProofs

(* Where `index` points while the lists of changes grow and are undone. *)
TransactionIndexInv ==
    /\ phase = "stage" => index = Len(staged) + 1 /\ finalized = <<>>
    /\ phase = "rollbackFinalized" => index <= Len(finalized)
    /\ phase = "rollbackStaged" => index <= Len(staged)
    /\ RollingBack /\ op # Idle => index > 0

TransactionInv == MoveTypeOK /\ TransactionTypeOK /\ TransactionIndexInv

-----------------------------------------------------------------------------
(* The shape of everything before the first step. *)
LEMMA InitTransaction ==
    ASSUME NEW present, MoveInit(present), TransactionInit
    PROVE  TransactionInv
<1>1. \A name \in Names : [gen |-> 1, data |-> name] \in Versions /\ Absent \in Versions
  BY DEF Versions, Absent
<1>2. objects \in [Names -> Versions]
  BY <1>1 DEF MoveInit
<1>3. faults \in 0..MaxFaults /\ signals \in 0..MaxSignals /\ meddled \in 0..MaxForeign
  BY BoundsAssumption DEF MoveInit
<1>4. nextGen \in Nat \ {0} /\ wire \subseteq Requests /\ others \subseteq Nat
  BY DEF MoveInit
<1>5. MoveTypeOK
  BY <1>2, <1>3, <1>4 DEF MoveInit, MoveTypeOK
<1>6. TransactionTypeOK /\ TransactionIndexInv
  BY ErrType DEF TransactionInit, TransactionTypeOK, Phases, TransactionIndexInv, RollingBack
<1> QED BY <1>5, <1>6 DEF TransactionInv

(* What Abort leaves in the variables of the transaction. *)
LEMMA AbortType ==
    ASSUME NEW error \in AppErrors, NEW recorded \in Nat, Abort(error, recorded),
           TransactionTypeOK
    PROVE  /\ phase' = "rollbackFinalized" /\ index' = recorded
           /\ phase' \in Phases /\ index' \in Nat
           /\ undone' \in BOOLEAN /\ result' \in AppErrors /\ interrupted' = FALSE
BY DEF Abort, TransactionTypeOK, Phases

(* What CheckedStep leaves in them. *)
LEMMA CheckedStepType ==
    ASSUME NEW recorded \in Nat, CheckedStep(recorded), TransactionTypeOK,
           interrupted \in BOOLEAN
    PROVE  /\ \/ phase' = "rollbackFinalized" /\ index' = recorded
              \/ phase' = phase /\ index' = index + 1
           /\ phase' \in Phases /\ index' \in Nat
           /\ undone' \in BOOLEAN /\ result' \in AppErrors /\ interrupted' \in BOOLEAN
<1>1. CASE interrupted
  BY <1>1, AbortType, ErrType DEF CheckedStep, ErrorKinds
<1>2. CASE ~interrupted
  BY <1>2 DEF CheckedStep, TransactionTypeOK
<1> QED BY <1>1, <1>2

(* BeginMove starts the call or aborts. *)
LEMMA BeginMoveType ==
    ASSUME TransactionInv, phase \in {"stage", "finalize"},
           NEW source \in Names, NEW target \in Names, NEW g \in Nat,
           BeginMove(source, target, g)
    PROVE  /\ TransactionInv' /\ UNCHANGED <<staged, finalized>>
           /\ phase' \in {phase, "rollbackFinalized"}
<1>0. /\ ServiceTypeOK /\ MoveTypeOK /\ TransactionTypeOK /\ Len(finalized) \in Nat
      /\ interrupted \in BOOLEAN /\ TransactionIndexInv
  BY DEF TransactionInv, MoveTypeOK, ServiceTypeOK, TransactionTypeOK
<1>1. CASE interrupted
  <2>1. /\ Abort(Err("Interrupted"), Len(finalized)) /\ op' = Idle
        /\ UNCHANGED <<service, environment, staged, finalized>>
    BY <1>1 DEF BeginMove
  <2>2. Err("Interrupted") \in AppErrors
    BY ErrType DEF ErrorKinds
  <2>3. MoveTypeOK'
    BY <1>0, <2>1, <2>2, AbortType, FrameType
  <2>4. /\ phase' = "rollbackFinalized" /\ index' = Len(finalized)
        /\ phase' \in Phases /\ undone' \in BOOLEAN /\ result' \in AppErrors
    BY <1>0, <2>1, <2>2, AbortType
  <2>5. TransactionTypeOK'
    BY <1>0, <2>1, <2>4 DEF TransactionTypeOK
  <2>6. TransactionIndexInv'
    BY <1>0, <2>1, <2>4 DEF TransactionIndexInv
  <2> QED BY <2>1, <2>3, <2>4, <2>5, <2>6 DEF TransactionInv
<1>2. CASE ~interrupted
  <2>1. /\ op' = MoveCall(source, target, g)
        /\ UNCHANGED <<interrupted, phase, index, undone, result>>
        /\ UNCHANGED <<service, environment, staged, finalized>>
    BY <1>2 DEF BeginMove
  <2>2. MoveTypeOK'
    BY <1>0, <2>1, CallType, FrameType
  <2>3. TransactionTypeOK' /\ TransactionIndexInv'
    BY <1>0, <2>1 DEF TransactionTypeOK, TransactionIndexInv, RollingBack
  <2> QED BY <2>1, <2>2, <2>3 DEF TransactionInv
<1> QED BY <1>1, <1>2

(* EndStage records the staged object or aborts. *)
LEMMA EndStageType ==
    ASSUME TransactionInv, NEW change \in RemoteChanges, EndStage(change)
    PROVE  /\ TransactionInv' /\ phase = "stage" /\ index = Len(staged) + 1
           /\ phase' \in {"stage", "rollbackFinalized"}
           /\ Len(staged') \in {Len(staged), index}
<1>0. /\ MoveTypeOK /\ ServiceTypeOK /\ TransactionTypeOK /\ TransactionIndexInv
      /\ phase = "stage" /\ index = Len(staged) + 1 /\ op \in Ops
      /\ interrupted \in BOOLEAN
  BY DEF TransactionInv, TransactionIndexInv, MoveTypeOK, ServiceTypeOK, EndStage, Idle
<1>1. CASE IsOk(op.error)
  <2>1. /\ staged' = Append(staged, change) /\ CheckedStep(0)
        /\ UNCHANGED <<finalized, service, environment>> /\ op' = Idle
    BY <1>1 DEF EndStage
  <2>2. MoveTypeOK' /\ TransactionTypeOK'
    BY <1>0, <2>1, CheckedStepType, FrameType DEF TransactionTypeOK
  <2>3. Len(staged') = Len(staged) + 1 /\ Len(staged) \in Nat
    BY <1>0, <2>1 DEF TransactionTypeOK
  <2>4. TransactionIndexInv'
    BY <1>0, <2>1, <2>3, CheckedStepType DEF TransactionIndexInv, RollingBack, TransactionTypeOK
  <2> QED BY <1>0, <2>1, <2>2, <2>3, <2>4, CheckedStepType DEF TransactionInv
<1>2. CASE ~IsOk(op.error)
  <2>1. /\ staged' = staged /\ Abort(op.error, 0)
        /\ UNCHANGED <<finalized, service, environment>> /\ op' = Idle
    BY <1>2 DEF EndStage
  <2>2. MoveTypeOK' /\ TransactionTypeOK'
    BY <1>0, <2>1, AbortType, FrameType DEF TransactionTypeOK, Ops
  <2>3. phase' = "rollbackFinalized" /\ index' = 0
    BY <2>1 DEF Abort
  <2>4. Len(finalized') \in Nat
    BY <2>2 DEF TransactionTypeOK
  <2>5. TransactionIndexInv'
    BY <2>1, <2>3, <2>4 DEF TransactionIndexInv
  <2> QED BY <1>0, <2>1, <2>2, <2>3, <2>5 DEF TransactionInv
<1> QED BY <1>1, <1>2

(* EndFinalize records the finalized object, or keeps the generation of    *)
(* the restored one and aborts.                                            *)
LEMMA EndFinalizeType ==
    ASSUME TransactionInv, NEW change \in RemoteChanges, EndFinalize(change),
           index \in DOMAIN staged
    PROVE  /\ TransactionInv' /\ Len(staged') = Len(staged)
           /\ phase' \in {"finalize", "rollbackFinalized"}
<1>0. /\ MoveTypeOK /\ ServiceTypeOK /\ TransactionTypeOK /\ TransactionIndexInv
      /\ phase = "finalize" /\ op \in Ops /\ interrupted \in BOOLEAN
      /\ Len(finalized) \in Nat
  BY DEF TransactionInv, MoveTypeOK, ServiceTypeOK, TransactionTypeOK, EndFinalize, Idle
<1>1. CASE IsOk(op.error)
  <2>1. /\ finalized' = Append(finalized, change) /\ CheckedStep(Len(finalized) + 1)
        /\ UNCHANGED <<staged, service, environment>> /\ op' = Idle
    BY <1>1 DEF EndFinalize
  <2>2. Len(finalized) + 1 \in Nat /\ Len(finalized') = Len(finalized) + 1
    BY <1>0, <2>1 DEF TransactionTypeOK
  <2>3. MoveTypeOK' /\ TransactionTypeOK'
    BY <1>0, <2>1, <2>2, CheckedStepType, FrameType DEF TransactionTypeOK
  <2>4. TransactionIndexInv'
    BY <1>0, <2>1, <2>2, CheckedStepType DEF TransactionIndexInv, RollingBack, TransactionTypeOK
  <2> QED BY <1>0, <2>1, <2>2, <2>3, <2>4, CheckedStepType DEF TransactionInv
<1>2. CASE ~IsOk(op.error)
  <2>1. /\ staged' = KeepRestoredGeneration(op.error) /\ Abort(op.error, Len(finalized))
        /\ UNCHANGED <<finalized, service, environment>> /\ op' = Idle
    BY <1>2 DEF EndFinalize
  <2>2. op.error \in AppErrors /\ op.error.generation \in Nat
    BY <1>0 DEF Ops, AppErrors
  <2>3. staged' \in Seq(RemoteChanges) /\ Len(staged') = Len(staged)
    <3>1. staged \in Seq(RemoteChanges)
      BY <1>0 DEF TransactionTypeOK
    <3>2. [staged[index] EXCEPT !.generation = op.error.generation] \in RemoteChanges
      <4>1. staged[index] \in RemoteChanges
        BY <3>1
      <4> QED BY <2>2, <4>1 DEF RemoteChanges
    <3>3. [staged EXCEPT ![index] = [staged[index] EXCEPT !.generation = op.error.generation]]
             \in Seq(RemoteChanges)
      BY <3>1, <3>2
    <3> QED BY <2>1, <3>1, <3>3 DEF KeepRestoredGeneration
  <2>4. MoveTypeOK' /\ TransactionTypeOK'
    BY <1>0, <2>1, <2>2, <2>3, AbortType, FrameType DEF TransactionTypeOK
  <2>5. phase' = "rollbackFinalized" /\ index' = Len(finalized)
    BY <2>1 DEF Abort
  <2>6. TransactionIndexInv'
    BY <1>0, <2>1, <2>5 DEF TransactionIndexInv
  <2> QED BY <2>3, <2>4, <2>5, <2>6 DEF TransactionInv
<1> QED BY <1>1, <1>2

(* The steps between two phases. *)
LEMMA PhaseType ==
    ASSUME TransactionInv, NEW planned, StagingDone(planned) \/ FinalizingDone
    PROVE  /\ TransactionInv' /\ UNCHANGED <<staged, finalized>>
           /\ phase' \in {"finalize", "end"}
<1>1. UNCHANGED <<moveVars, staged, finalized, undone, result>>
  BY DEF StagingDone, FinalizingDone
<1>2. phase' \in {"finalize", "end"} /\ index' \in Nat
  BY DEF StagingDone, FinalizingDone, TransactionInv, TransactionTypeOK
<1>3. MoveTypeOK'
  BY <1>1 DEF TransactionInv, moveVars, service, environment, MoveTypeOK
<1>4. TransactionTypeOK' /\ TransactionIndexInv'
  BY <1>1, <1>2 DEF TransactionInv, TransactionTypeOK, TransactionIndexInv, Phases, RollingBack
<1> QED BY <1>1, <1>2, <1>3, <1>4 DEF TransactionInv

(* The rollback has a change to roll back wherever it asks for one. *)
LEMMA RecordedType ==
    ASSUME TransactionInv, RollingBack, index > 0
    PROVE  index \in DOMAIN Recorded /\ Recorded[index] \in RemoteChanges
BY DEF TransactionInv, TransactionTypeOK, TransactionIndexInv, RollingBack, Recorded

(* The steps of the rollback. *)
LEMMA RollbackType ==
    ASSUME TransactionInv,
           \/ SkipRollback \/ EndRollback \/ RollbackStagedNext \/ RollbackDoneAll
           \/ \E call \in Ops : BeginRollback(call)
    PROVE  /\ TransactionInv' /\ UNCHANGED <<staged, finalized>>
           /\ phase' \in {"rollbackFinalized", "rollbackStaged", "end"}
<1>0. MoveTypeOK /\ ServiceTypeOK /\ TransactionTypeOK /\ TransactionIndexInv
  BY DEF TransactionInv, MoveTypeOK, ServiceTypeOK
<1> SUFFICES /\ MoveTypeOK' /\ TransactionTypeOK' /\ TransactionIndexInv'
             /\ UNCHANGED <<staged, finalized>>
             /\ phase' \in {"rollbackFinalized", "rollbackStaged", "end"}
  BY DEF TransactionInv
<1>1. ASSUME NEW call \in Ops, BeginRollback(call)
      PROVE  /\ MoveTypeOK' /\ TransactionTypeOK' /\ TransactionIndexInv'
             /\ UNCHANGED <<staged, finalized>>
             /\ phase' \in {"rollbackFinalized", "rollbackStaged", "end"}
  <2>1. MoveTypeOK'
    BY <1>0, <1>1, FrameType DEF BeginRollback, ServiceTypeOK
  <2> QED BY <1>0, <1>1, <2>1 DEF BeginRollback, TransactionTypeOK, transactionVars,
             TransactionIndexInv, RollingBack
<1>2. CASE SkipRollback
  <2>1. MoveTypeOK'
    BY <1>0, <1>2 DEF SkipRollback, moveVars, service, environment, MoveTypeOK
  <2> QED BY <1>0, <1>2, <2>1 DEF SkipRollback, TransactionTypeOK, moveVars,
             TransactionIndexInv, RollingBack
<1>3. CASE EndRollback
  <2>1. index > 0
    BY <1>0, <1>3 DEF EndRollback, TransactionIndexInv, Idle
  <2>2. MoveTypeOK'
    BY <1>0, <1>3, FrameType DEF EndRollback, ServiceTypeOK
  <2> QED BY <1>0, <1>3, <2>1, <2>2 DEF EndRollback, TransactionTypeOK, TransactionIndexInv,
             RollingBack
<1>4. CASE RollbackStagedNext
  <2>1. MoveTypeOK'
    BY <1>0, <1>4 DEF RollbackStagedNext, moveVars, service, environment, MoveTypeOK
  <2> QED BY <1>0, <1>4, <2>1 DEF RollbackStagedNext, TransactionTypeOK, Phases, moveVars,
             TransactionIndexInv, RollingBack
<1>5. CASE RollbackDoneAll
  <2>1. MoveTypeOK'
    BY <1>0, <1>5 DEF RollbackDoneAll, moveVars, service, environment, MoveTypeOK
  <2>2. result' \in AppErrors
    BY <1>0, <1>5, ErrType DEF RollbackDoneAll, TransactionTypeOK
  <2> QED BY <1>0, <1>5, <2>1, <2>2 DEF RollbackDoneAll, TransactionTypeOK, Phases, moveVars,
             TransactionIndexInv, RollingBack
<1> QED BY <1>1, <1>2, <1>3, <1>4, <1>5

(* The steps of an operation and of the environment. *)
LEMMA OperationType ==
    ASSUME TransactionInv, OpStep \/ Meddling \/ Land, UNCHANGED transactionVars
    PROVE  TransactionInv'
<1>1. MoveTypeOK'
  BY OpStepType, DisturbanceType DEF TransactionInv
<1>2. op' = op \/ op # Idle
  BY OpStepBusy DEF Idle, Meddling, Signal, Land, ForeignWrite, ForeignDelete
<1> QED BY <1>1, <1>2 DEF TransactionInv, TransactionTypeOK, transactionVars,
           TransactionIndexInv, RollingBack

-----------------------------------------------------------------------------
(* Every generation the run may still delete is its own: those on the wire *)
(* and in the operation in progress (OwnedInv), and those recorded for the *)
(* rollback.                                                               *)
RecordsOwned ==
    /\ \A i \in DOMAIN staged : Mine(staged[i].generation)
    /\ \A i \in DOMAIN finalized : Mine(finalized[i].generation)

ChangesOwned == OwnedInv /\ RecordsOwned

(* Records that stay stay the run's. *)
LEMMA RecordsKept ==
    ASSUME TransactionTypeOK, RecordsOwned, OwnKept, UNCHANGED <<staged, finalized>>
    PROVE  RecordsOwned'
<1>1. \A i \in DOMAIN staged : staged[i].generation \in Nat
  <2>1. \A i \in DOMAIN staged : staged[i] \in RemoteChanges
    BY DEF TransactionTypeOK
  <2> QED BY <2>1 DEF RemoteChanges
<1>2. \A i \in DOMAIN finalized : finalized[i].generation \in Nat
  <2>1. \A i \in DOMAIN finalized : finalized[i] \in RemoteChanges
    BY DEF TransactionTypeOK
  <2> QED BY <2>1 DEF RemoteChanges
<1>3. \A i \in DOMAIN staged : Mine(staged[i].generation)'
  BY <1>1 DEF OwnKept, RecordsOwned, Mine
<1>4. \A i \in DOMAIN finalized : Mine(finalized[i].generation)'
  BY <1>2 DEF OwnKept, RecordsOwned, Mine
<1> QED BY <1>3, <1>4 DEF RecordsOwned

(* Initially the run has nothing to delete. *)
LEMMA InitOwned ==
    ASSUME NEW present, MoveInit(present), TransactionInit
    PROVE  ChangesOwned
<1>1. GenerationsInv /\ WireOwned
  BY DEF MoveInit, GenerationsInv, WireOwned, Absent
<1>2. OpOwned
  BY IdleOwned DEF MoveInit
<1>3. RecordsOwned
  BY DEF TransactionInit, RecordsOwned
<1> QED BY <1>1, <1>2, <1>3 DEF ChangesOwned, OwnedInv

(* A step of a workflow that is not a step of a move leaves the service    *)
(* and the wire alone.                                                     *)
LEMMA BookkeepingOwned ==
    ASSUME ChangesOwned, UNCHANGED <<service, environment>>, OpOwned',
           \A i \in DOMAIN staged' : Mine(staged'[i].generation),
           \A i \in DOMAIN finalized' : Mine(finalized'[i].generation)
    PROVE  ChangesOwned' /\ OthersKept /\ OwnKept
<1>1. GenerationsInv' /\ OthersKept /\ OwnKept
  BY QuietOwned DEF ChangesOwned, OwnedInv
<1>2. WireOwned'
  BY DEF ChangesOwned, OwnedInv, WireOwned, Mine, service, environment
<1>3. RecordsOwned'
  BY DEF RecordsOwned, Mine, service
<1> QED BY <1>1, <1>2, <1>3 DEF ChangesOwned, OwnedInv

(* Such a step that records nothing. *)
LEMMA QuietChangesOwned ==
    ASSUME MoveTypeOK, ChangesOwned,
           UNCHANGED <<service, environment, staged, finalized>>,
           op' = op \/ op' = Idle \/ OpOwned'
    PROVE  ChangesOwned' /\ OthersKept /\ OwnKept
<1>1. OpOwned'
  BY OpKeptOwned, QuietOwned, IdleOwned DEF ChangesOwned, OwnedInv
<1> QED BY <1>1, BookkeepingOwned DEF ChangesOwned, RecordsOwned

(* BeginMove has nothing to delete yet. *)
LEMMA BeginMoveOwned ==
    ASSUME MoveTypeOK, ChangesOwned, NEW source, NEW target, NEW g,
           BeginMove(source, target, g)
    PROVE  ChangesOwned' /\ OthersKept /\ OwnKept
<1>1. op' = Idle \/ op' = MoveCall(source, target, g)
  BY DEF BeginMove
<1>2. UNCHANGED <<service, environment, staged, finalized>>
  BY DEF BeginMove
<1>3. OpOwned'
  BY <1>1, IdleOwned, CallOwned
<1> QED BY <1>2, <1>3, QuietChangesOwned

(* EndStage records the generation that the operation has created. *)
LEMMA EndStageOwned ==
    ASSUME MoveTypeOK, TransactionTypeOK, ChangesOwned, NEW change, EndStage(change),
           change.generation = op.tgen
    PROVE  ChangesOwned' /\ OthersKept /\ OwnKept
<1>0. RecordsOwned /\ OpOwned /\ op.pc = "done" /\ op' = Idle
  BY DEF ChangesOwned, OwnedInv, EndStage
<1>1. /\ UNCHANGED <<service, environment, finalized>>
      /\ \/ staged' = Append(staged, change) /\ IsOk(op.error)
         \/ staged' = staged
  BY DEF EndStage
<1>2. IsOk(op.error) => Mine(change.generation)
  BY <1>0 DEF OpOwned
<1>3. \A i \in DOMAIN staged' : Mine(staged'[i].generation)
  <2>1. CASE staged' = staged
    BY <1>0, <2>1 DEF RecordsOwned
  <2>2. CASE staged' = Append(staged, change) /\ Mine(change.generation)
    BY <1>0, <2>2 DEF TransactionTypeOK, RecordsOwned
  <2> QED BY <1>1, <1>2, <2>1, <2>2
<1>4. \A i \in DOMAIN finalized' : Mine(finalized'[i].generation)
  BY <1>0, <1>1 DEF RecordsOwned
<1> QED BY <1>0, <1>1, <1>3, <1>4, BookkeepingOwned, IdleOwned

(* EndFinalize records the generation that the operation has created, or   *)
(* the one under which it has restored the staged object.                  *)
LEMMA EndFinalizeOwned ==
    ASSUME MoveTypeOK, TransactionTypeOK, ChangesOwned, NEW change, EndFinalize(change),
           change.generation = op.tgen, index \in DOMAIN staged
    PROVE  ChangesOwned' /\ OthersKept /\ OwnKept
<1>0. RecordsOwned /\ OpOwned /\ op.pc = "done" /\ op' = Idle
  BY DEF ChangesOwned, OwnedInv, EndFinalize
<1>1. /\ UNCHANGED <<service, environment>>
      /\ \/ finalized' = Append(finalized, change) /\ staged' = staged /\ IsOk(op.error)
         \/ staged' = KeepRestoredGeneration(op.error) /\ finalized' = finalized
  BY DEF EndFinalize
<1>2. /\ IsOk(op.error) => Mine(change.generation)
      /\ HasRestoredGeneration(op.error) => Mine(op.error.generation)
  BY <1>0 DEF OpOwned
<1>3. CASE staged' = KeepRestoredGeneration(op.error) /\ finalized' = finalized
  <2>1. \A i \in DOMAIN staged' : Mine(staged'[i].generation)
    <3>1. CASE ~HasRestoredGeneration(op.error)
      BY <1>0, <1>3, <3>1 DEF KeepRestoredGeneration, RecordsOwned
    <3>2. CASE HasRestoredGeneration(op.error)
      <4>1. staged' = [staged EXCEPT ![index].generation = op.error.generation]
        BY <1>3, <3>2 DEF KeepRestoredGeneration
      <4>2. staged[index] \in RemoteChanges /\ DOMAIN staged' = DOMAIN staged
        BY <4>1 DEF TransactionTypeOK
      <4>3. staged'[index].generation = op.error.generation
        BY <4>1, <4>2 DEF TransactionTypeOK, RemoteChanges
      <4>4. \A i \in DOMAIN staged : i # index => staged'[i] = staged[i]
        BY <4>1 DEF TransactionTypeOK
      <4> QED BY <1>0, <1>2, <3>2, <4>2, <4>3, <4>4 DEF RecordsOwned
    <3> QED BY <3>1, <3>2
  <2>2. \A i \in DOMAIN finalized' : Mine(finalized'[i].generation)
    BY <1>0, <1>3 DEF RecordsOwned
  <2> QED BY <1>0, <1>1, <2>1, <2>2, BookkeepingOwned, IdleOwned
<1>4. CASE finalized' = Append(finalized, change) /\ staged' = staged /\ IsOk(op.error)
  <2>1. \A i \in DOMAIN finalized' : Mine(finalized'[i].generation)
    BY <1>0, <1>2, <1>4 DEF TransactionTypeOK, RecordsOwned
  <2>2. \A i \in DOMAIN staged' : Mine(staged'[i].generation)
    BY <1>0, <1>4 DEF RecordsOwned
  <2> QED BY <1>0, <1>1, <2>1, <2>2, BookkeepingOwned, IdleOwned
<1> QED BY <1>1, <1>3, <1>4

(* The steps of the rollback; the call that begins one owns its target. *)
LEMMA RollbackOwned ==
    ASSUME MoveTypeOK, ChangesOwned,
           \/ SkipRollback \/ EndRollback \/ RollbackStagedNext \/ RollbackDoneAll
           \/ \E call : BeginRollback(call) /\ OpOwned'
    PROVE  ChangesOwned' /\ OthersKept /\ OwnKept
<1>1. UNCHANGED <<service, environment, staged, finalized>>
  BY DEF BeginRollback, SkipRollback, EndRollback, RollbackStagedNext, RollbackDoneAll,
     moveVars, transactionVars
<1>2. op' = op \/ op' = Idle \/ OpOwned'
  BY DEF SkipRollback, EndRollback, RollbackStagedNext, RollbackDoneAll, moveVars
<1> QED BY <1>1, <1>2, QuietChangesOwned

(* The generation that the rollback is about to use is the run's. *)
LEMMA RecordedOwned ==
    ASSUME TransactionInv, ChangesOwned, RollingBack, index > 0
    PROVE  Mine(Recorded[index].generation)
BY RecordedType DEF ChangesOwned, RecordsOwned, Recorded

(* The steps of an operation and of the environment. *)
LEMMA OperationOwned ==
    ASSUME TransactionInv, ChangesOwned, OpStep \/ Meddling \/ Land,
           UNCHANGED transactionVars
    PROVE  ChangesOwned' /\ OwnKept /\ (meddled' = meddled => OthersKept)
<1>1. OwnedInv' /\ OwnKept /\ (meddled' = meddled => OthersKept)
  BY OpStepOwned, DisturbanceOwned DEF TransactionInv, ChangesOwned
<1>2. RecordsOwned'
  BY <1>1, RecordsKept DEF TransactionInv, ChangesOwned, transactionVars
<1> QED BY <1>1, <1>2 DEF ChangesOwned
=============================================================================
