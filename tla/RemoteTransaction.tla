------------------------- MODULE RemoteTransaction -------------------------
(***************************************************************************)
(* RemoteTransaction (src/transaction.rs): remote changes are staged one   *)
(* after the other, then finalized one after the other; a failure of       *)
(* either phase rolls back every recorded change, the finalized ones first *)
(* and each list backwards.                                                *)
(*                                                                         *)
(* The workflow that owns the transaction says what staging, finalizing    *)
(* and rolling back one change mean; this module has the state and the     *)
(* bookkeeping they share.                                                 *)
(***************************************************************************)
EXTENDS Sequences, RemoteMoves

VARIABLES
    phase,        \* where execute is
    index,        \* the change it works on
    staged, finalized,  \* Seq(RemoteChange)
    undone,       \* history: the rollback of no change has failed
    result        \* the error of the operation, NoError when it succeeded

transactionVars == <<phase, index, staged, finalized, undone, result>>

RemoteChanges == [source : Names, target : Names, generation : Nat]
Change(source, target, generation) ==
    [source |-> source, target |-> target, generation |-> generation]

Phases == {"build", "plan", "stage", "finalize", "rollbackFinalized", "rollbackStaged", "end"}

TransactionInit ==
    /\ phase = "build" /\ index = 0
    /\ staged = <<>> /\ finalized = <<>>
    /\ undone = TRUE /\ result = NoError

TransactionTypeOK ==
    /\ phase \in Phases /\ index \in Nat
    /\ staged \in Seq(RemoteChanges) /\ finalized \in Seq(RemoteChanges)
    /\ undone \in BOOLEAN /\ result \in AppErrors

(* The error arm of execute: clear the flag, then roll back from the last  *)
(* of the changes that are recorded by now.                                *)
Abort(error, recorded) ==
    /\ interrupted' = FALSE
    /\ result' = error
    /\ phase' = "rollbackFinalized" /\ index' = recorded
    /\ UNCHANGED undone

(* interrupt.check()? after a change: on to the next one, or abort. *)
CheckedStep(recorded) ==
    IF interrupted
    THEN Abort(Err("Interrupted"), recorded)
    ELSE /\ index' = index + 1
         /\ UNCHANGED <<interrupted, phase, undone, result>>

(* The operation on one staged change begins: object_move::execute checks  *)
(* the flag before the first request.                                      *)
BeginMove(source, target, generation) ==
    /\ op = Idle
    /\ IF interrupted
       THEN Abort(Err("Interrupted"), Len(finalized)) /\ op' = Idle
       ELSE /\ op' = MoveCall(source, target, generation)
            /\ UNCHANGED <<interrupted, phase, index, undone, result>>
    /\ UNCHANGED <<service, environment, staged, finalized>>

StagingDone(planned) ==
    /\ phase = "stage" /\ op = Idle /\ index > planned
    /\ phase' = "finalize" /\ index' = 1
    /\ UNCHANGED <<moveVars, staged, finalized, undone, result>>

FinalizingDone ==
    /\ phase = "finalize" /\ op = Idle /\ index > Len(staged)
    /\ phase' = "end"
    /\ UNCHANGED <<moveVars, index, staged, finalized, undone, result>>

(* A staged move has returned. *)
EndStage(change) ==
    /\ phase = "stage" /\ op.pc = "done"
    /\ IF IsOk(op.error)
       THEN staged' = Append(staged, change) /\ CheckedStep(0)
       ELSE UNCHANGED staged /\ Abort(op.error, 0)
    /\ op' = Idle
    /\ UNCHANGED <<service, environment, finalized>>

(* Mutant: the rollback uses the generation from before the move. *)
KeepStagedGeneration(error) == staged

(* An interrupted move that was undone on the spot leaves the staged       *)
(* object under a new generation, which the rollback must use.             *)
KeepRestoredGeneration(error) ==
    IF HasRestoredGeneration(error)
    THEN [staged EXCEPT ![index].generation = error.generation] ELSE staged

EndFinalize(change) ==
    /\ phase = "finalize" /\ op.pc = "done"
    /\ IF IsOk(op.error)
       THEN /\ finalized' = Append(finalized, change)
            /\ UNCHANGED staged
            /\ CheckedStep(Len(finalized) + 1)
       ELSE /\ staged' = KeepRestoredGeneration(op.error)
            /\ UNCHANGED finalized
            /\ Abort(op.error, Len(finalized))
    /\ op' = Idle
    /\ UNCHANGED <<service, environment>>

-----------------------------------------------------------------------------
(* rollback_changes *)

FinalizedSources == {finalized[i].source : i \in DOMAIN finalized}

(* The list that is being rolled back. *)
Recorded == IF phase = "rollbackFinalized" THEN finalized ELSE staged
RollingBack == phase \in {"rollbackFinalized", "rollbackStaged"}
Skipped(change) == phase = "rollbackStaged" /\ change.source \in FinalizedSources

BeginRollback(call) ==
    /\ RollingBack /\ op = Idle /\ index > 0
    /\ ~Skipped(Recorded[index])
    /\ op' = call
    /\ UNCHANGED <<service, environment, interrupted, transactionVars>>

(* Mutant: counts a skipped change twice. *)
SkipRollbackTwice ==
    /\ RollingBack /\ op = Idle /\ index > 0
    /\ Skipped(Recorded[index])
    /\ index' = index - 2
    /\ UNCHANGED <<moveVars, phase, staged, finalized, undone, result>>

SkipRollback ==
    /\ RollingBack /\ op = Idle /\ index > 0
    /\ Skipped(Recorded[index])
    /\ index' = index - 1
    /\ UNCHANGED <<moveVars, phase, staged, finalized, undone, result>>

(* Mutant: tries a rollback that was refused again and again. *)
EndRollbackRetrying ==
    /\ RollingBack /\ op.pc = "done"
    /\ undone' = (undone /\ IsOk(op.error))
    /\ index' = IF IsOk(op.error) THEN index - 1 ELSE index
    /\ op' = Idle
    /\ UNCHANGED <<service, environment, interrupted, phase, staged, finalized, result>>

(* A failed rollback is recorded and the others still run. *)
EndRollback ==
    /\ RollingBack /\ op.pc = "done"
    /\ undone' = (undone /\ IsOk(op.error))
    /\ index' = index - 1
    /\ op' = Idle
    /\ UNCHANGED <<service, environment, interrupted, phase, staged, finalized, result>>

RollbackStagedNext ==
    /\ phase = "rollbackFinalized" /\ op = Idle /\ index = 0
    /\ phase' = "rollbackStaged" /\ index' = Len(staged)
    /\ UNCHANGED <<moveVars, staged, finalized, undone, result>>

RollbackDoneAll ==
    /\ phase = "rollbackStaged" /\ op = Idle /\ index = 0
    /\ phase' = "end"
    /\ result' = Rollback(result, ~undone)
    /\ UNCHANGED <<moveVars, index, staged, finalized, undone>>
=============================================================================
