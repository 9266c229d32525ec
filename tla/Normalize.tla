----------------------------- MODULE Normalize -----------------------------
(***************************************************************************)
(* The normalize workflow (src/normalize.rs): list the bucket, plan one    *)
(* move per name that is not in NFC (src/normalization_plan.rs), stage     *)
(* every source under a temporary name, finalize every staged object under *)
(* its normalized name, and roll the recorded changes back when a step     *)
(* fails.  The bucket lock is held throughout (module BucketLock): other   *)
(* writers appear only when MaxForeign allows writers that ignore it.      *)
(***************************************************************************)
EXTENDS RemoteTransaction

CONSTANTS
    Listings,    \* the bucket contents to start from, sequences of names
    Normalized,  \* normalized: the NFC form of a name
    Temporary,   \* temporary_path: a fresh name for every name
    Oversized    \* the names that validate_name_length rejects

ASSUME NormalizedAssumption ==
    /\ Normalized \in [Names -> Names]
    /\ \A name \in Names : Normalized[Normalized[name]] = Normalized[name]

(* The suffix of a temporary name ends in a new UUID, so no other name of  *)
(* the plan equals it.                                                     *)
NeedsMove(name) == name # Normalized[name]

ASSUME TemporaryAssumption ==
    /\ Temporary \in [Names -> Names]
    /\ \A names \in Listings : \A i, j \in DOMAIN names :
          NeedsMove(names[i]) =>
             /\ Temporary[names[i]] \notin {names[j], Normalized[names[j]]}
             /\ NeedsMove(names[j]) /\ i # j =>
                   Temporary[names[i]] # Temporary[names[j]]

(* A listing names every object once. *)
ASSUME ListingsAssumption ==
    /\ Listings \subseteq Seq(Names)
    /\ \A names \in Listings : \A i, j \in DOMAIN names :
          names[i] = names[j] => i = j

VARIABLES
    listing,  \* what list_objects returned
    moves     \* Seq(PlannedMove)

vars == <<moveVars, transactionVars, listing, moves>>

PlannedMoves == [source : Names, target : Names, temporary : Names]

-----------------------------------------------------------------------------
(* normalization_plan::build rejects two names with one normalized form.   *)
Collides ==
    \E i, j \in DOMAIN listing :
        i # j /\ Normalized[listing[i]] = Normalized[listing[j]]

Build ==
    /\ phase = "build"
    /\ IF Collides
       THEN phase' = "end" /\ result' = Err("Message") /\ UNCHANGED index
       ELSE phase' = "plan" /\ index' = 1 /\ UNCHANGED result
    /\ UNCHANGED <<moveVars, staged, finalized, undone, listing, moves>>

(* plan_moves: entry by entry, the names that change get a move, unless a  *)
(* name it needs is too long.                                              *)
PlannedMove(name) ==
    [source |-> name, target |-> Normalized[name], temporary |-> Temporary[name]]

PlanEntry ==
    /\ phase = "plan" /\ index \in DOMAIN listing
    /\ LET name == listing[index]
       IN  IF NeedsMove(name) /\ {Normalized[name], Temporary[name]} \cap Oversized # {}
           THEN phase' = "end" /\ result' = Err("Message") /\ UNCHANGED <<index, moves>>
           ELSE /\ moves' = IF NeedsMove(name) THEN Append(moves, PlannedMove(name)) ELSE moves
                /\ index' = index + 1
                /\ UNCHANGED <<phase, result>>
    /\ UNCHANGED <<moveVars, staged, finalized, undone, listing>>

PlanDone ==
    /\ phase = "plan" /\ index \notin DOMAIN listing
    /\ phase' = "stage" /\ index' = 1
    /\ UNCHANGED <<moveVars, staged, finalized, undone, result, listing, moves>>

(* process_moves_unlocked *)
BeginStageMove ==
    /\ phase = "stage" /\ index \in DOMAIN moves
    /\ BeginMove(moves[index].source, moves[index].temporary, 0)
    /\ UNCHANGED <<listing, moves>>

EndStageMove ==
    /\ index \in DOMAIN moves
    /\ EndStage(Change(moves[index].source, moves[index].temporary, op.tgen))
    /\ UNCHANGED <<listing, moves>>

StageDone == StagingDone(Len(moves)) /\ UNCHANGED <<listing, moves>>

BeginFinalizeMove ==
    /\ phase = "finalize" /\ index \in DOMAIN staged
    /\ BeginMove(staged[index].target, moves[index].target, staged[index].generation)
    /\ UNCHANGED <<listing, moves>>

EndFinalizeMove ==
    /\ index \in DOMAIN staged
    /\ EndFinalize(Change(staged[index].source, moves[index].target, op.tgen))
    /\ UNCHANGED <<listing, moves>>

FinalizeDone == FinalizingDone /\ UNCHANGED <<listing, moves>>

(* rollback_moves: both lists are rolled back with rollback_object. *)
RollbackOf(change) == RollbackCall(change.source, change.target, change.generation)

RollbackMoves ==
    /\ \/ BeginRollback(RollbackOf(Recorded[index]))
       \/ SkipRollback
       \/ EndRollback
       \/ RollbackStagedNext
       \/ RollbackDoneAll
    /\ UNCHANGED <<listing, moves>>

Operation == OpStep /\ UNCHANGED <<transactionVars, listing, moves>>

(* The environment acts while the workflow runs; an abandoned request may  *)
(* even be executed after it has returned.                                 *)
Disturbance ==
    /\ \/ phase # "end" /\ Meddling
       \/ Land
    /\ UNCHANGED <<transactionVars, listing, moves>>

(* The workflow has returned. *)
Terminated == phase = "end" /\ UNCHANGED vars

RunStep ==
    \/ Build \/ PlanEntry \/ PlanDone
    \/ BeginStageMove \/ EndStageMove \/ StageDone
    \/ BeginFinalizeMove \/ EndFinalizeMove \/ FinalizeDone
    \/ RollbackMoves \/ Operation

Next == RunStep \/ Disturbance \/ Terminated

Init ==
    /\ listing \in Listings
    /\ MoveInit({listing[i] : i \in DOMAIN listing})
    /\ TransactionInit
    /\ moves = <<>>

Spec == Init /\ [][Next]_vars

(* The program keeps running: every request is answered or times out. *)
FairSpec == Spec /\ WF_vars(RunStep)

-----------------------------------------------------------------------------
Listed == {listing[i] : i \in DOMAIN listing}
Restored(move) ==
    /\ HoldsData(move.source, move.source)
    /\ ~Present(move.temporary) /\ ~Present(move.target)

(* The shape of every variable. *)
TypeOK ==
    /\ MoveTypeOK /\ TransactionTypeOK
    /\ listing \in Seq(Names) /\ moves \in Seq(PlannedMoves)

(* Whatever fails and whenever it fails, during the moves or during their  *)
(* rollback, the content of every object of the listing is held by some    *)
(* live object: move_object_unlocked and rollback_object_unlocked delete a *)
(* version only after its copy is there.                                   *)
NoContentLoss ==
    \A data \in Listed : \E name \in Names : HoldsData(name, data)

(* A run that fails with a refused connection and nothing else in its      *)
(* error has left the bucket as it was.                                    *)
RefusedMeansUnchanged ==
    phase = "end" /\ result.kind = "HttpConnect" =>
        \A name \in Names :
            IF name \in Listed THEN HoldsData(name, name) ELSE ~Present(name)

(* The refinement mapping: where each content is, and what the operator is *)
(* told.  A refused connection is counted among the errors after which the *)
(* operator has to look.                                                   *)
Locations == [data \in Names |-> {name \in Names : HoldsData(name, data)}]
Told ==
    CASE phase # "end" -> "running"
      [] phase = "end" /\ IsOk(result) -> "renamed"
      [] phase = "end" /\ ~IsOk(result) ->
            IF ReportsLeftovers(result) \/ result.kind = "HttpConnect"
            THEN "look" ELSE "unchanged"

Renames == INSTANCE ObjectRenames
    WITH Renamed <- Normalized, locations <- Locations, status <- Told

(* The workflow implements ObjectRenames: every request of process_moves   *)
(* and of its rollback adds or removes one copy of one content, never the  *)
(* last one and never over another object; the workflow returns all or     *)
(* nothing unless its error tells the operator to look; and once it has    *)
(* returned nothing changes any more.                                      *)
ImplementsRenames == Renames!Spec

(* A single signal or failed request is contained: at most the move that   *)
(* was under way is left to recover.  After a single signal, moreover, the *)
(* rollback of every recorded change succeeds: rollback_changes knows the  *)
(* generation of every staged object, also of one that an interrupted      *)
(* finalization has restored.                                              *)
SingleFailureContained ==
    phase = "end" /\ ~IsOk(result) /\ faults + signals <= 1 =>
        /\ faults = 0 => undone
        /\ \A i, j \in DOMAIN moves : Restored(moves[i]) \/ Restored(moves[j]) \/ i = j

(* The run neither overwrites nor deletes a version that another writer    *)
(* has put in place and that the run has not copied, late requests         *)
(* included: every rewrite demands a missing destination and every delete  *)
(* names a generation.                                                     *)
OthersUntouched ==
    [][meddled' = meddled =>
          \A name \in Names : objects[name].gen \in others => objects'[name] = objects[name]]_vars

(* The workflow returns, however its requests fail: no step of the moves,  *)
(* of their confirmation or of the rollback waits or repeats forever.      *)
Termination == <>(phase = "end")
=============================================================================
