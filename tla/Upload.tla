------------------------------- MODULE Upload -------------------------------
(***************************************************************************)
(* The remote half of the upload workflow (src/upload.rs): plan one staged *)
(* object per file, upload every file to its staging name, publish every   *)
(* staged object under its target name, and roll the recorded changes back *)
(* when a step fails.  An upload (StorageApi::upload_file_with_retries,    *)
(* src/storage.rs) is a small media request with retries, between two      *)
(* checks of the local file against the fingerprint of its bytes           *)
(* (src/upload_source.rs), or a resumable upload (module ResumableUpload)  *)
(* and one such check.  The bucket locks are held throughout.              *)
(*                                                                         *)
(* Contents are named: the content of an unedited file by the object it is *)
(* to become.  Another process may edit a file or take it away             *)
(* (EditSource, RemoveSource); an edit leaves bytes that the file has not  *)
(* had before.                                                             *)
(***************************************************************************)
EXTENDS RemoteTransaction, ResumableUpload

CONSTANTS
    Discoveries,  \* the files to upload, sequences of the objects they become
    Buckets,      \* the objects there may be at the start, sets of names
    Staging,      \* staging_path: a fresh name for every name
    Oversized,    \* the names that validate_name_length rejects
    Reserved,     \* BUCKET_LOCK_OBJECT, which no operation may modify
    Large,        \* the files of RESUMABLE_UPLOAD_THRESHOLD bytes and more
    Edits,        \* the contents that edits of local files leave, in order
    MaxRemovals   \* how many local files are removed or replaced

(* The staging prefix is a new UUID, and discovery finds every file once.  *)
ASSUME StagingAssumption ==
    /\ Staging \in [Names -> Names]
    /\ Discoveries \subseteq Seq(Names)
    /\ \A files \in Discoveries : \A i, j \in DOMAIN files :
          /\ i # j => files[i] # files[j] /\ Staging[files[i]] # Staging[files[j]]
          /\ Staging[files[i]] # files[j] /\ Staging[files[i]] \notin Reserved
          /\ \A bucket \in Buckets : Staging[files[i]] \notin bucket

ASSUME UploadBoundsAssumption ==
    /\ Large \subseteq Names /\ MaxRemovals \in Nat
    /\ Edits \in Seq(Names)

(* An edit leaves bytes that no file has had before. *)
ASSUME EditsAssumption ==
    \A k \in DOMAIN Edits :
        /\ \A l \in DOMAIN Edits : l # k => Edits[l] # Edits[k]
        /\ \A found \in Discoveries : \A i \in DOMAIN found : found[i] # Edits[k]

VARIABLES
    files,      \* what discover_uploads found
    existing,   \* the objects of the bucket before the run
    uploads,    \* Seq(PlannedUpload)
    upload,     \* the upload in progress
    captured,   \* per upload, the content its fingerprint was taken from
    disk,       \* the local files: does the path open, and what is in it
    edits, removals

localVars == <<disk, edits, removals>>
plan == <<files, existing, uploads>>
vars == <<moveVars, transactionVars, plan, upload, captured, resumable, localVars>>

PlannedUploads == [staging : Names, target : Names]
UploadPcs == {"idle", "capture", "open", "send", "chunks", "verify", "failed", "confirm"}
Uploads == [pc : UploadPcs, attempt : 0..MaxAttempts, generation : Nat, error : AppErrors]
NoUpload == [pc |-> "idle", attempt |-> 0, generation |-> 0, error |-> NoError]

-----------------------------------------------------------------------------
(* plan_uploads runs before anything is changed. *)
PlannedUpload(name) == [staging |-> Staging[name], target |-> name]

PlanUploads ==
    /\ phase = "build"
    /\ IF \E i \in DOMAIN files : Staging[files[i]] \in Oversized
       THEN phase' = "end" /\ result' = Err("Message") /\ UNCHANGED <<index, uploads>>
       ELSE /\ uploads' = [i \in DOMAIN files |-> PlannedUpload(files[i])]
            /\ phase' = "stage" /\ index' = 1
            /\ UNCHANGED result
    /\ UNCHANGED <<moveVars, staged, finalized, undone, files, existing>>
    /\ UNCHANGED <<upload, captured, resumable, localVars>>

-----------------------------------------------------------------------------
(* object_move::execute_upload_with_identity and upload_file_with_retries *)

BeginUpload ==
    /\ phase = "stage" /\ index \in DOMAIN uploads
    /\ op = Idle /\ upload.pc = "idle"
    /\ IF interrupted
       THEN Abort(Err("Interrupted"), 0) /\ UNCHANGED upload
       ELSE /\ upload' = [NoUpload EXCEPT !.pc = "capture"]
            /\ UNCHANGED <<interrupted, phase, index, undone, result>>
    /\ UNCHANGED <<service, environment, op, staged, finalized, plan, captured, resumable, localVars>>

(* The upload returns to the staging loop of the transaction. *)
UploadReturns(error, generation) ==
    /\ op' = [Call("done", "move", uploads[index].staging, uploads[index].target,
                   0, generation) EXCEPT !.error = error]
    /\ upload' = NoUpload

UploadGoto(pc) == upload' = [upload EXCEPT !.pc = pc] /\ UNCHANGED op
UploadFails(error) ==
    upload' = [upload EXCEPT !.pc = "failed", !.error = error] /\ UNCHANGED op

(* The local file.  upload_source::open fails when a component of the path *)
(* is a link or is gone, and when the root, the directory or the file is   *)
(* not the entry that was discovered.                                      *)
SourceOpens(i) == disk[i].opens
Fingerprint(i) == disk[i].content
VerifyUploadFingerprint(i) == Fingerprint(i) = captured[i]
IsLarge(i) == files[i] \in Large

(* capture_upload_fingerprint: every attempt is held to these bytes. *)
CaptureFingerprint ==
    /\ upload.pc = "capture"
    /\ IF SourceOpens(index)
       THEN /\ upload' = [upload EXCEPT !.pc = "open", !.attempt = 1]
            /\ captured' = [captured EXCEPT ![index] = Fingerprint(index)]
            /\ UNCHANGED op
       ELSE UploadFails(Err("UploadSource")) /\ UNCHANGED captured
    /\ UNCHANGED <<service, environment, interrupted, transactionVars, plan, resumable, localVars>>

(* upload_file_checked opens the file again and compares it; a resumable   *)
(* upload only opens it, to compare it when all is done.                   *)
OpenSource ==
    /\ upload.pc = "open"
    /\ CASE ~SourceOpens(index) -> UploadFails(Err("UploadSource")) /\ UNCHANGED transfer
         [] SourceOpens(index) /\ IsLarge(index) -> UploadGoto("chunks") /\ BeginTransfer
         [] OTHER ->
               /\ IF VerifyUploadFingerprint(index) THEN UploadGoto("send")
                  ELSE UploadFails(Err("UploadSourceChanged"))
               /\ UNCHANGED transfer
    /\ UNCHANGED <<service, environment, interrupted, transactionVars, plan, captured>>
    /\ UNCHANGED <<session, late, doubted, localVars>>

Retry(error) ==
    /\ upload' = [upload EXCEPT !.pc = "open", !.attempt = @ + 1]
    /\ doubted' = (doubted \/ error.kind # "HttpConnect")
    /\ UNCHANGED op

(* Mutant: one attempt too many. *)
AttemptFailsOneOff(error) ==
    \E retryable \in IsRetryableUploadFailure(error) :
        IF retryable /\ upload.attempt <= MaxAttempts
        THEN Retry(error) ELSE UploadFails(error) /\ UNCHANGED doubted

(* Mutant: an answer of the service is retried as well, and not counted. *)
AttemptFailsUncounted(error) ==
    /\ IF IsInterrupted(error) THEN UploadFails(error) ELSE UploadGoto("open")
    /\ UNCHANGED doubted

(* The retry loop; the pause between two attempts ignores the flag. *)
AttemptFails(error) ==
    \E retryable \in IsRetryableUploadFailure(error) :
        IF retryable /\ upload.attempt < MaxAttempts
        THEN Retry(error) ELSE UploadFails(error) /\ UNCHANGED doubted

(* The body is read from the open file while the request is sent. *)
SendUpload ==
    /\ upload.pc = "send"
    /\ \E e \in ErrorKinds :
          /\ Send(Write(uploads[index].staging, disk[index].content), e)
          /\ IF e = "Ok"
             THEN /\ upload' = [upload EXCEPT !.pc = "verify", !.generation = nextGen]
                  /\ UNCHANGED <<op, doubted>>
             ELSE AttemptFails(Err(e))
    /\ UNCHANGED <<transactionVars, plan, captured, session, late, transfer, localVars>>

(* upload_resumable_file *)
SendResumable ==
    /\ upload.pc = "chunks" /\ transfer.pc # "done"
    /\ ResumableStep(uploads[index].staging, SourceOpens(index), disk[index].content)
    /\ UNCHANGED <<op, upload, transactionVars, plan, captured, localVars>>

(* Mutant: trusts the session, and does not compare the file again. *)
EndResumableUnverified ==
    /\ upload.pc = "chunks" /\ transfer.pc = "done"
    /\ IF IsOk(transfer.error) THEN UploadReturns(NoError, transfer.generation)
       ELSE UploadFails(transfer.error)
    /\ transfer' = NoTransfer
    /\ UNCHANGED <<service, environment, interrupted, transactionVars, plan, captured>>
    /\ UNCHANGED <<session, late, doubted, localVars>>

EndResumable ==
    /\ upload.pc = "chunks" /\ transfer.pc = "done"
    /\ IF IsOk(transfer.error)
       THEN /\ upload' = [upload EXCEPT !.pc = "verify", !.generation = transfer.generation]
            /\ UNCHANGED op
       ELSE UploadFails(transfer.error)
    /\ transfer' = NoTransfer
    /\ UNCHANGED <<service, environment, interrupted, transactionVars, plan, captured>>
    /\ UNCHANGED <<session, late, doubted, localVars>>

(* Mutant: trusts the comparison made before the request. *)
VerifySentSkipped ==
    /\ upload.pc = "verify"
    /\ UploadReturns(NoError, upload.generation)
    /\ UNCHANGED <<service, environment, interrupted, transactionVars, plan, captured, resumable, localVars>>

(* The descriptor stays open, so it does not matter whether the path does. *)
VerifySent ==
    /\ upload.pc = "verify"
    /\ IF VerifyUploadFingerprint(index)
       THEN UploadReturns(NoError, upload.generation)
       ELSE UploadFails(Err("UploadSourceChanged"))
    /\ UNCHANGED <<service, environment, interrupted, transactionVars, plan, captured, resumable, localVars>>

(* confirmed_failure and confirm_write_after_failure *)
ConfirmedUploadFailure ==
    /\ upload.pc = "failed"
    /\ interrupted' = (interrupted /\ ~IsInterrupted(upload.error))
    /\ IF MayHaveReachedStorage(upload.error)
       THEN UploadGoto("confirm") ELSE UploadReturns(upload.error, 0)
    /\ UNCHANGED <<service, environment, transactionVars, plan, captured, resumable, localVars>>

ConfirmWrite ==
    /\ upload.pc = "confirm"
    /\ \E e \in ErrorKinds :
          /\ Send(Get(uploads[index].staging, 0), e)
          /\ LET noChange == Seen(e) = "missing"
             IN  UploadReturns(IF noChange /\ ~MayHaveSentStorageRequest(upload.error)
                               THEN upload.error ELSE Err("Recovery"), 0)
    /\ UNCHANGED <<transactionVars, plan, captured, resumable, localVars>>

UploadStep ==
    \/ BeginUpload \/ CaptureFingerprint \/ OpenSource
    \/ SendUpload \/ SendResumable \/ EndResumable \/ VerifySent
    \/ ConfirmedUploadFailure \/ ConfirmWrite

-----------------------------------------------------------------------------
(* upload_planned_files_unlocked *)
EndUpload ==
    /\ index \in DOMAIN uploads
    /\ EndStage(Change(uploads[index].staging, uploads[index].target, op.tgen))

(* with_object_locks rejects the reserved name before the first request,   *)
(* for every caller; discover_uploads never passes it such a file.         *)
RejectBucketLockObject(change) ==
    /\ change.target \in Reserved /\ op = Idle /\ ~interrupted
    /\ op' = [MoveCall(change.source, change.target, change.generation)
                 EXCEPT !.pc = "failed", !.error = Err("Message")]
    /\ UNCHANGED <<service, environment, interrupted, transactionVars>>

BeginPublish ==
    /\ phase = "finalize" /\ index \in DOMAIN staged
    /\ LET change == staged[index]
       IN  \/ RejectBucketLockObject(change)
           \/ /\ change.target \notin Reserved \/ interrupted
              /\ BeginMove(change.source, change.target, change.generation)

EndPublish ==
    /\ index \in DOMAIN staged
    /\ EndFinalize(Change(staged[index].source, staged[index].target, op.tgen))

(* rollback_remote: a published object is moved back to its staging name   *)
(* and removed there; one that was only staged is removed.                 *)
RollbackOf(change) ==
    IF phase = "rollbackFinalized"
    THEN RollbackCall(change.source, change.target, change.generation)
    ELSE CleanupCall(change.source, change.generation)

MovedBack == RollingBack /\ op.pc = "done" /\ op.caller = "transaction" /\ IsOk(op.error)

(* Mutant: forgets to remove what was moved back. *)
CleanupRestoredSkipped ==
    /\ MovedBack
    /\ op' = Idle /\ index' = index - 1
    /\ UNCHANGED <<service, environment, interrupted, phase, staged, finalized, undone, result>>

CleanupRestored ==
    /\ MovedBack
    /\ op' = CleanupCall(op.source, op.sgen)
    /\ UNCHANGED <<service, environment, interrupted, transactionVars>>

RollbackRemote ==
    \/ BeginRollback(RollbackOf(Recorded[index]))
    \/ CleanupRestored
    \/ ~MovedBack /\ EndRollback
    \/ SkipRollback
    \/ RollbackStagedNext
    \/ RollbackDoneAll

TransactionStep ==
    /\ \/ EndUpload
       \/ StagingDone(Len(uploads))
       \/ BeginPublish \/ EndPublish \/ FinalizingDone
       \/ RollbackRemote
       \/ OpStep /\ UNCHANGED transactionVars
    /\ UNCHANGED <<plan, upload, captured, resumable, localVars>>

-----------------------------------------------------------------------------
(* The environment. *)

EditSource ==
    /\ edits < Len(Edits)
    /\ \E i \in DOMAIN disk : disk' = [disk EXCEPT ![i].content = Edits[edits + 1]]
    /\ edits' = edits + 1
    /\ UNCHANGED <<moveVars, removals>>

RemoveSource ==
    /\ removals < MaxRemovals
    /\ \E i \in DOMAIN disk : disk' = [disk EXCEPT ![i].opens = FALSE]
    /\ removals' = removals + 1
    /\ UNCHANGED <<moveVars, edits>>

Disturbance ==
    /\ \/ /\ \/ phase # "end" /\ Meddling
             \/ Land
          /\ UNCHANGED <<resumable, localVars>>
       \/ phase = "stage" /\ (EditSource \/ RemoveSource) /\ UNCHANGED resumable
       \/ /\ \/ LandChunk
             \/ upload.pc = "chunks" /\ ForgetUnits
          /\ UNCHANGED <<op, localVars>>
    /\ UNCHANGED <<transactionVars, plan, upload, captured>>

Terminated == phase = "end" /\ UNCHANGED vars

RunStep == PlanUploads \/ UploadStep \/ TransactionStep

Next == RunStep \/ Disturbance \/ Terminated

Init ==
    /\ files \in Discoveries /\ existing \in Buckets
    /\ MoveInit(existing)
    /\ TransactionInit /\ ResumableInit
    /\ uploads = <<>> /\ upload = NoUpload
    /\ captured = files
    /\ disk = [i \in DOMAIN files |-> [opens |-> TRUE, content |-> files[i]]]
    /\ edits = 0 /\ removals = 0

Spec == Init /\ [][Next]_vars

(* The program keeps running: every request is answered or times out. *)
FairSpec == Spec /\ WF_vars(RunStep)

-----------------------------------------------------------------------------
Targets == {uploads[i].target : i \in DOMAIN uploads}
AsBefore(name) ==
    IF name \in existing THEN HoldsData(name, name) ELSE ~Present(name)
Disturbances == faults + signals + edits + removals

(* The shape of every variable. *)
TypeOK ==
    /\ MoveTypeOK /\ TransactionTypeOK /\ ResumableTypeOK
    /\ files \in Discoveries /\ existing \in Buckets
    /\ uploads \in Seq(PlannedUploads) /\ upload \in Uploads
    /\ captured \in [DOMAIN files -> Names]
    /\ disk \in [DOMAIN files -> [opens : BOOLEAN, content : Names]]
    /\ edits \in 0..Len(Edits) /\ removals \in 0..MaxRemovals

(* A run that reports success has published every file, and with the bytes *)
(* its fingerprint was taken from, whatever happened to the file between   *)
(* discovery, the attempts, the chunks and the end of the upload, and      *)
(* although an earlier attempt or chunk may be executed late               *)
(* (upload_file_with_retries, verify_upload_fingerprint).  Another writer  *)
(* may of course replace what was published.                               *)
PublishedAsValidated ==
    phase = "end" /\ IsOk(result) /\ meddled = 0 =>
        \A i \in DOMAIN files : HoldsData(files[i], captured[i])

(* A plain error, one that does not tell the operator to look, means that  *)
(* the bucket is as it was.                                                *)
UnchangedUnlessReported ==
    phase = "end" /\ ~IsOk(result) /\ ~ReportsLeftovers(result) =>
        \A name \in Names : AsBefore(name)

(* upload_planned_files returns all or nothing unless its error tells the  *)
(* operator to look: success adds the published objects and nothing else,  *)
(* and a plain error means that the bucket is as it was.  After an answer  *)
(* in doubt that was followed by another attempt or query, this holds as   *)
(* long as nothing else goes wrong; a refused connection is left to the    *)
(* run that shows what it may hide.                                        *)
AllOrNothing ==
    /\ phase = "end" /\ IsOk(result) =>
          \A name \in Names : AsBefore(name) \/ (name \in Targets /\ name \notin existing)
    /\ result.kind # "HttpConnect" /\ (doubted => Disturbances <= 1) =>
          UnchangedUnlessReported

(* The run neither overwrites nor deletes a version that another writer    *)
(* has put in place, under a staging name, under a target name or          *)
(* anywhere else, unless it was taken for the staged object and copied:    *)
(* every write demands a missing object and every delete names a           *)
(* generation (upload_file_checked, rollback_remote).                      *)
OthersUntouched ==
    [][meddled' = meddled =>
          \A name \in Names : objects[name].gen \in others => objects'[name] = objects[name]]_vars

(* The workflow returns: the attempts are counted, and neither a lost file *)
(* nor a refused rollback is tried forever.                                *)
Termination == <>(phase = "end")
=============================================================================
