------------------------------ MODULE AppError ------------------------------
(***************************************************************************)
(* The errors of the program (src/error.rs) and the questions the          *)
(* workflows ask of them: may the failed request have reached Cloud        *)
(* Storage, was it an interrupt, does it carry a restored generation.      *)
(*                                                                         *)
(* An error is a record.  `kind` is the variant, split where a             *)
(* classification looks inside it: an HTTP error is "HttpConnect" when     *)
(* reqwest could not connect and "Http" when the request may have left; a  *)
(* Storage error is named for its status; a Token error says whether it    *)
(* wraps an interrupt and whether mark_storage_reached was applied to it.  *)
(* `rollback` is TRUE when the error is wrapped in AppError::Rollback      *)
(* (every accessor that looks through Rollback recurses on `original`, so  *)
(* one flag stands for any depth).  `generation` is the payload of         *)
(* InterruptedAfterMoveRollback.                                           *)
(***************************************************************************)
EXTENDS Naturals

StorageKinds == {"NotFound", "PreconditionFailed", "Unauthorized", "ServerError"}
TokenKinds == {"Token", "TokenInterrupted", "TokenReached", "TokenInterruptedReached"}
ErrorKinds == {"Ok", "Message", "Http", "HttpConnect", "StorageResponse",
               "BucketLockConflict", "Recovery", "Interrupted",
               "InterruptedAfterMoveRollback", "InterruptedAfterRequest",
               "UploadSource", "UploadSourceChanged", "Command", "Io"}
              \cup StorageKinds \cup TokenKinds

AppErrors == [kind : ErrorKinds, rollback : BOOLEAN, generation : Nat]

Err(kind) == [kind |-> kind, rollback |-> FALSE, generation |-> 0]
NoError == Err("Ok")
IsOk(error) == error.kind = "Ok"

InterruptedAfterMoveRollback(generation) ==
    [kind |-> "InterruptedAfterMoveRollback", rollback |-> FALSE,
     generation |-> generation]

(***************************************************************************)
(* AppError::rollback(original, errors): wraps only when there is          *)
(* something to add.                                                       *)
(***************************************************************************)
Rollback(original, failed) ==
    IF failed THEN [original EXCEPT !.rollback = TRUE] ELSE original

(* Mutant: takes every interrupt for one that came before the request. *)
MayHaveReachedStorageUninterrupted(error) ==
    \/ error.rollback
    \/ error.kind \notin {"HttpConnect", "Interrupted", "InterruptedAfterRequest", "Token",
                          "TokenInterrupted", "UploadSource", "Command"}

MayHaveReachedStorage(error) ==
    \/ error.rollback
    \/ error.kind \notin {"HttpConnect", "Interrupted", "Token", "TokenInterrupted",
                          "UploadSource", "Command"}

IsInterrupted(error) ==
    /\ ~error.rollback
    /\ error.kind \in {"Interrupted", "InterruptedAfterMoveRollback",
                       "InterruptedAfterRequest", "TokenInterrupted",
                       "TokenInterruptedReached"}

HasRestoredGeneration(error) == error.kind = "InterruptedAfterMoveRollback"

IsBucketLockConflict(error) == error.kind = "BucketLockConflict"

MarkStorageReached(error) ==
    IF error.rollback \/ error.kind \notin {"Token", "TokenInterrupted"} THEN error
    ELSE [error EXCEPT !.kind = IF @ = "Token" THEN "TokenReached"
                                ELSE "TokenInterruptedReached"]

MayHaveSentStorageRequest(error) ==
    error.kind \in {"Http", "StorageResponse", "InterruptedAfterRequest",
                    "TokenReached", "TokenInterruptedReached", "UploadSourceChanged"}
                  \cup StorageKinds

(* The verdicts of is_retryable_upload_failure on a small upload: whether  *)
(* an "Http" error is a replayable one is not told apart here.             *)
IsRetryableUploadFailure(error) ==
    IF error.rollback \/ error.kind \notin {"Http", "HttpConnect"} THEN {FALSE}
    ELSE IF error.kind = "HttpConnect" THEN {TRUE} ELSE BOOLEAN

(* is_retryable_resumable_failure: the session can be asked what has       *)
(* become of the request, so more failures are retried.                    *)
IsRetryableResumableFailure(error) ==
    IF error.rollback THEN {FALSE}
    ELSE CASE error.kind \in {"HttpConnect", "StorageResponse"} -> {TRUE}
           [] error.kind \in {"Http", "ServerError"} -> BOOLEAN
           [] OTHER -> {FALSE}

(***************************************************************************)
(* The error tells the operator that something may be left behind: manual  *)
(* recovery, or a rollback that did not complete.                          *)
(***************************************************************************)
ReportsLeftovers(error) == error.rollback \/ error.kind = "Recovery"
=============================================================================
