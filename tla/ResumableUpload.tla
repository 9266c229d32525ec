--------------------------- MODULE ResumableUpload ---------------------------
(***************************************************************************)
(* The upload of a large file in chunks (StorageApi::                      *)
(* upload_resumable_locked and what it calls, src/storage.rs, and          *)
(* send_resumable, src/storage_transport.rs): start a session, send chunk  *)
(* after chunk, ask the session for its offset whenever an answer is in    *)
(* doubt, go on from there, and cancel the session when the upload fails.  *)
(*                                                                         *)
(* A file has Size units and a chunk at most ChunkSize of them.  `session` *)
(* is the service's side: how much it has kept, and of which content; that *)
(* is Mixed when it is put together from chunks of different versions of   *)
(* the file.  `late` is a chunk that was given up and may still arrive.    *)
(* `transfer` is the client's side; its owner takes over when it is done.  *)
(***************************************************************************)
EXTENDS RemoteMoves

CONSTANTS
    Size,         \* units of a large file
    ChunkSize,    \* RESUMABLE_CHUNK_SIZE
    MaxAttempts,  \* UPLOAD_ATTEMPTS
    Mixed         \* the content of a file that changed between two chunks

ASSUME ResumableAssumption ==
    /\ Size \in Nat \ {0} /\ ChunkSize \in Nat \ {0} /\ MaxAttempts \in Nat \ {0}
    /\ Mixed \in Names

VARIABLES
    session,   \* the resumable session at the service
    late,      \* a chunk that the service may still execute
    transfer,  \* upload_resumable_locked
    doubted    \* history: an answer in doubt was followed by another request

resumable == <<session, late, transfer, doubted>>

NoChunk == [first |-> 0, data |-> "none"]
NoSession == [state |-> "none", target |-> "none", committed |-> 0, data |-> "none",
              generation |-> 0]
NoTransfer == [pc |-> "idle", attempt |-> 0, offset |-> 0, generation |-> 0,
               error |-> NoError]

Contents == Names \cup {"none"}
Sessions == [state : {"none", "open", "complete", "cancelled"}, target : Contents,
             committed : 0..Size, data : Contents, generation : Nat]
Chunks == [first : 0..Size, data : Contents]
TransferPcs == {"idle", "token", "start", "restart", "chunk", "refresh", "query", "requery",
                "finalQuery", "finalRefresh", "cancel", "delete", "done"}
Transfers == [pc : TransferPcs, attempt : 0..MaxAttempts, offset : 0..Size,
              generation : Nat, error : AppErrors]

Lesser(a, b) == IF a < b THEN a ELSE b
ChunkEnd(first) == Lesser(first + ChunkSize, Size)

-----------------------------------------------------------------------------
(* The service. *)

(* A chunk that starts beyond what is kept is not kept; of one that does   *)
(* not, any part may be.                                                   *)
Kept(first) ==
    IF first > session.committed \/ ChunkEnd(first) <= session.committed
    THEN {session.committed} ELSE session.committed..ChunkEnd(first)

Blend(committed, data) ==
    IF committed = session.committed THEN session.data
    ELSE IF session.committed = 0 \/ session.data = data THEN data ELSE Mixed

(* All units are there: the object appears unless the name is taken. *)
Complete(kept) ==
    IF Present(kept.target)
    THEN session' = kept /\ UNCHANGED service
    ELSE /\ session' = [kept EXCEPT !.state = "complete", !.generation = nextGen]
         /\ objects' = [objects EXCEPT ![kept.target] =
                            [gen |-> nextGen, data |-> kept.data]]
         /\ nextGen' = nextGen + 1 /\ UNCHANGED others

(* The service may complete the object with the last unit, or when it is   *)
(* asked for the offset.                                                   *)
ProcessChunk(first, data) ==
    IF session.state # "open" THEN UNCHANGED <<session, service>>
    ELSE \E committed \in Kept(first) :
            LET kept == [session EXCEPT !.committed = committed, !.data = Blend(committed, data)]
            IN  \/ session' = kept /\ UNCHANGED service
                \/ committed = Size /\ Complete(kept)

ProcessQuery ==
    \/ UNCHANGED <<session, service>>
    \/ session.state = "open" /\ session.committed = Size /\ Complete(session)

(* The object of a complete session stays. *)
ProcessCancel ==
    /\ session' = IF session.state = "open" THEN [session EXCEPT !.state = "cancelled"]
                  ELSE session
    /\ UNCHANGED <<service, late>>

(* 412 for a full session whose object cannot be created. *)
Answer ==
    IF /\ session'.state = "open" /\ session'.committed = Size
       /\ Present(session.target)
    THEN "PreconditionFailed" ELSE "Ok"

(* A session that has kept nothing answers without a range, which          *)
(* parse_resumable_progress accepts for a query only.                      *)
RangeOmitted == session'.state = "open" /\ session'.committed = 0

-----------------------------------------------------------------------------
(* send_resumable: the token is at hand, and may have expired (401). *)

Faulty(kind) == kind \in FaultKinds /\ faults < MaxFaults /\ faults' = faults + 1

NotExecuted(e) ==
    /\ \/ interrupted /\ e = "Interrupted" /\ UNCHANGED faults
       \/ ~interrupted /\ e = "HttpConnect" /\ Faulty("HttpConnect")
       \/ ~interrupted /\ e = "Unauthorized" /\ Faulty("Token")
    /\ UNCHANGED <<service, session, late, wire, signals, meddled, interrupted>>

AnswerLost(e) ==
    /\ ~interrupted
    /\ \/ /\ \/ e \in {"Http", "StorageResponse"} /\ Faulty(e)
             \/ e = "ServerError" /\ Faulty("Http")
          /\ UNCHANGED <<signals, interrupted>>
       \/ /\ e = "InterruptedAfterRequest" /\ signals < MaxSignals
          /\ signals' = signals + 1 /\ interrupted' = TRUE /\ UNCHANGED faults
    /\ UNCHANGED <<wire, meddled>>

Untouched == UNCHANGED <<service, session, late>>
Calm == ~interrupted /\ UNCHANGED <<environment, interrupted>>

SendStart(target, e) ==
    \/ NotExecuted(e)
    \/ AnswerLost(e) /\ Untouched
    \/ /\ Calm /\ e = "Ok"
       /\ session' = [NoSession EXCEPT !.state = "open", !.target = target]
       /\ late' = NoChunk
       /\ UNCHANGED service
    \/ Calm /\ Untouched /\ Present(target) /\ e = "PreconditionFailed"

SendChunk(data, e) ==
    \/ NotExecuted(e)
    \/ /\ AnswerLost(e)
       /\ \/ ProcessChunk(transfer.offset, data) /\ UNCHANGED late
          \/ e # "StorageResponse" /\ Untouched
          \/ /\ LateDelivery /\ e # "StorageResponse"
             /\ late' = [first |-> transfer.offset, data |-> data]
             /\ UNCHANGED <<service, session>>
    \/ /\ Calm /\ ProcessChunk(transfer.offset, data) /\ UNCHANGED late
       /\ e = IF RangeOmitted THEN "StorageResponse" ELSE Answer

SendQuery(e) ==
    \/ NotExecuted(e)
    \/ AnswerLost(e) /\ ProcessQuery /\ UNCHANGED late
    \/ Calm /\ ProcessQuery /\ UNCHANGED late /\ e = Answer

(* With which status a session is cancelled, and whether a complete one    *)
(* can be, is up to the service.                                           *)
SendCancel(e) ==
    \/ NotExecuted(e)
    \/ AnswerLost(e) /\ (ProcessCancel \/ Untouched)
    \/ Calm /\ ProcessCancel /\ e \in {"Ok", "NotFound"}

(* StorageTransport::token *)
FetchToken(e) ==
    /\ \/ e = "Ok" /\ UNCHANGED faults
       \/ interrupted /\ e = "TokenInterrupted" /\ UNCHANGED faults
       \/ e = "Token" /\ Faulty("Token")
    /\ UNCHANGED <<service, session, late, wire, signals, meddled, interrupted>>

-----------------------------------------------------------------------------
(* The client. *)

TransferGoto(pc) == transfer' = [transfer EXCEPT !.pc = pc]
Finished(error) == transfer' = [transfer EXCEPT !.pc = "done", !.error = error]
Cancel(error) == transfer' = [transfer EXCEPT !.pc = "cancel", !.error = error]
NextAttempt(pc) == transfer' = [transfer EXCEPT !.pc = pc, !.attempt = @ + 1]
Completed == transfer' = [transfer EXCEPT !.pc = "done", !.generation = session'.generation]

Retryable(e) == \E verdict \in IsRetryableResumableFailure(Err(e)) : verdict
MayGiveUp(e) == \E verdict \in IsRetryableResumableFailure(Err(e)) : ~verdict

BeginTransfer == transfer' = [NoTransfer EXCEPT !.pc = "token"]

FirstToken ==
    /\ transfer.pc = "token"
    /\ \E e \in TokenKinds \cup {"Ok"} :
          /\ FetchToken(e)
          /\ IF e = "Ok" THEN transfer' = [transfer EXCEPT !.pc = "start", !.attempt = 1]
             ELSE Finished(Err(e))
    /\ UNCHANGED doubted

(* start_resumable_session.  A session whose URL was lost is abandoned. *)
StartResumableSession(target) ==
    /\ transfer.pc = "start"
    /\ \E e \in ErrorKinds :
          /\ SendStart(target, e)
          /\ \/ e = "Ok" /\ transfer' = [transfer EXCEPT !.pc = "chunk", !.attempt = 1]
             \/ e = "Unauthorized" /\ transfer.attempt < MaxAttempts /\ TransferGoto("restart")
             \/ /\ e # "StorageResponse" /\ Retryable(e) /\ transfer.attempt < MaxAttempts
                /\ NextAttempt("start")
             \/ /\ e # "Ok"
                /\ \/ transfer.attempt = MaxAttempts \/ e = "StorageResponse"
                   \/ e # "Unauthorized" /\ MayGiveUp(e)
                /\ Finished(Err(e))
    /\ UNCHANGED doubted

RestartToken ==
    /\ transfer.pc = "restart"
    /\ \E e \in TokenKinds \cup {"Ok"} :
          FetchToken(e) /\ IF e = "Ok" THEN NextAttempt("start") ELSE Finished(Err(e))
    /\ UNCHANGED doubted

(* What upload_resumable_locked makes of the offset it is given. *)
Advance(next) ==
    IF next = transfer.offset \/ next > ChunkEnd(transfer.offset)
    THEN Cancel(Err("StorageResponse"))
    ELSE transfer' = [transfer EXCEPT !.offset = next, !.attempt = 1,
                                      !.pc = IF next = Size THEN "finalQuery" ELSE "chunk"]

(* upload_resumable_chunk: an answer, and a failure that is retried.       *)
ChunkAnswered ==
    IF session'.state = "complete" THEN Completed
    ELSE IF session'.committed = transfer.offset /\ transfer.attempt < MaxAttempts
    THEN NextAttempt("chunk") ELSE Advance(session'.committed)

(* The bytes of a chunk are read from the path as it is now. *)
UploadResumableChunk(opens, data) ==
    /\ transfer.pc = "chunk"
    /\ IF ~opens
       THEN /\ Cancel(Err("UploadSource"))
            /\ UNCHANGED <<service, session, late, environment, interrupted, doubted>>
       ELSE \E e \in ErrorKinds :
               /\ SendChunk(data, e)
               /\ \/ e = "Ok" /\ ChunkAnswered
                  \/ /\ e = "Unauthorized" /\ transfer.attempt < MaxAttempts
                     /\ TransferGoto("refresh")
                  \/ Retryable(e) /\ transfer.attempt < MaxAttempts /\ TransferGoto("query")
                  \/ /\ e # "Ok"
                     /\ \/ transfer.attempt = MaxAttempts
                        \/ e # "Unauthorized" /\ MayGiveUp(e)
                     /\ Cancel(Err(e))
               /\ doubted' = (doubted \/ (/\ transfer'.pc = "query"
                                          /\ e # "HttpConnect" /\ faults' # faults))

(* The token is refreshed before the session is asked. *)
RefreshToken ==
    /\ transfer.pc = "refresh"
    /\ \E e \in TokenKinds \cup {"Ok"} :
          FetchToken(e) /\ IF e = "Ok" THEN TransferGoto("query") ELSE Cancel(Err(e))
    /\ UNCHANGED doubted

(* query_resumable_progress after a failed chunk *)
QueryResumableProgress ==
    /\ transfer.pc = "query"
    /\ \E e \in ErrorKinds :
          /\ SendQuery(e)
          /\ \/ /\ e = "Ok"
                /\ IF session'.state = "complete" THEN Completed
                   ELSE IF session'.committed = transfer.offset THEN NextAttempt("chunk")
                   ELSE Advance(session'.committed)
             \/ e = "Unauthorized" /\ TransferGoto("requery")
             \/ Retryable(e) /\ NextAttempt("chunk")
             \/ e \notin {"Ok", "Unauthorized"} /\ MayGiveUp(e) /\ Cancel(Err(e))
    /\ UNCHANGED doubted

(* The query has refreshed the token, and the retry does so again: two     *)
(* fetches of which either may fail, with one outcome.                     *)
RequeryToken ==
    /\ transfer.pc = "requery"
    /\ \E e \in TokenKinds \cup {"Ok"} :
          FetchToken(e) /\ IF e = "Ok" THEN NextAttempt("chunk") ELSE Cancel(Err(e))
    /\ UNCHANGED doubted

(* All bytes are acknowledged, but not the object. *)
FinalQuery ==
    /\ transfer.pc = "finalQuery"
    /\ \E e \in ErrorKinds :
          /\ SendQuery(e)
          /\ CASE e = "Ok" /\ session'.state = "complete" -> Completed
               [] e = "Ok" /\ session'.state # "complete" -> Cancel(Err("StorageResponse"))
               [] e = "Unauthorized" -> TransferGoto("finalRefresh")
               [] OTHER -> Cancel(Err(e))
    /\ UNCHANGED doubted

FinalRefresh ==
    /\ transfer.pc = "finalRefresh"
    /\ \E e \in TokenKinds \cup {"Ok"} :
          FetchToken(e) /\ Cancel(Err(IF e = "Ok" THEN "Unauthorized" ELSE e))
    /\ UNCHANGED doubted

(* cancel_resumable_session clears the flag, then sends one request. *)
ClearInterruptForCancel ==
    /\ transfer.pc = "cancel"
    /\ interrupted' = FALSE
    /\ TransferGoto("delete")
    /\ UNCHANGED <<service, environment, session, late, doubted>>

CancelResumableSession ==
    /\ transfer.pc = "delete"
    /\ \E e \in ErrorKinds :
          SendCancel(e) /\ Finished(Rollback(transfer.error, e # "Ok"))
    /\ UNCHANGED doubted

ResumableStep(target, opens, data) ==
    \/ FirstToken \/ StartResumableSession(target) \/ RestartToken
    \/ UploadResumableChunk(opens, data) \/ RefreshToken
    \/ QueryResumableProgress \/ RequeryToken
    \/ FinalQuery \/ FinalRefresh
    \/ ClearInterruptForCancel \/ CancelResumableSession

-----------------------------------------------------------------------------
(* The environment: a chunk that was given up arrives after all, or the    *)
(* session turns out to have kept less than it had acknowledged.           *)

LandChunk ==
    /\ late # NoChunk
    /\ ProcessChunk(late.first, late.data)
    /\ late' = NoChunk
    /\ UNCHANGED <<environment, interrupted, transfer, doubted>>

ForgetUnits ==
    /\ session.state = "open" /\ session.committed > 0
    /\ Faulty("Http")
    /\ \E committed \in 0..(session.committed - 1) :
          session' = [session EXCEPT !.committed = committed]
    /\ UNCHANGED <<service, late, wire, signals, meddled, interrupted, transfer, doubted>>

ResumableInit ==
    session = NoSession /\ late = NoChunk /\ transfer = NoTransfer /\ doubted = FALSE

ResumableTypeOK ==
    session \in Sessions /\ late \in Chunks /\ transfer \in Transfers /\ doubted \in BOOLEAN
=============================================================================
