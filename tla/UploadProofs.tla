---------------------------- MODULE UploadProofs ----------------------------
(***************************************************************************)
(* The remote half of the upload workflow, for every set of files, every   *)
(* chunk size, any number of attempts, faults, signals, edits and other    *)
(* writers: its variables keep their shape, what other writers put in      *)
(* place is left alone, and a run that succeeds has published the bytes    *)
(* that it validated.  Without other writers and late requests, a run      *)
(* publishes everything or nothing unless its error tells to look.         *)
(***************************************************************************)
EXTENDS Upload, RemoteTransactionProofs

-----------------------------------------------------------------------------
(* The resumable session.  The object of a complete session is the run's. *)
SessionInv ==
    /\ session \in Sessions /\ late \in Chunks
    /\ session.state = "complete" => Mine(session.generation)

(* The service before and after a request: what a step of the client       *)
(* relies on and what it has to leave.                                     *)
ServiceInv == ServiceTypeOK /\ GenerationsInv /\ WireOwned
ServiceStep == ServiceInv' /\ OthersKept /\ OwnKept /\ meddled' = meddled

(* Only the service may touch objects, only the environment the rest. *)
ObjectsStep ==
    /\ objects' \in [Names -> Versions] /\ nextGen' \in Nat \ {0} /\ others' \subseteq Nat
    /\ session' \in Sessions
    /\ session'.state = "complete" => Mine(session.generation)'
    /\ GenerationsInv' /\ OthersKept /\ OwnKept

(* Leaving the service and the session alone. *)
LEMMA UntouchedStep ==
    ASSUME ServiceInv, SessionInv, UNCHANGED <<service, session>>
    PROVE  ObjectsStep
<1>1. GenerationsInv' /\ OthersKept /\ OwnKept
  BY QuietOwned DEF ServiceInv
<1> QED BY <1>1 DEF ServiceInv, ServiceTypeOK, SessionInv, ObjectsStep, service, Mine

(* Complete: the object appears under a new generation. *)
LEMMA CompleteStep ==
    ASSUME ServiceInv, SessionInv, NEW kept \in Sessions, kept.state = "open", Complete(kept)
    PROVE  ObjectsStep
<1>0. /\ objects \in [Names -> Versions] /\ nextGen \in Nat \ {0} /\ others \subseteq Nat
      /\ GenerationsInv /\ \A name \in Names : objects[name].gen \in Nat
  BY DEF ServiceInv, ServiceTypeOK, Versions
<1>1. CASE Present(kept.target)
  <2>1. session' = kept /\ UNCHANGED service
    BY <1>1 DEF Complete
  <2>2. GenerationsInv' /\ OthersKept /\ OwnKept
    BY <1>0, <2>1, QuietOwned
  <2> QED BY <1>0, <2>1, <2>2 DEF ObjectsStep, service
<1>2. CASE ~Present(kept.target)
  <2>1. /\ session' = [kept EXCEPT !.state = "complete", !.generation = nextGen]
        /\ objects' = [objects EXCEPT ![kept.target] = [gen |-> nextGen, data |-> kept.data]]
        /\ nextGen' = nextGen + 1 /\ others' = others
    BY <1>2 DEF Complete
  <2>2. objects[kept.target].gen = 0
    BY <1>2 DEF Present
  <2>3. [gen |-> nextGen, data |-> kept.data] \in Versions
    BY <1>0 DEF Versions, Sessions, Contents
  <2>4. objects' \in [Names -> Versions] /\ nextGen' \in Nat \ {0} /\ others' \subseteq Nat
    <3>1. \A name \in Names : objects'[name] \in Versions
      BY <1>0, <2>1, <2>3
    <3>2. objects' = [name \in Names |-> objects'[name]]
      BY <1>0, <2>1
    <3>3. objects' \in [Names -> Versions]
      BY <3>1, <3>2
    <3> QED BY <1>0, <2>1, <3>3
  <2>5. session' \in Sessions /\ session'.generation = nextGen
    BY <1>0, <2>1 DEF Sessions
  <2>6. GenerationsInv'
    BY <1>0, <2>1 DEF GenerationsInv
  <2>7. OthersKept
    BY <1>0, <2>1, <2>2 DEF OthersKept, GenerationsInv
  <2>8. OwnKept /\ \A g : g = nextGen => Mine(g)'
    BY <1>0, <2>1 DEF OwnKept, Mine, GenerationsInv
  <2>9. Mine(session.generation)'
    BY <2>5, <2>8 DEF Mine
  <2> QED BY <2>4, <2>5, <2>6, <2>7, <2>8, <2>9 DEF ObjectsStep
<1> QED BY <1>1, <1>2

(* ProcessChunk keeps any part of the chunk, and may complete the object. *)
LEMMA ProcessChunkStep ==
    ASSUME ServiceInv, SessionInv, NEW first \in 0..Size, NEW data \in Contents,
           ProcessChunk(first, data)
    PROVE  ObjectsStep
<1>0. session \in Sessions /\ session.committed \in 0..Size /\ session.data \in Contents
  BY DEF SessionInv, Sessions
<1>1. CASE session.state # "open"
  BY <1>1, UntouchedStep DEF ProcessChunk
<1>2. CASE session.state = "open"
  <2> DEFINE keptOf(c) == [session EXCEPT !.committed = c, !.data = Blend(c, data)]
  <2>1. PICK committed \in Kept(first) :
           \/ session' = keptOf(committed) /\ UNCHANGED service
           \/ committed = Size /\ Complete(keptOf(committed))
    BY <1>2 DEF ProcessChunk
  <2>2. committed \in 0..Size
    BY <1>0, <2>1, ResumableAssumption DEF Kept, ChunkEnd, Lesser
  <2>3. Blend(committed, data) \in Contents
    BY <1>0, ResumableAssumption DEF Blend, Contents
  <2>4. keptOf(committed) \in Sessions /\ keptOf(committed).state = "open"
    BY <1>0, <1>2, <2>2, <2>3 DEF Sessions
  <2>5. CASE session' = keptOf(committed) /\ UNCHANGED service
    <3>1. GenerationsInv' /\ OthersKept /\ OwnKept
      BY <2>5, QuietOwned DEF ServiceInv
    <3> QED BY <2>4, <2>5, <3>1 DEF ServiceInv, ServiceTypeOK, ObjectsStep, service
  <2>6. CASE Complete(keptOf(committed))
    BY <2>4, <2>6, CompleteStep
  <2> QED BY <2>1, <2>5, <2>6
<1> QED BY <1>1, <1>2

(* ProcessQuery may complete the object. *)
LEMMA ProcessQueryStep ==
    ASSUME ServiceInv, SessionInv, ProcessQuery
    PROVE  ObjectsStep
BY UntouchedStep, CompleteStep DEF ProcessQuery, SessionInv

(* ProcessCancel leaves the object of a complete session. *)
LEMMA ProcessCancelStep ==
    ASSUME ServiceInv, SessionInv, ProcessCancel
    PROVE  ObjectsStep
<1>1. CASE session' = session
  BY <1>1, UntouchedStep DEF ProcessCancel
<1>2. CASE session' = [session EXCEPT !.state = "cancelled"]
  <2>1. session' \in Sessions /\ session'.state # "complete"
    BY <1>2 DEF SessionInv, Sessions
  <2>2. GenerationsInv' /\ OthersKept /\ OwnKept
    BY QuietOwned DEF ServiceInv, ProcessCancel
  <2> QED BY <2>1, <2>2 DEF ServiceInv, ServiceTypeOK, ObjectsStep, ProcessCancel, service
<1> QED BY <1>1, <1>2 DEF ProcessCancel

(* How the environment may act in a request of send_resumable. *)
EnvironmentStep ==
    /\ faults' \in 0..MaxFaults /\ signals' \in 0..MaxSignals /\ interrupted' \in BOOLEAN
    /\ UNCHANGED <<wire, meddled>>

(* Both together are a step of a request. *)
LEMMA RequestStep ==
    ASSUME ServiceInv, ObjectsStep, EnvironmentStep
    PROVE  ServiceStep
<1>1. wire' = wire /\ wire \subseteq Requests /\ OwnKept /\ WireOwned /\ ServiceTypeOK
  BY DEF ServiceInv, ServiceTypeOK, ObjectsStep, EnvironmentStep
<1>2. WireOwned'
  BY <1>1, WireKept
<1>3. ServiceTypeOK'
  BY DEF ServiceInv, ServiceTypeOK, ObjectsStep, EnvironmentStep
<1> QED BY <1>2, <1>3 DEF ServiceInv, ServiceStep, ObjectsStep, EnvironmentStep

(* The environment in a request that is not executed, whose answer is      *)
(* lost, and in a calm one.                                                *)
LEMMA SendEnvironment ==
    ASSUME ServiceInv, NEW e,
           \/ NotExecuted(e) \/ AnswerLost(e)
           \/ Calm /\ e \in {"Ok", "StorageResponse"} \cup StorageKinds
    PROVE  EnvironmentStep /\ e # "InterruptedAfterMoveRollback"
<1>0. ServiceTypeOK
  BY DEF ServiceInv
<1>1. CASE NotExecuted(e)
  BY <1>0, <1>1, BoundsAssumption DEF NotExecuted, Faulty, ServiceTypeOK, EnvironmentStep
<1>2. CASE AnswerLost(e)
  <2>1. e # "InterruptedAfterMoveRollback" /\ UNCHANGED <<wire, meddled>>
    BY <1>2 DEF AnswerLost
  <2>2. \/ faults < MaxFaults /\ faults' = faults + 1 /\ UNCHANGED <<signals, interrupted>>
        \/ /\ signals < MaxSignals /\ signals' = signals + 1
           /\ interrupted' = TRUE /\ faults' = faults
    BY <1>2 DEF AnswerLost, Faulty
  <2>3. /\ faults \in 0..MaxFaults /\ signals \in 0..MaxSignals
        /\ interrupted \in BOOLEAN
    BY <1>0 DEF ServiceTypeOK
  <2>4. faults' \in 0..MaxFaults /\ signals' \in 0..MaxSignals
    BY <2>2, <2>3, BoundsAssumption
  <2>5. interrupted' \in BOOLEAN
    BY <2>2, <2>3
  <2> QED BY <2>1, <2>4, <2>5 DEF EnvironmentStep
<1>3. CASE Calm /\ e \in {"Ok", "StorageResponse"} \cup StorageKinds
  BY <1>0, <1>3 DEF Calm, ServiceTypeOK, EnvironmentStep, environment, StorageKinds
<1> QED BY <1>1, <1>2, <1>3

(* A request of a resumable upload. *)
LEMMA SendResumableStep ==
    ASSUME ServiceInv, SessionInv, NEW e, transfer.offset \in 0..Size,
           \/ \E target \in Names : SendStart(target, e)
           \/ \E data \in Names : SendChunk(data, e)
           \/ SendQuery(e) \/ SendCancel(e)
    PROVE  ServiceStep /\ SessionInv' /\ e # "InterruptedAfterMoveRollback"
<1>1. ObjectsStep /\ late' \in Chunks
  <2>1. CASE NotExecuted(e)
    BY <2>1, UntouchedStep DEF NotExecuted, SessionInv
  <2>2. ASSUME NEW target \in Names, SendStart(target, e) PROVE ObjectsStep /\ late' \in Chunks
    <3>1. CASE Untouched
      BY <3>1, UntouchedStep DEF Untouched, SessionInv
    <3>2. CASE /\ session' = [NoSession EXCEPT !.state = "open", !.target = target]
               /\ late' = NoChunk /\ UNCHANGED service
      <4>1. session' \in Sessions /\ session'.state # "complete" /\ late' \in Chunks
        <5>1. 0 \in 0..Size /\ "none" \in Contents /\ target \in Contents
          BY ResumableAssumption DEF Contents
        <5>2. session' = [state |-> "open", target |-> target, committed |-> 0,
                          data |-> "none", generation |-> 0]
          BY <3>2 DEF NoSession
        <5> QED BY <3>2, <5>1, <5>2 DEF Sessions, NoChunk, Chunks
      <4>2. GenerationsInv' /\ OthersKept /\ OwnKept
        BY <3>2, QuietOwned DEF ServiceInv
      <4> QED BY <3>2, <4>1, <4>2 DEF ServiceInv, ServiceTypeOK, ObjectsStep, service
    <3> QED BY <2>1, <2>2, <3>1, <3>2 DEF SendStart
  <2>3. ASSUME NEW data \in Names, SendChunk(data, e) PROVE ObjectsStep /\ late' \in Chunks
    <3>1. CASE ProcessChunk(transfer.offset, data) /\ UNCHANGED late
      BY <3>1, ProcessChunkStep DEF Contents, SessionInv
    <3>2. CASE Untouched
      BY <3>2, UntouchedStep DEF Untouched, SessionInv
    <3>3. CASE /\ late' = [first |-> transfer.offset, data |-> data]
               /\ UNCHANGED <<service, session>>
      BY <3>3, UntouchedStep DEF Chunks, Contents
    <3> QED BY <2>1, <2>3, <3>1, <3>2, <3>3 DEF SendChunk
  <2>4. CASE SendQuery(e)
    BY <2>1, <2>4, ProcessQueryStep DEF SendQuery, SessionInv
  <2>5. CASE SendCancel(e)
    BY <2>1, <2>5, ProcessCancelStep, UntouchedStep
       DEF SendCancel, ProcessCancel, Untouched, SessionInv
  <2> QED BY <2>2, <2>3, <2>4, <2>5
<1>2. \/ NotExecuted(e) \/ AnswerLost(e)
      \/ Calm /\ e \in {"Ok", "StorageResponse"} \cup StorageKinds
  BY DEF SendStart, SendChunk, SendQuery, SendCancel, StorageKinds, Answer
<1>3. EnvironmentStep /\ e # "InterruptedAfterMoveRollback"
  BY <1>2, SendEnvironment
<1>4. ServiceStep
  BY <1>1, <1>3, RequestStep
<1> QED BY <1>1, <1>3, <1>4 DEF SessionInv, ObjectsStep

(* Looking up the token. *)
LEMMA FetchTokenStep ==
    ASSUME ServiceInv, SessionInv, NEW e, FetchToken(e)
    PROVE  ServiceStep /\ SessionInv' /\ e # "InterruptedAfterMoveRollback"
<1>1. ObjectsStep
  BY UntouchedStep DEF FetchToken
<1>2. EnvironmentStep /\ e # "InterruptedAfterMoveRollback"
  BY BoundsAssumption DEF FetchToken, Faulty, ServiceInv, ServiceTypeOK, EnvironmentStep
<1>3. ServiceStep
  BY <1>1, <1>2, RequestStep
<1> QED BY <1>1, <1>2, <1>3 DEF SessionInv, ObjectsStep, FetchToken

-----------------------------------------------------------------------------
(* The client of the session.  While it may still retry, an attempt is     *)
(* left; it gives a session up with an error, and what it returns without  *)
(* one is an object of the run.                                            *)
RetryPcs == {"restart", "refresh", "query", "requery"}

TransferInv ==
    /\ transfer \in Transfers
    /\ transfer.pc \in RetryPcs => transfer.attempt < MaxAttempts
    /\ ~HasRestoredGeneration(transfer.error)
    /\ transfer.pc = "done" /\ IsOk(transfer.error) => Mine(transfer.generation)
    /\ transfer.pc \in {"cancel", "delete"} => ~IsOk(transfer.error)

(* A step that goes on. *)
LEMMA TransferGoesOn ==
    ASSUME TransferInv, transfer' \in Transfers, transfer'.error = transfer.error,
           transfer'.pc \notin {"done", "cancel", "delete"},
           transfer'.pc \in RetryPcs => transfer'.attempt < MaxAttempts
    PROVE  TransferInv'
BY DEF TransferInv

(* The ways a step of the client ends. *)
LEMMA TransferEnds ==
    ASSUME TransferInv, SessionInv'
    PROVE  /\ \A pc \in TransferPcs :
                 /\ TransferGoto(pc) /\ pc \notin {"done", "cancel", "delete"}
                 /\ pc \in RetryPcs => transfer.attempt < MaxAttempts
                 => TransferInv'
           /\ \A error \in AppErrors :
                 Failure(error) /\ (Finished(error) \/ Cancel(error)) => TransferInv'
           /\ \A pc \in {"start", "chunk"} :
                 NextAttempt(pc) /\ transfer.attempt < MaxAttempts => TransferInv'
           /\ Completed /\ session'.state = "complete" => TransferInv'
           /\ \A next \in 0..Size : Advance(next) => TransferInv'
<1>0. /\ transfer \in Transfers /\ transfer.attempt \in 0..MaxAttempts
      /\ MaxAttempts \in Nat \ {0} /\ session' \in Sessions
      /\ session'.state = "complete" => Mine(session.generation)'
  BY ResumableAssumption DEF TransferInv, Transfers, SessionInv
<1> USE DEF TransferPcs, RetryPcs
<1>1. ASSUME NEW pc \in TransferPcs, TransferGoto(pc), pc \notin {"done", "cancel", "delete"},
             pc \in RetryPcs => transfer.attempt < MaxAttempts
      PROVE  TransferInv'
  <2>1. /\ transfer' \in Transfers /\ transfer'.pc = pc /\ transfer'.error = transfer.error
        /\ transfer'.attempt = transfer.attempt
    BY <1>0, <1>1 DEF TransferGoto, Transfers
  <2> QED BY <1>1, <2>1, TransferGoesOn
<1>2. ASSUME NEW error \in AppErrors, Failure(error), Finished(error) \/ Cancel(error)
      PROVE  TransferInv'
  <2>1. /\ transfer' \in Transfers /\ transfer'.pc \in {"done", "cancel"}
        /\ transfer'.error = error
    BY <1>0, <1>2 DEF Finished, Cancel, Transfers
  <2> QED BY <1>2, <2>1 DEF TransferInv, Failure
<1>3. ASSUME NEW pc \in {"start", "chunk"}, NextAttempt(pc), transfer.attempt < MaxAttempts
      PROVE  TransferInv'
  <2>1. transfer.attempt + 1 \in 0..MaxAttempts
    BY <1>0, <1>3
  <2>2. transfer' \in Transfers /\ transfer'.pc = pc /\ transfer'.error = transfer.error
    BY <1>0, <1>3, <2>1 DEF NextAttempt, Transfers
  <2> QED BY <1>3, <2>2, TransferGoesOn
<1>4. ASSUME Completed, session'.state = "complete" PROVE TransferInv'
  <2>1. /\ transfer' \in Transfers /\ transfer'.pc = "done"
        /\ transfer'.error = transfer.error /\ transfer'.generation = session'.generation
    BY <1>0, <1>4 DEF Completed, Transfers, Sessions
  <2>2. Mine(transfer.generation)'
    BY <1>0, <1>4, <2>1 DEF Mine
  <2> QED BY <2>1, <2>2 DEF TransferInv
<1>5. ASSUME NEW next \in 0..Size, Advance(next) PROVE TransferInv'
  <2>1. CASE Cancel(Err("StorageResponse"))
    <3>1. Err("StorageResponse") \in AppErrors /\ Failure(Err("StorageResponse"))
      BY ErrType, HandlerFailures DEF ErrorKinds
    <3> QED BY <1>2, <2>1, <3>1
  <2>2. CASE transfer' = [transfer EXCEPT !.offset = next, !.attempt = 1,
                             !.pc = IF next = Size THEN "finalQuery" ELSE "chunk"]
    <3>1. 1 \in 0..MaxAttempts
      BY <1>0
    <3>2. /\ transfer' \in Transfers /\ transfer'.pc \in {"finalQuery", "chunk"}
          /\ transfer'.error = transfer.error
      BY <1>0, <2>2, <3>1 DEF Transfers
    <3> QED BY <3>2, TransferGoesOn
  <2> QED BY <1>5, <2>1, <2>2 DEF Advance
<1> QED BY <1>1, <1>2, <1>3, <1>4, <1>5

(* The errors the client makes of a failed request. *)
LEMMA RequestErrors ==
    ASSUME NEW e \in ErrorKinds, e # "InterruptedAfterMoveRollback"
    PROVE  Err(e) \in AppErrors /\ (e # "Ok" => Failure(Err(e)))
BY ErrType, HandlerFailures

(* Every step of upload_resumable_locked. *)
LEMMA ResumableStepInv ==
    ASSUME ServiceInv, SessionInv, TransferInv, doubted \in BOOLEAN,
           NEW target \in Names, NEW opens, NEW data \in Names,
           ResumableStep(target, opens, data)
    PROVE  ServiceStep /\ SessionInv' /\ TransferInv' /\ doubted' \in BOOLEAN
<1>0. /\ transfer.offset \in 0..Size /\ transfer \in Transfers
      /\ transfer.attempt \in 0..MaxAttempts /\ MaxAttempts \in Nat \ {0}
  BY ResumableAssumption DEF TransferInv, Transfers
<1>k. TokenKinds \cup {"Ok"} \subseteq ErrorKinds
  BY DEF ErrorKinds
<1>s. SessionInv' => session'.committed \in 0..Size
  BY DEF SessionInv, Sessions
<1> USE DEF TransferPcs, RetryPcs
<1>1. CASE FirstToken
  <2>1. PICK e \in TokenKinds \cup {"Ok"} :
           /\ FetchToken(e)
           /\ \/ e = "Ok" /\ transfer' = [transfer EXCEPT !.pc = "start", !.attempt = 1]
              \/ e # "Ok" /\ Finished(Err(e))
    BY <1>1 DEF FirstToken
  <2>2. ServiceStep /\ SessionInv' /\ e # "InterruptedAfterMoveRollback"
    BY <2>1, FetchTokenStep
  <2>3. CASE transfer' = [transfer EXCEPT !.pc = "start", !.attempt = 1]
    <3>1. 1 \in 0..MaxAttempts
      BY <1>0
    <3>2. transfer' \in Transfers /\ transfer'.pc = "start" /\ transfer'.error = transfer.error
      BY <1>0, <2>3, <3>1 DEF Transfers
    <3> QED BY <1>1, <2>2, <3>2, TransferGoesOn DEF FirstToken
  <2>4. CASE e # "Ok" /\ Finished(Err(e))
    BY <1>1, <1>k, <2>2, <2>4, TransferEnds, RequestErrors DEF FirstToken
  <2> QED BY <2>1, <2>3, <2>4
<1>2. CASE StartResumableSession(target)
  <2>1. PICK e \in ErrorKinds :
           /\ SendStart(target, e)
           /\ \/ transfer' = [transfer EXCEPT !.pc = "chunk", !.attempt = 1]
              \/ transfer.attempt < MaxAttempts /\ TransferGoto("restart")
              \/ transfer.attempt < MaxAttempts /\ NextAttempt("start")
              \/ e # "Ok" /\ Finished(Err(e))
    BY <1>2 DEF StartResumableSession
  <2>2. ServiceStep /\ SessionInv' /\ e # "InterruptedAfterMoveRollback"
    BY <1>0, <2>1, SendResumableStep
  <2>3. doubted' = doubted
    BY <1>2 DEF StartResumableSession
  <2>4. CASE transfer' = [transfer EXCEPT !.pc = "chunk", !.attempt = 1]
    <3>1. 1 \in 0..MaxAttempts
      BY <1>0
    <3>2. transfer' \in Transfers /\ transfer'.pc = "chunk" /\ transfer'.error = transfer.error
      BY <1>0, <2>4, <3>1 DEF Transfers
    <3> QED BY <2>2, <2>3, <3>2, TransferGoesOn
  <2>5. CASE transfer.attempt < MaxAttempts /\ (TransferGoto("restart") \/ NextAttempt("start"))
    BY <2>2, <2>3, <2>5, TransferEnds
  <2>6. CASE e # "Ok" /\ Finished(Err(e))
    BY <2>2, <2>3, <2>6, TransferEnds, RequestErrors
  <2> QED BY <2>1, <2>4, <2>5, <2>6
<1>3. CASE RestartToken \/ RefreshToken \/ RequeryToken
  <2>1. PICK e \in TokenKinds \cup {"Ok"} :
           /\ FetchToken(e)
           /\ \/ NextAttempt("start") \/ NextAttempt("chunk") \/ TransferGoto("query")
              \/ e # "Ok" /\ (Finished(Err(e)) \/ Cancel(Err(e)))
    BY <1>3 DEF RestartToken, RefreshToken, RequeryToken
  <2>2. transfer.attempt < MaxAttempts /\ doubted' = doubted
    BY <1>3 DEF RestartToken, RefreshToken, RequeryToken, TransferInv
  <2>3. ServiceStep /\ SessionInv' /\ e # "InterruptedAfterMoveRollback"
    BY <2>1, FetchTokenStep
  <2>4. CASE NextAttempt("start") \/ NextAttempt("chunk") \/ TransferGoto("query")
    BY <2>2, <2>3, <2>4, TransferEnds
  <2>5. CASE e # "Ok" /\ (Finished(Err(e)) \/ Cancel(Err(e)))
    BY <1>k, <2>2, <2>3, <2>5, TransferEnds, RequestErrors
  <2> QED BY <2>1, <2>4, <2>5
<1>4. CASE UploadResumableChunk(opens, data)
  <2>1. CASE ~opens
    <3>1. /\ Cancel(Err("UploadSource"))
          /\ UNCHANGED <<service, session, late, environment, interrupted, doubted>>
      BY <1>4, <2>1 DEF UploadResumableChunk
    <3>2. ObjectsStep /\ EnvironmentStep
      BY <3>1, UntouchedStep DEF ServiceInv, ServiceTypeOK, EnvironmentStep, environment
    <3>3. ServiceStep /\ SessionInv'
      BY <3>1, <3>2, RequestStep DEF SessionInv, ObjectsStep
    <3> QED BY <3>1, <3>3, TransferEnds, RequestErrors DEF ErrorKinds
  <2>2. CASE opens
    <3>1. PICK e \in ErrorKinds :
             /\ SendChunk(data, e)
             /\ \/ e = "Ok" /\ ChunkAnswered
                \/ transfer.attempt < MaxAttempts
                   /\ (TransferGoto("refresh") \/ TransferGoto("query"))
                \/ e # "Ok" /\ Cancel(Err(e))
             /\ doubted' = (doubted \/ (/\ transfer'.pc = "query"
                                        /\ e # "HttpConnect" /\ faults' # faults))
      BY <1>4, <2>2 DEF UploadResumableChunk
    <3>2. ServiceStep /\ SessionInv' /\ e # "InterruptedAfterMoveRollback"
      BY <1>0, <3>1, SendResumableStep
    <3>3. doubted' \in BOOLEAN
      BY <3>1
    <3>4. CASE ChunkAnswered
      BY <1>s, <3>2, <3>3, <3>4, TransferEnds DEF ChunkAnswered
    <3>5. CASE transfer.attempt < MaxAttempts
               /\ (TransferGoto("refresh") \/ TransferGoto("query"))
      BY <3>2, <3>3, <3>5, TransferEnds
    <3>6. CASE e # "Ok" /\ Cancel(Err(e))
      BY <3>2, <3>3, <3>6, TransferEnds, RequestErrors
    <3> QED BY <3>1, <3>4, <3>5, <3>6
  <2> QED BY <2>1, <2>2
<1>5. CASE QueryResumableProgress
  <2>1. PICK e \in ErrorKinds :
           /\ SendQuery(e)
           /\ \/ session'.state = "complete" /\ Completed
              \/ NextAttempt("chunk") \/ Advance(session'.committed)
              \/ TransferGoto("requery")
              \/ e # "Ok" /\ Cancel(Err(e))
    BY <1>5 DEF QueryResumableProgress
  <2>2. ServiceStep /\ SessionInv' /\ e # "InterruptedAfterMoveRollback"
    BY <1>0, <2>1, SendResumableStep
  <2>3. transfer.attempt < MaxAttempts /\ doubted' = doubted
    BY <1>5 DEF QueryResumableProgress, TransferInv
  <2>4. CASE \/ session'.state = "complete" /\ Completed
             \/ NextAttempt("chunk") \/ Advance(session'.committed)
             \/ TransferGoto("requery")
    BY <1>s, <2>2, <2>3, <2>4, TransferEnds
  <2>5. CASE e # "Ok" /\ Cancel(Err(e))
    BY <2>2, <2>3, <2>5, TransferEnds, RequestErrors
  <2> QED BY <2>1, <2>4, <2>5
<1>6. CASE FinalQuery
  <2>1. PICK e \in ErrorKinds :
           /\ SendQuery(e)
           /\ \/ session'.state = "complete" /\ Completed
              \/ Cancel(Err("StorageResponse")) \/ TransferGoto("finalRefresh")
              \/ e # "Ok" /\ Cancel(Err(e))
    BY <1>6 DEF FinalQuery
  <2>2. ServiceStep /\ SessionInv' /\ e # "InterruptedAfterMoveRollback"
    BY <1>0, <2>1, SendResumableStep
  <2>3. doubted' = doubted
    BY <1>6 DEF FinalQuery
  <2>4. CASE (session'.state = "complete" /\ Completed) \/ TransferGoto("finalRefresh")
    BY <2>2, <2>3, <2>4, TransferEnds
  <2>5. CASE Cancel(Err("StorageResponse"))
    BY <2>2, <2>3, <2>5, TransferEnds, RequestErrors DEF ErrorKinds
  <2>6. CASE e # "Ok" /\ Cancel(Err(e))
    BY <2>2, <2>3, <2>6, TransferEnds, RequestErrors
  <2> QED BY <2>1, <2>4, <2>5, <2>6
<1>7. CASE FinalRefresh
  <2>1. PICK e \in TokenKinds \cup {"Ok"} :
           FetchToken(e) /\ Cancel(Err(IF e = "Ok" THEN "Unauthorized" ELSE e))
    BY <1>7 DEF FinalRefresh
  <2>2. ServiceStep /\ SessionInv' /\ e # "InterruptedAfterMoveRollback"
    BY <2>1, FetchTokenStep
  <2>3. PICK kind \in ErrorKinds :
           /\ Cancel(Err(kind)) /\ kind # "Ok" /\ kind # "InterruptedAfterMoveRollback"
    BY <1>k, <2>1, <2>2 DEF ErrorKinds, StorageKinds
  <2>4. doubted' = doubted
    BY <1>7 DEF FinalRefresh
  <2> QED BY <2>2, <2>3, <2>4, TransferEnds, RequestErrors
<1>8. CASE ClearInterruptForCancel
  <2>1. /\ transfer.pc = "cancel" /\ interrupted' = FALSE /\ TransferGoto("delete")
        /\ UNCHANGED <<service, environment, session, late, doubted>>
    BY <1>8 DEF ClearInterruptForCancel
  <2>2. ObjectsStep /\ EnvironmentStep
    BY <2>1, UntouchedStep DEF ServiceInv, ServiceTypeOK, EnvironmentStep, environment
  <2>3. ServiceStep /\ SessionInv'
    BY <2>1, <2>2, RequestStep DEF SessionInv, ObjectsStep
  <2>4. transfer' \in Transfers /\ transfer'.pc = "delete" /\ transfer'.error = transfer.error
    BY <1>0, <2>1 DEF TransferGoto, Transfers
  <2> QED BY <2>1, <2>3, <2>4 DEF TransferInv
<1>9. CASE CancelResumableSession
  <2>1. PICK e \in ErrorKinds :
           SendCancel(e) /\ Finished(Rollback(transfer.error, e # "Ok"))
    BY <1>9 DEF CancelResumableSession
  <2>2. ServiceStep /\ SessionInv'
    BY <1>0, <2>1, SendResumableStep
  <2>3. transfer.error \in AppErrors /\ Failure(transfer.error) /\ doubted' = doubted
    BY <1>0, <1>9 DEF CancelResumableSession, TransferInv, Transfers, Failure
  <2>4. \A failed \in BOOLEAN :
           /\ Rollback(transfer.error, failed) \in AppErrors
           /\ Failure(Rollback(transfer.error, failed))
    BY <2>3, ErrType, RollbackFailure DEF Rollback
  <2> QED BY <2>1, <2>2, <2>3, <2>4, TransferEnds
<1> QED BY <1>1, <1>2, <1>3, <1>4, <1>5, <1>6, <1>7, <1>8, <1>9 DEF ResumableStep

(* A chunk that was given up arrives after all; the session forgets. *)
LEMMA SessionDisturbance ==
    ASSUME ServiceInv, SessionInv, LandChunk \/ ForgetUnits
    PROVE  ServiceStep /\ SessionInv' /\ UNCHANGED <<transfer, doubted>>
<1>0. /\ session \in Sessions /\ late \in Chunks /\ session.committed \in 0..Size
      /\ late.first \in 0..Size /\ late.data \in Contents
  BY DEF SessionInv, Sessions, Chunks
<1>1. CASE LandChunk
  <2>1. ObjectsStep
    BY <1>0, <1>1, ProcessChunkStep DEF LandChunk
  <2>2. EnvironmentStep
    BY <1>1 DEF LandChunk, ServiceInv, ServiceTypeOK, EnvironmentStep, environment
  <2>3. late' \in Chunks
    BY <1>1, ResumableAssumption DEF LandChunk, NoChunk, Chunks, Contents
  <2> QED BY <1>1, <2>1, <2>2, <2>3, RequestStep DEF LandChunk, SessionInv, ObjectsStep
<1>2. CASE ForgetUnits
  <2>1. PICK committed \in 0..(session.committed - 1) :
           session' = [session EXCEPT !.committed = committed]
    BY <1>2 DEF ForgetUnits
  <2>2. committed \in 0..Size
    BY <1>0, <2>1, ResumableAssumption
  <2>3. session' \in Sessions /\ session'.state # "complete"
    BY <1>0, <1>2, <2>1, <2>2 DEF ForgetUnits, Sessions
  <2>4. GenerationsInv' /\ OthersKept /\ OwnKept
    BY <1>2, QuietOwned DEF ForgetUnits, ServiceInv
  <2>5. ObjectsStep
    BY <1>2, <2>3, <2>4 DEF ForgetUnits, ServiceInv, ServiceTypeOK, ObjectsStep, service
  <2>6. EnvironmentStep
    BY <1>2, BoundsAssumption
       DEF ForgetUnits, Faulty, ServiceInv, ServiceTypeOK, EnvironmentStep
  <2> QED BY <1>2, <2>5, <2>6, RequestStep DEF ForgetUnits, SessionInv, ObjectsStep
<1> QED BY <1>1, <1>2

-----------------------------------------------------------------------------
(* The workflow.  An upload is under way only in the staging loop, between *)
(* two operations of the transaction, and its index is that of a file.     *)
FilesInv ==
    /\ files \in Discoveries /\ existing \in Buckets
    /\ uploads \in Seq(PlannedUploads)
    /\ uploads = <<>> \/ DOMAIN uploads = DOMAIN files
    /\ captured \in [DOMAIN files -> Names]
    /\ disk \in [DOMAIN files -> [opens : BOOLEAN, content : Names]]
    /\ edits \in 0..Len(Edits) /\ removals \in 0..MaxRemovals

UploadingInv ==
    /\ upload \in Uploads
    /\ upload.pc # "idle" => phase = "stage" /\ index \in DOMAIN uploads /\ op = Idle
    /\ upload.pc = "verify" => Mine(upload.generation)
    /\ upload.pc \in {"failed", "confirm"} => Failure(upload.error)

UploadInv ==
    /\ TransactionInv /\ ChangesOwned /\ CallerInv
    /\ phase = "build" => staged = <<>> /\ finalized = <<>>
    /\ SessionInv /\ TransferInv /\ doubted \in BOOLEAN
    /\ FilesInv /\ UploadingInv

(* The service under UploadInv. *)
LEMMA UploadService == UploadInv => ServiceInv
BY DEF UploadInv, TransactionInv, ChangesOwned, OwnedInv, MoveTypeOK, ServiceTypeOK, ServiceInv

(* A step that leaves the service alone. *)
LEMMA QuietServiceStep ==
    ASSUME ServiceInv, UNCHANGED <<service, environment>>, interrupted' \in BOOLEAN
    PROVE  ServiceStep
<1>1. GenerationsInv' /\ OthersKept /\ OwnKept
  BY QuietOwned DEF ServiceInv
<1>2. WireOwned'
  BY <1>1, WireKept DEF ServiceInv, environment
<1>3. ServiceTypeOK'
  BY DEF ServiceInv, ServiceTypeOK, service, environment
<1> QED BY <1>1, <1>2, <1>3 DEF ServiceStep, ServiceInv, environment

(* A request of the upload that is not a delete. *)
LEMMA UploadRequestStep ==
    ASSUME ServiceInv, NEW request \in Requests, request.type # "delete", NEW e,
           Send(request, e)
    PROVE  /\ ServiceStep /\ e # "InterruptedAfterMoveRollback"
           /\ e = "Ok" /\ request.type = "write" => \A g : g = nextGen => Mine(g)'
<1>1. ServiceTypeOK /\ GenerationsInv /\ WireOwned
  BY DEF ServiceInv
<1>2. ServiceTypeOK'
  BY <1>1, SendType
<1> QED BY <1>1, <1>2, SendOwned DEF ServiceStep, ServiceInv

(* What the run owns of a session and of a transfer it keeps. *)
LEMMA ResumableKept ==
    ASSUME SessionInv, TransferInv, OwnKept
    PROVE  /\ UNCHANGED <<session, late>> => SessionInv'
           /\ UNCHANGED transfer => TransferInv'
<1>1. session.generation \in Nat /\ transfer.generation \in Nat
  BY DEF SessionInv, TransferInv, Sessions, Transfers
<1>2. ASSUME UNCHANGED <<session, late>> PROVE SessionInv'
  <2>1. Mine(session.generation) => Mine(session.generation)'
    BY <1>1, <1>2 DEF OwnKept, Mine
  <2> QED BY <1>2, <2>1 DEF SessionInv
<1>3. ASSUME UNCHANGED transfer PROVE TransferInv'
  <2>1. Mine(transfer.generation) => Mine(transfer.generation)'
    BY <1>1, <1>3 DEF OwnKept, Mine
  <2> QED BY <1>3, <2>1 DEF TransferInv
<1> QED BY <1>2, <1>3

(* The upload keeps what it knows while the workflow stays where it is. *)
LEMMA UploadingKept ==
    ASSUME UploadingInv, OwnKept, UNCHANGED <<upload, uploads>>,
           upload.pc # "idle" => UNCHANGED <<phase, index, op>>
    PROVE  UploadingInv'
<1>1. Mine(upload.generation) => Mine(upload.generation)'
  BY DEF UploadingInv, Uploads, OwnKept, Mine
<1> QED BY <1>1 DEF UploadingInv

(* A step of the upload leaves the transaction where it is. *)
LEMMA UploadFrame ==
    ASSUME UploadInv, upload.pc # "idle", ServiceStep, UNCHANGED transactionVars,
           op' = op \/ (op' \in Ops /\ OpOwned' /\ CallerInv')
    PROVE  TransactionInv' /\ ChangesOwned' /\ CallerInv'
<1>1. phase = "stage" /\ op = Idle
  BY DEF UploadInv, UploadingInv
<1>2. MoveTypeOK' /\ OpOwned' /\ CallerInv'
  BY <1>1, IdleOwned, NewCallers DEF ServiceStep, ServiceInv, ServiceTypeOK, MoveTypeOK
<1>3. TransactionTypeOK' /\ TransactionIndexInv'
  BY <1>1 DEF UploadInv, TransactionInv, TransactionTypeOK, TransactionIndexInv, RollingBack,
     transactionVars
<1>4. RecordsOwned'
  BY RecordsKept DEF UploadInv, TransactionInv, ChangesOwned, ServiceStep, transactionVars
<1> QED BY <1>2, <1>3, <1>4 DEF TransactionInv, ChangesOwned, OwnedInv, ServiceStep, ServiceInv

(* The ways a step of the upload ends. *)
LEMMA UploadEnds ==
    ASSUME UploadInv, upload.pc # "idle", UNCHANGED <<phase, index, uploads>>
    PROVE  /\ \A error \in AppErrors, g \in Nat :
                 /\ UploadReturns(error, g) /\ ~HasRestoredGeneration(error)
                 /\ IsOk(error) => Mine(g)'
                 => op' \in Ops /\ OpOwned' /\ CallerInv' /\ UploadingInv'
           /\ \A pc \in {"open", "send", "chunks", "confirm"} :
                 UploadGoto(pc) /\ (pc = "confirm" => upload.pc = "failed")
                 => op' = op /\ UploadingInv'
           /\ \A error \in AppErrors :
                 UploadFails(error) /\ Failure(error) => op' = op /\ UploadingInv'
           /\ \A error :
                 Retry(error) /\ upload.attempt < MaxAttempts => op' = op /\ UploadingInv'
           /\ \A g \in Nat :
                 /\ upload' = [upload EXCEPT !.pc = "verify", !.generation = g]
                 /\ UNCHANGED op /\ Mine(g)'
                 => UploadingInv'
<1>0. /\ upload \in Uploads /\ phase = "stage" /\ index \in DOMAIN uploads /\ op = Idle
      /\ upload.attempt \in 0..MaxAttempts /\ MaxAttempts \in Nat \ {0}
      /\ upload.pc \in {"failed", "confirm"} => Failure(upload.error)
  BY ResumableAssumption DEF UploadInv, UploadingInv, Uploads
<1>1. ASSUME NEW error \in AppErrors, NEW g \in Nat, UploadReturns(error, g),
             ~HasRestoredGeneration(error), IsOk(error) => Mine(g)'
      PROVE  op' \in Ops /\ OpOwned' /\ CallerInv' /\ UploadingInv'
  <2>1. uploads[index] \in PlannedUploads
    BY <1>0 DEF UploadInv, FilesInv
  <2>2. /\ op' = [pc |-> "done", caller |-> "move", source |-> uploads[index].staging,
                  target |-> uploads[index].target, sgen |-> 0, tgen |-> g, pages |-> 0,
                  sourceSeen |-> "failed", targetSeen |-> "failed", error |-> error]
        /\ upload' = NoUpload
    BY <1>1 DEF UploadReturns, Call
  <2>3. op' \in Ops
    BY <2>1, <2>2 DEF Ops, OpPcs, Lookups, PlannedUploads
  <2>4. op'.pc = "done" /\ op'.tgen = g /\ op'.error = error /\ op'.caller = "move"
    BY <2>2
  <2>5. OpOwned'
    BY <1>1, <2>4 DEF OpOwned, CopiedPcs, UndoPcs, RestoredPcs, FailurePcs, Mine
  <2>6. NoUpload \in Uploads /\ NoUpload.pc = "idle"
    BY <1>0, ErrType DEF NoUpload, Uploads, UploadPcs
  <2>7. UploadingInv'
    BY <2>2, <2>6 DEF UploadingInv
  <2> QED BY <2>3, <2>4, <2>5, <2>7, NewCallers
<1>2. ASSUME NEW pc \in {"open", "send", "chunks", "confirm"}, UploadGoto(pc),
             pc = "confirm" => upload.pc = "failed"
      PROVE  op' = op /\ UploadingInv'
  <2>1. /\ upload' \in Uploads /\ upload'.pc = pc /\ upload'.error = upload.error
        /\ op' = op
    BY <1>0, <1>2 DEF UploadGoto, Uploads, UploadPcs
  <2> QED BY <1>0, <1>2, <2>1 DEF UploadingInv
<1>3. ASSUME NEW error \in AppErrors, UploadFails(error), Failure(error)
      PROVE  op' = op /\ UploadingInv'
  <2>1. upload' \in Uploads /\ upload'.pc = "failed" /\ upload'.error = error /\ op' = op
    BY <1>0, <1>3 DEF UploadFails, Uploads, UploadPcs
  <2> QED BY <1>0, <1>3, <2>1 DEF UploadingInv
<1>4. ASSUME NEW error, Retry(error), upload.attempt < MaxAttempts
      PROVE  op' = op /\ UploadingInv'
  <2>1. upload.attempt + 1 \in 0..MaxAttempts
    BY <1>0, <1>4
  <2>2. upload' \in Uploads /\ upload'.pc = "open" /\ op' = op
    BY <1>0, <1>4, <2>1 DEF Retry, Uploads, UploadPcs
  <2> QED BY <1>0, <2>2 DEF UploadingInv
<1>5. ASSUME NEW g \in Nat, upload' = [upload EXCEPT !.pc = "verify", !.generation = g],
             UNCHANGED op, Mine(g)'
      PROVE  UploadingInv'
  <2>1. upload' \in Uploads /\ upload'.pc = "verify" /\ upload'.generation = g
    BY <1>0, <1>5 DEF Uploads, UploadPcs
  <2>2. Mine(upload.generation)'
    BY <1>5, <2>1 DEF Mine
  <2> QED BY <1>0, <1>5, <2>1, <2>2 DEF UploadingInv
<1> QED BY <1>1, <1>2, <1>3, <1>4, <1>5

(* What every step of the upload has to show. *)
LEMMA UploadGoesOn ==
    ASSUME UploadInv, upload.pc # "idle", ServiceStep,
           UNCHANGED <<transactionVars, plan, localVars>>,
           op' = op \/ (op' \in Ops /\ OpOwned' /\ CallerInv'),
           captured' = captured \/ captured' \in [DOMAIN files -> Names],
           SessionInv', TransferInv', doubted' \in BOOLEAN, UploadingInv'
    PROVE  UploadInv' /\ OthersKept
<1>1. TransactionInv' /\ ChangesOwned' /\ CallerInv'
  BY UploadFrame
<1>2. FilesInv'
  BY DEF UploadInv, FilesInv, plan, localVars
<1>3. phase' = "stage"
  BY DEF UploadInv, UploadingInv, transactionVars
<1> QED BY <1>1, <1>2, <1>3 DEF UploadInv, ServiceStep

(* The index of the upload in progress is that of a file. *)
LEMMA UploadIndex ==
    ASSUME UploadInv, upload.pc # "idle"
    PROVE  /\ index \in DOMAIN files /\ disk[index].content \in Names
           /\ uploads[index] \in PlannedUploads /\ uploads[index].staging \in Names
           /\ Get(uploads[index].staging, 0) \in Requests
           /\ Write(uploads[index].staging, disk[index].content) \in Requests
<1>1. index \in DOMAIN uploads
  BY DEF UploadInv, UploadingInv
<1>2. uploads # <<>>
  BY <1>1
<1>3. index \in DOMAIN files /\ uploads[index] \in PlannedUploads
  BY <1>1, <1>2 DEF UploadInv, FilesInv
<1>4. disk[index].content \in Names /\ uploads[index].staging \in Names
  BY <1>3 DEF UploadInv, FilesInv, PlannedUploads
<1> QED BY <1>3, <1>4 DEF Get, Write, Requests

(* BeginUpload starts the upload of a file or aborts. *)
LEMMA BeginUploadInv ==
    ASSUME UploadInv, BeginUpload
    PROVE  UploadInv' /\ OthersKept
<1>0. /\ phase = "stage" /\ index \in DOMAIN uploads /\ op = Idle /\ upload.pc = "idle"
      /\ UNCHANGED <<service, environment, op, staged, finalized, plan, captured, localVars>>
      /\ UNCHANGED <<session, late, transfer, doubted>>
  BY DEF BeginUpload, resumable
<1>1. ServiceInv /\ MoveTypeOK /\ TransactionTypeOK /\ TransactionIndexInv /\ ChangesOwned
      /\ interrupted \in BOOLEAN
  BY UploadService DEF UploadInv, TransactionInv, MoveTypeOK
<1>2. /\ UploadingInv' /\ TransactionTypeOK' /\ TransactionIndexInv'
      /\ interrupted' \in BOOLEAN /\ phase' # "build"
  <2>1. CASE interrupted
    <3>1. Abort(Err("Interrupted"), 0) /\ upload' = upload
      BY <2>1 DEF BeginUpload
    <3>2. /\ phase' = "rollbackFinalized" /\ index' = 0
          /\ phase' \in Phases /\ index' \in Nat
          /\ undone' \in BOOLEAN /\ result' \in AppErrors /\ interrupted' = FALSE
      BY <1>1, <3>1, AbortType, ErrType DEF ErrorKinds
    <3>3. TransactionTypeOK' /\ TransactionIndexInv'
      BY <1>0, <1>1, <3>2 DEF TransactionTypeOK, TransactionIndexInv, RollingBack
    <3>4. UploadingInv'
      BY <1>0, <3>1 DEF UploadInv, UploadingInv
    <3> QED BY <3>2, <3>3, <3>4
  <2>2. CASE ~interrupted
    <3>1. /\ upload' = [NoUpload EXCEPT !.pc = "capture"]
          /\ UNCHANGED <<interrupted, phase, index, undone, result>>
      BY <2>2 DEF BeginUpload
    <3>2. upload' \in Uploads /\ upload'.pc = "capture"
      BY <3>1, ErrType, ResumableAssumption DEF NoUpload, Uploads, UploadPcs
    <3>3. TransactionTypeOK' /\ TransactionIndexInv'
      BY <1>0, <1>1, <3>1 DEF TransactionTypeOK, TransactionIndexInv, RollingBack
    <3>4. UploadingInv'
      BY <1>0, <3>1, <3>2 DEF UploadingInv, plan
    <3> QED BY <1>0, <1>1, <3>1, <3>3, <3>4
  <2> QED BY <2>1, <2>2
<1>3. MoveTypeOK'
  BY <1>0, <1>1, <1>2, FrameType DEF MoveTypeOK, ServiceTypeOK
<1>4. ChangesOwned' /\ OthersKept /\ OwnKept
  BY <1>0, <1>1, QuietChangesOwned
<1>5. CallerInv'
  BY <1>0, NewCallers
<1>6. SessionInv' /\ TransferInv' /\ doubted' \in BOOLEAN
  BY <1>0, <1>4, ResumableKept DEF UploadInv
<1>7. FilesInv'
  BY <1>0 DEF UploadInv, FilesInv, plan, localVars
<1> QED BY <1>2, <1>3, <1>4, <1>5, <1>6, <1>7 DEF UploadInv, TransactionInv

(* The steps that only look at the local file or at the outcome. *)
LEMMA LocalStepInv ==
    ASSUME UploadInv,
           CaptureFingerprint \/ OpenSource \/ EndResumable \/ VerifySent
           \/ ConfirmedUploadFailure
    PROVE  UploadInv' /\ OthersKept
<1>0. /\ UNCHANGED <<service, environment, transactionVars, plan, localVars>>
      /\ UNCHANGED <<session, late, doubted>> /\ upload.pc # "idle"
      /\ interrupted' = interrupted \/ interrupted' \in BOOLEAN
  BY DEF CaptureFingerprint, OpenSource, EndResumable, VerifySent, ConfirmedUploadFailure,
     resumable
<1>1. ServiceStep /\ OwnKept
  BY <1>0, UploadService, QuietServiceStep DEF ServiceInv, ServiceTypeOK, ServiceStep
<1>2. SessionInv' /\ doubted' \in BOOLEAN /\ (UNCHANGED transfer => TransferInv')
  BY <1>0, <1>1, ResumableKept DEF UploadInv
<1>3. UNCHANGED <<phase, index, uploads>>
  BY <1>0 DEF transactionVars, plan
<1>4. /\ Err("UploadSource") \in AppErrors /\ Failure(Err("UploadSource"))
      /\ Err("UploadSourceChanged") \in AppErrors /\ Failure(Err("UploadSourceChanged"))
      /\ NoError \in AppErrors /\ IsOk(NoError) /\ ~HasRestoredGeneration(NoError)
  BY RequestErrors, ErrType DEF ErrorKinds, NoError, Err, IsOk, HasRestoredGeneration
<1>5. upload \in Uploads /\ upload.generation \in Nat /\ upload.error \in AppErrors
  BY DEF UploadInv, UploadingInv, Uploads
<1> SUFFICES /\ op' = op \/ (op' \in Ops /\ OpOwned' /\ CallerInv')
             /\ captured' = captured \/ captured' \in [DOMAIN files -> Names]
             /\ TransferInv' /\ UploadingInv'
  BY <1>0, <1>1, <1>2, UploadGoesOn
<1>6. CASE CaptureFingerprint
  <2>1. TransferInv'
    BY <1>2, <1>6 DEF CaptureFingerprint, resumable
  <2>2. CASE SourceOpens(index)
    <3>1. /\ upload' = [upload EXCEPT !.pc = "open", !.attempt = 1]
          /\ captured' = [captured EXCEPT ![index] = Fingerprint(index)] /\ op' = op
      BY <1>6, <2>2 DEF CaptureFingerprint
    <3>2. captured' \in [DOMAIN files -> Names]
      BY <1>0, <3>1, UploadIndex DEF Fingerprint, UploadInv, FilesInv
    <3>3. 1 \in 0..MaxAttempts
      BY ResumableAssumption
    <3>4. upload' \in Uploads /\ upload'.pc = "open"
      BY <1>5, <3>1, <3>3 DEF Uploads, UploadPcs
    <3>5. UploadingInv'
      BY <1>0, <1>3, <3>1, <3>4 DEF UploadInv, UploadingInv
    <3> QED BY <2>1, <3>1, <3>2, <3>5
  <2>3. CASE ~SourceOpens(index)
    <3>1. UploadFails(Err("UploadSource")) /\ captured' = captured
      BY <1>6, <2>3 DEF CaptureFingerprint
    <3>2. op' = op /\ UploadingInv'
      BY <1>0, <1>3, <1>4, <3>1, UploadEnds
    <3> QED BY <2>1, <3>1, <3>2
  <2> QED BY <2>2, <2>3
<1>7. CASE OpenSource
  <2>1. captured' = captured
    BY <1>7 DEF OpenSource
  <2>2. CASE UNCHANGED transfer /\ UploadGoto("send")
    BY <1>0, <1>2, <1>3, <2>1, <2>2, UploadEnds
  <2>3. CASE /\ UNCHANGED transfer
             /\ UploadFails(Err("UploadSource")) \/ UploadFails(Err("UploadSourceChanged"))
    BY <1>0, <1>2, <1>3, <1>4, <2>1, <2>3, UploadEnds
  <2>4. CASE UploadGoto("chunks") /\ BeginTransfer
    <3>1. /\ transfer' = [pc |-> "token", attempt |-> 0, offset |-> 0, generation |-> 0,
                          error |-> NoError]
      BY <2>4 DEF BeginTransfer, NoTransfer
    <3>2. transfer' \in Transfers
      BY <1>4, <3>1, ResumableAssumption DEF Transfers, TransferPcs
    <3>3. TransferInv'
      BY <1>4, <3>1, <3>2 DEF TransferInv, RetryPcs
    <3>4. op' = op /\ UploadingInv'
      BY <1>0, <1>3, <2>4, UploadEnds
    <3> QED BY <2>1, <3>3, <3>4
  <2> QED BY <1>7, <2>2, <2>3, <2>4 DEF OpenSource
<1>8. CASE EndResumable
  <2>0. TransferInv /\ transfer.pc = "done" /\ captured' = captured /\ transfer' = NoTransfer
    BY <1>8 DEF EndResumable, UploadInv
  <2>1. TransferInv'
    <3>1. NoTransfer \in Transfers /\ NoTransfer.pc = "idle" /\ NoTransfer.error = NoError
      BY <1>4, ResumableAssumption DEF NoTransfer, Transfers, TransferPcs
    <3> QED BY <1>4, <2>0, <3>1 DEF TransferInv, RetryPcs
  <2>2. CASE IsOk(transfer.error)
    <3>1. Mine(transfer.generation) /\ transfer.generation \in Nat
      BY <2>0, <2>2 DEF TransferInv, Transfers
    <3>2. \A g : g = transfer.generation => g \in Nat /\ Mine(g)'
      BY <1>1, <3>1 DEF OwnKept
    <3>3. upload' = [upload EXCEPT !.pc = "verify", !.generation = transfer.generation]
          /\ op' = op
      BY <1>8, <2>2 DEF EndResumable
    <3>4. UploadingInv'
      BY <1>0, <1>3, <3>2, <3>3, UploadEnds
    <3> QED BY <2>0, <2>1, <3>3, <3>4
  <2>3. CASE ~IsOk(transfer.error)
    <3>1. transfer.error \in AppErrors /\ Failure(transfer.error)
      BY <2>0, <2>3 DEF TransferInv, Transfers, Failure
    <3>2. UploadFails(transfer.error)
      BY <1>8, <2>3 DEF EndResumable
    <3>3. op' = op /\ UploadingInv'
      BY <1>0, <1>3, <3>1, <3>2, UploadEnds
    <3> QED BY <2>0, <2>1, <3>3
  <2> QED BY <2>2, <2>3
<1>9. CASE VerifySent
  <2>1. TransferInv' /\ captured' = captured
    BY <1>2, <1>9 DEF VerifySent, resumable
  <2>2. \A g : g = upload.generation => Mine(g)'
    BY <1>1, <1>5, <1>9 DEF VerifySent, UploadInv, UploadingInv, OwnKept
  <2>3. CASE UploadReturns(NoError, upload.generation)
    BY <1>0, <1>3, <1>4, <1>5, <2>1, <2>2, <2>3, UploadEnds
  <2>4. CASE UploadFails(Err("UploadSourceChanged"))
    BY <1>0, <1>3, <1>4, <2>1, <2>4, UploadEnds
  <2> QED BY <1>9, <2>3, <2>4 DEF VerifySent
<1>10. CASE ConfirmedUploadFailure
  <2>1. TransferInv' /\ captured' = captured
    BY <1>2, <1>10 DEF ConfirmedUploadFailure, resumable
  <2>2. upload.pc = "failed" /\ Failure(upload.error)
    BY <1>10 DEF ConfirmedUploadFailure, UploadInv, UploadingInv
  <2>3. CASE UploadGoto("confirm")
    BY <1>0, <1>3, <2>1, <2>2, <2>3, UploadEnds
  <2>4. CASE UploadReturns(upload.error, 0)
    BY <1>0, <1>3, <1>5, <2>1, <2>2, <2>4, UploadEnds DEF Failure
  <2> QED BY <1>10, <2>3, <2>4 DEF ConfirmedUploadFailure
<1> QED BY <1>6, <1>7, <1>8, <1>9, <1>10

(* The steps that send a request. *)
LEMMA SendStepInv ==
    ASSUME UploadInv, SendUpload \/ SendResumable \/ ConfirmWrite
    PROVE  UploadInv' /\ OthersKept
<1>0. /\ UNCHANGED <<transactionVars, plan, localVars, captured>> /\ upload.pc # "idle"
      /\ UNCHANGED <<phase, index, uploads>>
  BY DEF SendUpload, SendResumable, ConfirmWrite, transactionVars, plan
<1>1. ServiceInv /\ SessionInv /\ TransferInv /\ doubted \in BOOLEAN
  BY UploadService DEF UploadInv
<1>2. CASE SendUpload
  <2> DEFINE request == Write(uploads[index].staging, disk[index].content)
  <2>1. PICK e \in ErrorKinds :
           /\ Send(request, e)
           /\ IF e = "Ok"
              THEN /\ upload' = [upload EXCEPT !.pc = "verify", !.generation = nextGen]
                   /\ UNCHANGED <<op, doubted>>
              ELSE AttemptFails(Err(e))
    BY <1>2 DEF SendUpload
  <2>2. request \in Requests /\ request.type = "write"
    BY <1>0, UploadIndex DEF Write
  <2>3. /\ ServiceStep /\ e # "InterruptedAfterMoveRollback"
        /\ e = "Ok" => \A g : g = nextGen => Mine(g)'
    BY <1>1, <2>1, <2>2, UploadRequestStep
  <2>4. SessionInv' /\ TransferInv'
    BY <1>1, <1>2, <2>3, ResumableKept DEF SendUpload, ServiceStep
  <2>5. op' = op /\ UploadingInv' /\ doubted' \in BOOLEAN
    <3>1. CASE e = "Ok"
      <4>1. nextGen \in Nat
        BY <1>1 DEF ServiceInv, ServiceTypeOK
      <4> QED BY <1>0, <1>1, <2>1, <2>3, <3>1, <4>1, UploadEnds
    <3>2. CASE e # "Ok"
      <4>1. \/ Retry(Err(e)) /\ upload.attempt < MaxAttempts
            \/ UploadFails(Err(e)) /\ UNCHANGED doubted
        BY <2>1, <3>2 DEF AttemptFails
      <4>2. Err(e) \in AppErrors /\ Failure(Err(e))
        BY <2>3, <3>2, RequestErrors
      <4>3. doubted' \in BOOLEAN
        BY <1>1, <4>1 DEF Retry
      <4> QED BY <1>0, <4>1, <4>2, <4>3, UploadEnds
    <3> QED BY <3>1, <3>2
  <2> QED BY <1>0, <2>3, <2>4, <2>5, UploadGoesOn
<1>3. CASE SendResumable
  <2>1. /\ ResumableStep(uploads[index].staging, SourceOpens(index), disk[index].content)
        /\ UNCHANGED <<op, upload>>
    BY <1>3 DEF SendResumable
  <2>2. ServiceStep /\ SessionInv' /\ TransferInv' /\ doubted' \in BOOLEAN
    BY <1>0, <1>1, <2>1, UploadIndex, ResumableStepInv
  <2>3. UploadingInv'
    BY <1>0, <2>1, <2>2, UploadingKept DEF UploadInv, ServiceStep
  <2> QED BY <1>0, <2>1, <2>2, <2>3, UploadGoesOn
<1>4. CASE ConfirmWrite
  <2>1. PICK e \in ErrorKinds :
           /\ Send(Get(uploads[index].staging, 0), e)
           /\ \E error \in {upload.error, Err("Recovery")} : UploadReturns(error, 0)
    BY <1>4 DEF ConfirmWrite
  <2>2. Get(uploads[index].staging, 0).type = "get"
    BY DEF Get
  <2>3. ServiceStep
    BY <1>0, <1>1, <2>1, <2>2, UploadIndex, UploadRequestStep
  <2>4. SessionInv' /\ TransferInv' /\ doubted' = doubted
    BY <1>1, <1>4, <2>3, ResumableKept DEF ConfirmWrite, ServiceStep, resumable
  <2>5. \A error \in {upload.error, Err("Recovery")} : error \in AppErrors /\ Failure(error)
    <3>1. upload.error \in AppErrors /\ Failure(upload.error)
      BY <1>4 DEF ConfirmWrite, UploadInv, UploadingInv, Uploads
    <3> QED BY <3>1, RequestErrors DEF ErrorKinds
  <2>6. op' \in Ops /\ OpOwned' /\ CallerInv' /\ UploadingInv'
    BY <1>0, <2>1, <2>5, UploadEnds DEF Failure
  <2> QED BY <1>0, <1>1, <2>3, <2>4, <2>6, UploadGoesOn
<1> QED BY <1>2, <1>3, <1>4

(* The upload of a file, step by step. *)
LEMMA UploadStepInv ==
    ASSUME UploadInv, UploadStep
    PROVE  UploadInv' /\ OthersKept
BY BeginUploadInv, LocalStepInv, SendStepInv DEF UploadStep

-----------------------------------------------------------------------------
(* The transaction.  Its steps leave the upload alone. *)
LEMMA WorkflowGoesOn ==
    ASSUME UploadInv, UNCHANGED <<plan, upload, captured, resumable, localVars>>,
           upload.pc # "idle" => UNCHANGED <<phase, index, op>>,
           TransactionInv', ChangesOwned', CallerInv', OwnKept,
           phase' # "build" \/ UNCHANGED <<phase, staged, finalized>>
    PROVE  UploadInv'
<1>1. SessionInv' /\ TransferInv' /\ doubted' \in BOOLEAN
  BY ResumableKept DEF UploadInv, resumable
<1>2. FilesInv'
  BY DEF UploadInv, FilesInv, plan, localVars
<1>3. UploadingInv'
  BY UploadingKept DEF UploadInv, plan
<1> QED BY <1>1, <1>2, <1>3 DEF UploadInv

(* Every step of the transaction. *)
LEMMA TransactionStepInv ==
    ASSUME UploadInv, TransactionStep
    PROVE  UploadInv' /\ OthersKept
<1>0. /\ TransactionInv /\ MoveTypeOK /\ TransactionTypeOK /\ ChangesOwned /\ CallerInv
      /\ UNCHANGED <<plan, upload, captured, resumable, localVars>>
      /\ op \in Ops \cup {Idle}
  BY DEF UploadInv, TransactionInv, MoveTypeOK, TransactionStep
<1>i. upload.pc # "idle" =>
         op = Idle /\ op.pc # "done" /\ phase = "stage" /\ index <= Len(uploads)
         /\ ~RollingBack
  BY DEF UploadInv, UploadingInv, Idle, FilesInv, RollingBack
<1> SUFFICES /\ TransactionInv' /\ ChangesOwned' /\ CallerInv' /\ OwnKept /\ OthersKept
             /\ phase' # "build" \/ UNCHANGED <<phase, staged, finalized>>
             /\ upload.pc = "idle"
  BY <1>0, WorkflowGoesOn
<1>1. CASE EndUpload
  <2> DEFINE change == Change(uploads[index].staging, uploads[index].target, op.tgen)
  <2>1. index \in DOMAIN uploads /\ EndStage(change)
    BY <1>1 DEF EndUpload
  <2>2. op \in Ops /\ uploads[index] \in PlannedUploads
    BY <1>0, <2>1 DEF EndStage, Idle, UploadInv, FilesInv
  <2>3. change \in RemoteChanges /\ change.generation = op.tgen
    BY <2>2 DEF Change, RemoteChanges, PlannedUploads, Ops
  <2>4. TransactionInv' /\ phase' # "build" /\ ChangesOwned' /\ OwnKept /\ OthersKept
    BY <1>0, <2>1, <2>3, EndStageType, EndStageOwned
  <2> QED BY <1>i, <2>1, <2>4, NewCallers DEF EndStage
<1>2. CASE StagingDone(Len(uploads)) \/ FinalizingDone
  <2>1. TransactionInv' /\ UNCHANGED <<staged, finalized>> /\ phase' # "build"
    BY <1>0, <1>2, PhaseType
  <2>2. UNCHANGED <<service, environment, op>>
    BY <1>2 DEF StagingDone, FinalizingDone, moveVars
  <2>3. ChangesOwned' /\ OwnKept /\ OthersKept
    BY <1>0, <2>1, <2>2, QuietChangesOwned
  <2>4. CallerInv'
    BY <1>0, <2>2, <2>3, CallersKept
  <2>5. upload.pc = "idle"
    <3>1. index \in Nat /\ Len(uploads) \in Nat
      BY <1>0 DEF TransactionTypeOK, UploadInv, FilesInv
    <3> QED BY <1>2, <1>i, <3>1 DEF StagingDone, FinalizingDone
  <2> QED BY <2>1, <2>3, <2>4, <2>5
<1>3. CASE BeginPublish
  <2> DEFINE change == staged[index]
  <2>0. phase = "finalize" /\ upload.pc = "idle" /\ index \in DOMAIN staged
    BY <1>3, <1>i DEF BeginPublish
  <2>1. change \in RemoteChanges
    BY <1>0, <2>0 DEF TransactionTypeOK
  <2>2. change.source \in Names /\ change.target \in Names /\ change.generation \in Nat
    BY <2>1 DEF RemoteChanges
  <2>3. CASE RejectBucketLockObject(change)
    <3>0. /\ op' = [MoveCall(change.source, change.target, change.generation)
                      EXCEPT !.pc = "failed", !.error = Err("Message")]
          /\ UNCHANGED <<service, environment, interrupted, transactionVars>>
      BY <2>3 DEF RejectBucketLockObject
    <3>1. Err("Message") \in AppErrors /\ Failure(Err("Message"))
      BY RequestErrors DEF ErrorKinds
    <3>2. /\ op' \in Ops /\ op'.pc = "failed" /\ op'.caller = "move"
          /\ op'.error = Err("Message")
      <4>1. op' = [pc |-> "failed", caller |-> "move", source |-> change.source,
                   target |-> change.target, sgen |-> change.generation, tgen |-> 0,
                   pages |-> 0, sourceSeen |-> "failed", targetSeen |-> "failed",
                   error |-> Err("Message")]
        BY <3>0 DEF MoveCall, Call
      <4> QED BY <2>2, <3>1, <4>1 DEF Ops, OpPcs, FailurePcs, Lookups
    <3>3. OpOwned'
      BY <3>1, <3>2 DEF OpOwned, CopiedPcs, UndoPcs, RestoredPcs, FailurePcs
    <3>4. MoveTypeOK'
      BY <1>0, <3>0, <3>2, FrameType DEF MoveTypeOK, ServiceTypeOK
    <3>5. TransactionInv'
      BY <1>0, <2>0, <3>0, <3>4 DEF TransactionInv, TransactionTypeOK, TransactionIndexInv,
         RollingBack, transactionVars
    <3>6. ChangesOwned' /\ OwnKept /\ OthersKept
      BY <1>0, <3>0, <3>3, QuietChangesOwned DEF transactionVars
    <3> QED BY <2>0, <3>0, <3>2, <3>5, <3>6, NewCallers DEF transactionVars
  <2>4. CASE BeginMove(change.source, change.target, change.generation)
    <3>1. TransactionInv' /\ phase' # "build"
      BY <1>0, <2>0, <2>2, <2>4, BeginMoveType
    <3>2. ChangesOwned' /\ OwnKept /\ OthersKept
      BY <1>0, <2>4, BeginMoveOwned
    <3>3. op' = Idle \/ op'.caller = "move"
      BY <2>4 DEF BeginMove, MoveCall, Call
    <3> QED BY <2>0, <3>1, <3>2, <3>3, NewCallers
  <2> QED BY <1>3, <2>3, <2>4 DEF BeginPublish
<1>4. CASE EndPublish
  <2> DEFINE change == Change(staged[index].source, staged[index].target, op.tgen)
  <2>1. index \in DOMAIN staged /\ EndFinalize(change)
    BY <1>4 DEF EndPublish
  <2>2. op \in Ops /\ staged[index] \in RemoteChanges
    BY <1>0, <2>1 DEF EndFinalize, Idle, TransactionTypeOK
  <2>3. change \in RemoteChanges /\ change.generation = op.tgen
    BY <2>2 DEF Change, RemoteChanges, Ops
  <2>4. TransactionInv' /\ phase' # "build" /\ ChangesOwned' /\ OwnKept /\ OthersKept
    BY <1>0, <2>1, <2>3, EndFinalizeType, EndFinalizeOwned
  <2> QED BY <1>i, <2>1, <2>4, NewCallers DEF EndFinalize
<1>5. CASE RollbackRemote
  <2>0. upload.pc = "idle"
    BY <1>5, <1>i DEF RollbackRemote, BeginRollback, CleanupRestored, MovedBack, EndRollback,
       SkipRollback, RollbackStagedNext, RollbackDoneAll, RollingBack
  <2>1. CASE BeginRollback(RollbackOf(Recorded[index]))
    <3>1. Recorded[index] \in RemoteChanges
      BY <1>0, <2>1, RecordedType DEF BeginRollback
    <3>2. RollbackOf(Recorded[index]) \in Ops
      BY <3>1, CallType DEF RollbackOf, RemoteChanges
    <3>3. Mine(Recorded[index].generation) /\ UNCHANGED service
      BY <1>0, <2>1, RecordedOwned DEF BeginRollback
    <3>4. \A g : g = Recorded[index].generation => Mine(g)'
      BY <3>3 DEF Mine, service
    <3>5. OpOwned' /\ CallerInv'
      BY <2>1, <3>4, CallOwned, NewCallers DEF BeginRollback, RollbackOf
    <3>6. TransactionInv' /\ phase' # "build"
      BY <1>0, <2>1, <3>2, RollbackType
    <3> QED BY <1>0, <2>0, <2>1, <3>5, <3>6, RollbackOwned
  <2>2. CASE CleanupRestored
    <3>0. /\ op' = CleanupCall(op.source, op.sgen) /\ op \in Ops /\ RollingBack
          /\ UNCHANGED <<service, environment, interrupted, transactionVars>>
          /\ Mine(op.sgen) /\ op # Idle
      BY <1>0, <2>2 DEF CleanupRestored, MovedBack, CallerInv, Idle
    <3>1. op' \in Ops
      BY <3>0, CallType DEF Ops
    <3>2. \A g : g = op.sgen => Mine(g)'
      BY <3>0 DEF Mine, service
    <3>3. OpOwned' /\ CallerInv'
      BY <3>0, <3>2, CallOwned, NewCallers
    <3>4. MoveTypeOK'
      BY <1>0, <3>0, <3>1, FrameType DEF MoveTypeOK, ServiceTypeOK
    <3>5. TransactionInv'
      BY <1>0, <3>0, <3>4 DEF TransactionInv, TransactionTypeOK, TransactionIndexInv,
         RollingBack, transactionVars
    <3>6. ChangesOwned' /\ OwnKept /\ OthersKept
      BY <1>0, <3>0, <3>3, QuietChangesOwned DEF transactionVars
    <3> QED BY <2>0, <3>0, <3>3, <3>5, <3>6 DEF transactionVars
  <2>3. CASE SkipRollback \/ EndRollback \/ RollbackStagedNext \/ RollbackDoneAll
    <3>1. TransactionInv' /\ phase' # "build"
      BY <1>0, <2>3, RollbackType
    <3>2. ChangesOwned' /\ OwnKept /\ OthersKept
      BY <1>0, <2>3, RollbackOwned
    <3>3. op' = op \/ op' = Idle
      BY <2>3 DEF SkipRollback, EndRollback, RollbackStagedNext, RollbackDoneAll, moveVars
    <3>4. CallerInv'
      BY <1>0, <3>2, <3>3, CallersKept, NewCallers
    <3> QED BY <2>0, <3>1, <3>2, <3>4
  <2> QED BY <1>5, <2>1, <2>2, <2>3 DEF RollbackRemote
<1>6. CASE OpStep /\ UNCHANGED transactionVars
  <2>1. upload.pc = "idle"
    BY <1>6, <1>i, OpStepBusy DEF Idle
  <2>2. TransactionInv' /\ ChangesOwned' /\ OwnKept
    BY <1>0, <1>6, OperationType, OperationOwned
  <2>3. OthersKept
    BY <1>0, <1>6, OpStepOwned DEF ChangesOwned
  <2>4. CallerInv'
    BY <1>0, <1>6, <2>2, OpStepCallers DEF ChangesOwned, OwnedInv
  <2> QED BY <1>6, <2>1, <2>2, <2>3, <2>4 DEF transactionVars
<1> QED BY <1>1, <1>2, <1>3, <1>4, <1>5, <1>6 DEF TransactionStep

-----------------------------------------------------------------------------
(* plan_uploads names an upload for every file, or rejects them all. *)
LEMMA PlanUploadsInv ==
    ASSUME UploadInv, PlanUploads
    PROVE  UploadInv' /\ OthersKept
<1>0. /\ phase = "build" /\ staged = <<>> /\ finalized = <<>>
      /\ UNCHANGED <<moveVars, staged, finalized, undone, files, existing>>
      /\ UNCHANGED <<upload, captured, resumable, localVars>>
      /\ TransactionInv /\ MoveTypeOK /\ TransactionTypeOK /\ ChangesOwned /\ CallerInv
  BY DEF UploadInv, TransactionInv, PlanUploads
<1>1. /\ UNCHANGED <<service, environment, interrupted, op>> /\ MoveTypeOK'
  BY <1>0 DEF moveVars, service, environment, MoveTypeOK
<1>2. ChangesOwned' /\ OwnKept /\ OthersKept
  BY <1>0, <1>1, QuietChangesOwned
<1>3. CallerInv'
  BY <1>0, <1>1, <1>2, CallersKept
<1>4. SessionInv' /\ TransferInv' /\ doubted' \in BOOLEAN
  BY <1>0, <1>2, ResumableKept DEF UploadInv, resumable
<1>5. upload.pc = "idle" /\ UploadingInv'
  BY <1>0 DEF UploadInv, UploadingInv
<1>6. TransactionTypeOK' /\ TransactionIndexInv' /\ phase' # "build" /\ FilesInv'
  <2>1. CASE phase' = "end" /\ result' = Err("Message") /\ UNCHANGED <<index, uploads>>
    <3>1. Err("Message") \in AppErrors
      BY ErrType DEF ErrorKinds
    <3>2. TransactionTypeOK' /\ TransactionIndexInv'
      BY <1>0, <2>1, <3>1 DEF TransactionTypeOK, TransactionIndexInv, RollingBack, Phases
    <3>3. FilesInv'
      BY <1>0, <2>1 DEF UploadInv, FilesInv, localVars
    <3> QED BY <2>1, <3>2, <3>3
  <2>2. CASE /\ uploads' = [i \in DOMAIN files |-> PlannedUpload(files[i])]
             /\ phase' = "stage" /\ index' = 1 /\ UNCHANGED result
    <3>1. TransactionTypeOK' /\ TransactionIndexInv'
      BY <1>0, <2>2 DEF TransactionTypeOK, TransactionIndexInv, RollingBack, Phases
    <3>2. files \in Seq(Names)
      BY StagingAssumption DEF UploadInv, FilesInv
    <3>3. \A i \in DOMAIN files : PlannedUpload(files[i]) \in PlannedUploads
      BY <3>2, StagingAssumption DEF PlannedUpload, PlannedUploads
    <3>4. uploads' \in Seq(PlannedUploads) /\ DOMAIN uploads' = DOMAIN files
      BY <2>2, <3>2, <3>3
    <3>5. FilesInv'
      BY <1>0, <3>4 DEF UploadInv, FilesInv, localVars
    <3> QED BY <2>2, <3>1, <3>5
  <2> QED BY <2>1, <2>2 DEF PlanUploads
<1> QED BY <1>1, <1>2, <1>3, <1>4, <1>5, <1>6 DEF UploadInv, TransactionInv

(* The environment: signals, other writers, late requests and chunks, and  *)
(* what other processes do to the local files.                             *)
LEMMA DisturbanceInv ==
    ASSUME UploadInv, Disturbance
    PROVE  UploadInv' /\ (meddled' = meddled => OthersKept)
<1>0. /\ TransactionInv /\ MoveTypeOK /\ TransactionTypeOK /\ ChangesOwned /\ CallerInv
      /\ UNCHANGED <<transactionVars, plan, upload, captured>>
      /\ UNCHANGED <<phase, index, staged, finalized, uploads, files, existing>>
  BY DEF UploadInv, TransactionInv, Disturbance, transactionVars, plan
<1>1. CASE (Meddling \/ Land) /\ UNCHANGED <<resumable, localVars>>
  <2>1. TransactionInv' /\ ChangesOwned' /\ OwnKept /\ (meddled' = meddled => OthersKept)
    BY <1>0, <1>1, OperationType, OperationOwned
  <2>2. op' = op
    BY <1>1 DEF Meddling, Signal, ForeignWrite, ForeignDelete, Land
  <2>3. CallerInv'
    BY <1>0, <2>1, <2>2, CallersKept
  <2> QED BY <1>0, <1>1, <2>1, <2>2, <2>3, WorkflowGoesOn
<1>2. CASE (EditSource \/ RemoveSource) /\ UNCHANGED resumable
  <2>1. UNCHANGED <<service, environment, interrupted, op>> /\ MoveTypeOK'
    BY <1>0, <1>2 DEF EditSource, RemoveSource, moveVars, service, environment, MoveTypeOK
  <2>2. ChangesOwned' /\ OwnKept /\ OthersKept
    BY <1>0, <2>1, QuietChangesOwned
  <2>3. CallerInv'
    BY <1>0, <2>1, <2>2, CallersKept
  <2>4. TransactionInv'
    BY <1>0, <2>1 DEF TransactionInv, TransactionTypeOK, TransactionIndexInv, RollingBack,
       transactionVars
  <2>5. SessionInv' /\ TransferInv' /\ doubted' \in BOOLEAN
    BY <1>2, <2>2, ResumableKept DEF UploadInv, resumable
  <2>6. UploadingInv'
    BY <1>0, <2>1, <2>2, UploadingKept DEF UploadInv
  <2>7. /\ disk' \in [DOMAIN files -> [opens : BOOLEAN, content : Names]]
        /\ edits' \in 0..Len(Edits) /\ removals' \in 0..MaxRemovals
    <3>0. /\ disk \in [DOMAIN files -> [opens : BOOLEAN, content : Names]]
          /\ edits \in 0..Len(Edits) /\ removals \in 0..MaxRemovals
          /\ Edits \in Seq(Names) /\ MaxRemovals \in Nat
      BY UploadBoundsAssumption DEF UploadInv, FilesInv
    <3>1. CASE EditSource
      <4>1. PICK i \in DOMAIN files : disk' = [disk EXCEPT ![i].content = Edits[edits + 1]]
        BY <3>0, <3>1 DEF EditSource
      <4>2. Edits[edits + 1] \in Names /\ edits' \in 0..Len(Edits) /\ removals' = removals
        BY <3>0, <3>1 DEF EditSource
      <4>3. [disk[i] EXCEPT !.content = Edits[edits + 1]] \in [opens : BOOLEAN, content : Names]
        BY <3>0, <4>2
      <4> QED BY <3>0, <4>1, <4>2, <4>3
    <3>2. CASE RemoveSource
      <4>1. PICK i \in DOMAIN files : disk' = [disk EXCEPT ![i].opens = FALSE]
        BY <3>0, <3>2 DEF RemoveSource
      <4>2. removals' \in 0..MaxRemovals /\ edits' = edits
        BY <3>0, <3>2 DEF RemoveSource
      <4>3. [disk[i] EXCEPT !.opens = FALSE] \in [opens : BOOLEAN, content : Names]
        BY <3>0
      <4> QED BY <3>0, <4>1, <4>2, <4>3
    <3> QED BY <1>2, <3>1, <3>2
  <2>8. FilesInv'
    BY <1>0, <2>7 DEF UploadInv, FilesInv
  <2> QED BY <1>0, <2>2, <2>3, <2>4, <2>5, <2>6, <2>8 DEF UploadInv
<1>3. CASE (LandChunk \/ ForgetUnits) /\ UNCHANGED <<op, localVars>>
  <2>1. ServiceStep /\ SessionInv' /\ UNCHANGED <<transfer, doubted>>
    BY <1>3, UploadService, SessionDisturbance DEF UploadInv
  <2>2. OwnKept /\ OthersKept /\ GenerationsInv' /\ WireOwned'
    BY <2>1 DEF ServiceStep, ServiceInv
  <2>3. MoveTypeOK'
    BY <1>0, <1>3, <2>1 DEF ServiceStep, ServiceInv, ServiceTypeOK, MoveTypeOK
  <2>4. TransactionInv'
    BY <1>0, <1>3, <2>3 DEF TransactionInv, TransactionTypeOK, TransactionIndexInv,
       RollingBack, transactionVars
  <2>5. OpOwned' /\ CallerInv'
    BY <1>0, <1>3, <2>2, OpKeptOwned, CallersKept DEF ChangesOwned, OwnedInv
  <2>6. RecordsOwned'
    BY <1>0, <2>2, RecordsKept DEF ChangesOwned
  <2>7. TransferInv' /\ doubted' \in BOOLEAN
    BY <2>1, <2>2, ResumableKept DEF UploadInv
  <2>8. UploadingInv'
    BY <1>0, <1>3, <2>2, UploadingKept DEF UploadInv
  <2>9. FilesInv'
    BY <1>0, <1>3 DEF UploadInv, FilesInv, localVars
  <2> QED BY <1>0, <2>1, <2>2, <2>4, <2>5, <2>6, <2>7, <2>8, <2>9
          DEF UploadInv, ChangesOwned, OwnedInv
<1> QED BY <1>1, <1>2, <1>3 DEF Disturbance

(* The initial states. *)
LEMMA InitUpload == Init => UploadInv
<1> SUFFICES ASSUME Init PROVE UploadInv
  OBVIOUS
<1>1. TransactionInv /\ ChangesOwned
  BY InitTransaction, InitOwned DEF Init
<1>2. CallerInv /\ staged = <<>> /\ finalized = <<>>
  BY DEF Init, MoveInit, TransactionInit, CallerInv, Idle, MovePcs, FailurePcs, CleanupPcs
<1>3. NoError \in AppErrors /\ ~HasRestoredGeneration(NoError)
  BY ErrType DEF NoError, Err, HasRestoredGeneration
<1>4. SessionInv /\ TransferInv /\ doubted \in BOOLEAN
  <2>1. NoSession \in Sessions /\ NoSession.state = "none" /\ NoChunk \in Chunks
    BY ResumableAssumption DEF NoSession, Sessions, NoChunk, Chunks, Contents
  <2>2. NoTransfer \in Transfers /\ NoTransfer.pc = "idle" /\ NoTransfer.error = NoError
    BY <1>3, ResumableAssumption DEF NoTransfer, Transfers, TransferPcs
  <2> QED BY <1>3, <2>1, <2>2 DEF Init, ResumableInit, SessionInv, TransferInv, RetryPcs
<1>5. UploadingInv
  <2>1. NoUpload \in Uploads /\ NoUpload.pc = "idle"
    BY <1>3, ResumableAssumption DEF NoUpload, Uploads, UploadPcs
  <2> QED BY <2>1 DEF Init, UploadingInv
<1>6. FilesInv
  <2>1. files \in Discoveries /\ files \in Seq(Names)
    BY StagingAssumption DEF Init
  <2>2. captured \in [DOMAIN files -> Names]
    BY <2>1 DEF Init
  <2>3. disk \in [DOMAIN files -> [opens : BOOLEAN, content : Names]]
    BY <2>1 DEF Init
  <2>4. edits \in 0..Len(Edits) /\ removals \in 0..MaxRemovals
    BY UploadBoundsAssumption DEF Init
  <2> QED BY <2>1, <2>2, <2>3, <2>4 DEF Init, FilesInv
<1> QED BY <1>1, <1>2, <1>4, <1>5, <1>6 DEF UploadInv

(* Every step keeps the invariant, and only another writer touches the     *)
(* versions of others.                                                     *)
LEMMA NextUpload ==
    ASSUME UploadInv, [Next]_vars
    PROVE  UploadInv' /\ (meddled' = meddled => OthersKept)
<1>1. CASE UNCHANGED vars
  <2>1. /\ UNCHANGED <<moveVars, transactionVars, plan, upload, captured, resumable, localVars>>
    BY <1>1 DEF vars
  <2>2. MoveTypeOK /\ ChangesOwned /\ CallerInv /\ TransactionInv
        /\ UNCHANGED <<service, environment, interrupted, op>>
        /\ UNCHANGED <<phase, index, staged, finalized>>
    BY <2>1 DEF UploadInv, TransactionInv, moveVars, transactionVars
  <2>3. ChangesOwned' /\ OwnKept /\ OthersKept
    BY <2>2, QuietChangesOwned
  <2>4. CallerInv'
    BY <2>2, <2>3, CallersKept
  <2>5. TransactionInv'
    BY <2>1, <2>2 DEF TransactionInv, MoveTypeOK, TransactionTypeOK, TransactionIndexInv,
       RollingBack, transactionVars, service, environment
  <2> QED BY <2>1, <2>2, <2>3, <2>4, <2>5, WorkflowGoesOn
<1>2. CASE Next
  BY <1>1, <1>2, PlanUploadsInv, UploadStepInv, TransactionStepInv, DisturbanceInv
     DEF Next, RunStep, Terminated
<1> QED BY <1>1, <1>2

(* TypeOK holds in every reachable state of the upload workflow. *)
THEOREM TypeCorrect == Spec => []TypeOK
<1>1. Init => UploadInv
  BY InitUpload
<1>2. UploadInv /\ [Next]_vars => UploadInv'
  BY NextUpload
<1>3. UploadInv => TypeOK
  BY DEF UploadInv, TransactionInv, SessionInv, TransferInv, FilesInv, UploadingInv,
     ResumableTypeOK, TypeOK
<1> QED BY <1>1, <1>2, <1>3, PTL DEF Spec

(* OthersUntouched: whatever fails, however often an upload, a chunk or a  *)
(* query is tried again, whoever else writes to the bucket and however     *)
(* late the service executes what the client has given up on, the upload   *)
(* workflow and its rollback (upload_file_checked,                         *)
(* upload_resumable_locked, rollback_remote) neither overwrite nor delete  *)
(* a version of another writer that they have not copied.                  *)
THEOREM StrangersKept == Spec => OthersUntouched
<1>1. Init => UploadInv
  BY InitUpload
<1>2. UploadInv /\ [Next]_vars => UploadInv'
  BY NextUpload
<1>3. UploadInv /\ [Next]_vars
      => [meddled' = meddled =>
             \A name \in Names :
                objects[name].gen \in others => objects'[name] = objects[name]]_vars
  BY NextUpload DEF OthersKept
<1> QED BY <1>1, <1>2, <1>3, PTL DEF Spec, OthersUntouched

-----------------------------------------------------------------------------
(* The bytes that a run publishes.  PublishedAsValidated needs an account  *)
(* of where the validated bytes are while the run has not failed: under    *)
(* the staging name from the upload on, under the target name from the     *)
(* rewrite on.                                                             *)
PublishPcs == {"copy", "confirmCopy", "deleteSource", "sourceState", "confirmMove"}
CopyMadePcs == {"confirmCopy", "deleteSource", "sourceState", "confirmMove", "done"}
SessionPcs == {"chunk", "refresh", "query", "requery", "finalQuery", "finalRefresh"}

(* No other writer has interfered, and the run may still succeed. *)
Unfailed ==
    /\ meddled = 0
    /\ \/ /\ phase \in {"build", "stage", "finalize"}
          /\ op = Idle \/ op.pc \in PublishPcs \/ (op.pc = "done" /\ IsOk(op.error))
       \/ phase = "end" /\ IsOk(result)

StagingOf(i) == Staging[files[i]]
Holds(name, g, data) == HoldsData(name, data) /\ objects[name].gen = g

(* The version g is the staged object of the file at hand.  If the file    *)
(* still has the bytes of its fingerprint, so has the object: an edit      *)
(* leaves bytes that the file has not had before.                          *)
Stored(g) ==
    /\ Present(StagingOf(index)) /\ objects[StagingOf(index)].gen = g
    /\ disk[index].content = captured[index] =>
          objects[StagingOf(index)].data = captured[index]

FreshInv ==
    \A i \in DOMAIN files, k \in DOMAIN Edits :
        k > edits => Edits[k] # captured[i] /\ Edits[k] # disk[i].content

(* The plan, the staged changes and the operation are about the files, in  *)
(* their order, and a rollback has an error to report.                     *)
ProgressInv ==
    /\ phase \in {"build", "end"} => op = Idle
    /\ phase = "stage" => op = Idle \/ (op.pc = "done" /\ index \in DOMAIN files)
    /\ phase \in {"stage", "finalize"} =>
          /\ uploads = [i \in DOMAIN files |-> PlannedUpload(files[i])]
          /\ op = Idle \/ op.caller = "move"
          /\ Len(staged) <= Len(files)
          /\ \A i \in DOMAIN staged : staged[i].source = StagingOf(i) /\ staged[i].target = files[i]
    /\ phase = "finalize" =>
          /\ Len(staged) = Len(files) /\ op.pc # "generation"
          /\ op.pc \in PublishPcs =>
                /\ index \in DOMAIN staged /\ op.sgen = staged[index].generation
                /\ op.source = staged[index].source /\ op.target = staged[index].target
    /\ RollingBack => ~IsOk(result)

(* Which files are staged and not yet copied, and which are published. *)
Awaits(i) ==
    \/ phase = "stage"
    \/ phase = "finalize" /\ (i > index \/ (i = index /\ op.pc \in {"idle", "copy"}))
IsPublished(i) ==
    \/ phase = "finalize" /\ (i < index \/ (i = index /\ op.pc \in CopyMadePcs))
    \/ phase = "end"

RecordsHeld ==
    /\ \A request \in wire : request.type # "delete"
    /\ \A i \in DOMAIN staged :
          Awaits(i) => Holds(StagingOf(i), staged[i].generation, captured[i])
    /\ \A i \in DOMAIN files : IsPublished(i) => HoldsData(files[i], captured[i])

(* The session of the upload in progress. *)
SessionOurs ==
    /\ session.target = StagingOf(index)
    /\ session.state = "complete" => Stored(session.generation)
    /\ disk[index].content = captured[index] =>
          /\ session.committed > 0 => session.data = captured[index]
          /\ late # NoChunk => late.data = captured[index]

TransferHeld ==
    /\ transfer.pc \in SessionPcs => SessionOurs
    /\ transfer.pc = "done" /\ IsOk(transfer.error) => Stored(transfer.generation)

UploadHeld ==
    /\ phase = "stage" /\ op.pc = "done" =>
          Holds(StagingOf(index), op.tgen, captured[index])
    /\ upload.pc = "verify" => Stored(upload.generation)
    /\ upload.pc = "chunks" => TransferHeld

PublishInv == FreshInv /\ ProgressInv /\ (Unfailed => RecordsHeld /\ UploadHeld)

-----------------------------------------------------------------------------
(* A step that takes no object away and leaves no delete on its way. *)
Adds ==
    /\ \A name \in Names : Present(name) => objects'[name] = objects[name]
    /\ \A request \in wire' : request \in wire \/ request.type # "delete"

(* The service takes nothing away when it executes anything but a delete. *)
LEMMA ProcessAdds ==
    ASSUME NEW request \in Requests, request.type # "delete", Process(request),
           objects \in [Names -> Versions]
    PROVE  \A name \in Names : Present(name) => objects'[name] = objects[name]
<1>0. request.name \in Names /\ request.to \in Names
  BY DEF Requests
<1>1. CASE request.type = "rewrite" /\ Status(request) = "Ok"
  <2>1. ~Present(request.to)
    BY <1>1 DEF Status
  <2>2. objects' = [objects EXCEPT ![request.to] =
                       [gen |-> nextGen, data |-> objects[request.name].data]]
    BY <1>1 DEF Process
  <2> QED BY <2>1, <2>2
<1>2. CASE request.type = "write" /\ Status(request) = "Ok"
  <2>1. ~Present(request.name)
    BY <1>2 DEF Status
  <2>2. objects' = [objects EXCEPT ![request.name] = [gen |-> nextGen, data |-> request.to]]
    BY <1>2 DEF Process
  <2> QED BY <2>1, <2>2
<1>3. CASE ~(request.type \in {"rewrite", "write"} /\ Status(request) = "Ok")
  BY <1>3 DEF Process, service
<1> QED BY <1>1, <1>2, <1>3

(* An answer is about a request that was executed. *)
LEMMA SendAnswered ==
    ASSUME NEW request, NEW e, Send(request, e), e = "Ok"
    PROVE  Process(request) /\ Status(request) = "Ok" /\ wire' = wire
BY DEF Send, Unsent, Answered, Abandoned, environment

(* Nor does sending it, whatever becomes of the request and its answer. *)
LEMMA SendAdds ==
    ASSUME ServiceInv, NEW request \in Requests, request.type # "delete", NEW e,
           Send(request, e)
    PROVE  Adds /\ meddled' = meddled
<1>0. objects \in [Names -> Versions]
  BY DEF ServiceInv, ServiceTypeOK
<1>1. /\ meddled' = meddled /\ (wire' = wire \/ wire' = wire \cup {request})
      /\ Process(request) \/ objects' = objects
  BY DEF Send, Unsent, Answered, Abandoned, Outcome, environment, service
<1> QED BY <1>0, <1>1, ProcessAdds DEF Adds

(* The service and the wire left alone. *)
LEMMA QuietAdds ==
    ASSUME UNCHANGED <<objects, wire>>
    PROVE  Adds
BY DEF Adds

(* A write that is answered. *)
LEMMA WriteAnswered ==
    ASSUME ServiceInv, NEW name \in Names, NEW data, Send(Write(name, data), "Ok")
    PROVE  objects'[name] = [gen |-> nextGen, data |-> data]
<1>1. Process(Write(name, data)) /\ Status(Write(name, data)) = "Ok"
  BY SendAnswered
<1>2. objects' = [objects EXCEPT ![name] = [gen |-> nextGen, data |-> data]]
  BY <1>1 DEF Process, Write
<1> QED BY <1>2 DEF ServiceInv, ServiceTypeOK

(* A rewrite that is answered. *)
LEMMA RewriteAnswered ==
    ASSUME ServiceInv, NEW name \in Names, NEW g \in Nat, NEW to \in Names,
           Send(Rewrite(name, g, to), "Ok")
    PROVE  objects'[to] = [gen |-> nextGen, data |-> objects[name].data]
<1>1. Process(Rewrite(name, g, to)) /\ Status(Rewrite(name, g, to)) = "Ok"
  BY SendAnswered
<1>2. objects' = [objects EXCEPT ![to] = [gen |-> nextGen, data |-> objects[name].data]]
  BY <1>1 DEF Process, Rewrite
<1> QED BY <1>2 DEF ServiceInv, ServiceTypeOK

(* A delete that is answered. *)
LEMMA DeleteAnswered ==
    ASSUME ServiceInv, NEW name \in Names, NEW g \in Nat, Send(Delete(name, g), "Ok")
    PROVE  /\ wire' = wire /\ meddled' = meddled
           /\ \A other \in Names : other # name => objects'[other] = objects[other]
<1>1. /\ Process(Delete(name, g)) /\ Status(Delete(name, g)) = "Ok" /\ wire' = wire
  BY SendAnswered
<1>2. objects' = [objects EXCEPT ![name] = Absent]
  BY <1>1 DEF Process, Delete
<1>3. meddled' = meddled
  BY DEF Send, Unsent, Answered, Abandoned, environment
<1> QED BY <1>1, <1>2, <1>3 DEF ServiceInv, ServiceTypeOK

-----------------------------------------------------------------------------
(* The names of the files and of their staged objects are all different. *)
LEMMA FileNames ==
    ASSUME FilesInv
    PROVE  /\ \A i \in DOMAIN files :
                 /\ files[i] \in Names /\ StagingOf(i) \in Names /\ captured[i] \in Names
                 /\ i \in Nat /\ i > 0 /\ i <= Len(files)
           /\ \A i, j \in DOMAIN files : StagingOf(i) # files[j]
           /\ \A i, j \in DOMAIN files :
                 i # j => files[i] # files[j] /\ StagingOf(i) # StagingOf(j)
           /\ Len(files) \in Nat /\ DOMAIN files = 1..Len(files)
<1>1. files \in Discoveries /\ files \in Seq(Names)
  BY StagingAssumption DEF FilesInv
<1>2. \A i, j \in DOMAIN files : StagingOf(i) # files[j]
  BY <1>1, StagingAssumption DEF StagingOf
<1>3. \A i, j \in DOMAIN files : i # j => files[i] # files[j] /\ StagingOf(i) # StagingOf(j)
  BY <1>1, StagingAssumption DEF StagingOf
<1>4. Len(files) \in Nat /\ DOMAIN files = 1..Len(files)
  BY <1>1
<1>5. \A i \in DOMAIN files :
         /\ files[i] \in Names /\ StagingOf(i) \in Names /\ captured[i] \in Names
         /\ i \in Nat /\ i > 0 /\ i <= Len(files)
  BY <1>1, <1>4, StagingAssumption DEF StagingOf, FilesInv
<1> QED BY <1>2, <1>3, <1>4, <1>5

(* What is stored stays where it is. *)
LEMMA HeldKept ==
    ASSUME FilesInv, Adds, UNCHANGED <<files, index, disk, captured>>
    PROVE  /\ \A i \in DOMAIN files : \A g, data :
                 Holds(StagingOf(i), g, data) => Holds(StagingOf(i), g, data)'
           /\ \A i \in DOMAIN files : \A data :
                 HoldsData(files[i], data) => HoldsData(files[i], data)'
           /\ index \in DOMAIN files => \A g : Stored(g) => Stored(g)'
<1>1. \A i \in DOMAIN files : files[i] \in Names /\ StagingOf(i) \in Names
  BY FileNames
<1>2. \A i \in DOMAIN files : StagingOf(i)' = StagingOf(i)
  BY DEF StagingOf
<1>3. \A name \in Names : Present(name) => Present(name)' /\ objects'[name] = objects[name]
  BY DEF Adds, Present
<1>4. \A i \in DOMAIN files : \A data : HoldsData(files[i], data) => HoldsData(files[i], data)'
  BY <1>1, <1>3 DEF HoldsData, Present
<1>5. \A i \in DOMAIN files : \A g, data :
         Holds(StagingOf(i), g, data) => Holds(StagingOf(i), g, data)'
  BY <1>1, <1>2, <1>3 DEF Holds, HoldsData, Present
<1>6. ASSUME index \in DOMAIN files, NEW g, Stored(g) PROVE Stored(g)'
  BY <1>1, <1>2, <1>3, <1>6 DEF Stored, Present
<1> QED BY <1>4, <1>5, <1>6

(* The staged changes are those of the first files. *)
LEMMA StagedFiles ==
    ASSUME UploadInv, ProgressInv, phase \in {"stage", "finalize"}
    PROVE  /\ DOMAIN staged \subseteq DOMAIN files
           /\ Len(staged) \in Nat /\ DOMAIN staged = 1..Len(staged)
           /\ Len(uploads) = Len(files) /\ DOMAIN uploads = DOMAIN files
           /\ \A i \in DOMAIN files :
                 uploads[i].staging = StagingOf(i) /\ uploads[i].target = files[i]
<1>1. Len(files) \in Nat /\ DOMAIN files = 1..Len(files)
  BY FileNames DEF UploadInv
<1>2. Len(staged) \in Nat /\ DOMAIN staged = 1..Len(staged) /\ Len(staged) <= Len(files)
  BY DEF UploadInv, TransactionInv, TransactionTypeOK, ProgressInv
<1>3. uploads = [i \in DOMAIN files |-> PlannedUpload(files[i])]
  BY DEF ProgressInv
<1>4. DOMAIN uploads = DOMAIN files /\ uploads \in Seq(PlannedUploads)
  BY <1>3 DEF UploadInv, FilesInv
<1>5. Len(uploads) \in Nat /\ DOMAIN uploads = 1..Len(uploads)
  BY <1>4
<1>6. Len(uploads) = Len(files)
  BY <1>1, <1>4, <1>5
<1> QED BY <1>1, <1>2, <1>3, <1>4, <1>6 DEF PlannedUpload, StagingOf

(* The records are kept when no file is awaited or published anew. *)
LEMMA RecordsHeldKept ==
    ASSUME FilesInv, RecordsHeld, Adds, UNCHANGED <<files, index, disk, captured, staged>>,
           \A i \in DOMAIN staged : Awaits(i)' => i \in DOMAIN files /\ Awaits(i),
           \A i \in DOMAIN files : IsPublished(i)' => IsPublished(i)
    PROVE  RecordsHeld'
<1>1. \A request \in wire' : request.type # "delete"
  BY DEF Adds, RecordsHeld
<1>2. ASSUME NEW i \in DOMAIN files, IsPublished(i)' PROVE HoldsData(files[i], captured[i])'
  BY <1>2, HeldKept DEF RecordsHeld, HoldsData, Present
<1>3. ASSUME NEW i \in DOMAIN staged, Awaits(i)'
      PROVE  Holds(StagingOf(i), staged[i].generation, captured[i])'
  <2>1. i \in DOMAIN files /\ Holds(StagingOf(i), staged[i].generation, captured[i])
    BY <1>3 DEF RecordsHeld
  <2> QED BY <2>1, HeldKept DEF Holds, HoldsData, Present
<1> QED BY <1>1, <1>2, <1>3 DEF RecordsHeld

-----------------------------------------------------------------------------
(* The session of the upload in progress. *)

(* The object of a session appears where there was none. *)
LEMMA CompleteAdds ==
    ASSUME ServiceInv, NEW kept \in Sessions, Complete(kept)
    PROVE  \A name \in Names : Present(name) => objects'[name] = objects[name]
<1>1. CASE Present(kept.target)
  BY <1>1 DEF Complete, service
<1>2. CASE ~Present(kept.target)
  <2>1. objects' = [objects EXCEPT ![kept.target] = [gen |-> nextGen, data |-> kept.data]]
    BY <1>2 DEF Complete
  <2> QED BY <1>2, <2>1 DEF ServiceInv, ServiceTypeOK
<1> QED BY <1>1, <1>2

(* The object of a session has the bytes that the session has kept. *)
LEMMA CompleteHeld ==
    ASSUME ServiceInv, FilesInv, index \in DOMAIN files, NEW kept \in Sessions,
           kept.state = "open", kept.target = StagingOf(index),
           disk[index].content = captured[index] => kept.data = captured[index],
           Complete(kept), UNCHANGED <<files, index, disk, captured>>
    PROVE  /\ session'.target = kept.target /\ session'.data = kept.data
           /\ session'.state = "complete" => Stored(session.generation)'
<1>0. /\ StagingOf(index) \in Names /\ StagingOf(index)' = StagingOf(index)
      /\ objects \in [Names -> Versions] /\ nextGen \in Nat \ {0}
  BY FileNames DEF ServiceInv, ServiceTypeOK, StagingOf
<1>1. CASE Present(kept.target)
  BY <1>1 DEF Complete
<1>2. CASE ~Present(kept.target)
  <2>1. /\ session' = [kept EXCEPT !.state = "complete", !.generation = nextGen]
        /\ objects' = [objects EXCEPT ![kept.target] = [gen |-> nextGen, data |-> kept.data]]
    BY <1>2 DEF Complete
  <2>2. /\ session'.target = kept.target /\ session'.data = kept.data
        /\ session'.generation = nextGen
    BY <2>1 DEF Sessions
  <2>3. objects'[StagingOf(index)] = [gen |-> nextGen, data |-> kept.data]
    BY <1>0, <2>1
  <2>4. Stored(session.generation)'
    BY <1>0, <2>2, <2>3 DEF Stored, Present
  <2> QED BY <2>2, <2>4
<1> QED BY <1>1, <1>2

(* A chunk adds to the session the bytes it carries. *)
LEMMA ProcessChunkAdds ==
    ASSUME ServiceInv, SessionInv, NEW first \in 0..Size, NEW data \in Contents,
           ProcessChunk(first, data)
    PROVE  \A name \in Names : Present(name) => objects'[name] = objects[name]
<1>1. CASE UNCHANGED service
  BY <1>1 DEF service
<1>2. ASSUME NEW c \in Kept(first),
             Complete([session EXCEPT !.committed = c, !.data = Blend(c, data)])
      PROVE  \A name \in Names : Present(name) => objects'[name] = objects[name]
  <2>1. CASE Present(session.target)
    BY <1>2, <2>1 DEF Complete, service, SessionInv, Sessions
  <2>2. CASE ~Present(session.target)
    <3>1. PICK version :
             objects' = [objects EXCEPT ![session.target] = version]
      BY <1>2, <2>2 DEF Complete, SessionInv, Sessions
    <3> QED BY <2>2, <3>1 DEF ServiceInv, ServiceTypeOK
  <2> QED BY <2>1, <2>2
<1> QED BY <1>1, <1>2 DEF ProcessChunk

(* A chunk of the captured bytes leaves the session with the captured      *)
(* bytes, whatever part of it is kept.                                     *)
LEMMA ProcessChunkHeld ==
    ASSUME ServiceInv, SessionInv, FilesInv, index \in DOMAIN files, SessionOurs,
           NEW first \in 0..Size, NEW data \in Contents, ProcessChunk(first, data),
           disk[index].content = captured[index] => data = captured[index],
           late' = late \/ late' = NoChunk \/ late'.data = data,
           wire' = wire, UNCHANGED <<files, index, disk, captured>>
    PROVE  SessionOurs' /\ Adds
<1>0. /\ session \in Sessions /\ session.committed \in 0..Size /\ Size \in Nat \ {0}
      /\ StagingOf(index)' = StagingOf(index)
  BY ResumableAssumption DEF SessionInv, Sessions, StagingOf
<1>1. Adds
  BY ProcessChunkAdds DEF Adds
<1>2. \A g : Stored(g) => Stored(g)'
  BY <1>1, HeldKept
<1>3. disk[index].content = captured[index] /\ late' # NoChunk => late'.data = captured[index]
  BY DEF SessionOurs
<1>4. CASE session' = session
  <2>1. session'.state = "complete" => Stored(session.generation)'
    BY <1>2, <1>4 DEF SessionOurs, Stored
  <2> QED BY <1>0, <1>1, <1>3, <1>4, <2>1 DEF SessionOurs
<1>5. ASSUME NEW c \in Kept(first), session.state = "open",
             LET kept == [session EXCEPT !.committed = c, !.data = Blend(c, data)]
             IN  \/ session' = kept /\ UNCHANGED service
                 \/ c = Size /\ Complete(kept)
      PROVE  SessionOurs'
  <2> DEFINE kept == [session EXCEPT !.committed = c, !.data = Blend(c, data)]
  <2>1. c \in 0..Size /\ c >= session.committed
    BY <1>0, <1>5, ResumableAssumption DEF Kept, ChunkEnd, Lesser
  <2>2. Blend(c, data) \in Contents
    BY ResumableAssumption DEF Blend, Contents, SessionInv, Sessions
  <2>3. /\ kept \in Sessions /\ kept.state = "open" /\ kept.target = session.target
        /\ kept.committed = c /\ kept.data = Blend(c, data)
    BY <1>0, <1>5, <2>1, <2>2 DEF Sessions
  <2>4. disk[index].content = captured[index] /\ c > 0 => kept.data = captured[index]
    BY <1>0, <2>1, <2>3 DEF SessionOurs, Blend
  <2> HIDE DEF kept
  <2>5. CASE session' = kept
    BY <1>0, <1>3, <2>3, <2>4, <2>5 DEF SessionOurs
  <2>6. CASE c = Size /\ Complete(kept)
    <3>1. /\ session'.target = kept.target /\ session'.data = kept.data
          /\ session'.state = "complete" => Stored(session.generation)'
      BY <1>0, <2>3, <2>4, <2>6, CompleteHeld DEF SessionOurs
    <3>2. disk[index].content = captured[index] => session'.data = captured[index]
      BY <1>0, <2>4, <2>6, <3>1
    <3> QED BY <1>0, <1>3, <2>3, <3>1, <3>2 DEF SessionOurs
  <2> QED BY <1>5, <2>5, <2>6 DEF kept
<1> QED BY <1>1, <1>4, <1>5 DEF ProcessChunk

(* A query may complete it. *)
LEMMA ProcessQueryHeld ==
    ASSUME ServiceInv, SessionInv, FilesInv, index \in DOMAIN files, SessionOurs,
           ProcessQuery, UNCHANGED <<late, wire, files, index, disk, captured>>
    PROVE  SessionOurs' /\ Adds
<1>0. /\ session \in Sessions /\ session.committed \in 0..Size /\ Size \in Nat \ {0}
      /\ StagingOf(index)' = StagingOf(index)
  BY ResumableAssumption DEF SessionInv, Sessions, StagingOf
<1>1. CASE UNCHANGED <<session, service>>
  <2>1. Adds
    BY <1>1 DEF Adds, service
  <2>2. session'.state = "complete" => Stored(session.generation)'
    BY <1>1, <2>1, HeldKept DEF SessionOurs, Stored
  <2> QED BY <1>0, <1>1, <2>1, <2>2 DEF SessionOurs
<1>2. CASE session.state = "open" /\ session.committed = Size /\ Complete(session)
  <2>1. Adds
    BY <1>0, <1>2, CompleteAdds DEF Adds
  <2>2. disk[index].content = captured[index] => session.data = captured[index]
    BY <1>0, <1>2 DEF SessionOurs
  <2>3. /\ session'.target = session.target /\ session'.data = session.data
        /\ session'.state = "complete" => Stored(session.generation)'
    BY <1>0, <1>2, <2>2, CompleteHeld DEF SessionOurs
  <2> QED BY <1>0, <2>1, <2>2, <2>3 DEF SessionOurs
<1> QED BY <1>1, <1>2 DEF ProcessQuery

(* What the requests of a session leave of it. *)
LEMMA SessionRequests ==
    ASSUME ServiceInv, SessionInv, FilesInv, index \in DOMAIN files, SessionOurs,
           transfer.offset \in 0..Size, NEW e,
           \/ SendChunk(disk[index].content, e)
           \/ SendQuery(e)
           \/ FetchToken(e),
           UNCHANGED <<files, index, disk, captured>>
    PROVE  SessionOurs' /\ Adds /\ meddled' = meddled
<1>0. disk[index].content \in Contents /\ StagingOf(index)' = StagingOf(index)
  BY DEF FilesInv, Contents, StagingOf
<1>1. meddled' = meddled /\ wire' = wire
  BY DEF SendChunk, SendQuery, FetchToken, NotExecuted, AnswerLost, Calm, environment
<1>2. CASE UNCHANGED <<session, service>>
           /\ (late' = late \/ late' = NoChunk \/ late'.data = disk[index].content)
  <2>1. Adds
    BY <1>1, <1>2 DEF Adds, service
  <2>2. session'.state = "complete" => Stored(session.generation)'
    BY <1>2, <2>1, HeldKept DEF SessionOurs, Stored
  <2> QED BY <1>0, <1>1, <1>2, <2>1, <2>2 DEF SessionOurs
<1>3. CASE ProcessChunk(transfer.offset, disk[index].content) /\ late' = late
  BY <1>0, <1>1, <1>3, ProcessChunkHeld
<1>4. CASE ProcessQuery /\ late' = late
  BY <1>1, <1>4, ProcessQueryHeld
<1> QED BY <1>2, <1>3, <1>4
       DEF SendChunk, SendQuery, FetchToken, NotExecuted, Untouched

(* A transfer that is over without success, or still in its first steps. *)
LEMMA TransferMeans ==
    ASSUME TransferInv
    PROVE  /\ \A pc \in TransferPcs :
                 TransferGoto(pc) => transfer'.pc = pc /\ transfer'.error = transfer.error
           /\ \A pc \in TransferPcs : NextAttempt(pc) => transfer'.pc = pc
           /\ \A error : Finished(error) => transfer'.pc = "done" /\ transfer'.error = error
           /\ \A error : Cancel(error) => transfer'.pc = "cancel"
           /\ Completed => transfer'.pc = "done" /\ transfer'.generation = session'.generation
           /\ \A next : Advance(next) => transfer'.pc \in {"cancel", "chunk", "finalQuery"}
<1>0. transfer \in Transfers
  BY DEF TransferInv
<1>1. \A pc : TransferGoto(pc) => transfer'.pc = pc /\ transfer'.error = transfer.error
  BY <1>0 DEF TransferGoto, Transfers
<1>2. \A pc : NextAttempt(pc) => transfer'.pc = pc
  BY <1>0 DEF NextAttempt, Transfers
<1>3. \A error : /\ Finished(error) => transfer'.pc = "done" /\ transfer'.error = error
                 /\ Cancel(error) => transfer'.pc = "cancel"
  BY <1>0 DEF Finished, Cancel, Transfers
<1>4. Completed => transfer'.pc = "done" /\ transfer'.generation = session'.generation
  BY <1>0 DEF Completed, Transfers
<1>5. \A next : Advance(next) => transfer'.pc \in {"cancel", "chunk", "finalQuery"}
  BY <1>0, <1>3 DEF Advance, Transfers
<1> QED BY <1>1, <1>2, <1>3, <1>4, <1>5

(* Every step of upload_resumable_locked leaves the session the one of the *)
(* file at hand, and success means that its object is there.               *)
LEMMA ResumableHeld ==
    ASSUME ServiceInv, SessionInv, TransferInv, FilesInv, index \in DOMAIN files,
           TransferHeld, transfer.pc # "done", NEW opens,
           ResumableStep(StagingOf(index), opens, disk[index].content),
           UNCHANGED <<files, index, disk, captured>>
    PROVE  TransferHeld' /\ Adds /\ meddled' = meddled
<1>0. /\ transfer.offset \in 0..Size /\ StagingOf(index) \in Names
      /\ StagingOf(index)' = StagingOf(index) /\ disk[index].content \in Names
  BY FileNames DEF TransferInv, Transfers, StagingOf, FilesInv
<1>k. /\ \A e \in ErrorKinds : e # "Ok" => ~IsOk(Err(e))
      /\ TokenKinds \cup {"Ok"} \subseteq ErrorKinds
  BY DEF IsOk, Err, ErrorKinds
<1> USE DEF TransferPcs, SessionPcs
<1>1. CASE FirstToken \/ RestartToken
  <2>1. PICK e \in TokenKinds \cup {"Ok"} :
           /\ FetchToken(e)
           /\ transfer'.pc = "start" \/ (e # "Ok" /\ Finished(Err(e)))
    BY <1>1, TransferMeans DEF FirstToken, RestartToken, TransferInv, Transfers
  <2>2. Adds /\ meddled' = meddled
    BY <2>1 DEF FetchToken, Adds, service
  <2> QED BY <1>k, <2>1, <2>2, TransferMeans DEF TransferHeld
<1>2. CASE StartResumableSession(StagingOf(index))
  <2>1. PICK e \in ErrorKinds :
           /\ SendStart(StagingOf(index), e)
           /\ \/ e = "Ok" /\ transfer'.pc = "chunk"
              \/ transfer'.pc \in {"restart", "start"}
              \/ e # "Ok" /\ Finished(Err(e))
    BY <1>2, TransferMeans DEF StartResumableSession, TransferInv, Transfers
  <2>2. /\ Adds /\ meddled' = meddled
    BY <2>1 DEF SendStart, NotExecuted, AnswerLost, Untouched, Calm, Adds, service, environment
  <2>3. CASE e = "Ok" /\ transfer'.pc = "chunk"
    <3>1. /\ session' = [NoSession EXCEPT !.state = "open", !.target = StagingOf(index)]
          /\ late' = NoChunk
      BY <2>1, <2>3 DEF SendStart, NotExecuted, AnswerLost
    <3>2. SessionOurs'
      BY <1>0, <3>1 DEF SessionOurs, NoSession
    <3> QED BY <2>2, <2>3, <3>2 DEF TransferHeld
  <2>4. CASE transfer'.pc \in {"restart", "start"} \/ (e # "Ok" /\ Finished(Err(e)))
    BY <1>k, <2>2, <2>4, TransferMeans DEF TransferHeld
  <2> QED BY <2>1, <2>3, <2>4
<1>3. CASE UploadResumableChunk(opens, disk[index].content)
  <2>0. SessionOurs
    BY <1>3 DEF UploadResumableChunk, TransferHeld
  <2>1. CASE ~opens
    <3>1. Cancel(Err("UploadSource")) /\ UNCHANGED <<service, environment>>
      BY <1>3, <2>1 DEF UploadResumableChunk
    <3> QED BY <3>1, TransferMeans DEF TransferHeld, Adds, service, environment
  <2>2. CASE opens
    <3>1. PICK e \in ErrorKinds :
             /\ SendChunk(disk[index].content, e)
             /\ \/ e = "Ok" /\ ChunkAnswered
                \/ TransferGoto("refresh") \/ TransferGoto("query")
                \/ Cancel(Err(e))
      BY <1>3, <2>2 DEF UploadResumableChunk
    <3>2. SessionOurs' /\ Adds /\ meddled' = meddled
      BY <1>0, <2>0, <3>1, SessionRequests
    <3>3. CASE ChunkAnswered
      BY <3>2, <3>3, TransferMeans DEF ChunkAnswered, TransferHeld, SessionOurs, Stored
    <3>4. CASE TransferGoto("refresh") \/ TransferGoto("query") \/ Cancel(Err(e))
      BY <3>2, <3>4, TransferMeans DEF TransferHeld
    <3> QED BY <3>1, <3>3, <3>4
  <2> QED BY <2>1, <2>2
<1>4. CASE RefreshToken \/ RequeryToken \/ FinalRefresh
  <2>0. SessionOurs
    BY <1>4 DEF RefreshToken, RequeryToken, FinalRefresh, TransferHeld
  <2>1. PICK e \in TokenKinds \cup {"Ok"} :
           /\ FetchToken(e)
           /\ \/ TransferGoto("query") \/ NextAttempt("chunk")
              \/ \E error : Cancel(error)
    BY <1>4 DEF RefreshToken, RequeryToken, FinalRefresh
  <2>2. SessionOurs' /\ Adds /\ meddled' = meddled
    BY <1>0, <2>0, <2>1, SessionRequests
  <2> QED BY <2>1, <2>2, TransferMeans DEF TransferHeld
<1>5. CASE QueryResumableProgress \/ FinalQuery
  <2>0. SessionOurs
    BY <1>5 DEF QueryResumableProgress, FinalQuery, TransferHeld
  <2>1. PICK e \in ErrorKinds :
           /\ SendQuery(e)
           /\ \/ session'.state = "complete" /\ Completed
              \/ NextAttempt("chunk") \/ Advance(session'.committed)
              \/ TransferGoto("requery") \/ TransferGoto("finalRefresh")
              \/ \E error : Cancel(error)
    BY <1>5 DEF QueryResumableProgress, FinalQuery
  <2>2. SessionOurs' /\ Adds /\ meddled' = meddled
    BY <1>0, <2>0, <2>1, SessionRequests
  <2>3. CASE session'.state = "complete" /\ Completed
    BY <2>2, <2>3, TransferMeans DEF TransferHeld, SessionOurs, Stored
  <2>4. CASE \/ NextAttempt("chunk") \/ Advance(session'.committed)
             \/ TransferGoto("requery") \/ TransferGoto("finalRefresh")
             \/ \E error : Cancel(error)
    BY <2>2, <2>4, TransferMeans DEF TransferHeld
  <2> QED BY <2>1, <2>3, <2>4
<1>6. CASE ClearInterruptForCancel
  BY <1>6, TransferMeans DEF ClearInterruptForCancel, TransferHeld, Adds, service, environment
<1>7. CASE CancelResumableSession
  <2>1. PICK e \in ErrorKinds : SendCancel(e) /\ Finished(Rollback(transfer.error, e # "Ok"))
    BY <1>7 DEF CancelResumableSession
  <2>2. Adds /\ meddled' = meddled
    BY <2>1 DEF SendCancel, ProcessCancel, NotExecuted, AnswerLost, Untouched, Calm, Adds,
       service, environment
  <2>3. ~IsOk(Rollback(transfer.error, e # "Ok"))
    BY <1>7 DEF CancelResumableSession, TransferInv, Transfers, AppErrors, IsOk, Rollback
  <2> QED BY <2>1, <2>2, <2>3, TransferMeans DEF TransferHeld
<1> QED BY <1>1, <1>2, <1>3, <1>4, <1>5, <1>6, <1>7 DEF ResumableStep

-----------------------------------------------------------------------------
(* The steps of an upload. *)
LEMMA UploadFrameHeld ==
    ASSUME UploadInv, PublishInv, upload.pc # "idle",
           UNCHANGED <<transactionVars, plan, localVars>>, Adds, meddled' = meddled,
           op' = Idle \/ (op'.pc = "done" /\ op'.caller = "move"),
           captured' \in [DOMAIN files -> Names],
           \A i \in DOMAIN files : \/ captured'[i] = captured[i]
                                   \/ i = index /\ captured'[i] = disk[i].content
    PROVE  /\ FreshInv' /\ ProgressInv' /\ (meddled = 0 => RecordsHeld')
           /\ phase = "stage" /\ index \in DOMAIN files /\ FilesInv
           /\ Unfailed' => Unfailed /\ meddled = 0 /\ UploadHeld
           /\ uploads[index].staging = StagingOf(index)
<1>0. /\ phase = "stage" /\ index \in DOMAIN uploads /\ op = Idle /\ FilesInv
      /\ FreshInv /\ ProgressInv /\ index = Len(staged) + 1 /\ staged \in Seq(RemoteChanges)
  BY DEF UploadInv, UploadingInv, PublishInv, TransactionInv, TransactionIndexInv,
     TransactionTypeOK
<1>1. /\ DOMAIN staged \subseteq DOMAIN files /\ DOMAIN uploads = DOMAIN files
      /\ Len(staged) \in Nat /\ DOMAIN staged = 1..Len(staged)
      /\ uploads[index].staging = StagingOf(index)
  BY <1>0, StagedFiles
<1>2. /\ UNCHANGED <<phase, index, staged, files, uploads, disk, edits, result>>
  BY DEF transactionVars, plan, localVars
<1>3. Unfailed' => meddled = 0
  BY DEF Unfailed
<1>4. meddled = 0 => Unfailed
  BY <1>0 DEF Unfailed
<1>5. FreshInv'
  BY <1>0, <1>2 DEF FreshInv
<1>6. ProgressInv'
  BY <1>0, <1>1, <1>2 DEF ProgressInv, StagingOf, RollingBack
<1>7. ASSUME meddled = 0 PROVE RecordsHeld'
  <2>0. RecordsHeld
    BY <1>4, <1>7 DEF PublishInv
  <2>1. \A request \in wire' : request.type # "delete"
    BY <2>0 DEF Adds, RecordsHeld
  <2>2. \A i \in DOMAIN files : ~IsPublished(i)'
    BY <1>0, <1>2 DEF IsPublished
  <2>3. ASSUME NEW i \in DOMAIN staged
        PROVE  Holds(StagingOf(i), staged[i].generation, captured[i])'
    <3>1. /\ i \in DOMAIN files /\ captured'[i] = captured[i]
          /\ StagingOf(i) \in Names /\ StagingOf(i)' = StagingOf(i)
      BY <1>0, <1>1, <1>2, FileNames DEF StagingOf
    <3>2. Holds(StagingOf(i), staged[i].generation, captured[i])
      BY <1>0, <2>0 DEF RecordsHeld, Awaits
    <3> QED BY <1>2, <3>1, <3>2 DEF Holds, HoldsData, Adds, Present
  <2> QED BY <1>2, <2>1, <2>2, <2>3 DEF RecordsHeld
<1> QED BY <1>0, <1>1, <1>3, <1>4, <1>5, <1>6, <1>7 DEF PublishInv

(* What the ways an upload goes on mean for UploadHeld. *)
LEMMA UploadMeans ==
    ASSUME UploadInv, upload.pc # "idle", FilesInv, index \in DOMAIN files
    PROVE  /\ \A pc : UploadGoto(pc) => upload'.pc = pc /\ op' = Idle
           /\ \A error : UploadFails(error) => upload'.pc = "failed" /\ op' = Idle
           /\ \A error : Retry(error) => upload'.pc = "open" /\ op' = Idle
           /\ \A error, g : UploadReturns(error, g) =>
                 /\ upload'.pc = "idle" /\ op'.pc = "done" /\ op'.caller = "move"
                 /\ op'.error = error /\ op'.tgen = g
<1>0. upload \in Uploads /\ op = Idle
  BY DEF UploadInv, UploadingInv
<1>1. \A pc : UploadGoto(pc) => upload'.pc = pc /\ op' = Idle
  BY <1>0 DEF UploadGoto, Uploads
<1>2. \A error : /\ UploadFails(error) => upload'.pc = "failed" /\ op' = Idle
                 /\ Retry(error) => upload'.pc = "open" /\ op' = Idle
  BY <1>0 DEF UploadFails, Retry, Uploads
<1>3. \A error, g : UploadReturns(error, g) =>
         /\ upload'.pc = "idle" /\ op'.pc = "done" /\ op'.caller = "move"
         /\ op'.error = error /\ op'.tgen = g
  BY DEF UploadReturns, NoUpload, Call
<1> QED BY <1>1, <1>2, <1>3

(* Steps of the upload that send nothing: the fingerprint, opening and     *)
(* comparing the file.  A file that compares equal after the upload has    *)
(* the bytes it had before, so the stored object has them too.             *)
LEMMA LocalStepHeld ==
    ASSUME UploadInv, PublishInv,
           CaptureFingerprint \/ OpenSource \/ EndResumable \/ VerifySent
           \/ ConfirmedUploadFailure
    PROVE  PublishInv'
<1>0. /\ upload.pc # "idle" /\ UNCHANGED <<service, environment, transactionVars, plan, localVars>>
  BY DEF CaptureFingerprint, OpenSource, EndResumable, VerifySent, ConfirmedUploadFailure
<1>1. /\ phase = "stage" /\ index \in DOMAIN files /\ FilesInv /\ upload \in Uploads
      /\ captured \in [DOMAIN files -> Names] /\ disk[index].content \in Names /\ op = Idle
  BY <1>0, UploadIndex DEF UploadInv, UploadingInv, FilesInv
<1>2. Adds /\ meddled' = meddled
  BY <1>0 DEF Adds, service, environment
<1>3. UNCHANGED <<phase, index, files, uploads, disk, objects>>
  BY <1>0 DEF transactionVars, plan, localVars, service
<1>s. ~("idle" \in {"done"}) /\ Idle.pc # "done"
  BY DEF Idle
<1>4. CASE CaptureFingerprint
  <2>1. /\ upload'.pc \in {"open", "failed"} /\ op' = Idle
        /\ \/ captured' = captured
           \/ captured' = [captured EXCEPT ![index] = disk[index].content]
    BY <1>0, <1>1, <1>4, UploadMeans DEF CaptureFingerprint, Fingerprint, Uploads
  <2>2. /\ captured' \in [DOMAIN files -> Names]
        /\ \A i \in DOMAIN files : \/ captured'[i] = captured[i]
                                   \/ i = index /\ captured'[i] = disk[i].content
    BY <1>1, <2>1
  <2>3. FreshInv' /\ ProgressInv' /\ (Unfailed' => RecordsHeld')
    BY <1>0, <1>2, <2>1, <2>2, UploadFrameHeld
  <2>4. UploadHeld'
    BY <1>s, <2>1 DEF UploadHeld
  <2> QED BY <2>3, <2>4 DEF PublishInv
<1>5. CASE OpenSource
  <2>1. /\ op' = Idle /\ captured' = captured
        /\ \/ upload'.pc \in {"send", "failed"}
           \/ upload'.pc = "chunks" /\ transfer'.pc = "token"
    BY <1>0, <1>1, <1>5, UploadMeans DEF OpenSource, BeginTransfer, NoTransfer
  <2>2. FreshInv' /\ ProgressInv' /\ (Unfailed' => RecordsHeld')
    BY <1>0, <1>1, <1>2, <2>1, UploadFrameHeld
  <2>3. UploadHeld'
    BY <1>s, <2>1 DEF UploadHeld, TransferHeld, SessionPcs
  <2> QED BY <2>2, <2>3 DEF PublishInv
<1>6. CASE EndResumable
  <2>1. /\ op' = Idle /\ captured' = captured
        /\ \/ upload'.pc = "failed"
           \/ /\ upload'.pc = "verify" /\ upload'.generation = transfer.generation
              /\ IsOk(transfer.error) /\ transfer.pc = "done" /\ upload.pc = "chunks"
    BY <1>0, <1>1, <1>6, UploadMeans DEF EndResumable, Uploads
  <2>2. /\ FreshInv' /\ ProgressInv' /\ (Unfailed' => RecordsHeld')
        /\ Unfailed' => UploadHeld
    BY <1>0, <1>1, <1>2, <2>1, UploadFrameHeld
  <2>3. ASSUME UploadHeld PROVE UploadHeld'
    <3>1. \A g : Stored(g) => Stored(g)'
      BY <1>1, <1>2, <1>3, <2>1, HeldKept
    <3>2. upload'.pc = "verify" => Stored(upload.generation)'
      BY <2>1, <2>3, <3>1 DEF UploadHeld, TransferHeld, Stored
    <3> QED BY <1>s, <2>1, <3>2 DEF UploadHeld
  <2> QED BY <2>2, <2>3 DEF PublishInv
<1>7. CASE VerifySent
  <2>0. upload.pc = "verify" /\ captured' = captured
    BY <1>7 DEF VerifySent
  <2>1. CASE disk[index].content = captured[index]
    <3>1. /\ upload'.pc = "idle" /\ op'.pc = "done" /\ op'.caller = "move"
          /\ op'.tgen = upload.generation
      BY <1>0, <1>1, <1>7, <2>1, UploadMeans
         DEF VerifySent, VerifyUploadFingerprint, Fingerprint
    <3>2. /\ FreshInv' /\ ProgressInv' /\ (Unfailed' => RecordsHeld')
          /\ Unfailed' => UploadHeld
      BY <1>0, <1>1, <1>2, <2>0, <3>1, UploadFrameHeld
    <3>3. ASSUME UploadHeld PROVE Holds(StagingOf(index), op.tgen, captured[index])'
      BY <1>3, <2>0, <2>1, <3>1, <3>3
         DEF UploadHeld, Stored, Holds, HoldsData, Present, StagingOf
    <3>4. UploadHeld => UploadHeld'
      BY <3>1, <3>3 DEF UploadHeld
    <3> QED BY <3>2, <3>4 DEF PublishInv
  <2>2. CASE disk[index].content # captured[index]
    <3>1. upload'.pc = "failed" /\ op' = Idle
      BY <1>0, <1>1, <1>7, <2>2, UploadMeans
         DEF VerifySent, VerifyUploadFingerprint, Fingerprint
    <3>2. FreshInv' /\ ProgressInv' /\ (Unfailed' => RecordsHeld')
      BY <1>0, <1>1, <1>2, <2>0, <3>1, UploadFrameHeld
    <3>3. UploadHeld'
      BY <1>s, <3>1 DEF UploadHeld
    <3> QED BY <3>2, <3>3 DEF PublishInv
  <2> QED BY <2>1, <2>2
<1>8. CASE ConfirmedUploadFailure
  <2>0. /\ upload.pc = "failed" /\ ~IsOk(upload.error) /\ captured' = captured
    BY <1>8 DEF ConfirmedUploadFailure, UploadInv, UploadingInv, Failure
  <2>1. \/ upload'.pc = "confirm" /\ op' = Idle
        \/ /\ upload'.pc = "idle" /\ op'.pc = "done" /\ op'.caller = "move"
           /\ op'.error = upload.error
    BY <1>0, <1>1, <1>8, UploadMeans DEF ConfirmedUploadFailure
  <2>2. FreshInv' /\ ProgressInv' /\ (Unfailed' => RecordsHeld')
    BY <1>0, <1>1, <1>2, <2>0, <2>1, UploadFrameHeld
  <2>3. Unfailed' => UploadHeld'
    BY <1>1, <1>3, <1>s, <2>0, <2>1 DEF UploadHeld, Unfailed, PublishPcs
  <2> QED BY <2>2, <2>3 DEF PublishInv
<1> QED BY <1>4, <1>5, <1>6, <1>7, <1>8

(* Steps that send: one attempt at a small file, a step of the resumable   *)
(* upload, and the look at the staged object after a failure.              *)
LEMMA SendStepHeld ==
    ASSUME UploadInv, PublishInv, SendUpload \/ SendResumable \/ ConfirmWrite
    PROVE  PublishInv'
<1>0. /\ upload.pc # "idle" /\ UNCHANGED <<transactionVars, plan, localVars, captured>>
  BY DEF SendUpload, SendResumable, ConfirmWrite
<1>1. /\ phase = "stage" /\ index \in DOMAIN files /\ FilesInv /\ upload \in Uploads
      /\ captured \in [DOMAIN files -> Names] /\ disk[index].content \in Names /\ op = Idle
      /\ Get(uploads[index].staging, 0) \in Requests
      /\ Write(uploads[index].staging, disk[index].content) \in Requests
  BY <1>0, UploadIndex DEF UploadInv, UploadingInv, FilesInv
<1>2. UNCHANGED <<phase, index, files, uploads, disk>>
  BY <1>0 DEF transactionVars, plan, localVars
<1>3. /\ ServiceInv /\ Idle.pc # "done" /\ ProgressInv
      /\ uploads[index].staging = StagingOf(index) /\ StagingOf(index) \in Names
  BY <1>1, UploadService, StagedFiles, FileNames DEF Idle, PublishInv
<1>4. CASE SendUpload
  <2>1. PICK e \in ErrorKinds :
           /\ Send(Write(StagingOf(index), disk[index].content), e)
           /\ IF e = "Ok"
              THEN /\ upload' = [upload EXCEPT !.pc = "verify", !.generation = nextGen]
                   /\ op' = op
              ELSE AttemptFails(Err(e))
    BY <1>3, <1>4 DEF SendUpload
  <2>2. Adds /\ meddled' = meddled
    BY <1>1, <1>3, <2>1, SendAdds DEF Write
  <2>3. CASE e = "Ok"
    <3>1. upload'.pc = "verify" /\ upload'.generation = nextGen /\ op' = Idle
      BY <1>1, <2>1, <2>3 DEF Uploads
    <3>2. objects'[StagingOf(index)] = [gen |-> nextGen, data |-> disk[index].content]
      BY <1>3, <2>1, <2>3, WriteAnswered
    <3>3. StagingOf(index)' = StagingOf(index) /\ nextGen # 0
      BY <1>2, <1>3 DEF StagingOf, ServiceInv, ServiceTypeOK
    <3>4. Stored(upload.generation)'
      BY <1>0, <1>2, <3>1, <3>2, <3>3 DEF Stored, Present
    <3>5. FreshInv' /\ ProgressInv' /\ (Unfailed' => RecordsHeld')
      BY <1>0, <1>1, <2>2, <3>1, UploadFrameHeld
    <3> QED BY <1>3, <3>1, <3>4, <3>5 DEF PublishInv, UploadHeld
  <2>4. CASE e # "Ok"
    <3>1. upload'.pc \in {"open", "failed"} /\ op' = Idle
      BY <1>0, <1>1, <2>1, <2>4, UploadMeans DEF AttemptFails
    <3>2. FreshInv' /\ ProgressInv' /\ (Unfailed' => RecordsHeld')
      BY <1>0, <1>1, <2>2, <3>1, UploadFrameHeld
    <3> QED BY <1>3, <3>1, <3>2 DEF PublishInv, UploadHeld
  <2> QED BY <2>3, <2>4
<1>5. CASE SendResumable
  <2>0. /\ upload.pc = "chunks" /\ transfer.pc # "done" /\ UNCHANGED <<op, upload>>
        /\ ResumableStep(StagingOf(index), SourceOpens(index), disk[index].content)
        /\ SessionInv /\ TransferInv
    BY <1>3, <1>5 DEF SendResumable, UploadInv
  <2>1. CASE meddled = 0
    <3>1. Unfailed
      BY <1>1, <2>1 DEF Unfailed
    <3>2. TransferHeld
      BY <2>0, <3>1 DEF PublishInv, UploadHeld
    <3>3. TransferHeld' /\ Adds /\ meddled' = meddled
      BY <1>0, <1>1, <1>2, <1>3, <2>0, <3>2, ResumableHeld
    <3>4. FreshInv' /\ ProgressInv' /\ (Unfailed' => RecordsHeld')
      BY <1>0, <1>1, <2>0, <3>3, UploadFrameHeld
    <3> QED BY <1>1, <1>3, <2>0, <3>3, <3>4 DEF PublishInv, UploadHeld
  <2>2. CASE meddled # 0
    <3>1. meddled' = meddled
      BY <1>1, <1>3, <2>0, ResumableStepInv DEF ServiceStep, UploadInv
    <3>2. ~Unfailed'
      BY <2>2, <3>1 DEF Unfailed
    <3>3. FreshInv'
      BY <1>0, <1>2 DEF FreshInv, PublishInv, localVars
    <3>4. ProgressInv'
      BY <1>0, <1>1, <1>3, <2>0
         DEF ProgressInv, transactionVars, plan, StagingOf, RollingBack
    <3> QED BY <3>2, <3>3, <3>4 DEF PublishInv
  <2> QED BY <2>1, <2>2
<1>6. CASE ConfirmWrite
  <2>0. /\ upload.pc = "confirm" /\ ~IsOk(upload.error)
    BY <1>6 DEF ConfirmWrite, UploadInv, UploadingInv, Failure
  <2>1. PICK e \in ErrorKinds :
           /\ Send(Get(StagingOf(index), 0), e)
           /\ \/ UploadReturns(upload.error, 0) \/ UploadReturns(Err("Recovery"), 0)
    BY <1>3, <1>6 DEF ConfirmWrite
  <2>2. Adds /\ meddled' = meddled
    BY <1>1, <1>3, <2>1, SendAdds DEF Get
  <2>3. /\ upload'.pc = "idle" /\ op'.pc = "done" /\ op'.caller = "move" /\ ~IsOk(op'.error)
    BY <1>0, <1>1, <2>0, <2>1, UploadMeans DEF IsOk, Err
  <2>4. FreshInv' /\ ProgressInv' /\ (Unfailed' => RecordsHeld')
    BY <1>0, <1>1, <2>2, <2>3, UploadFrameHeld
  <2>5. ~Unfailed'
    BY <1>1, <1>2, <1>3, <2>3 DEF Unfailed, PublishPcs, Idle
  <2> QED BY <2>4, <2>5 DEF PublishInv
<1> QED BY <1>4, <1>5, <1>6

(* The upload of the next file starts with nothing stored for it. *)
LEMMA BeginUploadHeld ==
    ASSUME UploadInv, PublishInv, BeginUpload
    PROVE  PublishInv'
<1>0. /\ phase = "stage" /\ index \in DOMAIN uploads /\ op = Idle /\ upload.pc = "idle"
      /\ UNCHANGED <<service, environment, op, staged, finalized, plan, captured, localVars>>
      /\ ProgressInv /\ FreshInv
  BY DEF BeginUpload, PublishInv
<1>1. /\ UNCHANGED <<files, uploads, disk, edits, objects, wire, meddled, captured, staged, op>>
      /\ Idle.pc # "done"
  BY <1>0 DEF plan, localVars, service, environment, Idle
<1>2. FreshInv'
  BY <1>0, <1>1 DEF FreshInv
<1>3. CASE interrupted
  <2>1. phase' = "rollbackFinalized" /\ ~IsOk(result')
    BY <1>3 DEF BeginUpload, Abort, IsOk, Err
  <2> QED BY <1>2, <2>1 DEF PublishInv, ProgressInv, Unfailed, RollingBack
<1>4. CASE ~interrupted
  <2>1. upload'.pc = "capture" /\ UNCHANGED <<phase, index, result>>
    BY <1>4 DEF BeginUpload, NoUpload
  <2>2. ProgressInv'
    BY <1>0, <1>1, <2>1 DEF ProgressInv, StagingOf, RollingBack
  <2>3. Unfailed' => Unfailed
    BY <1>1, <2>1 DEF Unfailed
  <2>4. RecordsHeld => RecordsHeld'
    BY <1>1, <2>1 DEF RecordsHeld, Awaits, IsPublished, Holds, HoldsData, Present, StagingOf
  <2>5. UploadHeld'
    BY <1>0, <1>1, <2>1 DEF UploadHeld
  <2> QED BY <1>2, <2>2, <2>3, <2>4, <2>5 DEF PublishInv
<1> QED BY <1>3, <1>4

(* All steps of the upload of one file. *)
LEMMA UploadStepHeld ==
    ASSUME UploadInv, PublishInv, UploadStep
    PROVE  PublishInv'
BY BeginUploadHeld, LocalStepHeld, SendStepHeld DEF UploadStep

-----------------------------------------------------------------------------
(* plan_uploads *)
LEMMA PlanUploadsHeld ==
    ASSUME UploadInv, PublishInv, PlanUploads
    PROVE  PublishInv'
<1>0. /\ phase = "build" /\ op = Idle /\ staged = <<>> /\ upload.pc = "idle"
      /\ UNCHANGED <<moveVars, staged, files, upload, captured, localVars>>
      /\ FreshInv /\ FilesInv /\ Idle.pc = "idle"
  BY DEF PlanUploads, PublishInv, ProgressInv, UploadInv, UploadingInv, Idle
<1>1. UNCHANGED <<files, disk, edits, objects, wire, meddled, captured, staged, op, upload>>
  BY <1>0 DEF moveVars, localVars, service, environment
<1>2. FreshInv'
  BY <1>0, <1>1 DEF FreshInv
<1>3. CASE phase' = "end" /\ result' = Err("Message")
  BY <1>0, <1>1, <1>2, <1>3
     DEF PublishInv, ProgressInv, Unfailed, RollingBack, IsOk, Err
<1>4. CASE /\ uploads' = [i \in DOMAIN files |-> PlannedUpload(files[i])]
           /\ phase' = "stage"
  <2>1. ProgressInv'
    BY <1>0, <1>1, <1>4, FileNames DEF ProgressInv, RollingBack
  <2>2. Unfailed' => Unfailed
    BY <1>0, <1>1 DEF Unfailed
  <2>3. RecordsHeld => RecordsHeld'
    BY <1>0, <1>1, <1>4 DEF RecordsHeld, IsPublished
  <2>4. UploadHeld'
    BY <1>0, <1>1 DEF UploadHeld
  <2> QED BY <1>2, <2>1, <2>2, <2>3, <2>4 DEF PublishInv
<1> QED BY <1>3, <1>4 DEF PlanUploads

-----------------------------------------------------------------------------
(* The transaction. *)

(* No upload is under way while the transaction moves. *)
LEMMA TransactionIdle ==
    ASSUME UploadInv, TransactionStep
    PROVE  upload.pc = "idle"
<1>1. SUFFICES ASSUME upload.pc # "idle" PROVE FALSE
  OBVIOUS
<1>2. /\ op = Idle /\ op.pc = "idle" /\ phase = "stage" /\ index <= Len(uploads)
      /\ index \in Nat /\ Len(uploads) \in Nat
  BY <1>1 DEF UploadInv, UploadingInv, Idle, FilesInv, TransactionInv, TransactionTypeOK
<1>3. ~EndUpload /\ ~StagingDone(Len(uploads)) /\ ~FinalizingDone /\ ~BeginPublish /\ ~EndPublish
  BY <1>2 DEF EndUpload, EndStage, StagingDone, FinalizingDone, BeginPublish, EndPublish,
     EndFinalize
<1>4. ~RollbackRemote
  BY <1>2 DEF RollbackRemote, BeginRollback, CleanupRestored, MovedBack, EndRollback,
     SkipRollback, RollbackStagedNext, RollbackDoneAll, RollingBack
<1> QED BY <1>2, <1>3, <1>4, OpStepBusy DEF TransactionStep

(* EndUpload: the staged object is recorded with the bytes validated. *)
LEMMA EndUploadHeld ==
    ASSUME UploadInv, PublishInv, EndUpload, upload.pc = "idle",
           UNCHANGED <<plan, upload, captured, resumable, localVars>>
    PROVE  PublishInv'
<1>0. /\ phase = "stage" /\ op.pc = "done" /\ op' = Idle /\ index \in DOMAIN uploads
      /\ UNCHANGED <<service, environment>> /\ ProgressInv /\ FreshInv
      /\ index = Len(staged) + 1 /\ staged \in Seq(RemoteChanges)
      /\ op \in Ops
  BY DEF EndUpload, EndStage, PublishInv, UploadInv, TransactionInv, TransactionIndexInv,
     TransactionTypeOK, MoveTypeOK, Idle
<1>1. /\ UNCHANGED <<files, uploads, disk, edits, objects, wire, meddled, captured, upload>>
      /\ Idle.pc = "idle"
  BY <1>0 DEF plan, localVars, service, environment, Idle
<1>2. FreshInv'
  BY <1>0, <1>1 DEF FreshInv
<1>3. /\ Len(uploads) = Len(files) /\ DOMAIN uploads = DOMAIN files
      /\ uploads[index].staging = StagingOf(index) /\ uploads[index].target = files[index]
      /\ Len(staged) \in Nat /\ DOMAIN staged = 1..Len(staged)
      /\ Len(files) \in Nat /\ DOMAIN files = 1..Len(files)
  BY <1>0, StagedFiles, FileNames DEF UploadInv
<1>4. CASE phase' = "rollbackFinalized" /\ ~IsOk(result')
  BY <1>2, <1>4 DEF PublishInv, ProgressInv, Unfailed, RollingBack
<1>5. CASE /\ IsOk(op.error)
           /\ staged' = Append(staged, Change(StagingOf(index), files[index], op.tgen))
           /\ index' = index + 1 /\ UNCHANGED <<phase, result>>
  <2> DEFINE change == Change(StagingOf(index), files[index], op.tgen)
  <2>1. /\ change.source = StagingOf(index) /\ change.target = files[index]
        /\ change.generation = op.tgen
    BY DEF Change
  <2> HIDE DEF change
  <2>2. /\ DOMAIN staged' = 1..index /\ Len(staged') = index
        /\ staged'[index] = change
        /\ \A i \in 1..Len(staged) : staged'[i] = staged[i]
    BY <1>0, <1>3, <1>5 DEF change
  <2>3. ProgressInv'
    <3>1. \A i \in DOMAIN staged' : staged'[i].source = StagingOf(i) /\ staged'[i].target = files[i]
      BY <1>0, <1>3, <2>1, <2>2 DEF ProgressInv
    <3> QED BY <1>0, <1>1, <1>3, <1>5, <2>2, <3>1 DEF ProgressInv, StagingOf, RollingBack
  <2>4. Unfailed' => Unfailed
    BY <1>0, <1>1, <1>5 DEF Unfailed
  <2>5. ASSUME Unfailed PROVE RecordsHeld'
    <3>1. RecordsHeld /\ Holds(StagingOf(index), op.tgen, captured[index])
      BY <1>0, <2>5 DEF PublishInv, UploadHeld
    <3>2. \A i \in DOMAIN staged' : Holds(StagingOf(i), staged'[i].generation, captured[i])
      BY <1>0, <1>3, <2>1, <2>2, <3>1 DEF RecordsHeld, Awaits
    <3>3. \A i \in DOMAIN files : ~IsPublished(i)'
      BY <1>0, <1>5 DEF IsPublished
    <3> QED BY <1>1, <3>1, <3>2, <3>3 DEF RecordsHeld, Holds, HoldsData, Present, StagingOf
  <2>6. UploadHeld'
    BY <1>0, <1>1 DEF UploadHeld
  <2> QED BY <1>2, <2>3, <2>4, <2>5, <2>6 DEF PublishInv
<1>6. \/ phase' = "rollbackFinalized" /\ ~IsOk(result')
      \/ /\ IsOk(op.error)
         /\ staged' = Append(staged, Change(StagingOf(index), files[index], op.tgen))
         /\ index' = index + 1 /\ UNCHANGED <<phase, result>>
  BY <1>3 DEF EndUpload, EndStage, CheckedStep, Abort, IsOk, Err
<1> QED BY <1>4, <1>5, <1>6

(* BeginPublish: a rewrite of the staged object is next. *)
LEMMA BeginPublishHeld ==
    ASSUME UploadInv, PublishInv, BeginPublish, upload.pc = "idle",
           UNCHANGED <<plan, upload, captured, resumable, localVars>>
    PROVE  PublishInv'
<1>0. /\ phase = "finalize" /\ index \in DOMAIN staged /\ op = Idle
      /\ UNCHANGED <<service, environment, staged, finalized>> /\ ProgressInv /\ FreshInv
  BY DEF BeginPublish, RejectBucketLockObject, BeginMove, PublishInv, transactionVars
<1>1. /\ UNCHANGED <<files, uploads, disk, edits, objects, wire, meddled, captured, upload>>
      /\ Idle.pc = "idle"
  BY <1>0 DEF plan, localVars, service, environment, Idle
<1>2. FreshInv'
  BY <1>0, <1>1 DEF FreshInv
<1>3. staged[index].generation # 0
  BY <1>0 DEF UploadInv, ChangesOwned, RecordsOwned, Mine
<1>4. CASE phase' = "rollbackFinalized" /\ ~IsOk(result')
  BY <1>2, <1>4 DEF PublishInv, ProgressInv, Unfailed, RollingBack
<1>5. CASE op'.pc = "failed" /\ op'.caller = "move" /\ UNCHANGED <<phase, index, result>>
  BY <1>0, <1>1, <1>2, <1>5
     DEF PublishInv, ProgressInv, Unfailed, RollingBack, PublishPcs, StagingOf
<1>6. CASE /\ op'.pc = "copy" /\ op'.caller = "move" /\ op'.source = staged[index].source
           /\ op'.target = staged[index].target /\ op'.sgen = staged[index].generation
           /\ UNCHANGED <<phase, index, result>>
  <2>1. ProgressInv'
    BY <1>0, <1>1, <1>6 DEF ProgressInv, StagingOf, RollingBack
  <2>2. Unfailed' => Unfailed
    BY <1>0, <1>1 DEF Unfailed
  <2>3. RecordsHeld => RecordsHeld'
    BY <1>0, <1>1, <1>6
       DEF RecordsHeld, Awaits, IsPublished, CopyMadePcs, Holds, HoldsData, Present, StagingOf
  <2>4. UploadHeld'
    BY <1>0, <1>1, <1>6 DEF UploadHeld
  <2> QED BY <1>2, <2>1, <2>2, <2>3, <2>4 DEF PublishInv
<1>7. \/ phase' = "rollbackFinalized" /\ ~IsOk(result')
      \/ op'.pc = "failed" /\ op'.caller = "move" /\ UNCHANGED <<phase, index, result>>
      \/ /\ op'.pc = "copy" /\ op'.caller = "move" /\ op'.source = staged[index].source
         /\ op'.target = staged[index].target /\ op'.sgen = staged[index].generation
         /\ UNCHANGED <<phase, index, result>>
  <2>1. CASE RejectBucketLockObject(staged[index])
    BY <2>1 DEF RejectBucketLockObject, MoveCall, Call, transactionVars
  <2>2. CASE BeginMove(staged[index].source, staged[index].target, staged[index].generation)
    BY <1>3, <2>2 DEF BeginMove, Abort, MoveCall, Call, IsOk, Err
  <2> QED BY <2>1, <2>2 DEF BeginPublish
<1> QED BY <1>4, <1>5, <1>6, <1>7

(* EndPublish: on to the next file, or to the rollback. *)
LEMMA EndPublishHeld ==
    ASSUME UploadInv, PublishInv, EndPublish, upload.pc = "idle",
           UNCHANGED <<plan, upload, captured, resumable, localVars>>
    PROVE  PublishInv'
<1>0. /\ phase = "finalize" /\ index \in DOMAIN staged /\ op.pc = "done" /\ op' = Idle
      /\ UNCHANGED <<service, environment>> /\ ProgressInv /\ FreshInv
      /\ index \in Nat
  BY DEF EndPublish, EndFinalize, PublishInv, UploadInv, TransactionInv, TransactionTypeOK
<1>1. /\ UNCHANGED <<files, uploads, disk, edits, objects, wire, meddled, captured, upload>>
      /\ Idle.pc = "idle"
  BY <1>0 DEF plan, localVars, service, environment, Idle
<1>2. FreshInv'
  BY <1>0, <1>1 DEF FreshInv
<1>3. CASE phase' = "rollbackFinalized" /\ ~IsOk(result')
  BY <1>2, <1>3 DEF PublishInv, ProgressInv, Unfailed, RollingBack
<1>4. CASE IsOk(op.error) /\ staged' = staged /\ index' = index + 1 /\ UNCHANGED <<phase, result>>
  <2>1. ProgressInv'
    BY <1>0, <1>1, <1>4 DEF ProgressInv, StagingOf, RollingBack, PublishPcs
  <2>2. Unfailed' => Unfailed
    BY <1>0, <1>1, <1>4 DEF Unfailed
  <2>3. \A i \in DOMAIN files : i \in Nat
    BY FileNames DEF UploadInv
  <2>4. \A i \in DOMAIN files : IsPublished(i)' => IsPublished(i)
    BY <1>0, <1>1, <1>4, <2>3 DEF IsPublished, CopyMadePcs
  <2>5. \A i \in DOMAIN staged : i \in Nat /\ i \in DOMAIN files
    BY <1>0, <2>3, StagedFiles
  <2>6. \A i \in DOMAIN staged : Awaits(i)' => Awaits(i)
    BY <1>0, <1>4, <2>5 DEF Awaits
  <2>7. RecordsHeld => RecordsHeld'
    BY <1>1, <1>4, <2>4, <2>6 DEF RecordsHeld, Holds, HoldsData, Present, StagingOf
  <2>8. UploadHeld'
    BY <1>0, <1>1 DEF UploadHeld
  <2> QED BY <1>2, <2>1, <2>2, <2>7, <2>8 DEF PublishInv
<1>5. \/ phase' = "rollbackFinalized" /\ ~IsOk(result')
      \/ IsOk(op.error) /\ staged' = staged /\ index' = index + 1 /\ UNCHANGED <<phase, result>>
  BY DEF EndPublish, EndFinalize, CheckedStep, Abort, IsOk, Err
<1> QED BY <1>3, <1>4, <1>5

(* The loops end when every file is staged, and when every one of them is  *)
(* published.                                                              *)
LEMMA PhaseHeld ==
    ASSUME UploadInv, PublishInv, StagingDone(Len(uploads)) \/ FinalizingDone,
           upload.pc = "idle", UNCHANGED <<plan, upload, captured, resumable, localVars>>
    PROVE  PublishInv'
<1>0. /\ phase \in {"stage", "finalize"} /\ op = Idle
      /\ UNCHANGED <<moveVars, staged, result>> /\ ProgressInv /\ FreshInv
      /\ index \in Nat
  BY DEF StagingDone, FinalizingDone, PublishInv, UploadInv, TransactionInv, TransactionTypeOK
<1>1. /\ UNCHANGED <<files, uploads, disk, edits, objects, wire, meddled, captured, upload, op>>
      /\ Idle.pc = "idle"
  BY <1>0 DEF plan, localVars, moveVars, service, environment, Idle
<1>2. FreshInv'
  BY <1>0, <1>1 DEF FreshInv
<1>3. /\ Len(uploads) = Len(files) /\ DOMAIN staged \subseteq DOMAIN files
      /\ Len(staged) \in Nat /\ DOMAIN staged = 1..Len(staged)
      /\ Len(files) \in Nat /\ DOMAIN files = 1..Len(files) /\ Len(staged) <= Len(files)
  BY <1>0, StagedFiles, FileNames DEF UploadInv, ProgressInv
<1>4. Unfailed' => Unfailed
  BY <1>0, <1>1 DEF Unfailed
<1>5. UploadHeld'
  BY <1>0, <1>1 DEF UploadHeld
<1>6. CASE StagingDone(Len(uploads))
  <2>1. phase = "stage" /\ phase' = "finalize" /\ index' = 1 /\ index > Len(uploads)
    BY <1>6 DEF StagingDone
  <2>2. Len(staged) = Len(files)
    BY <1>3, <2>1 DEF UploadInv, TransactionInv, TransactionIndexInv
  <2>3. ProgressInv'
    BY <1>0, <1>1, <2>1, <2>2 DEF ProgressInv, StagingOf, RollingBack, PublishPcs
  <2>4. \A i \in DOMAIN files : ~IsPublished(i)'
    BY <1>0, <1>1, <1>3, <2>1 DEF IsPublished, CopyMadePcs
  <2>5. RecordsHeld => RecordsHeld'
    BY <1>0, <1>1, <2>1, <2>4
       DEF RecordsHeld, Awaits, Holds, HoldsData, Present, StagingOf
  <2> QED BY <1>2, <1>4, <1>5, <2>3, <2>5 DEF PublishInv
<1>7. CASE FinalizingDone
  <2>1. phase = "finalize" /\ phase' = "end" /\ index' = index /\ index > Len(staged)
    BY <1>7 DEF FinalizingDone
  <2>2. Len(staged) = Len(files)
    BY <2>1, <1>0 DEF ProgressInv
  <2>3. ProgressInv'
    BY <1>0, <1>1, <2>1 DEF ProgressInv, RollingBack
  <2>4. \A i \in DOMAIN files : IsPublished(i)
    BY <1>0, <1>3, <2>1, <2>2 DEF IsPublished
  <2>5. RecordsHeld => RecordsHeld'
    BY <1>0, <1>1, <2>1, <2>4 DEF RecordsHeld, Awaits, HoldsData, Present
  <2> QED BY <1>2, <1>4, <1>5, <2>3, <2>5 DEF PublishInv
<1> QED BY <1>6, <1>7

(* A rollback has failed already. *)
LEMMA RollbackHeld ==
    ASSUME UploadInv, PublishInv, RollbackRemote,
           UNCHANGED <<plan, upload, captured, resumable, localVars>>
    PROVE  PublishInv'
<1>0. RollingBack /\ ~IsOk(result) /\ FreshInv /\ result \in AppErrors
  BY DEF RollbackRemote, BeginRollback, CleanupRestored, MovedBack, EndRollback, SkipRollback,
     RollbackStagedNext, RollbackDoneAll, RollingBack, PublishInv, ProgressInv, UploadInv,
     TransactionInv, TransactionTypeOK
<1>1. \/ RollingBack' /\ ~IsOk(result')
      \/ phase' = "end" /\ op' = Idle /\ ~IsOk(result')
  <2>1. CASE BeginRollback(RollbackOf(Recorded[index])) \/ CleanupRestored \/ EndRollback
             \/ SkipRollback \/ RollbackStagedNext
    BY <1>0, <2>1 DEF BeginRollback, CleanupRestored, EndRollback, SkipRollback,
       RollbackStagedNext, RollingBack, transactionVars
  <2>2. CASE RollbackDoneAll
    <3>1. ~IsOk(Rollback(result, ~undone))
      BY <1>0 DEF Rollback, IsOk, AppErrors
    <3> QED BY <2>2, <3>1 DEF RollbackDoneAll, moveVars
  <2> QED BY <2>1, <2>2 DEF RollbackRemote
<1>2. ProgressInv' /\ ~Unfailed'
  BY <1>1 DEF ProgressInv, Unfailed, RollingBack
<1>3. FreshInv'
  BY <1>0 DEF FreshInv, plan, localVars
<1> QED BY <1>2, <1>3 DEF PublishInv

-----------------------------------------------------------------------------
(* The operation. *)

(* A move that has failed stays failed: what it does from there on is to   *)
(* undo and to confirm.                                                    *)
LEMMA FailingPath ==
    ASSUME op \in Ops, OpOwned, op.caller = "move",
           op.pc \notin PublishPcs \cup {"generation"}, OpStep
    PROVE  /\ op'.pc \notin PublishPcs \cup {"generation", "idle"}
           /\ op'.pc = "done" => ~IsOk(op'.error)
<1>1. /\ \A next : Goto(next).pc = next
      /\ \A error : /\ Return(error).pc = "done" /\ Return(error).error = error
                    /\ Fail(error).pc = "failed"
                    /\ UndoFailed(error).pc = "failed"
      /\ CleanupDone.pc = "failed"
      /\ RollbackDone = Return(InterruptedAfterMoveRollback(op.sgen))
  BY DEF Ops, Goto, Return, Fail, UndoFailed, CleanupDone, RollbackDone
<1>2. /\ ~IsOk(InterruptedAfterMoveRollback(op.sgen)) /\ ~IsOk(Err("Recovery"))
      /\ op.pc \in FailurePcs => ~IsOk(op.error)
  BY DEF IsOk, InterruptedAfterMoveRollback, Err, OpOwned, Failure
<1> USE DEF PublishPcs
<1>3. CASE ClearInterruptForRollback \/ UndoSource
  <2>1. [op EXCEPT !.pc = "rbSource", !.pages = 0].pc = "rbSource"
    BY DEF Ops
  <2>2. \/ op' \in {Goto("undoSource"), Goto("cleanupState")}
        \/ op' = [op EXCEPT !.pc = "rbSource", !.pages = 0]
        \/ \E error : op' = UndoFailed(error)
    BY <1>3 DEF ClearInterruptForRollback, UndoSource
  <2>3. op'.pc \in {"undoSource", "cleanupState", "rbSource", "failed"}
    <3>1. CASE op' \in {Goto("undoSource"), Goto("cleanupState")}
      BY <1>1, <3>1
    <3>2. CASE op' = [op EXCEPT !.pc = "rbSource", !.pages = 0]
      BY <2>1, <3>2
    <3>3. CASE \E error : op' = UndoFailed(error)
      BY <1>1, <3>3
    <3> QED BY <2>2, <3>1, <3>2, <3>3
  <2> QED BY <2>3
<1>4. CASE CleanupState \/ CleanupDelete \/ CleanupConfirm
  BY <1>1, <1>4 DEF CleanupState, CleanupDelete, CleanupConfirm
<1>5. CASE RbSource \/ RbTarget \/ RbConfirmCopy \/ RbDelete
  BY <1>1, <1>5 DEF RbSource, RbTarget, RbConfirmCopy, RbDelete
<1>6. CASE RbCopyPage \/ RbCopy
  <2>1. /\ [op EXCEPT !.pages = @ + 1].pc = op.pc
        /\ [op EXCEPT !.pc = "rbConfirmCopy", !.sgen = nextGen].pc = "rbConfirmCopy"
    BY DEF Ops
  <2>2. CASE RbCopyPage
    BY <1>1, <2>1, <2>2 DEF RbCopyPage
  <2>3. CASE RbCopy
    BY <1>1, <2>1, <2>3 DEF RbCopy
  <2> QED BY <1>6, <2>2, <2>3
<1>7. CASE RbTargetState
  BY <1>1, <1>7 DEF RbTargetState, Ops
<1>8. CASE RbConfirm
  BY <1>1, <1>2, <1>8 DEF RbConfirm
<1>9. CASE FailureStep
  <2>1. \A seen : [op EXCEPT !.pc = "confirmTarget", !.sourceSeen = seen].pc = "confirmTarget"
    BY DEF Ops
  <2>2. CASE ConfirmedFailure \/ ConfirmSource
    <3>1. \/ op' = Goto("confirmSource")
          \/ op' = Return(op.error) /\ op.pc \in FailurePcs
          \/ \E seen : op' = [op EXCEPT !.pc = "confirmTarget", !.sourceSeen = seen]
      BY <2>2 DEF ConfirmedFailure, ConfirmSource, FailurePcs
    <3>2. CASE op' = Goto("confirmSource")
      BY <1>1, <3>2
    <3>3. CASE op' = Return(op.error) /\ op.pc \in FailurePcs
      BY <1>1, <1>2, <3>3
    <3>4. CASE \E seen : op' = [op EXCEPT !.pc = "confirmTarget", !.sourceSeen = seen]
      BY <2>1, <3>4
    <3> QED BY <3>1, <3>2, <3>3, <3>4
  <2>3. CASE ConfirmTarget
    BY <1>1, <1>2, <2>3 DEF ConfirmTarget, FailurePcs
  <2> QED BY <1>9, <2>2, <2>3 DEF FailureStep
<1>10. ~MoveStep
  BY DEF MoveStep, ObjectGeneration, CopyPage, CopyObject, ConfirmCopy, DeleteSource,
     SourceState, ConfirmMove
<1> QED BY <1>3, <1>4, <1>5, <1>6, <1>7, <1>8, <1>9, <1>10 DEF OpStep, UndoStep

(* The steps of a move from the rewrite on: the copy is made first, the    *)
(* source goes only when the copy is there, and every other step takes     *)
(* nothing away.                                                           *)
LEMMA PublishPath ==
    ASSUME ServiceInv, op \in Ops, op.pc \in PublishPcs, OpStep
    PROVE  /\ op'.source = op.source /\ op'.target = op.target
           /\ op'.pc \in PublishPcs => op'.sgen = op.sgen
           /\ op'.pc # "generation" /\ meddled' = meddled
           /\ \/ op'.pc \in {"failed", "interruptedMove"}
              \/ /\ op.pc = "copy" /\ op'.pc = "copy" /\ Adds
              \/ /\ op.pc = "copy" /\ op'.pc = "confirmCopy" /\ Adds
                 /\ objects'[op.target] = [gen |-> nextGen, data |-> objects[op.source].data]
              \/ /\ op.pc \in CopyMadePcs /\ op'.pc \in CopyMadePcs /\ Adds
              \/ /\ op.pc \in CopyMadePcs /\ op'.pc \in CopyMadePcs /\ wire' = wire
                 /\ \A other \in Names : other # op.source => objects'[other] = objects[other]
<1>0. /\ op.source \in Names /\ op.target \in Names /\ op.sgen \in Nat
      /\ \A name \in {op.source, op.target} : Get(name, 0) \in Requests
      /\ Rewrite(op.source, op.sgen, op.target) \in Requests
      /\ RewritePage(op.source, op.sgen, op.target) \in Requests
  BY RequestType DEF Ops
<1>1. /\ \A next : /\ Goto(next).pc = next /\ Goto(next).source = op.source
                   /\ Goto(next).target = op.target /\ Goto(next).sgen = op.sgen
      /\ \A error : /\ Return(error).pc = "done" /\ Return(error).source = op.source
                    /\ Return(error).target = op.target
                    /\ Fail(error).pc = "failed" /\ Fail(error).source = op.source
                    /\ Fail(error).target = op.target
                    /\ MoveFailed(error).pc \in {"failed", "interruptedMove"}
                    /\ MoveFailed(error).source = op.source
                    /\ MoveFailed(error).target = op.target
  BY DEF Ops, Goto, Return, Fail, MoveFailed
<1>g. ASSUME NEW name \in {op.source, op.target}, NEW e, Send(Get(name, 0), e)
      PROVE  Adds /\ meddled' = meddled
  BY <1>0, <1>g, SendAdds DEF Get
<1> USE DEF PublishPcs, CopyMadePcs
<1>2. CASE CopyPage
  <2>1. PICK e \in ErrorKinds :
           /\ Send(RewritePage(op.source, op.sgen, op.target), e)
           /\ op' = [op EXCEPT !.pages = @ + 1] \/ op' = Fail(PageError(e))
    BY <1>2 DEF CopyPage
  <2>2. Adds /\ meddled' = meddled
    BY <1>0, <2>1, SendAdds DEF RewritePage
  <2> QED BY <1>1, <1>2, <2>1, <2>2 DEF CopyPage, Ops
<1>3. CASE CopyObject
  <2>1. PICK e \in ErrorKinds :
           /\ Send(Rewrite(op.source, op.sgen, op.target), e)
           /\ \/ e = "Ok" /\ op' = [op EXCEPT !.pc = "confirmCopy", !.tgen = nextGen]
              \/ op' = Fail(PageError(e))
    BY <1>3 DEF CopyObject
  <2>2. Adds /\ meddled' = meddled
    BY <1>0, <2>1, SendAdds DEF Rewrite
  <2>3. CASE op' = Fail(PageError(e))
    BY <1>1, <2>2, <2>3
  <2>4. CASE e = "Ok" /\ op' = [op EXCEPT !.pc = "confirmCopy", !.tgen = nextGen]
    <3>1. objects'[op.target] = [gen |-> nextGen, data |-> objects[op.source].data]
      BY <1>0, <2>1, <2>4, RewriteAnswered
    <3> QED BY <1>3, <2>2, <2>4, <3>1 DEF CopyObject, Ops
  <2> QED BY <2>1, <2>3, <2>4
<1>4. CASE ConfirmCopy
  <2>1. PICK e \in ErrorKinds :
           /\ Send(Get(op.target, 0), e)
           /\ op' = Goto("deleteSource") \/ \E error : op' = MoveFailed(error)
    BY <1>4 DEF ConfirmCopy
  <2> QED BY <1>1, <1>4, <1>g, <2>1 DEF ConfirmCopy
<1>5. CASE DeleteSource
  <2>1. PICK e \in ErrorKinds :
           /\ Send(Delete(op.source, op.sgen), e)
           /\ \/ e = "Ok" /\ op' = Goto("sourceState")
              \/ \E error : op' = MoveFailed(error)
    BY <1>5 DEF DeleteSource
  <2>2. meddled' = meddled
    BY <2>1 DEF Send, Unsent, Answered, Abandoned, environment
  <2>3. CASE e = "Ok" /\ op' = Goto("sourceState")
    BY <1>0, <1>1, <1>5, <2>1, <2>3, DeleteAnswered DEF DeleteSource
  <2>4. CASE \E error : op' = MoveFailed(error)
    BY <1>1, <2>2, <2>4
  <2> QED BY <2>1, <2>3, <2>4
<1>6. CASE SourceState
  <2>1. PICK e \in ErrorKinds :
           /\ Send(Get(op.source, 0), e)
           /\ \/ op' = [op EXCEPT !.pc = "confirmMove", !.sourceSeen = Seen(e)]
              \/ \E error : op' = MoveFailed(error)
    BY <1>6 DEF SourceState
  <2> QED BY <1>1, <1>6, <1>g, <2>1 DEF SourceState, Ops
<1>7. CASE ConfirmMove
  <2>1. PICK e \in ErrorKinds :
           /\ Send(Get(op.target, 0), e)
           /\ \E error : op' \in {MoveFailed(error), Return(error), Fail(error)}
    BY <1>7 DEF ConfirmMove
  <2> QED BY <1>1, <1>7, <1>g, <2>1 DEF ConfirmMove
<1>8. ~UndoStep /\ ~FailureStep /\ ~ObjectGeneration
  BY DEF UndoStep, ClearInterruptForRollback, UndoSource, CleanupState, CleanupDelete,
     CleanupConfirm, RbSource, RbTarget, RbCopyPage, RbCopy, RbConfirmCopy, RbDelete,
     RbTargetState, RbConfirm, FailureStep, ConfirmedFailure, ConfirmSource, ConfirmTarget,
     ObjectGeneration
<1> QED BY <1>2, <1>3, <1>4, <1>5, <1>6, <1>7, <1>8 DEF OpStep, MoveStep

(* An operation has no step once it has returned. *)
LEMMA OpStepRunning == OpStep => op.pc # "done"
<1>1. MoveStep \/ FailureStep => op.pc # "done"
  BY DEF MoveStep, ObjectGeneration, CopyPage, CopyObject, ConfirmCopy, DeleteSource,
     SourceState, ConfirmMove, FailureStep, ConfirmedFailure, ConfirmSource, ConfirmTarget
<1>2. UndoStep => op.pc # "done"
  BY DEF UndoStep, ClearInterruptForRollback, UndoSource, CleanupState, CleanupDelete,
     CleanupConfirm, RbSource, RbTarget, RbCopyPage, RbCopy, RbConfirmCopy, RbDelete,
     RbTargetState, RbConfirm
<1> QED BY <1>1, <1>2 DEF OpStep

(* The steps of an operation: published bytes are those that were staged. *)
LEMMA OpStepHeld ==
    ASSUME UploadInv, PublishInv, OpStep, UNCHANGED transactionVars, upload.pc = "idle",
           UNCHANGED <<plan, upload, captured, resumable, localVars>>
    PROVE  PublishInv'
<1>0. /\ op \in Ops /\ op # Idle /\ op.pc # "done" /\ ProgressInv /\ FreshInv /\ OpOwned
      /\ ServiceInv
  BY OpStepBusy, OpStepRunning, UploadService
     DEF Idle, UploadInv, TransactionInv, MoveTypeOK, PublishInv, ChangesOwned, OwnedInv
<1>1. /\ UNCHANGED <<files, uploads, disk, edits, captured, upload>>
      /\ UNCHANGED <<phase, index, staged, result>>
      /\ phase \notin {"build", "stage", "end"} /\ Idle.pc = "idle"
  BY <1>0 DEF plan, localVars, transactionVars, ProgressInv, Idle
<1>2. FreshInv'
  BY <1>0, <1>1 DEF FreshInv
<1>3. CASE phase # "finalize"
  BY <1>0, <1>1, <1>2, <1>3 DEF PublishInv, ProgressInv, Unfailed, RollingBack
<1>4. CASE phase = "finalize"
  <2>0. op'.caller = "move" /\ op.caller = "move" /\ op.pc # "generation"
    BY <1>0, <1>4, CallerKept DEF ProgressInv
  <2>1. CASE op.pc \notin PublishPcs
    <3>1. /\ op'.pc \notin PublishPcs /\ op'.pc # "generation" /\ op'.pc # "idle"
          /\ op'.pc = "done" => ~IsOk(op'.error)
      BY <1>0, <2>0, <2>1, FailingPath
    <3>2. ~Unfailed'
      BY <1>1, <1>4, <3>1 DEF Unfailed
    <3>3. ProgressInv'
      BY <1>0, <1>1, <1>4, <2>0, <3>1 DEF ProgressInv, StagingOf, RollingBack
    <3> QED BY <1>2, <3>2, <3>3 DEF PublishInv
  <2>2. CASE op.pc \in PublishPcs
    <3>0. /\ op'.source = op.source /\ op'.target = op.target
          /\ op'.pc \in PublishPcs => op'.sgen = op.sgen
          /\ op'.pc # "generation" /\ meddled' = meddled
      BY <1>0, <2>2, PublishPath
    <3>1. ProgressInv'
      BY <1>0, <1>1, <1>4, <2>0, <2>2, <3>0 DEF ProgressInv, StagingOf, RollingBack
    <3>2. /\ index \in DOMAIN staged /\ index \in DOMAIN files /\ index \in Nat
          /\ op.source = StagingOf(index) /\ op.target = files[index]
          /\ op.sgen = staged[index].generation /\ FilesInv
          /\ DOMAIN staged \subseteq DOMAIN files
      BY <1>0, <1>4, <2>2, StagedFiles, FileNames DEF ProgressInv, UploadInv
    <3>3. UploadHeld'
      BY <1>1, <1>4 DEF UploadHeld
    <3>4. ASSUME Unfailed' PROVE RecordsHeld'
      <4>0. RecordsHeld
        BY <1>4, <2>2, <3>0, <3>4 DEF PublishInv, Unfailed
      <4>1. op'.pc \notin {"failed", "interruptedMove"}
        BY <1>1, <1>4, <3>4 DEF Unfailed, PublishPcs
      <4>2. CASE op.pc = "copy" /\ op'.pc = "copy" /\ Adds
        BY <1>1, <3>2, <4>0, <4>2, RecordsHeldKept DEF Awaits, IsPublished
      <4>3. CASE op.pc \in CopyMadePcs /\ op'.pc \in CopyMadePcs /\ Adds
        <5>1. \A i \in DOMAIN staged : Awaits(i)' => i \in DOMAIN files /\ Awaits(i)
          BY <1>1, <3>2, <4>3 DEF Awaits, CopyMadePcs
        <5>2. \A i \in DOMAIN files : IsPublished(i)' => IsPublished(i)
          BY <1>1, <4>3 DEF IsPublished
        <5> QED BY <1>1, <3>2, <4>0, <4>3, <5>1, <5>2, RecordsHeldKept
      <4>4. CASE /\ op.pc = "copy" /\ op'.pc = "confirmCopy" /\ Adds
                 /\ objects'[op.target] = [gen |-> nextGen, data |-> objects[op.source].data]
        <5>1. \A request \in wire' : request.type # "delete"
          BY <4>0, <4>4 DEF Adds, RecordsHeld
        <5>2. ASSUME NEW i \in DOMAIN files, IsPublished(i)'
              PROVE  HoldsData(files[i], captured[i])'
          <6>1. CASE i = index
            <7>1. objects[StagingOf(index)].data = captured[index]
              BY <1>4, <3>2, <4>0, <4>4 DEF RecordsHeld, Awaits, Holds, HoldsData
            <7>2. nextGen # 0
              BY <1>0 DEF ServiceInv, ServiceTypeOK
            <7> QED BY <1>1, <3>2, <4>4, <6>1, <7>1, <7>2 DEF HoldsData, Present
          <6>2. CASE i # index
            <7>1. HoldsData(files[i], captured[i])
              BY <1>1, <1>4, <4>0, <5>2, <6>2 DEF RecordsHeld, IsPublished
            <7> QED BY <1>1, <3>2, <4>4, <7>1, HeldKept DEF HoldsData, Present
          <6> QED BY <6>1, <6>2
        <5>3. ASSUME NEW i \in DOMAIN staged, Awaits(i)'
              PROVE  Holds(StagingOf(i), staged[i].generation, captured[i])'
          <6>1. Holds(StagingOf(i), staged[i].generation, captured[i])
            BY <1>1, <4>0, <4>4, <5>3 DEF RecordsHeld, Awaits
          <6> QED BY <1>1, <3>2, <4>4, <6>1, HeldKept DEF Holds, HoldsData, Present
        <5> QED BY <1>1, <5>1, <5>2, <5>3 DEF RecordsHeld
      <4>5. CASE /\ op.pc \in CopyMadePcs /\ op'.pc \in CopyMadePcs /\ wire' = wire
                 /\ \A other \in Names : other # op.source => objects'[other] = objects[other]
        <5>1. ASSUME NEW i \in DOMAIN files, IsPublished(i)'
              PROVE  HoldsData(files[i], captured[i])'
          <6>1. HoldsData(files[i], captured[i])
            BY <1>1, <4>0, <4>5, <5>1 DEF RecordsHeld, IsPublished
          <6>2. files[i] \in Names /\ files[i] # op.source
            BY <3>2, FileNames
          <6> QED BY <1>1, <4>5, <6>1, <6>2 DEF HoldsData, Present
        <5>2. ASSUME NEW i \in DOMAIN staged, Awaits(i)'
              PROVE  Holds(StagingOf(i), staged[i].generation, captured[i])'
          <6>1. i # index /\ i \in DOMAIN files
            BY <1>1, <1>4, <3>2, <4>5, <5>2 DEF Awaits, CopyMadePcs
          <6>2. Holds(StagingOf(i), staged[i].generation, captured[i])
            BY <1>1, <4>0, <5>2, <6>1 DEF RecordsHeld, Awaits
          <6>3. /\ StagingOf(i) \in Names /\ StagingOf(i) # op.source
                /\ StagingOf(i)' = StagingOf(i)
            BY <1>1, <3>2, <6>1, FileNames DEF StagingOf
          <6> QED BY <1>1, <4>5, <6>2, <6>3 DEF Holds, HoldsData, Present
        <5> QED BY <1>1, <4>0, <4>5, <5>1, <5>2 DEF RecordsHeld
      <4> QED BY <1>0, <2>2, <4>1, <4>2, <4>3, <4>4, <4>5, PublishPath
    <3>5. Unfailed' => RecordsHeld' /\ UploadHeld'
      BY <3>3, <3>4
    <3> QED BY <1>2, <3>1, <3>5 DEF PublishInv
  <2> QED BY <2>1, <2>2
<1> QED BY <1>3, <1>4

(* All steps of the transaction. *)
LEMMA TransactionStepHeld ==
    ASSUME UploadInv, PublishInv, TransactionStep
    PROVE  PublishInv'
<1>1. upload.pc = "idle" /\ UNCHANGED <<plan, upload, captured, resumable, localVars>>
  BY TransactionIdle DEF TransactionStep
<1> QED BY <1>1, EndUploadHeld, PhaseHeld, BeginPublishHeld, EndPublishHeld, RollbackHeld,
           OpStepHeld DEF TransactionStep

-----------------------------------------------------------------------------
(* The environment. *)

(* A step that touches neither the files nor the operation. *)
LEMMA DisturbanceFrame ==
    ASSUME UploadInv, PublishInv, UNCHANGED <<transactionVars, plan, upload, captured, op>>,
           meddled' = meddled, UNCHANGED <<disk, edits>>, RecordsHeld => Adds
    PROVE  /\ FreshInv' /\ ProgressInv' /\ (Unfailed' => Unfailed)
           /\ Unfailed => RecordsHeld'
<1>1. /\ UNCHANGED <<phase, index, staged, result, files, uploads>> /\ FilesInv /\ ProgressInv
  BY DEF transactionVars, plan, UploadInv, PublishInv
<1>2. FreshInv'
  BY <1>1 DEF PublishInv, FreshInv
<1>3. ProgressInv'
  BY <1>1 DEF ProgressInv, StagingOf, RollingBack
<1>4. Unfailed' = Unfailed
  BY <1>1 DEF Unfailed
<1>5. ASSUME Unfailed PROVE RecordsHeld'
  <2>1. RecordsHeld /\ Adds
    BY <1>5 DEF PublishInv
  <2>2. \A i \in DOMAIN staged : Awaits(i)' => i \in DOMAIN files /\ Awaits(i)
    BY <1>1, StagedFiles DEF Awaits
  <2>3. \A i \in DOMAIN files : IsPublished(i)' => IsPublished(i)
    BY <1>1 DEF IsPublished
  <2> QED BY <1>1, <2>1, <2>2, <2>3, RecordsHeldKept
<1> QED BY <1>2, <1>3, <1>4, <1>5

(* The upload in progress is kept when its session is. *)
LEMMA UploadHeldKept ==
    ASSUME UploadInv, ProgressInv, UploadHeld, Adds,
           UNCHANGED <<transactionVars, plan, upload, captured, op, disk, transfer>>,
           upload.pc = "chunks" /\ transfer.pc \in SessionPcs => SessionOurs'
    PROVE  UploadHeld'
<1>1. UNCHANGED <<phase, index, files>> /\ FilesInv /\ Idle.pc # "done"
  BY DEF transactionVars, plan, UploadInv, Idle
<1>2. upload.pc # "idle" => index \in DOMAIN files
  BY UploadIndex
<1>3. index \in DOMAIN files => \A g : Stored(g) => Stored(g)'
  BY <1>1, HeldKept
<1>4. ASSUME phase = "stage", op.pc = "done"
      PROVE  Holds(StagingOf(index), op.tgen, captured[index])'
  <2>1. index \in DOMAIN files /\ Holds(StagingOf(index), op.tgen, captured[index])
    BY <1>1, <1>4 DEF ProgressInv, UploadHeld
  <2> QED BY <1>1, <2>1, HeldKept DEF Holds, HoldsData, Present, StagingOf
<1>5. upload.pc = "verify" => Stored(upload.generation)'
  BY <1>2, <1>3 DEF UploadHeld, Stored
<1>6. upload.pc = "chunks" /\ transfer.pc = "done" /\ IsOk(transfer.error) =>
         Stored(transfer.generation)'
  BY <1>2, <1>3 DEF UploadHeld, TransferHeld, Stored
<1> QED BY <1>1, <1>4, <1>5, <1>6 DEF UploadHeld, TransferHeld

(* Signals, other writers and late requests. *)
LEMMA MeddlingHeld ==
    ASSUME UploadInv, PublishInv, Meddling \/ Land,
           UNCHANGED <<resumable, localVars, transactionVars, plan, upload, captured>>
    PROVE  PublishInv'
<1>0. /\ op' = op /\ ServiceInv /\ meddled \in Nat
      /\ UNCHANGED <<disk, edits, session, late, transfer, phase, index, files, uploads>>
      /\ UNCHANGED <<staged, result>> /\ ProgressInv /\ FreshInv
  BY UploadService, BoundsAssumption DEF Meddling, Signal, ForeignWrite, ForeignDelete, Land,
     localVars, resumable, transactionVars, plan, PublishInv, ServiceInv, ServiceTypeOK
<1>1. CASE ForeignWrite \/ ForeignDelete
  <2>1. ~Unfailed'
    BY <1>0, <1>1 DEF ForeignWrite, ForeignDelete, Unfailed
  <2>2. FreshInv' /\ ProgressInv'
    BY <1>0 DEF FreshInv, ProgressInv, StagingOf, RollingBack
  <2> QED BY <2>1, <2>2 DEF PublishInv
<1>2. CASE Signal \/ Land
  <2>1. meddled' = meddled /\ (RecordsHeld => Adds)
    <3>1. CASE Signal
      BY <3>1 DEF Signal, Adds, service
    <3>2. CASE Land
      <4>1. PICK request \in wire : Process(request) /\ wire' = wire \ {request}
        BY <3>2 DEF Land
      <4>2. request \in Requests /\ objects \in [Names -> Versions]
        BY <1>0, <4>1 DEF ServiceInv, ServiceTypeOK
      <4>3. RecordsHeld => request.type # "delete"
        BY <4>1 DEF RecordsHeld
      <4> QED BY <3>2, <4>1, <4>2, <4>3, ProcessAdds DEF Land, Adds
    <3> QED BY <1>2, <3>1, <3>2
  <2>2. /\ FreshInv' /\ ProgressInv' /\ (Unfailed' => Unfailed)
        /\ Unfailed => RecordsHeld'
    BY <1>0, <2>1, DisturbanceFrame
  <2>3. ASSUME Unfailed PROVE UploadHeld'
    <3>1. RecordsHeld /\ UploadHeld /\ Adds
      BY <2>1, <2>3 DEF PublishInv
    <3>2. ASSUME upload.pc = "chunks", transfer.pc \in SessionPcs PROVE SessionOurs'
      <4>1. SessionOurs /\ index \in DOMAIN files /\ FilesInv
        BY <3>1, <3>2, UploadIndex DEF UploadHeld, TransferHeld, UploadInv
      <4>2. session.state = "complete" => Stored(session.generation)'
        BY <1>0, <3>1, <4>1, HeldKept DEF SessionOurs, Stored
      <4> QED BY <1>0, <4>1, <4>2 DEF SessionOurs, StagingOf
    <3> QED BY <1>0, <3>1, <3>2, UploadHeldKept
  <2> QED BY <2>2, <2>3 DEF PublishInv
<1> QED BY <1>1, <1>2 DEF Meddling

(* Edits of local files: the edited file no longer matches its             *)
(* fingerprint, and never will again.                                      *)
LEMMA LocalHeld ==
    ASSUME UploadInv, PublishInv, EditSource \/ RemoveSource,
           UNCHANGED <<resumable, transactionVars, plan, upload, captured>>
    PROVE  PublishInv'
<1>0. /\ UNCHANGED <<objects, wire, meddled, op, session, late, transfer, phase, index, files>>
      /\ UNCHANGED <<uploads, staged, result>> /\ ProgressInv /\ FreshInv /\ FilesInv
      /\ disk \in [DOMAIN files -> [opens : BOOLEAN, content : Names]]
      /\ edits \in Nat
  BY DEF EditSource, RemoveSource, resumable, transactionVars, plan, PublishInv, UploadInv,
     FilesInv, moveVars, service, environment
<1>1. /\ FreshInv'
      /\ \A i \in DOMAIN files :
            disk'[i].content = captured[i] => disk[i].content = captured[i]
  <2>1. CASE EditSource
    <3>1. PICK j \in DOMAIN disk : disk' = [disk EXCEPT ![j].content = Edits[edits + 1]]
      BY <2>1 DEF EditSource
    <3>2. edits + 1 \in DOMAIN Edits /\ edits' = edits + 1
      BY <1>0, <2>1, UploadBoundsAssumption DEF EditSource
    <3>3. \A i \in DOMAIN files :
             disk'[i].content = IF i = j THEN Edits[edits + 1] ELSE disk[i].content
      BY <1>0, <3>1
    <3>4. \A i \in DOMAIN files : Edits[edits + 1] # captured[i]
      BY <1>0, <3>2 DEF FreshInv
    <3>5. \A k \in DOMAIN Edits : k \in Nat /\ (k # edits + 1 => Edits[k] # Edits[edits + 1])
      BY <3>2, EditsAssumption, UploadBoundsAssumption
    <3>6. FreshInv'
      BY <1>0, <3>2, <3>3, <3>5 DEF FreshInv
    <3> QED BY <3>3, <3>4, <3>6
  <2>2. CASE RemoveSource
    <3>1. PICK j \in DOMAIN disk : disk' = [disk EXCEPT ![j].opens = FALSE]
      BY <2>2 DEF RemoveSource
    <3>2. (\A i \in DOMAIN files : disk'[i].content = disk[i].content) /\ edits' = edits
      BY <1>0, <2>2, <3>1 DEF RemoveSource
    <3> QED BY <1>0, <3>2 DEF FreshInv
  <2> QED BY <2>1, <2>2
<1>2. ProgressInv'
  BY <1>0 DEF ProgressInv, StagingOf, RollingBack
<1>3. Unfailed' => Unfailed
  BY <1>0 DEF Unfailed
<1>4. RecordsHeld => RecordsHeld'
  BY <1>0 DEF RecordsHeld, Awaits, IsPublished, Holds, HoldsData, Present, StagingOf
<1>5. ASSUME UploadHeld PROVE UploadHeld'
  <2>1. upload.pc # "idle" => index \in DOMAIN files
    BY UploadIndex
  <2>2. index \in DOMAIN files => \A g : Stored(g) => Stored(g)'
    BY <1>0, <1>1 DEF Stored, Present, StagingOf
  <2>3. upload.pc = "verify" => Stored(upload.generation)'
    BY <1>5, <2>1, <2>2 DEF UploadHeld, Stored
  <2>4. ASSUME upload.pc = "chunks" PROVE TransferHeld'
    <3>1. index \in DOMAIN files /\ TransferHeld
      BY <1>5, <2>1, <2>4 DEF UploadHeld
    <3>2. SessionOurs => SessionOurs'
      <4>1. SessionOurs /\ session.state = "complete" => Stored(session.generation)'
        BY <1>0, <2>2, <3>1 DEF SessionOurs, Stored
      <4> QED BY <1>0, <1>1, <3>1, <4>1 DEF SessionOurs, StagingOf
    <3>3. transfer.pc = "done" /\ IsOk(transfer.error) => Stored(transfer.generation)'
      BY <1>0, <2>2, <3>1 DEF TransferHeld, Stored
    <3> QED BY <1>0, <3>1, <3>2, <3>3 DEF TransferHeld
  <2> QED BY <1>0, <1>5, <2>3, <2>4
          DEF UploadHeld, Holds, HoldsData, Present, StagingOf
<1> QED BY <1>1, <1>2, <1>3, <1>4, <1>5 DEF PublishInv

(* A late chunk, and units that the session forgets. *)
LEMMA SessionHeld ==
    ASSUME UploadInv, PublishInv, LandChunk \/ (upload.pc = "chunks" /\ ForgetUnits),
           UNCHANGED <<op, localVars, transactionVars, plan, upload, captured>>
    PROVE  PublishInv'
<1>0. /\ UNCHANGED <<disk, edits, phase, index, files, transfer>> /\ ServiceInv /\ SessionInv
      /\ FilesInv /\ ProgressInv
  BY UploadService DEF LandChunk, ForgetUnits, localVars, transactionVars, plan, UploadInv,
     PublishInv
<1>1. /\ late.first \in 0..Size /\ late.data \in Contents /\ session \in Sessions
      /\ session.committed \in 0..Size
  BY <1>0 DEF SessionInv, Chunks, Sessions
<1>2. Adds /\ meddled' = meddled
  <2>1. CASE LandChunk
    BY <1>0, <1>1, <2>1, ProcessChunkAdds DEF LandChunk, Adds, environment
  <2>2. CASE ForgetUnits
    BY <2>2 DEF ForgetUnits, Adds, service
  <2> QED BY <2>1, <2>2
<1>3. /\ FreshInv' /\ ProgressInv' /\ (Unfailed' => Unfailed)
      /\ Unfailed => RecordsHeld'
  BY <1>0, <1>2, DisturbanceFrame
<1>4. ASSUME Unfailed PROVE UploadHeld'
  <2>1. UploadHeld
    BY <1>4 DEF PublishInv
  <2>2. ASSUME upload.pc = "chunks", transfer.pc \in SessionPcs PROVE SessionOurs'
    <3>1. SessionOurs /\ index \in DOMAIN files
      BY <2>1, <2>2, UploadIndex DEF UploadHeld, TransferHeld
    <3>2. CASE LandChunk
      <4>1. disk[index].content = captured[index] => late.data = captured[index]
        BY <3>1, <3>2 DEF LandChunk, SessionOurs
      <4> QED BY <1>0, <1>1, <3>1, <3>2, <4>1, ProcessChunkHeld DEF LandChunk, environment
    <3>3. CASE ForgetUnits
      <4>1. PICK c \in 0..(session.committed - 1) : session' = [session EXCEPT !.committed = c]
        BY <3>3 DEF ForgetUnits
      <4>2. /\ session'.target = session.target /\ session'.state = "open"
            /\ session'.data = session.data /\ session'.committed = c /\ late' = late
            /\ session.committed > 0
        BY <1>1, <3>3, <4>1 DEF ForgetUnits, Sessions
      <4> QED BY <1>0, <3>1, <4>2 DEF SessionOurs, StagingOf
    <3> QED BY <3>2, <3>3
  <2> QED BY <1>0, <1>2, <2>1, <2>2, UploadHeldKept
<1> QED BY <1>3, <1>4 DEF PublishInv

-----------------------------------------------------------------------------
(* At discovery the files have the captured bytes and nothing is staged. *)
LEMMA InitHeld == Init => PublishInv
<1> SUFFICES ASSUME Init PROVE PublishInv
  OBVIOUS
<1>1. /\ phase = "build" /\ op = Idle /\ wire = {} /\ staged = <<>> /\ upload.pc = "idle"
      /\ captured = files /\ files \in Discoveries
      /\ disk = [i \in DOMAIN files |-> [opens |-> TRUE, content |-> files[i]]]
  BY DEF Init, MoveInit, TransactionInit, NoUpload
<1>2. FreshInv
  BY <1>1, EditsAssumption DEF FreshInv
<1>3. ProgressInv
  BY <1>1 DEF ProgressInv, RollingBack
<1>4. RecordsHeld /\ UploadHeld
  BY <1>1 DEF RecordsHeld, IsPublished, UploadHeld
<1> QED BY <1>2, <1>3, <1>4 DEF PublishInv

(* Every step of the run and of its environment. *)
LEMMA NextHeld ==
    ASSUME UploadInv, PublishInv, [Next]_vars
    PROVE  PublishInv'
<1>1. CASE vars' = vars
  <2>1. /\ UNCHANGED <<objects, wire, meddled, op, session, late, transfer, phase, index, files>>
        /\ UNCHANGED <<uploads, staged, result, upload, captured, disk, edits>>
    BY <1>1 DEF vars, moveVars, service, environment, transactionVars, plan, resumable, localVars
  <2>2. FreshInv' /\ ProgressInv' /\ (Unfailed' => Unfailed)
    BY <2>1 DEF PublishInv, FreshInv, ProgressInv, Unfailed, StagingOf, RollingBack
  <2>3. RecordsHeld => RecordsHeld'
    BY <2>1 DEF RecordsHeld, Awaits, IsPublished, Holds, HoldsData, Present, StagingOf
  <2>4. UploadHeld => UploadHeld'
    BY <2>1 DEF UploadHeld, TransferHeld, SessionOurs, Stored, Holds, HoldsData, Present, StagingOf
  <2> QED BY <2>2, <2>3, <2>4 DEF PublishInv
<1>2. CASE RunStep
  BY <1>2, PlanUploadsHeld, UploadStepHeld, TransactionStepHeld DEF RunStep
<1>3. CASE Disturbance
  BY <1>3, MeddlingHeld, LocalHeld, SessionHeld DEF Disturbance
<1> QED BY <1>1, <1>2, <1>3 DEF Next, Terminated

(* upload_planned_files: whatever happens to the files between discovery,  *)
(* the attempts, the chunks and the end of the upload, a run that reports  *)
(* success has published every file with the bytes of its fingerprint,     *)
(* unless another writer has replaced them.                                *)
THEOREM ValidatedBytes == Spec => []PublishedAsValidated
<1>1. Init => UploadInv /\ PublishInv
  BY InitUpload, InitHeld
<1>2. UploadInv /\ PublishInv /\ [Next]_vars => UploadInv' /\ PublishInv'
  BY NextUpload, NextHeld
<1>3. PublishInv => PublishedAsValidated
  BY DEF PublishInv, Unfailed, RecordsHeld, IsPublished, PublishedAsValidated
<1> QED BY <1>1, <1>2, <1>3, PTL DEF Spec

-----------------------------------------------------------------------------
(* All or nothing.  AllOrNothing needs an account of every object that the *)
(* run has made: as long as each writer honours the bucket lock and no     *)
(* request is executed late, an object that was not there before is the    *)
(* staged or the published one of a file, and each phase knows which of    *)
(* these it has already removed or not yet made.                           *)

(* An error that is reported as it is: the upload does not look whether    *)
(* the staged object is there (confirmed_failure), nor is the operator     *)
(* told to.                                                                *)
Quick(error) == ~MayHaveReachedStorage(error) /\ ~Look(error)

(* An answer in doubt that was followed by another attempt or query is the *)
(* only thing that has gone wrong.                                         *)
Calmly == doubted => Disturbances <= 1

(* The run has left nothing of its own under this name. *)
Unmade(name) == name \in existing \/ ~Present(name)
Vacant == ~Present(StagingOf(index))

(* What is in doubt was disturbed, a file that does not open was removed,  *)
(* and nothing is on its way.                                              *)
CountsInv ==
    /\ Signalled /\ (doubted => faults # 0)
    /\ removals = 0 => \A i \in DOMAIN disk : disk[i].opens
    /\ late = NoChunk /\ wire = {}

(* A move never gets past its rewrite when the target was there before, so *)
(* that what a rollback deletes is an object of the run.                   *)
NewTargets ==
    /\ op.pc \in CopiedPcs \cup UndoPcs => op.target \notin existing
    /\ op.pc = "done" /\ phase # "stage" /\ IsOk(op.error) => op.target \notin existing
    /\ \A i \in DOMAIN finalized : finalized[i].target \notin existing

(* The bucket: what was there before is as it was, and what was not is a   *)
(* staged or a published object.                                           *)
BucketInv ==
    \A name \in Names :
        IF name \in existing THEN HoldsData(name, name)
        ELSE Present(name) => \E i \in DOMAIN files : name \in {StagingOf(i), files[i]}

(* The records of the transaction are about the files, in their order. *)
ListsInv ==
    /\ Len(finalized) <= Len(staged) /\ Len(staged) <= Len(files)
    /\ \A i \in DOMAIN staged : staged[i].source = StagingOf(i) /\ staged[i].target = files[i]
    /\ \A i \in DOMAIN finalized :
          finalized[i].source = StagingOf(i) /\ finalized[i].target = files[i]
    /\ phase = "finalize" => Len(staged) = Len(files) /\ index = Len(finalized) + 1
    /\ phase = "end" /\ IsOk(result) =>
          uploads = [i \in DOMAIN files |-> PlannedUpload(files[i])]
    /\ phase \in {"build", "stage", "finalize"} => IsOk(result) /\ undone

(* What the operation in progress is about: publishing the file at hand,   *)
(* moving it back, removing what was moved back, or removing what was only *)
(* staged.                                                                 *)
OpAbout ==
    \/ phase = "stage"
    \/ /\ phase = "finalize" /\ op.caller = "move" /\ index \in DOMAIN staged
       /\ op.source = StagingOf(index) /\ op.target = files[index]
    \/ /\ phase = "rollbackFinalized" /\ op.caller = "transaction" /\ index \in DOMAIN finalized
       /\ op.source = StagingOf(index) /\ op.target = files[index]
    \/ /\ phase = "rollbackFinalized" /\ op.caller = "cleanup" /\ index \in DOMAIN finalized
       /\ op.source = StagingOf(index) /\ op.target = StagingOf(index)
       /\ Unmade(files[index])
    \/ /\ phase = "rollbackStaged" /\ op.caller = "cleanup" /\ index \in DOMAIN staged
       /\ op.source = StagingOf(index) /\ op.target = StagingOf(index)
       /\ index > Len(finalized)

(* Every rollback so far has succeeded, and the error is a plain one. *)
Plainly == undone /\ ~Look(result) /\ Calmly

(* What each phase knows to be removed or not yet made.  While the         *)
(* rollback is under way this is known only as long as the run may still   *)
(* end with a plain error.                                                 *)
UnmadeInv ==
    \A i \in DOMAIN files :
       /\ phase = "build" => Unmade(StagingOf(i)) /\ Unmade(files[i])
       /\ phase = "stage" =>
             /\ Unmade(files[i])
             /\ i > index => Unmade(StagingOf(i))
             /\ i = index /\ op = Idle /\ upload.pc \in {"idle", "capture"} => Unmade(StagingOf(i))
       /\ phase = "finalize" =>
             /\ i < index => Unmade(StagingOf(i))
             /\ i > index \/ (i = index /\ op = Idle) => Unmade(files[i])
       /\ phase = "rollbackFinalized" /\ Plainly =>
             /\ i > index => Unmade(files[i])
             /\ i <= Len(finalized) /\ (i # index \/ op = Idle) => Unmade(StagingOf(i))
             /\ i > Len(staged) => Unmade(StagingOf(i))
       /\ phase = "rollbackStaged" /\ Plainly =>
             /\ Unmade(files[i])
             /\ i <= Len(finalized) \/ i > index => Unmade(StagingOf(i))
       /\ phase = "end" /\ IsOk(result) => Unmade(StagingOf(i))
       /\ phase = "end" /\ ~IsOk(result) /\ ~Look(result) /\ Calmly =>
             Unmade(StagingOf(i)) /\ Unmade(files[i])

(* An upload that fails without a look at the bucket has stored nothing,   *)
(* unless its error is a second disturbance after an answer in doubt.      *)
Accounted(error) == Calmly => ~Quick(error) \/ Vacant

(* The staged object during a resumable upload: missing, unless an answer  *)
(* is in doubt, until the session has all of its units.                    *)
StartPcs == {"token", "start", "restart"}
ChunkPcs == {"chunk", "refresh", "query", "requery"}
FinalPcs == {"finalQuery", "finalRefresh"}
TransferCourse ==
    /\ transfer.pc \in StartPcs \cup ChunkPcs => transfer.offset < Size
    /\ transfer.pc \in StartPcs \cup FinalPcs => doubted \/ Vacant
    /\ transfer.pc \in ChunkPcs => doubted \/ (Vacant /\ session.committed < Size)
    /\ IF transfer.pc \in {"cancel", "delete", "done"} THEN Accounted(transfer.error)
       ELSE IsOk(transfer.error)

(* The staged object during an upload, large or small. *)
UploadCourse ==
    /\ upload.pc \in {"open", "send"} => doubted \/ Vacant
    /\ upload.pc = "chunks" => TransferCourse
    /\ upload.pc = "failed" => Accounted(upload.error)
    /\ phase = "stage" /\ op.pc = "done" =>
          (Calmly => IsOk(op.error) \/ Look(op.error) \/ Vacant)

(* The account, and what an operation has settled when it returns. *)
AccountInv ==
    /\ CountsInv /\ NewTargets /\ BucketInv /\ ListsInv
    /\ op # Idle => OpAbout
    /\ op # Idle /\ phase # "stage" => OpSettled \/ op.target \in existing
    /\ UnmadeInv /\ UploadCourse

-----------------------------------------------------------------------------
(* The disturbances are counted, and a flag that is set was set by one. *)
CountsStep ==
    /\ faults' \in {faults, faults + 1} /\ signals' \in {signals, signals + 1}
    /\ interrupted' => interrupted \/ signals' = signals + 1

(* Whatever becomes of a request. *)
LEMMA SendCounts ==
    ASSUME NEW request, NEW e, Send(request, e)
    PROVE  CountsStep
BY DEF Send, Unsent, Answered, Abandoned, CountsStep, environment

(* A step of an operation sends a request or clears the flag. *)
LEMMA OpStepCounts ==
    ASSUME OpStep
    PROVE  CountsStep
<1>1. CASE MoveStep
  BY <1>1, SendCounts DEF MoveStep, ObjectGeneration, CopyPage, CopyObject, ConfirmCopy,
     DeleteSource, SourceState, ConfirmMove
<1>2. CASE UndoStep
  BY <1>2, SendCounts DEF UndoStep, ClearInterruptForRollback, UndoSource, CleanupState,
     CleanupDelete, CleanupConfirm, RbSource, RbTarget, RbCopyPage, RbCopy, RbConfirmCopy,
     RbDelete, RbTargetState, RbConfirm, environment, CountsStep
<1>3. CASE FailureStep
  BY <1>3, SendCounts DEF FailureStep, ConfirmedFailure, ConfirmSource, ConfirmTarget,
     environment, CountsStep
<1> QED BY <1>1, <1>2, <1>3 DEF OpStep

(* A step of the client of the session does the same, and it leaves no     *)
(* chunk behind that may arrive late.  It doubts an answer only when a     *)
(* request has failed.                                                     *)
LEMMA ResumableCounts ==
    ASSUME ~LateDelivery, late = NoChunk, NEW target, NEW opens, NEW data,
           ResumableStep(target, opens, data)
    PROVE  /\ CountsStep /\ late' = NoChunk /\ wire' = wire
           /\ doubted => doubted'
           /\ doubted' => doubted \/ faults' = faults + 1
<1> USE DEF CountsStep, environment, Faulty, Untouched
<1>1. ASSUME NEW e, NotExecuted(e)
      PROVE  CountsStep /\ late' = NoChunk /\ wire' = wire
  BY <1>1 DEF NotExecuted
<1>2. ASSUME NEW e, AnswerLost(e)
      PROVE  CountsStep /\ wire' = wire
  BY <1>2 DEF AnswerLost
<1>3. ASSUME NEW e, FetchToken(e)
      PROVE  CountsStep /\ late' = NoChunk /\ wire' = wire
  BY <1>3 DEF FetchToken
<1>4. ASSUME NEW e, SendStart(target, e)
      PROVE  CountsStep /\ late' = NoChunk /\ wire' = wire
  BY <1>1, <1>2, <1>4 DEF SendStart, Calm
<1>5. ASSUME NEW e, SendChunk(data, e)
      PROVE  CountsStep /\ late' = NoChunk /\ wire' = wire
  BY <1>1, <1>2, <1>5 DEF SendChunk, Calm
<1>6. ASSUME NEW e, SendQuery(e)
      PROVE  CountsStep /\ late' = NoChunk /\ wire' = wire
  BY <1>1, <1>2, <1>6 DEF SendQuery, Calm
<1>7. ASSUME NEW e, SendCancel(e)
      PROVE  CountsStep /\ late' = NoChunk /\ wire' = wire
  BY <1>1, <1>2, <1>7 DEF SendCancel, Calm, ProcessCancel
<1> HIDE DEF Faulty, Untouched
<1>8. CASE FirstToken \/ RestartToken \/ RefreshToken \/ RequeryToken \/ FinalRefresh
  BY <1>3, <1>8 DEF FirstToken, RestartToken, RefreshToken, RequeryToken, FinalRefresh
<1>9. CASE StartResumableSession(target)
  BY <1>4, <1>9 DEF StartResumableSession
<1>10. CASE UploadResumableChunk(opens, data)
  BY <1>5, <1>10 DEF UploadResumableChunk
<1>11. CASE QueryResumableProgress \/ FinalQuery
  BY <1>6, <1>11 DEF QueryResumableProgress, FinalQuery
<1>12. CASE ClearInterruptForCancel
  BY <1>12 DEF ClearInterruptForCancel
<1>13. CASE CancelResumableSession
  BY <1>7, <1>13 DEF CancelResumableSession
<1> QED BY <1>8, <1>9, <1>10, <1>11, <1>12, <1>13 DEF ResumableStep

(* What a step may add to the counts. *)
LEMMA CountsKept ==
    ASSUME UploadInv, CountsInv, CountsStep, late' = NoChunk, wire' = wire,
           doubted => doubted', doubted' => doubted \/ faults' = faults + 1,
           edits' \in {edits, edits + 1},
           \/ removals' = removals + 1
           \/ removals' = removals /\ DOMAIN disk' = DOMAIN disk
              /\ \A i \in DOMAIN disk : disk'[i].opens = disk[i].opens
    PROVE  CountsInv' /\ (Calmly' => Calmly) /\ (~Calmly => ~Calmly')
<1>0. /\ faults \in Nat /\ signals \in Nat /\ edits \in Nat /\ removals \in Nat
  BY BoundsAssumption, UploadBoundsAssumption DEF UploadInv, TransactionInv, MoveTypeOK, FilesInv
<1>1. Signalled'
  BY <1>0 DEF CountsInv, Signalled, CountsStep
<1>2. doubted' => faults' # 0
  BY <1>0 DEF CountsInv, CountsStep
<1>3. removals' = 0 => \A i \in DOMAIN disk' : disk'[i].opens
  BY <1>0 DEF CountsInv
<1>4. Calmly' => Calmly
  BY <1>0 DEF Calmly, Disturbances, CountsStep
<1> QED BY <1>1, <1>2, <1>3, <1>4 DEF CountsInv

(* Every step of the workflow counts, and once an answer was in doubt and  *)
(* something else has gone wrong, that stays so.                           *)
LEMMA NextCounts ==
    ASSUME ~LateDelivery, MaxForeign = 0, UploadInv, CountsInv, [Next]_vars
    PROVE  CountsInv' /\ (Calmly' => Calmly)
<1>0. /\ late = NoChunk /\ wire = {} /\ faults \in Nat /\ signals \in Nat
      /\ meddled \in 0..MaxForeign
  BY BoundsAssumption DEF CountsInv, UploadInv, TransactionInv, MoveTypeOK
<1>u. ASSUME CountsStep, wire' = wire, UNCHANGED <<resumable, localVars>>
      PROVE  CountsInv' /\ (Calmly' => Calmly)
  BY <1>0, <1>u, CountsKept DEF resumable, localVars
<1>q. ASSUME UNCHANGED <<environment, resumable, localVars>>, interrupted' => interrupted
      PROVE  CountsInv' /\ (Calmly' => Calmly)
  BY <1>u, <1>q DEF CountsStep, environment
<1>1. CASE UNCHANGED vars \/ Terminated
  BY <1>1, <1>q DEF vars, moveVars, Terminated
<1>2. CASE PlanUploads
  BY <1>2, <1>q DEF PlanUploads, moveVars
<1>3. CASE UploadStep
  <2>1. CASE BeginUpload
    BY <1>q, <2>1 DEF BeginUpload, Abort
  <2>2. CASE CaptureFingerprint \/ VerifySent
    BY <1>q, <2>2 DEF CaptureFingerprint, VerifySent
  <2>3. CASE ConfirmedUploadFailure
    BY <1>q, <2>3 DEF ConfirmedUploadFailure
  <2>4. CASE OpenSource \/ EndResumable
    <3>1. /\ UNCHANGED <<environment, interrupted, session, late, doubted, localVars>>
      BY <2>4 DEF OpenSource, EndResumable
    <3>2. CountsStep /\ wire' = wire
      BY <3>1 DEF CountsStep, environment
    <3> QED BY <1>0, <3>1, <3>2, CountsKept DEF localVars
  <2>5. CASE SendUpload
    <3>1. PICK e \in ErrorKinds :
             /\ Send(Write(uploads[index].staging, disk[index].content), e)
             /\ doubted' = doubted \/ (e # "Ok" /\ AttemptFails(Err(e)))
             /\ UNCHANGED <<late, localVars>>
      BY <2>5 DEF SendUpload
    <3>2. CountsStep /\ wire' = wire
      BY <3>1, SendCounts, SendEffect
    <3>3. doubted' = doubted \/ (doubted' = TRUE /\ e = "Http")
      BY <3>1 DEF AttemptFails, Retry, IsRetryableUploadFailure, Err, UploadInv
    <3>4. e = "Http" => faults' = faults + 1
      BY <3>1 DEF Send, Unsent, Answered, Abandoned, Status
    <3> QED BY <1>0, <3>1, <3>2, <3>3, <3>4, CountsKept DEF localVars, UploadInv
  <2>6. CASE SendResumable
    BY <1>0, <2>6, ResumableCounts, CountsKept DEF SendResumable, localVars
  <2>7. CASE ConfirmWrite
    BY <1>u, <2>7, SendCounts, SendEffect DEF ConfirmWrite
  <2> QED BY <1>3, <2>1, <2>2, <2>3, <2>4, <2>5, <2>6, <2>7 DEF UploadStep
<1>4. CASE TransactionStep
  <2>0. UNCHANGED <<resumable, localVars>>
    BY <1>4 DEF TransactionStep
  <2>1. CASE EndUpload \/ EndPublish
    BY <1>q, <2>0, <2>1 DEF EndUpload, EndPublish, EndStage, EndFinalize, CheckedStep, Abort
  <2>2. CASE BeginPublish
    BY <1>q, <2>0, <2>2 DEF BeginPublish, RejectBucketLockObject, BeginMove, Abort
  <2>3. CASE StagingDone(Len(uploads)) \/ FinalizingDone
    BY <1>q, <2>0, <2>3 DEF StagingDone, FinalizingDone, moveVars
  <2>4. CASE RollbackRemote
    BY <1>q, <2>0, <2>4 DEF RollbackRemote, BeginRollback, CleanupRestored, EndRollback,
       SkipRollback, RollbackStagedNext, RollbackDoneAll, moveVars
  <2>5. CASE OpStep
    BY <1>u, <2>0, <2>5, OpStepCounts, OpStepFrame
  <2> QED BY <1>4, <2>1, <2>2, <2>3, <2>4, <2>5 DEF TransactionStep
<1>5. CASE Disturbance
  <2>1. CASE (Meddling \/ Land) /\ UNCHANGED <<resumable, localVars>>
    <3>1. Signal
      BY <1>0, <2>1 DEF Meddling, Land, ForeignWrite, ForeignDelete
    <3> QED BY <1>u, <2>1, <3>1 DEF Signal, CountsStep
  <2>2. CASE (EditSource \/ RemoveSource) /\ UNCHANGED resumable
    <3>1. UNCHANGED <<environment, interrupted>> /\ UNCHANGED resumable
      BY <2>2 DEF EditSource, RemoveSource, moveVars
    <3>2. CountsStep /\ wire' = wire /\ late' = NoChunk /\ doubted' = doubted
      BY <1>0, <3>1 DEF CountsStep, environment, resumable
    <3>3. CASE EditSource
      <4>1. edits' = edits + 1 /\ removals' = removals
        BY <3>3 DEF EditSource
      <4>2. /\ DOMAIN disk' = DOMAIN disk
            /\ \A i \in DOMAIN disk : disk'[i].opens = disk[i].opens
        BY <3>3 DEF EditSource, UploadInv, FilesInv
      <4> QED BY <3>2, <4>1, <4>2, CountsKept
    <3>4. CASE RemoveSource
      BY <3>2, <3>4, CountsKept DEF RemoveSource
    <3> QED BY <2>2, <3>3, <3>4
  <2>3. CASE ForgetUnits /\ UNCHANGED <<op, localVars>>
    <3>1. CountsStep /\ wire' = wire /\ late' = NoChunk /\ doubted' = doubted
      BY <1>0, <2>3 DEF ForgetUnits, Faulty, CountsStep
    <3> QED BY <2>3, <3>1, CountsKept DEF localVars
  <2>4. ~LandChunk
    BY <1>0 DEF LandChunk
  <2> QED BY <1>5, <2>1, <2>2, <2>3, <2>4 DEF Disturbance
<1> QED BY <1>1, <1>2, <1>3, <1>4, <1>5 DEF Next, RunStep

-----------------------------------------------------------------------------
(* The upload of one file. *)

(* Errors that are reported as they are, without a look at the bucket. *)
LEMMA QuickErrors ==
    ASSUME NEW e
    PROVE  Quick(Err(e)) <=> e \in {"Interrupted", "Token", "TokenInterrupted", "UploadSource",
                                    "Command"}
BY DEF Quick, Look, ReportsLeftovers, MayHaveReachedStorage, Err

(* After an answer in doubt, each of these takes a second disturbance. *)
LEMMA SecondDisturbance ==
    ASSUME UploadInv, CountsInv, CountsStep, doubted, doubted', UNCHANGED <<edits, removals>>,
           interrupted \/ faults' = faults + 1 \/ removals # 0
    PROVE  ~Calmly'
<1>0. /\ faults \in Nat /\ signals \in Nat /\ edits \in Nat /\ removals \in Nat
      /\ faults # 0 /\ (interrupted => signals # 0)
  BY BoundsAssumption, UploadBoundsAssumption
     DEF UploadInv, TransactionInv, MoveTypeOK, FilesInv, CountsInv, Signalled
<1>1. faults' \in Nat /\ signals' \in Nat /\ faults' >= faults /\ signals' >= signals
  BY <1>0 DEF CountsStep
<1>2. edits' = edits /\ removals' = removals
  OBVIOUS
<1>3. faults' >= 2 \/ signals' >= 1 \/ removals' >= 1
  <2>1. CASE interrupted
    BY <1>0, <1>1, <2>1
  <2>2. CASE faults' = faults + 1
    BY <1>0, <2>2
  <2>3. CASE removals # 0
    BY <1>0, <1>2, <2>3
  <2> QED BY <2>1, <2>2, <2>3
<1>4. faults' >= 1
  BY <1>0, <1>1
<1>5. \A f, g, m, n \in Nat :
         f >= 1 /\ (f >= 2 \/ g >= 1 \/ n >= 1) => ~(f + g + m + n <= 1)
  OBVIOUS
<1>6. ~(faults' + signals' + edits' + removals' <= 1)
  BY <1>0, <1>1, <1>2, <1>3, <1>4, <1>5
<1> QED BY <1>6 DEF Calmly, Disturbances

(* The ways the client of the session goes on and ends. *)
LEMMA TransferUpdates ==
    ASSUME transfer \in Transfers
    PROVE  /\ \A pc : TransferGoto(pc) =>
                 /\ transfer'.pc = pc /\ transfer'.offset = transfer.offset
                 /\ transfer'.error = transfer.error
           /\ \A pc : NextAttempt(pc) =>
                 /\ transfer'.pc = pc /\ transfer'.offset = transfer.offset
                 /\ transfer'.error = transfer.error
           /\ \A error : Finished(error) => transfer'.pc = "done" /\ transfer'.error = error
           /\ \A error : Cancel(error) => transfer'.pc = "cancel" /\ transfer'.error = error
           /\ Completed => transfer'.pc = "done" /\ transfer'.error = transfer.error
           /\ \A next : Advance(next) =>
                 \/ transfer'.pc = "cancel" /\ transfer'.error = Err("StorageResponse")
                 \/ transfer'.pc = "finalQuery" /\ transfer'.error = transfer.error
                 \/ /\ transfer'.pc = "chunk" /\ transfer'.error = transfer.error
                    /\ transfer'.offset = next /\ next # Size
<1>1. /\ \A pc : TransferGoto(pc) =>
            /\ transfer'.pc = pc /\ transfer'.offset = transfer.offset
            /\ transfer'.error = transfer.error
      /\ \A pc : NextAttempt(pc) =>
            /\ transfer'.pc = pc /\ transfer'.offset = transfer.offset
            /\ transfer'.error = transfer.error
  BY DEF Transfers, TransferGoto, NextAttempt
<1>2. /\ \A error : Finished(error) => transfer'.pc = "done" /\ transfer'.error = error
      /\ \A error : Cancel(error) => transfer'.pc = "cancel" /\ transfer'.error = error
      /\ Completed => transfer'.pc = "done" /\ transfer'.error = transfer.error
  BY DEF Transfers, Finished, Cancel, Completed
<1>3. ASSUME NEW next, Advance(next)
      PROVE  \/ transfer'.pc = "cancel" /\ transfer'.error = Err("StorageResponse")
             \/ transfer'.pc = "finalQuery" /\ transfer'.error = transfer.error
             \/ /\ transfer'.pc = "chunk" /\ transfer'.error = transfer.error
                /\ transfer'.offset = next /\ next # Size
  BY <1>2, <1>3 DEF Advance, Transfers
<1> QED BY <1>1, <1>2, <1>3

(* What the service does with a request of the session: unless it          *)
(* completes the session, the objects stay as they are, and completing it  *)
(* adds its object.                                                        *)
SessionAdds ==
    \/ objects' = objects
    \/ /\ session'.state = "complete" /\ session.state = "open" /\ ~Present(session.target)
       /\ \E version : objects' = [objects EXCEPT ![session.target] = version]

(* The requests that may complete a session. *)
LEMMA ProcessAddsOne ==
    ASSUME session \in Sessions
    PROVE  /\ \A first, data : ProcessChunk(first, data) => SessionAdds
           /\ ProcessQuery =>
                 /\ SessionAdds
                 /\ session.committed # Size => objects' = objects /\ session' = session
<1>1. ASSUME NEW kept, kept \in Sessions, kept.target = session.target, session.state = "open",
             Complete(kept)
      PROVE  SessionAdds
  <2>1. CASE Present(kept.target)
    BY <1>1, <2>1 DEF Complete, SessionAdds, service
  <2>2. CASE ~Present(kept.target)
    <3>1. session'.state = "complete"
      BY <1>1, <2>2 DEF Complete, Sessions
    <3>2. objects' = [objects EXCEPT ![session.target] = [gen |-> nextGen, data |-> kept.data]]
      BY <1>1, <2>2 DEF Complete
    <3> QED BY <1>1, <2>2, <3>1, <3>2 DEF SessionAdds
  <2> QED BY <2>1, <2>2
<1>2. ASSUME NEW first, NEW data, ProcessChunk(first, data) PROVE SessionAdds
  <2>1. CASE UNCHANGED service
    BY <2>1 DEF SessionAdds, service
  <2>2. ASSUME NEW committed, session.state = "open",
               Complete([session EXCEPT !.committed = committed, !.data = Blend(committed, data)])
        PROVE  SessionAdds
    <3> DEFINE kept == [session EXCEPT !.committed = committed, !.data = Blend(committed, data)]
    <3>1. /\ kept.target = session.target
          /\ [kept EXCEPT !.state = "complete", !.generation = nextGen].state = "complete"
      BY DEF Sessions
    <3> HIDE DEF kept
    <3>2. CASE Present(kept.target)
      BY <2>2, <3>2 DEF Complete, SessionAdds, service, kept
    <3>3. CASE ~Present(kept.target)
      <4>1. /\ session' = [kept EXCEPT !.state = "complete", !.generation = nextGen]
            /\ objects' = [objects EXCEPT ![kept.target] = [gen |-> nextGen, data |-> kept.data]]
        BY <2>2, <3>3 DEF Complete, kept
      <4> QED BY <2>2, <3>1, <3>3, <4>1 DEF SessionAdds
    <3> QED BY <3>2, <3>3
  <2> QED BY <1>2, <2>1, <2>2 DEF ProcessChunk
<1>3. ASSUME ProcessQuery
      PROVE  /\ SessionAdds
             /\ session.committed # Size => objects' = objects /\ session' = session
  BY <1>1, <1>3 DEF ProcessQuery, SessionAdds, service
<1> QED BY <1>2, <1>3

(* A step that touches no object but the staged one of the file at hand,   *)
(* and that only if it was not there.                                      *)
StagingAdds ==
    \A name \in Names : objects'[name] # objects[name] => name = StagingOf(index) /\ ~Present(name)

(* What can become of a chunk and of a query. *)
LEMMA SessionOutcomes ==
    ASSUME ~LateDelivery, session \in Sessions, faults \in Nat, NEW data, NEW e
    PROVE  /\ SendChunk(data, e) =>
                 /\ SessionAdds
                 /\ \/ /\ e \in {"Interrupted", "HttpConnect", "Unauthorized"}
                       /\ UNCHANGED <<objects, session>> /\ (e = "Interrupted" => interrupted)
                    \/ e \in {"Http", "StorageResponse", "ServerError"} /\ faults' # faults
                    \/ e \in {"InterruptedAfterRequest", "PreconditionFailed", "Ok"}
                    \/ /\ e = "StorageResponse"
                       /\ session'.state = "open" /\ session'.committed = 0
           /\ SendQuery(e) =>
                 /\ SessionAdds
                 /\ session.committed # Size => objects' = objects /\ session' = session
                 /\ \/ /\ e \in {"Interrupted", "HttpConnect", "Unauthorized"}
                       /\ UNCHANGED <<objects, session>> /\ (e = "Interrupted" => interrupted)
                    \/ e \in {"Http", "StorageResponse", "ServerError",
                              "InterruptedAfterRequest", "PreconditionFailed", "Ok"}
<1>1. ASSUME NotExecuted(e)
      PROVE  /\ UNCHANGED <<objects, session>> /\ (e = "Interrupted" => interrupted)
             /\ e \in {"Interrupted", "HttpConnect", "Unauthorized"} /\ SessionAdds
  BY <1>1 DEF NotExecuted, service, SessionAdds
<1>2. ASSUME AnswerLost(e)
      PROVE  \/ e \in {"Http", "StorageResponse", "ServerError"} /\ faults' = faults + 1
             \/ e = "InterruptedAfterRequest"
  BY <1>2 DEF AnswerLost, Faulty
<1>3. Answer \in {"Ok", "PreconditionFailed"}
  BY DEF Answer
<1>4. ASSUME SendChunk(data, e), ~NotExecuted(e) PROVE SessionAdds
  <2>1. CASE ProcessChunk(transfer.offset, data)
    BY <2>1, ProcessAddsOne
  <2>2. CASE UNCHANGED service
    BY <2>2 DEF SessionAdds, service
  <2> QED BY <1>4, <2>1, <2>2 DEF SendChunk, Untouched
<1>5. ASSUME SendChunk(data, e), ~NotExecuted(e)
      PROVE  \/ AnswerLost(e)
             \/ e \in {"Ok", "PreconditionFailed"}
             \/ e = "StorageResponse" /\ session'.state = "open" /\ session'.committed = 0
  BY <1>3, <1>5 DEF SendChunk, RangeOmitted
<1>6. ASSUME SendQuery(e), ~NotExecuted(e)
      PROVE  ProcessQuery /\ (AnswerLost(e) \/ e \in {"Ok", "PreconditionFailed"})
  BY <1>3, <1>6 DEF SendQuery
<1>7. faults' = faults + 1 => faults' # faults
  OBVIOUS
<1> QED BY <1>1, <1>2, <1>4, <1>5, <1>6, <1>7, ProcessAddsOne

(* Each step of the client of the session keeps the account of the staged  *)
(* object: as long as no answer was in doubt it is missing, up to the      *)
(* request that completes the session.                                     *)
LEMMA TransferCourseStep ==
    ASSUME ~LateDelivery, UploadInv, CountsInv, CountsInv', TransferHeld, TransferCourse,
           index \in DOMAIN files, transfer.pc # "done",
           ResumableStep(StagingOf(index), SourceOpens(index), disk[index].content),
           UNCHANGED <<index, files, edits, removals>>
    PROVE  TransferCourse' /\ StagingAdds
<1>0. /\ transfer \in Transfers /\ transfer.offset \in 0..Size /\ session \in Sessions
      /\ session' \in Sessions /\ faults \in Nat /\ objects \in [Names -> Versions]
      /\ Size \in Nat \ {0} /\ late = NoChunk /\ StagingOf(index) \in Names
      /\ StagingOf(index)' = StagingOf(index) /\ transfer' \in Transfers
  <2>1. /\ ServiceInv /\ SessionInv /\ TransferInv /\ doubted \in BOOLEAN
        /\ disk[index].content \in Names
    BY UploadService DEF UploadInv, FilesInv
  <2>2. StagingOf(index) \in Names
    BY FileNames DEF UploadInv
  <2>3. SessionInv' /\ TransferInv'
    BY <2>1, <2>2, ResumableStepInv
  <2> QED BY <2>1, <2>2, <2>3, ResumableAssumption, BoundsAssumption
          DEF SessionInv, TransferInv, Transfers, ServiceInv, ServiceTypeOK, CountsInv, StagingOf
<1>1. /\ CountsStep /\ (doubted => doubted') /\ (doubted' => doubted \/ faults' = faults + 1)
  BY <1>0, ResumableCounts
<1>e. ASSUME NEW e, transfer'.pc \in {"cancel", "done"}, transfer'.error = Err(e),
             \/ ~Quick(Err(e))
             \/ /\ objects' = objects /\ doubted' = doubted /\ (doubted \/ Vacant)
                /\ interrupted \/ faults' = faults + 1 \/ removals # 0
      PROVE  TransferCourse'
  <2>1. CASE ~Quick(Err(e))
    BY <1>e, <2>1 DEF TransferCourse, Accounted, StartPcs, FinalPcs, ChunkPcs
  <2>2. CASE doubted /\ doubted' /\ (interrupted \/ faults' = faults + 1 \/ removals # 0)
    <3>1. ~Calmly'
      BY <1>1, <2>2, SecondDisturbance
    <3> QED BY <1>e, <3>1 DEF TransferCourse, Accounted, StartPcs, FinalPcs, ChunkPcs
  <2>3. CASE Vacant /\ objects' = objects
    <3>1. Vacant'
      BY <1>0, <2>3 DEF Vacant, Present
    <3> QED BY <1>e, <3>1 DEF TransferCourse, Accounted, StartPcs, FinalPcs, ChunkPcs
  <2> QED BY <1>e, <2>1, <2>2, <2>3
<1>o. ASSUME transfer'.pc \in StartPcs \cup FinalPcs, IsOk(transfer'.error),
             transfer'.pc \in StartPcs => transfer'.offset < Size,
             doubted \/ Vacant, objects' = objects
      PROVE  TransferCourse'
  <2>1. doubted' \/ Vacant'
    BY <1>0, <1>1, <1>o DEF Vacant, Present
  <2> QED BY <1>o, <2>1 DEF TransferCourse, StartPcs, FinalPcs, ChunkPcs
<1>c. ASSUME transfer'.pc \in ChunkPcs, transfer'.offset < Size, IsOk(transfer'.error),
             doubted' \/ (Vacant /\ objects' = objects /\ session'.committed < Size)
      PROVE  TransferCourse'
  <2>1. doubted' \/ (Vacant' /\ session'.committed < Size)
    BY <1>0, <1>c DEF Vacant, Present
  <2> QED BY <1>c, <2>1 DEF TransferCourse, StartPcs, FinalPcs, ChunkPcs
<1>d. ASSUME transfer'.pc = "done", IsOk(transfer'.error) PROVE TransferCourse'
  <2>1. ~Quick(transfer'.error)
    BY <1>d DEF IsOk, Quick, MayHaveReachedStorage
  <2> QED BY <1>d, <2>1 DEF TransferCourse, Accounted, StartPcs, FinalPcs, ChunkPcs
<1>a. ASSUME SessionAdds, transfer.pc \in SessionPcs PROVE StagingAdds
  <2>1. session.target = StagingOf(index)
    BY <1>a DEF TransferHeld, SessionOurs
  <2> QED BY <1>0, <1>a, <2>1 DEF SessionAdds, StagingAdds
<1>b. ASSUME objects' = objects PROVE StagingAdds
  BY <1>b DEF StagingAdds
<1>t. ASSUME NEW e, FetchToken(e)
      PROVE  /\ objects' = objects /\ session' = session
             /\ e # "Ok" => interrupted \/ faults' = faults + 1
  BY <1>t DEF FetchToken, Faulty, service
<1>2. CASE FirstToken \/ RestartToken
  <2>1. PICK e \in TokenKinds \cup {"Ok"} :
           /\ FetchToken(e) /\ doubted' = doubted
           /\ \/ /\ transfer'.pc = "start" /\ transfer'.error = transfer.error
                 /\ transfer'.offset = transfer.offset
              \/ e # "Ok" /\ transfer'.pc = "done" /\ transfer'.error = Err(e)
    <3>1. /\ \A e : Finished(Err(e)) => transfer'.pc = "done" /\ transfer'.error = Err(e)
          /\ NextAttempt("start") => /\ transfer'.pc = "start" /\ transfer'.error = transfer.error
                                     /\ transfer'.offset = transfer.offset
      BY <1>0, TransferUpdates
    <3> QED BY <1>0, <1>2, <3>1 DEF FirstToken, RestartToken, Transfers
  <2>2. IsOk(transfer.error) /\ (doubted \/ Vacant) /\ transfer.offset < Size
    BY <1>2 DEF FirstToken, RestartToken, TransferCourse, StartPcs
  <2> QED BY <1>b, <1>e, <1>o, <1>t, <2>1, <2>2 DEF StartPcs
<1>3. CASE StartResumableSession(StagingOf(index))
  <2>0. IsOk(transfer.error) /\ (doubted \/ Vacant) /\ transfer.offset < Size
    BY <1>3 DEF StartResumableSession, TransferCourse, StartPcs
  <2>1. PICK e \in ErrorKinds :
           /\ SendStart(StagingOf(index), e) /\ doubted' = doubted
           /\ \/ /\ e = "Ok" /\ transfer'.pc = "chunk" /\ transfer'.error = transfer.error
                 /\ transfer'.offset = transfer.offset
              \/ /\ transfer'.pc \in {"restart", "start"} /\ transfer'.error = transfer.error
                 /\ transfer'.offset = transfer.offset
              \/ e # "Ok" /\ transfer'.pc = "done" /\ transfer'.error = Err(e)
    <3>1. /\ \A e : Finished(Err(e)) => transfer'.pc = "done" /\ transfer'.error = Err(e)
          /\ NextAttempt("start") => /\ transfer'.pc = "start" /\ transfer'.error = transfer.error
                                     /\ transfer'.offset = transfer.offset
          /\ TransferGoto("restart") => /\ transfer'.pc = "restart" /\ transfer'.error = transfer.error
                                        /\ transfer'.offset = transfer.offset
      BY <1>0, TransferUpdates
    <3> QED BY <1>0, <1>3, <3>1 DEF StartResumableSession, Transfers
  <2>2. /\ objects' = objects
        /\ e = "Ok" => session' = [NoSession EXCEPT !.state = "open", !.target = StagingOf(index)]
        /\ e \in {"Interrupted", "Token", "TokenInterrupted", "UploadSource", "Command"} => interrupted
    BY <2>1 DEF SendStart, NotExecuted, AnswerLost, Untouched, Calm, service
  <2>3. StagingAdds
    BY <1>b, <2>2
  <2>4. CASE e = "Ok" /\ transfer'.pc = "chunk" /\ transfer'.error = transfer.error
             /\ transfer'.offset = transfer.offset
    <3>1. session'.committed = 0
      BY <2>2, <2>4 DEF NoSession
    <3>2. 0 < Size
      BY <1>0
    <3> QED BY <1>c, <2>0, <2>1, <2>2, <2>3, <2>4, <3>1, <3>2 DEF ChunkPcs
  <2>5. CASE transfer'.pc \in {"restart", "start"} /\ transfer'.error = transfer.error
             /\ transfer'.offset = transfer.offset
    BY <1>o, <2>0, <2>2, <2>3, <2>5 DEF StartPcs
  <2>6. CASE e # "Ok" /\ transfer'.pc = "done" /\ transfer'.error = Err(e)
    BY <1>e, <2>0, <2>1, <2>2, <2>3, <2>6, QuickErrors
  <2> QED BY <2>1, <2>4, <2>5, <2>6
<1>4. CASE UploadResumableChunk(SourceOpens(index), disk[index].content)
  <2>0. /\ IsOk(transfer.error) /\ transfer.offset < Size /\ transfer.pc \in SessionPcs
        /\ doubted \/ (Vacant /\ session.committed < Size)
    BY <1>4 DEF UploadResumableChunk, TransferCourse, ChunkPcs, SessionPcs
  <2>1. CASE ~SourceOpens(index)
    <3>1. Cancel(Err("UploadSource")) /\ UNCHANGED <<objects, doubted>>
      BY <1>4, <2>1 DEF UploadResumableChunk, service
    <3>2. transfer'.pc = "cancel" /\ transfer'.error = Err("UploadSource")
      BY <1>0, <3>1, TransferUpdates
    <3>3. removals # 0
      BY <2>1 DEF CountsInv, SourceOpens, UploadInv, FilesInv
    <3> QED BY <1>b, <1>e, <2>0, <3>1, <3>2, <3>3
  <2>2. CASE SourceOpens(index)
    <3>1. PICK e \in ErrorKinds :
             /\ SendChunk(disk[index].content, e)
             /\ \/ e = "Ok" /\ ChunkAnswered
                \/ e = "Unauthorized" /\ TransferGoto("refresh")
                \/ Retryable(e) /\ TransferGoto("query")
                \/ e # "Ok" /\ Cancel(Err(e))
             /\ doubted' = (doubted \/ (/\ transfer'.pc = "query"
                                        /\ e # "HttpConnect" /\ faults' # faults))
      BY <1>4, <2>2 DEF UploadResumableChunk
    <3> DEFINE Unexecuted == /\ e \in {"Interrupted", "HttpConnect", "Unauthorized"}
                             /\ UNCHANGED <<objects, session>> /\ (e = "Interrupted" => interrupted)
               Failed == e \in {"Http", "StorageResponse", "ServerError"} /\ faults' # faults
               Answering == e \in {"InterruptedAfterRequest", "PreconditionFailed", "Ok"}
               Empty == e = "StorageResponse" /\ session'.state = "open" /\ session'.committed = 0
    <3>2. SessionAdds /\ (Unexecuted \/ Failed \/ Answering \/ Empty)
      BY <1>0, <3>1, SessionOutcomes
    <3>3. StagingAdds
      BY <1>a, <2>0, <3>2
    <3>4. session'.state # "complete" => objects' = objects
      BY <3>2 DEF SessionAdds
    <3>5. CASE e = "Ok" /\ ChunkAnswered
      <4>1. doubted' \/ Vacant
        BY <2>0, <3>1
      <4>2. CASE session'.state = "complete"
        <5>1. transfer'.pc = "done" /\ transfer'.error = transfer.error
          BY <1>0, <3>5, <4>2, TransferUpdates DEF ChunkAnswered
        <5> QED BY <1>d, <2>0, <3>3, <5>1
      <4>3. CASE session'.state # "complete" /\ session'.committed = transfer.offset /\ NextAttempt("chunk")
        <5>1. /\ transfer'.pc = "chunk" /\ transfer'.error = transfer.error
              /\ transfer'.offset = transfer.offset
          BY <1>0, <4>3, TransferUpdates
        <5> QED BY <1>c, <2>0, <3>3, <3>4, <4>1, <4>3, <5>1 DEF ChunkPcs
      <4>4. CASE session'.state # "complete" /\ Advance(session'.committed)
        <5>1. session'.committed \in 0..Size
          BY <1>0 DEF Sessions
        <5>2. \/ transfer'.pc = "cancel" /\ transfer'.error = Err("StorageResponse")
              \/ transfer'.pc = "finalQuery" /\ transfer'.error = transfer.error
              \/ /\ transfer'.pc = "chunk" /\ transfer'.error = transfer.error
                 /\ transfer'.offset = session'.committed /\ session'.committed # Size
          BY <1>0, <4>4, TransferUpdates
        <5>3. CASE transfer'.pc = "cancel" /\ transfer'.error = Err("StorageResponse")
          BY <1>e, <3>3, <5>3, QuickErrors
        <5>4. CASE transfer'.pc = "finalQuery" /\ transfer'.error = transfer.error
          BY <1>o, <2>0, <3>3, <3>4, <4>4, <5>4 DEF FinalPcs, StartPcs
        <5>5. CASE /\ transfer'.pc = "chunk" /\ transfer'.error = transfer.error
                   /\ transfer'.offset = session'.committed /\ session'.committed # Size
          <6>1. session'.committed < Size
            BY <1>0, <5>1, <5>5
          <6> QED BY <1>c, <2>0, <3>3, <3>4, <4>1, <4>4, <5>5, <6>1 DEF ChunkPcs
        <5> QED BY <5>2, <5>3, <5>4, <5>5
      <4> QED BY <3>5, <4>2, <4>3, <4>4 DEF ChunkAnswered
    <3>6. CASE e = "Unauthorized" /\ TransferGoto("refresh")
      <4>1. /\ transfer'.pc = "refresh" /\ transfer'.error = transfer.error
            /\ transfer'.offset = transfer.offset
        BY <1>0, <3>6, TransferUpdates
      <4>2. UNCHANGED <<objects, session>>
        BY <3>2, <3>6
      <4> QED BY <1>c, <2>0, <3>1, <3>3, <4>1, <4>2 DEF ChunkPcs
    <3>7. CASE Retryable(e) /\ TransferGoto("query")
      <4>1. /\ transfer'.pc = "query" /\ transfer'.error = transfer.error
            /\ transfer'.offset = transfer.offset
        BY <1>0, <3>7, TransferUpdates
      <4>2. e \in {"HttpConnect", "StorageResponse", "Http", "ServerError"}
        BY <3>7 DEF Retryable, IsRetryableResumableFailure, Err
      <4>3. CASE Unexecuted
        BY <1>c, <2>0, <3>1, <3>3, <4>1, <4>3 DEF ChunkPcs
      <4>4. CASE Failed
        BY <1>c, <2>0, <3>1, <3>3, <4>1, <4>4 DEF ChunkPcs
      <4>5. CASE Empty
        <5>1. objects' = objects /\ session'.committed < Size
          BY <1>0, <3>4, <4>5
        <5> QED BY <1>c, <2>0, <3>1, <3>3, <4>1, <5>1 DEF ChunkPcs
      <4> QED BY <3>2, <4>2, <4>3, <4>4, <4>5
    <3>8. CASE e # "Ok" /\ Cancel(Err(e))
      <4>1. transfer'.pc = "cancel" /\ transfer'.error = Err(e)
        BY <1>0, <3>8, TransferUpdates
      <4>2. doubted' = doubted
        BY <3>1, <4>1 DEF UploadInv
      <4>3. Quick(Err(e)) => objects' = objects /\ interrupted
        BY <3>2, QuickErrors
      <4> QED BY <1>e, <2>0, <3>3, <4>1, <4>2, <4>3
    <3> QED BY <3>1, <3>5, <3>6, <3>7, <3>8
  <2> QED BY <2>1, <2>2
<1>5. CASE RefreshToken \/ RequeryToken
  <2>0. /\ IsOk(transfer.error) /\ transfer.offset < Size
        /\ doubted \/ (Vacant /\ session.committed < Size)
    BY <1>5 DEF RefreshToken, RequeryToken, TransferCourse, ChunkPcs
  <2>1. PICK e \in TokenKinds \cup {"Ok"} :
           /\ FetchToken(e) /\ doubted' = doubted
           /\ TransferGoto("query") \/ NextAttempt("chunk") \/ (e # "Ok" /\ Cancel(Err(e)))
    BY <1>5 DEF RefreshToken, RequeryToken
  <2>2. CASE TransferGoto("query") \/ NextAttempt("chunk")
    <3>1. /\ transfer'.pc \in {"query", "chunk"} /\ transfer'.error = transfer.error
          /\ transfer'.offset = transfer.offset
      BY <1>0, <2>2, TransferUpdates
    <3> QED BY <1>b, <1>c, <1>t, <2>0, <2>1, <3>1 DEF ChunkPcs
  <2>3. CASE e # "Ok" /\ Cancel(Err(e))
    <3>1. transfer'.pc = "cancel" /\ transfer'.error = Err(e)
      BY <1>0, <2>3, TransferUpdates
    <3> QED BY <1>b, <1>e, <1>t, <2>0, <2>1, <2>3, <3>1
  <2> QED BY <2>1, <2>2, <2>3
<1>6. CASE QueryResumableProgress
  <2>0. /\ IsOk(transfer.error) /\ transfer.offset < Size /\ transfer.pc \in SessionPcs
        /\ doubted \/ (Vacant /\ session.committed < Size)
    BY <1>6 DEF QueryResumableProgress, TransferCourse, ChunkPcs, SessionPcs
  <2>1. PICK e \in ErrorKinds :
           /\ SendQuery(e) /\ doubted' = doubted
           /\ \/ e = "Ok" /\ session'.state = "complete" /\ Completed
              \/ e = "Ok" /\ session'.committed = transfer.offset /\ NextAttempt("chunk")
              \/ e = "Ok" /\ Advance(session'.committed)
              \/ e = "Unauthorized" /\ TransferGoto("requery")
              \/ Retryable(e) /\ NextAttempt("chunk")
              \/ e # "Ok" /\ Cancel(Err(e))
    BY <1>6 DEF QueryResumableProgress
  <2>2. /\ SessionAdds
        /\ session.committed # Size => objects' = objects /\ session' = session
        /\ \/ /\ e \in {"Interrupted", "HttpConnect", "Unauthorized"}
              /\ UNCHANGED <<objects, session>> /\ (e = "Interrupted" => interrupted)
           \/ e \in {"Http", "StorageResponse", "ServerError",
                     "InterruptedAfterRequest", "PreconditionFailed", "Ok"}
    BY <1>0, <2>1, SessionOutcomes
  <2>3. StagingAdds
    BY <1>a, <2>0, <2>2
  <2>4. session'.committed \in 0..Size
    BY <1>0 DEF Sessions
  <2>5. doubted \/ (Vacant /\ objects' = objects /\ session'.committed < Size)
    <3>1. session.committed < Size => session.committed # Size
      BY <1>0
    <3> QED BY <2>0, <2>2, <3>1
  <2>6. CASE Completed
    <3>1. transfer'.pc = "done" /\ transfer'.error = transfer.error
      BY <1>0, <2>6, TransferUpdates
    <3> QED BY <1>d, <2>0, <2>3, <3>1
  <2>7. CASE NextAttempt("chunk") \/ TransferGoto("requery")
    <3>1. /\ transfer'.pc \in {"requery", "chunk"} /\ transfer'.error = transfer.error
          /\ transfer'.offset = transfer.offset
      BY <1>0, <2>7, TransferUpdates
    <3> QED BY <1>c, <2>0, <2>1, <2>3, <2>5, <3>1 DEF ChunkPcs
  <2>8. CASE Advance(session'.committed)
    <3>1. \/ transfer'.pc = "cancel" /\ transfer'.error = Err("StorageResponse")
          \/ transfer'.pc = "finalQuery" /\ transfer'.error = transfer.error
          \/ /\ transfer'.pc = "chunk" /\ transfer'.error = transfer.error
             /\ transfer'.offset = session'.committed /\ session'.committed # Size
      BY <1>0, <2>8, TransferUpdates
    <3>2. CASE transfer'.pc = "cancel" /\ transfer'.error = Err("StorageResponse")
      BY <1>e, <2>3, <3>2, QuickErrors
    <3>3. CASE transfer'.pc = "finalQuery" /\ transfer'.error = transfer.error
      BY <2>0, <2>1, <2>3, <2>5, <3>3, <1>1
         DEF TransferCourse, FinalPcs, StartPcs, ChunkPcs, Vacant, Present, StagingOf
    <3>4. CASE /\ transfer'.pc = "chunk" /\ transfer'.error = transfer.error
               /\ transfer'.offset = session'.committed /\ session'.committed # Size
      <4>1. session'.committed < Size
        BY <1>0, <2>4, <3>4
      <4> QED BY <1>c, <2>0, <2>1, <2>3, <2>5, <3>4, <4>1 DEF ChunkPcs
    <3> QED BY <3>1, <3>2, <3>3, <3>4
  <2>9. CASE e # "Ok" /\ Cancel(Err(e))
    <3>1. transfer'.pc = "cancel" /\ transfer'.error = Err(e)
      BY <1>0, <2>9, TransferUpdates
    <3>2. Quick(Err(e)) => objects' = objects /\ interrupted
      BY <2>2, QuickErrors
    <3> QED BY <1>e, <2>0, <2>1, <2>3, <3>1, <3>2
  <2> QED BY <2>1, <2>6, <2>7, <2>8, <2>9
<1>7. CASE FinalQuery
  <2>0. IsOk(transfer.error) /\ transfer.pc \in SessionPcs /\ (doubted \/ Vacant)
    BY <1>7 DEF FinalQuery, TransferCourse, FinalPcs, SessionPcs
  <2>1. PICK e \in ErrorKinds :
           /\ SendQuery(e) /\ doubted' = doubted
           /\ \/ Completed
              \/ Cancel(Err("StorageResponse"))
              \/ e = "Unauthorized" /\ TransferGoto("finalRefresh")
              \/ e # "Ok" /\ Cancel(Err(e))
    BY <1>7 DEF FinalQuery
  <2>2. /\ SessionAdds
        /\ \/ /\ e \in {"Interrupted", "HttpConnect", "Unauthorized"}
              /\ UNCHANGED <<objects, session>> /\ (e = "Interrupted" => interrupted)
           \/ e \in {"Http", "StorageResponse", "ServerError",
                     "InterruptedAfterRequest", "PreconditionFailed", "Ok"}
    BY <1>0, <2>1, SessionOutcomes
  <2>3. StagingAdds
    BY <1>a, <2>0, <2>2
  <2>4. CASE Completed
    <3>1. transfer'.pc = "done" /\ transfer'.error = transfer.error
      BY <1>0, <2>4, TransferUpdates
    <3> QED BY <1>d, <2>0, <2>3, <3>1
  <2>5. CASE Cancel(Err("StorageResponse"))
    <3>1. transfer'.pc = "cancel" /\ transfer'.error = Err("StorageResponse")
      BY <1>0, <2>5, TransferUpdates
    <3> QED BY <1>e, <2>3, <3>1, QuickErrors
  <2>6. CASE e = "Unauthorized" /\ TransferGoto("finalRefresh")
    <3>1. transfer'.pc = "finalRefresh" /\ transfer'.error = transfer.error
      BY <1>0, <2>6, TransferUpdates
    <3> QED BY <1>o, <2>0, <2>2, <2>3, <2>6, <3>1 DEF FinalPcs, StartPcs
  <2>7. CASE e # "Ok" /\ Cancel(Err(e))
    <3>1. transfer'.pc = "cancel" /\ transfer'.error = Err(e)
      BY <1>0, <2>7, TransferUpdates
    <3>2. Quick(Err(e)) => objects' = objects /\ interrupted
      BY <2>2, QuickErrors
    <3> QED BY <1>e, <2>0, <2>1, <2>3, <3>1, <3>2
  <2> QED BY <2>1, <2>4, <2>5, <2>6, <2>7
<1>8. CASE FinalRefresh
  <2>0. doubted \/ Vacant
    BY <1>8 DEF FinalRefresh, TransferCourse, FinalPcs
  <2>1. PICK e \in TokenKinds \cup {"Ok"} :
           FetchToken(e) /\ doubted' = doubted /\ Cancel(Err(IF e = "Ok" THEN "Unauthorized" ELSE e))
    BY <1>8 DEF FinalRefresh
  <2>2. transfer'.pc = "cancel" /\ transfer'.error = Err(IF e = "Ok" THEN "Unauthorized" ELSE e)
    BY <1>0, <2>1, TransferUpdates
  <2>3. CASE e = "Ok"
    BY <1>b, <1>e, <1>t, <2>1, <2>2, <2>3, QuickErrors
  <2>4. CASE e # "Ok"
    BY <1>b, <1>e, <1>t, <2>0, <2>1, <2>2, <2>4
  <2> QED BY <2>3, <2>4
<1>9. CASE ClearInterruptForCancel
  <2>1. /\ transfer.pc = "cancel" /\ transfer'.pc = "delete" /\ transfer'.error = transfer.error
        /\ objects' = objects /\ UNCHANGED <<environment, doubted>>
    BY <1>0, <1>9, TransferUpdates DEF ClearInterruptForCancel, service
  <2>2. Calmly' => Calmly
    BY <2>1 DEF Calmly, Disturbances, environment
  <2>3. Vacant => Vacant'
    BY <1>0, <2>1 DEF Vacant, Present
  <2> QED BY <1>b, <2>1, <2>2, <2>3 DEF TransferCourse, Accounted, StartPcs, FinalPcs, ChunkPcs
<1>10. CASE CancelResumableSession
  <2>1. PICK e \in ErrorKinds : SendCancel(e) /\ Finished(Rollback(transfer.error, e # "Ok"))
    BY <1>10 DEF CancelResumableSession
  <2>2. /\ transfer'.pc = "done" /\ transfer'.error = Rollback(transfer.error, e # "Ok")
        /\ transfer.pc = "delete" /\ doubted' = doubted
    BY <1>0, <1>10, <2>1, TransferUpdates DEF CancelResumableSession
  <2>3. objects' = objects
    BY <2>1 DEF SendCancel, ProcessCancel, NotExecuted, AnswerLost, Untouched, Calm, service
  <2>4. CASE e # "Ok"
    <3>1. ~Quick(transfer'.error)
      BY <1>0, <2>2, <2>4 DEF Rollback, Quick, MayHaveReachedStorage, Transfers, AppErrors
    <3> QED BY <1>b, <2>2, <2>3, <3>1 DEF TransferCourse, Accounted, StartPcs, FinalPcs, ChunkPcs
  <2>5. CASE e = "Ok"
    <3>1. transfer'.error = transfer.error
      BY <2>2, <2>5 DEF Rollback
    <3>2. Vacant => Vacant'
      BY <1>0, <2>3 DEF Vacant, Present
    <3>3. Calmly' => Calmly
      <4>1. faults \in Nat /\ signals \in Nat /\ edits \in Nat /\ removals \in Nat
        BY BoundsAssumption, UploadBoundsAssumption
           DEF UploadInv, TransactionInv, MoveTypeOK, FilesInv
      <4> QED BY <1>1, <2>2, <4>1 DEF Calmly, Disturbances, CountsStep
    <3> QED BY <1>b, <2>2, <2>3, <3>1, <3>2, <3>3
            DEF TransferCourse, Accounted, StartPcs, FinalPcs, ChunkPcs
  <2> QED BY <2>4, <2>5
<1> QED BY <1>2, <1>3, <1>4, <1>5, <1>6, <1>7, <1>8, <1>9, <1>10 DEF ResumableStep

(* Each step of an upload keeps the account of the staged object: as long  *)
(* as no answer was in doubt it is missing until the write is executed,    *)
(* and an error that is reported without a look at the bucket then means   *)
(* that it still is.  After an answer in doubt such an error is a second   *)
(* disturbance.                                                            *)
LEMMA UploadCourseStep ==
    ASSUME ~LateDelivery, MaxForeign = 0, UploadInv, PublishInv, CountsInv, CountsInv',
           upload.pc = "capture" => Vacant, UploadCourse, upload.pc # "idle", UploadStep
    PROVE  UploadCourse' /\ StagingAdds
<1>0. /\ upload \in Uploads /\ phase = "stage" /\ op = Idle /\ op.pc = "idle"
      /\ index \in DOMAIN files /\ index \in DOMAIN uploads /\ meddled = 0
      /\ uploads[index].staging = StagingOf(index) /\ StagingOf(index) \in Names
      /\ objects \in [Names -> Versions] /\ doubted \in BOOLEAN
      /\ UNCHANGED <<phase, index, files, uploads>> /\ StagingOf(index)' = StagingOf(index)
  <2>1. /\ upload \in Uploads /\ phase = "stage" /\ op = Idle /\ index \in DOMAIN uploads
        /\ meddled \in 0..MaxForeign /\ objects \in [Names -> Versions] /\ doubted \in BOOLEAN
    BY DEF UploadInv, UploadingInv, TransactionInv, MoveTypeOK
  <2>2. /\ index \in DOMAIN files /\ uploads[index].staging = StagingOf(index)
        /\ StagingOf(index) \in Names
    BY <2>1, StagedFiles, FileNames DEF PublishInv, UploadInv
  <2>3. UNCHANGED <<phase, index, files, uploads>>
    BY <2>1 DEF UploadStep, BeginUpload, CaptureFingerprint, OpenSource, SendUpload,
       SendResumable, EndResumable, VerifySent, ConfirmedUploadFailure, ConfirmWrite,
       transactionVars, plan
  <2> QED BY <2>1, <2>2, <2>3 DEF Idle, StagingOf
<1>b. ASSUME objects' = objects PROVE StagingAdds /\ (Vacant => Vacant')
  BY <1>0, <1>b DEF StagingAdds, Vacant, Present
<1>s. ASSUME NEW pc, UploadGoto(pc) PROVE upload'.pc = pc /\ op' = op
  BY <1>0, <1>s DEF UploadGoto, Uploads
<1>f. ASSUME NEW error, UploadFails(error)
      PROVE  upload'.pc = "failed" /\ upload'.error = error /\ op' = op
  BY <1>0, <1>f DEF UploadFails, Uploads
<1>r. ASSUME NEW error, NEW g, UploadReturns(error, g)
      PROVE  upload'.pc = "idle" /\ op'.pc = "done" /\ op'.error = error
  BY <1>r DEF UploadReturns, NoUpload, Call
<1>k. ASSUME UNCHANGED <<environment, doubted, edits, removals>> PROVE Calmly' = Calmly
  BY <1>k DEF Calmly, Disturbances, environment
<1>1. CASE CaptureFingerprint
  <2>1. objects' = objects /\ Vacant
    BY <1>1 DEF CaptureFingerprint, service
  <2>2. \/ upload'.pc = "open" /\ op' = op
        \/ upload'.pc = "failed" /\ op' = op
    BY <1>0, <1>1, <1>f DEF CaptureFingerprint, Uploads
  <2> QED BY <1>0, <1>b, <2>1, <2>2 DEF UploadCourse, Accounted
<1>2. CASE OpenSource
  <2>0. /\ objects' = objects /\ (doubted \/ Vacant) /\ upload.pc = "open"
        /\ UNCHANGED <<environment, interrupted, doubted, edits, removals>>
    BY <1>2 DEF OpenSource, UploadCourse, service, localVars
  <2>1. CASE ~SourceOpens(index) /\ UploadFails(Err("UploadSource"))
    <3>1. removals # 0
      BY <1>0, <2>1 DEF CountsInv, SourceOpens, UploadInv, FilesInv
    <3>2. doubted => ~Calmly'
      BY <2>0, <3>1, SecondDisturbance DEF CountsStep, environment
    <3> QED BY <1>0, <1>b, <1>f, <2>0, <2>1, <3>2 DEF UploadCourse, Accounted
  <2>2. CASE UploadGoto("chunks") /\ BeginTransfer
    <3>1. transfer' = [NoTransfer EXCEPT !.pc = "token"]
      BY <2>2 DEF BeginTransfer
    <3>2. transfer'.pc = "token" /\ transfer'.offset = 0 /\ IsOk(transfer'.error)
      BY <3>1 DEF NoTransfer, IsOk, NoError, Err
    <3>3. 0 < Size
      BY ResumableAssumption
    <3>4. TransferCourse'
      BY <1>b, <2>0, <3>2, <3>3 DEF TransferCourse, StartPcs, FinalPcs, ChunkPcs
    <3> QED BY <1>0, <1>b, <1>s, <2>0, <2>2, <3>4 DEF UploadCourse
  <2>3. CASE UploadGoto("send")
    BY <1>0, <1>b, <1>s, <2>0, <2>3 DEF UploadCourse
  <2>4. CASE UploadFails(Err("UploadSourceChanged"))
    BY <1>0, <1>b, <1>f, <2>0, <2>4, QuickErrors DEF UploadCourse, Accounted
  <2> QED BY <1>2, <2>1, <2>2, <2>3, <2>4 DEF OpenSource
<1>3. CASE SendUpload
  <2> DEFINE request == Write(StagingOf(index), disk[index].content)
  <2>0. (doubted \/ Vacant) /\ UNCHANGED <<edits, removals>>
    BY <1>3 DEF SendUpload, UploadCourse, localVars
  <2>1. PICK e \in ErrorKinds :
           /\ Send(request, e)
           /\ \/ /\ e = "Ok" /\ UNCHANGED op
                 /\ upload' = [upload EXCEPT !.pc = "verify", !.generation = nextGen]
              \/ AttemptFails(Err(e))
    BY <1>0, <1>3 DEF SendUpload
  <2>2. request.type = "write" /\ request.name = StagingOf(index)
    BY DEF Write
  <2>3. StagingAdds
    <3>1. objects' = objects \/ (Process(request) /\ Status(request) = "Ok")
      BY <2>1, <2>2, SendEffect DEF Process, service
    <3>2. CASE Process(request) /\ Status(request) = "Ok"
      <4>1. ~Present(StagingOf(index))
        BY <2>2, <3>2 DEF Status
      <4>2. objects' = [objects EXCEPT ![StagingOf(index)] = [gen |-> nextGen, data |-> request.to]]
        BY <2>2, <3>2 DEF Process
      <4> QED BY <1>0, <4>1, <4>2 DEF StagingAdds
    <3> QED BY <1>b, <3>1, <3>2
  <2> HIDE DEF request
  <2>4. CASE e = "Ok" /\ UNCHANGED op /\ upload' = [upload EXCEPT !.pc = "verify", !.generation = nextGen]
    <3>1. upload'.pc = "verify"
      BY <1>0, <2>4 DEF Uploads
    <3> QED BY <1>0, <2>3, <2>4, <3>1 DEF UploadCourse
  <2>5. CASE Retry(Err(e))
    <3>1. upload'.pc = "open" /\ op' = op /\ doubted' = (doubted \/ e # "HttpConnect")
      BY <1>0, <2>5 DEF Retry, Uploads, Err
    <3>2. e = "HttpConnect" => objects' = objects
      BY <2>1 DEF Send, Unsent, Answered, Abandoned, Status, service
    <3>3. doubted' \/ Vacant'
      BY <1>b, <2>0, <3>1, <3>2
    <3> QED BY <1>0, <2>3, <3>1, <3>3 DEF UploadCourse
  <2>6. CASE UploadFails(Err(e)) /\ UNCHANGED doubted
    <3>1. Quick(Err(e)) => objects' = objects /\ (interrupted \/ faults' = faults + 1)
      <4>1. e \in {"Interrupted", "Token", "TokenInterrupted", "UploadSource", "Command"} =>
               Unsent(e)
        BY <2>1, SendOutcomes DEF Send, Answered, Abandoned, Status
      <4> QED BY <4>1, QuickErrors DEF Unsent, service
    <3>2. CountsStep
      BY <2>1, SendCounts
    <3>3. Quick(Err(e)) /\ doubted => ~Calmly'
      BY <2>0, <2>6, <3>1, <3>2, SecondDisturbance
    <3>4. Quick(Err(e)) /\ Calmly' => Vacant'
      BY <1>b, <2>0, <3>1, <3>3
    <3> QED BY <1>0, <1>f, <2>3, <2>6, <3>4 DEF UploadCourse, Accounted
  <2> QED BY <2>1, <2>4, <2>5, <2>6 DEF AttemptFails
<1>4. CASE SendResumable
  <2>1. /\ transfer.pc # "done" /\ upload.pc = "chunks" /\ UNCHANGED <<op, upload, edits, removals>>
        /\ ResumableStep(StagingOf(index), SourceOpens(index), disk[index].content)
    BY <1>0, <1>4 DEF SendResumable, localVars
  <2>2. TransferHeld /\ TransferCourse
    BY <1>0, <2>1 DEF PublishInv, Unfailed, UploadHeld, UploadCourse
  <2>3. TransferCourse' /\ StagingAdds
    BY <1>0, <2>1, <2>2, TransferCourseStep
  <2> QED BY <1>0, <2>1, <2>3 DEF UploadCourse
<1>5. CASE EndResumable
  <2>0. /\ objects' = objects /\ Accounted(transfer.error)
        /\ UNCHANGED <<environment, doubted, edits, removals>>
    BY <1>5 DEF EndResumable, UploadCourse, TransferCourse, service, localVars
  <2>1. CASE upload' = [upload EXCEPT !.pc = "verify", !.generation = transfer.generation]
             /\ UNCHANGED op
    <3>1. upload'.pc = "verify"
      BY <1>0, <2>1 DEF Uploads
    <3> QED BY <1>0, <1>b, <2>0, <2>1, <3>1 DEF UploadCourse
  <2>2. CASE UploadFails(transfer.error)
    BY <1>0, <1>b, <1>f, <1>k, <2>0, <2>2 DEF UploadCourse, Accounted
  <2> QED BY <1>5, <2>1, <2>2 DEF EndResumable
<1>6. CASE VerifySent
  <2>0. objects' = objects
    BY <1>6 DEF VerifySent, service
  <2>1. CASE UploadReturns(NoError, upload.generation)
    BY <1>b, <1>r, <2>0, <2>1 DEF UploadCourse, IsOk, NoError, Err
  <2>2. CASE UploadFails(Err("UploadSourceChanged"))
    BY <1>0, <1>b, <1>f, <2>0, <2>2, QuickErrors DEF UploadCourse, Accounted
  <2> QED BY <1>6, <2>1, <2>2 DEF VerifySent
<1>7. CASE ConfirmedUploadFailure
  <2>0. /\ objects' = objects /\ Accounted(upload.error)
        /\ UNCHANGED <<environment, doubted, edits, removals>>
    BY <1>7 DEF ConfirmedUploadFailure, UploadCourse, service, resumable, localVars
  <2>1. CASE UploadGoto("confirm")
    BY <1>0, <1>b, <1>s, <2>0, <2>1 DEF UploadCourse
  <2>2. CASE UploadReturns(upload.error, 0) /\ ~MayHaveReachedStorage(upload.error)
    <3>1. Calmly' => Look(upload.error) \/ Vacant'
      BY <1>b, <1>k, <2>0, <2>2 DEF Accounted, Quick
    <3> QED BY <1>b, <1>r, <2>0, <2>2, <3>1 DEF UploadCourse
  <2> QED BY <1>7, <2>1, <2>2 DEF ConfirmedUploadFailure
<1>8. CASE ConfirmWrite
  <2>1. PICK e \in ErrorKinds :
           /\ Send(Get(StagingOf(index), 0), e)
           /\ \/ Seen(e) = "missing" /\ UploadReturns(upload.error, 0)
              \/ UploadReturns(Err("Recovery"), 0)
    BY <1>0, <1>8 DEF ConfirmWrite
  <2>2. objects' = objects /\ (Seen(e) = "missing" => Vacant)
    BY <2>1, GetEffect DEF Vacant
  <2>3. CASE Seen(e) = "missing" /\ UploadReturns(upload.error, 0)
    BY <1>b, <1>r, <2>2, <2>3 DEF UploadCourse
  <2>4. CASE UploadReturns(Err("Recovery"), 0)
    <3>1. Look(Err("Recovery"))
      BY DEF Look, ReportsLeftovers, Err
    <3> QED BY <1>b, <1>r, <2>2, <2>4, <3>1 DEF UploadCourse
  <2> QED BY <2>1, <2>3, <2>4
<1>9. ~BeginUpload
  BY DEF BeginUpload
<1> QED BY <1>1, <1>2, <1>3, <1>4, <1>5, <1>6, <1>7, <1>8, <1>9 DEF UploadStep

(* Names of staged objects are new. *)
LEMMA StagingNew ==
    ASSUME FilesInv, NEW i \in DOMAIN files
    PROVE  StagingOf(i) \notin existing /\ (Unmade(StagingOf(i)) <=> ~Present(StagingOf(i)))
<1>1. StagingOf(i) \notin existing
  BY StagingAssumption DEF FilesInv, StagingOf
<1> QED BY <1>1 DEF Unmade

(* What a step leaves alone that touches the staged object of the file at  *)
(* hand only.                                                              *)
LEMMA StagingAddsKept ==
    ASSUME UploadInv, BucketInv, StagingAdds, index \in DOMAIN files,
           UNCHANGED <<files, existing>>
    PROVE  /\ BucketInv'
           /\ \A i \in DOMAIN files : Unmade(files[i]) => Unmade(files[i])'
           /\ \A i \in DOMAIN files : i # index /\ Unmade(StagingOf(i)) => Unmade(StagingOf(i))'
<1>0. /\ FilesInv
      /\ \A i \in DOMAIN files : StagingOf(i)' = StagingOf(i)
      /\ StagingOf(index) \notin existing
  BY StagingNew DEF UploadInv, StagingOf
<1>1. \A name \in Names : name # StagingOf(index) => objects'[name] = objects[name]
  BY DEF StagingAdds
<1>2. BucketInv'
  <2> SUFFICES ASSUME NEW name \in Names
               PROVE  IF name \in existing THEN HoldsData(name, name)'
                      ELSE Present(name)' => \E i \in DOMAIN files : name \in {StagingOf(i), files[i]}
    BY <1>0 DEF BucketInv
  <2>1. CASE name = StagingOf(index)
    BY <1>0, <2>1
  <2>2. CASE name # StagingOf(index)
    BY <1>1, <2>2 DEF BucketInv, HoldsData, Present
  <2> QED BY <2>1, <2>2
<1>3. ASSUME NEW name \in Names, name # StagingOf(index), Unmade(name) PROVE Unmade(name)'
  BY <1>1, <1>3 DEF Unmade, Present
<1>4. /\ \A i \in DOMAIN files : files[i] \in Names /\ files[i] # StagingOf(index)
      /\ \A i \in DOMAIN files : /\ StagingOf(i) \in Names
                                 /\ i # index => StagingOf(i) # StagingOf(index)
  BY <1>0, FileNames
<1>5. ASSUME NEW i \in DOMAIN files, Unmade(files[i]) PROVE Unmade(files[i])'
  <2>1. \A name \in Names : name = files[i] => Unmade(name)'
    BY <1>3, <1>4, <1>5
  <2> QED BY <1>4, <2>1 DEF Unmade, Present
<1>6. ASSUME NEW i \in DOMAIN files, i # index, Unmade(StagingOf(i)) PROVE Unmade(StagingOf(i))'
  <2>1. \A name \in Names : name = StagingOf(i) => Unmade(name)'
    BY <1>3, <1>4, <1>6
  <2> QED BY <1>0, <1>4, <2>1 DEF Unmade, Present
<1> QED BY <1>2, <1>5, <1>6

(* The steps of an upload in progress. *)
LEMMA UploadStepAccount ==
    ASSUME ~LateDelivery, MaxForeign = 0, UploadInv, PublishInv, AccountInv, CountsInv',
           UploadInv', upload.pc # "idle", UploadStep
    PROVE  AccountInv'
<1>0. /\ phase = "stage" /\ op = Idle /\ op.pc = "idle" /\ upload.pc \in UploadPcs
      /\ index \in DOMAIN files /\ index \in Nat
      /\ UNCHANGED <<transactionVars, files, existing, uploads>>
  <2>1. phase = "stage" /\ op = Idle /\ upload.pc \in UploadPcs
    BY DEF UploadInv, UploadingInv, Uploads
  <2>2. index \in DOMAIN files
    BY UploadIndex
  <2>3. UNCHANGED <<transactionVars, files, existing, uploads>>
    BY DEF UploadStep, BeginUpload, CaptureFingerprint, OpenSource, SendUpload,
       SendResumable, EndResumable, VerifySent, ConfirmedUploadFailure, ConfirmWrite, plan
  <2> QED BY <2>1, <2>2, <2>3 DEF Idle, UploadInv, TransactionInv, TransactionTypeOK
<1>1. UNCHANGED <<phase, index, staged, finalized, undone, result>>
  BY <1>0 DEF transactionVars
<1>2. upload.pc = "capture" => Vacant
  BY <1>0, StagingNew DEF AccountInv, UnmadeInv, Vacant, UploadInv
<1>3. UploadCourse' /\ StagingAdds
  BY <1>2, UploadCourseStep DEF AccountInv
<1>4. /\ BucketInv'
      /\ \A i \in DOMAIN files : Unmade(files[i]) => Unmade(files[i])'
      /\ \A i \in DOMAIN files : i # index /\ Unmade(StagingOf(i)) => Unmade(StagingOf(i))'
  BY <1>0, <1>3, StagingAddsKept DEF AccountInv
<1>5. \/ op' = Idle /\ upload'.pc \notin {"idle", "capture"}
      \/ op'.pc = "done" /\ op' # Idle
  <2>0. upload \in Uploads
    BY DEF UploadInv, UploadingInv
  <2>1. /\ \A pc : UploadGoto(pc) => upload'.pc = pc /\ op' = Idle
        /\ \A error : UploadFails(error) => upload'.pc = "failed" /\ op' = Idle
        /\ \A error, g : UploadReturns(error, g) => op'.pc = "done" /\ op' # Idle
    BY <1>0, <2>0 DEF UploadGoto, UploadFails, UploadReturns, Uploads, Call, Idle
  <2>2. CASE CaptureFingerprint
    BY <1>0, <2>0, <2>1, <2>2 DEF CaptureFingerprint, Uploads
  <2>3. CASE OpenSource
    BY <2>1, <2>3 DEF OpenSource
  <2>4. CASE SendUpload
    BY <1>0, <2>0, <2>1, <2>4 DEF SendUpload, AttemptFails, Retry, Uploads
  <2>5. CASE SendResumable
    BY <1>0, <2>5 DEF SendResumable
  <2>6. CASE EndResumable
    BY <1>0, <2>0, <2>1, <2>6 DEF EndResumable, Uploads
  <2>7. CASE VerifySent \/ ConfirmedUploadFailure \/ ConfirmWrite
    BY <2>1, <2>7 DEF VerifySent, ConfirmedUploadFailure, ConfirmWrite
  <2> QED BY <2>2, <2>3, <2>4, <2>5, <2>6, <2>7 DEF UploadStep, BeginUpload
<1>6. NewTargets'
  BY <1>0, <1>1, <1>5 DEF AccountInv, NewTargets, Idle, CopiedPcs, UndoPcs
<1>7. ListsInv'
  BY <1>0, <1>1 DEF AccountInv, ListsInv, StagingOf
<1>8. UnmadeInv'
  <2> SUFFICES ASSUME NEW i \in DOMAIN files
               PROVE  Unmade(files[i])' /\ (i > index => Unmade(StagingOf(i))')
    BY <1>0, <1>1, <1>5 DEF UnmadeInv, Unmade, StagingOf
  <2>1. Unmade(files[i]) /\ (i > index => Unmade(StagingOf(i)))
    BY <1>0 DEF AccountInv, UnmadeInv
  <2>2. i > index => i # index
    BY <1>0
  <2> QED BY <1>4, <2>1, <2>2
<1>9. OpAbout'
  BY <1>0, <1>1 DEF OpAbout
<1> QED BY <1>0, <1>1, <1>3, <1>4, <1>6, <1>7, <1>8, <1>9 DEF AccountInv

-----------------------------------------------------------------------------
(* The transaction. *)

(* A step that changes no object. *)
LEMMA QuietAccount ==
    ASSUME objects' = objects, UNCHANGED <<files, existing>>
    PROVE  /\ BucketInv => BucketInv'
           /\ \A i \in DOMAIN files : /\ Unmade(StagingOf(i)) => Unmade(StagingOf(i))'
                                      /\ Unmade(files[i]) => Unmade(files[i])'
<1>1. BucketInv => BucketInv'
  BY DEF BucketInv, HoldsData, Present, StagingOf
<1> QED BY <1>1 DEF Unmade, Present, StagingOf

(* Nothing is known of an upload or an operation when there is none. *)
LEMMA IdleAccount ==
    /\ op' = Idle /\ upload'.pc = "idle" => UploadCourse'
    /\ upload'.pc = "idle" /\ phase' # "stage" => UploadCourse'
    /\ op' = Idle /\ (\A i \in DOMAIN finalized' : finalized'[i].target \notin existing')
       => NewTargets'
<1>1. Idle.pc = "idle"
  BY DEF Idle
<1> QED BY <1>1 DEF UploadCourse, NewTargets, CopiedPcs, UndoPcs

(* The order of the files, of the staged and of the published ones. *)
LEMMA ListsOrder ==
    ASSUME UploadInv, ListsInv
    PROVE  /\ Len(files) \in Nat /\ Len(staged) \in Nat /\ Len(finalized) \in Nat /\ index \in Nat
           /\ DOMAIN files = 1..Len(files) /\ DOMAIN staged = 1..Len(staged)
           /\ DOMAIN finalized = 1..Len(finalized)
           /\ Len(finalized) <= Len(staged) /\ Len(staged) <= Len(files)
           /\ \A i \in DOMAIN files : i \in Nat /\ i > 0 /\ i <= Len(files)
           /\ staged \in Seq(RemoteChanges) /\ finalized \in Seq(RemoteChanges)
<1>1. staged \in Seq(RemoteChanges) /\ finalized \in Seq(RemoteChanges) /\ index \in Nat
  BY DEF UploadInv, TransactionInv, TransactionTypeOK
<1>2. Len(staged) \in Nat /\ Len(finalized) \in Nat
      /\ DOMAIN staged = 1..Len(staged) /\ DOMAIN finalized = 1..Len(finalized)
  BY <1>1
<1> QED BY <1>1, <1>2, FileNames DEF UploadInv, ListsInv

(* PlanUploads finds the bucket as it was. *)
LEMMA PlanUploadsAccount ==
    ASSUME UploadInv, PublishInv, AccountInv, CountsInv', PlanUploads
    PROVE  AccountInv'
<1>0. /\ phase = "build" /\ op = Idle /\ upload.pc = "idle" /\ objects' = objects /\ op' = op
      /\ staged = <<>> /\ finalized = <<>> /\ IsOk(result) /\ undone
      /\ UNCHANGED <<staged, finalized, undone, files, existing, upload>>
  BY DEF PlanUploads, moveVars, service, UploadInv, UploadingInv, PublishInv, ProgressInv,
     AccountInv, ListsInv
<1>1. /\ BucketInv'
      /\ \A i \in DOMAIN files : Unmade(StagingOf(i))' /\ Unmade(files[i])'
  BY <1>0, QuietAccount DEF AccountInv, UnmadeInv
<1>2. UploadCourse' /\ NewTargets'
  BY <1>0, IdleAccount
<1>3. \/ phase' = "end" /\ ~IsOk(result')
      \/ phase' = "stage" /\ result' = result
  BY DEF PlanUploads, IsOk, Err
<1>4. ListsInv'
  BY <1>0, <1>3 DEF AccountInv, ListsInv, StagingOf
<1>5. UnmadeInv'
  BY <1>0, <1>1, <1>3 DEF UnmadeInv
<1> QED BY <1>0, <1>1, <1>2, <1>4, <1>5 DEF AccountInv

(* What is left to do when the staging loop gives up. *)
LEMMA StageAborted ==
    ASSUME UploadInv, AccountInv, CountsInv', objects' = objects,
           UNCHANGED <<files, existing, finalized>>, upload'.pc = "idle",
           phase = "stage", op' = Idle, phase' = "rollbackFinalized", index' = 0,
           ListsInv',
           \A i \in DOMAIN files : i > Len(staged') /\ Plainly' => Unmade(StagingOf(i))
    PROVE  AccountInv'
<1>0. finalized = <<>> /\ Len(finalized') = 0
  BY DEF UploadInv, TransactionInv, TransactionIndexInv
<1>1. /\ BucketInv'
      /\ \A i \in DOMAIN files : /\ Unmade(StagingOf(i)) => Unmade(StagingOf(i))'
                                 /\ Unmade(files[i])'
  BY QuietAccount DEF AccountInv, UnmadeInv
<1>2. UploadCourse' /\ NewTargets'
  BY <1>0, IdleAccount
<1>3. \A i \in DOMAIN files : i \in Nat /\ i > 0
  BY ListsOrder DEF AccountInv
<1>4. UnmadeInv'
  <2> SUFFICES ASSUME NEW i \in DOMAIN files, Plainly'
               PROVE  /\ Unmade(files[i])'
                      /\ i <= Len(finalized') => FALSE
                      /\ i > Len(staged') => Unmade(StagingOf(i))'
    BY DEF UnmadeInv
  <2> QED BY <1>0, <1>1, <1>3
<1> QED BY <1>1, <1>2, <1>4 DEF AccountInv

(* BeginUpload starts the upload of a file or aborts. *)
LEMMA BeginUploadAccount ==
    ASSUME UploadInv, AccountInv, CountsInv', BeginUpload
    PROVE  AccountInv'
<1>0. /\ phase = "stage" /\ op = Idle /\ op' = op /\ upload.pc = "idle" /\ objects' = objects
      /\ UNCHANGED <<staged, finalized, files, existing, uploads>> /\ index = Len(staged) + 1
  BY DEF BeginUpload, service, plan, UploadInv, TransactionInv, TransactionIndexInv
<1>1. /\ BucketInv'
      /\ \A i \in DOMAIN files : /\ Unmade(StagingOf(i)) => Unmade(StagingOf(i))'
                                 /\ Unmade(files[i])'
  BY <1>0, QuietAccount DEF AccountInv, UnmadeInv
<1>2. \A i \in DOMAIN files : i > Len(staged) => Unmade(StagingOf(i))
  <2>1. \A i \in DOMAIN files : i > Len(staged) => i > index \/ i = index
    BY <1>0, ListsOrder DEF AccountInv
  <2> QED BY <1>0, <2>1 DEF AccountInv, UnmadeInv
<1>3. CASE interrupted
  <2>1. phase' = "rollbackFinalized" /\ index' = 0 /\ UNCHANGED upload
    BY <1>3 DEF BeginUpload, Abort
  <2>2. ListsInv'
    BY <1>0, <2>1 DEF AccountInv, ListsInv, StagingOf
  <2> QED BY <1>0, <1>2, <2>1, <2>2, StageAborted
<1>4. CASE ~interrupted
  <2>1. UNCHANGED <<phase, index, undone, result>> /\ upload'.pc = "capture"
    BY <1>4 DEF BeginUpload, NoUpload
  <2>2. UploadCourse' /\ NewTargets'
    BY <1>0, <2>1, IdleAccount DEF UploadCourse, AccountInv, NewTargets, Idle
  <2>3. ListsInv'
    BY <1>0, <2>1 DEF AccountInv, ListsInv, StagingOf
  <2>4. UnmadeInv'
    <3> SUFFICES ASSUME NEW i \in DOMAIN files
                 PROVE  /\ Unmade(files[i])' /\ (i > index => Unmade(StagingOf(i))')
                        /\ i = index => Unmade(StagingOf(i))'
      BY <1>0, <2>1 DEF UnmadeInv
    <3> QED BY <1>0, <1>1 DEF AccountInv, UnmadeInv
  <2> QED BY <1>0, <1>1, <2>2, <2>3, <2>4 DEF AccountInv
<1> QED BY <1>3, <1>4

(* EndUpload records the staged object, or aborts. *)
LEMMA EndUploadAccount ==
    ASSUME UploadInv, PublishInv, AccountInv, CountsInv', Calmly' => Calmly, EndUpload,
           upload.pc = "idle", UNCHANGED <<plan, upload>>
    PROVE  AccountInv'
<1>0. /\ phase = "stage" /\ op.pc = "done" /\ op' = Idle /\ objects' = objects
      /\ index \in DOMAIN files /\ finalized = <<>>
      /\ UNCHANGED <<finalized, files, existing, uploads, upload>> /\ index = Len(staged) + 1
      /\ uploads[index].staging = StagingOf(index) /\ uploads[index].target = files[index]
      /\ IsOk(result) /\ undone
  <2>1. /\ phase = "stage" /\ op.pc = "done" /\ op' = Idle /\ objects' = objects
        /\ index \in DOMAIN uploads /\ finalized = <<>>
        /\ UNCHANGED <<finalized, files, existing, uploads, upload>> /\ index = Len(staged) + 1
    BY DEF EndUpload, EndStage, service, plan, UploadInv, TransactionInv, TransactionIndexInv
  <2>2. DOMAIN uploads = DOMAIN files
        /\ \A i \in DOMAIN files :
              uploads[i].staging = StagingOf(i) /\ uploads[i].target = files[i]
    BY <2>1, StagedFiles DEF PublishInv
  <2> QED BY <2>1, <2>2 DEF AccountInv, ListsInv
<1>1. /\ BucketInv'
      /\ \A i \in DOMAIN files : /\ Unmade(StagingOf(i)) => Unmade(StagingOf(i))'
                                 /\ Unmade(files[i])'
  BY <1>0, QuietAccount DEF AccountInv, UnmadeInv
<1>o. /\ Len(files) \in Nat /\ Len(staged) \in Nat /\ DOMAIN files = 1..Len(files)
      /\ DOMAIN staged = 1..Len(staged) /\ staged \in Seq(RemoteChanges)
      /\ \A i \in DOMAIN files : i \in Nat
  BY ListsOrder DEF AccountInv
<1>2. CASE IsOk(op.error)
  <2> DEFINE change == Change(StagingOf(index), files[index], op.tgen)
  <2>1. staged' = Append(staged, change) /\ CheckedStep(0)
    BY <1>0, <1>2 DEF EndUpload, EndStage
  <2>2. change.source = StagingOf(index) /\ change.target = files[index]
    BY DEF Change
  <2> HIDE DEF change
  <2>3. /\ DOMAIN staged' = 1..index /\ Len(staged') = index
        /\ staged'[index] = change
        /\ \A i \in 1..Len(staged) : staged'[i] = staged[i]
    BY <1>0, <1>o, <2>1
  <2>4. \A i \in DOMAIN staged' : staged'[i].source = StagingOf(i) /\ staged'[i].target = files[i]
    BY <1>0, <1>o, <2>2, <2>3 DEF AccountInv, ListsInv
  <2>5. CASE phase' = "rollbackFinalized" /\ index' = 0
    <3>1. ListsInv'
      BY <1>0, <1>o, <2>3, <2>4, <2>5 DEF AccountInv, ListsInv, StagingOf
    <3>2. \A i \in DOMAIN files : i > Len(staged') => Unmade(StagingOf(i))
      BY <1>0, <2>3 DEF AccountInv, UnmadeInv
    <3> QED BY <1>0, <2>5, <3>1, <3>2, StageAborted
  <2>6. CASE index' = index + 1 /\ UNCHANGED <<phase, undone, result>>
    <3>1. ListsInv'
      BY <1>0, <1>o, <2>3, <2>4, <2>6 DEF AccountInv, ListsInv, StagingOf
    <3>2. UploadCourse' /\ NewTargets'
      BY <1>0, IdleAccount
    <3>3. UnmadeInv'
      <4> SUFFICES ASSUME NEW i \in DOMAIN files
                   PROVE  Unmade(files[i])' /\ (i > index => Unmade(StagingOf(i))')
        <5>1. \A i \in DOMAIN files : i > index' \/ i = index' => i > index
          BY <1>0, <1>o, <2>6
        <5> QED BY <1>0, <1>o, <2>6, <5>1 DEF UnmadeInv
      <4> QED BY <1>0, <1>1 DEF AccountInv, UnmadeInv
    <3> QED BY <1>0, <1>1, <3>1, <3>2, <3>3 DEF AccountInv
  <2> QED BY <2>1, <2>5, <2>6 DEF CheckedStep, Abort
<1>3. CASE ~IsOk(op.error)
  <2>1. /\ staged' = staged /\ phase' = "rollbackFinalized" /\ index' = 0
        /\ result' = op.error
    BY <1>3 DEF EndUpload, EndStage, Abort
  <2>2. ListsInv'
    BY <1>0, <2>1 DEF AccountInv, ListsInv, StagingOf
  <2>3. ASSUME NEW i \in DOMAIN files, i > Len(staged'), Plainly' PROVE Unmade(StagingOf(i))
    <3>1. i > index \/ i = index
      BY <1>0, <1>o, <2>1, <2>3
    <3>2. CASE i > index
      BY <1>0, <3>2 DEF AccountInv, UnmadeInv
    <3>3. CASE i = index
      <4>1. Vacant
        BY <1>0, <1>3, <2>1, <2>3 DEF Plainly, AccountInv, UploadCourse
      <4> QED BY <3>3, <4>1, StagingNew DEF Vacant, UploadInv
    <3> QED BY <3>1, <3>2, <3>3
  <2> QED BY <1>0, <2>1, <2>2, <2>3, StageAborted
<1> QED BY <1>2, <1>3

-----------------------------------------------------------------------------
(* The steps of an operation. *)

(* They touch only the two names, and the target only where nothing is or  *)
(* in an undo.                                                             *)
LEMMA OpStepTouches ==
    ASSUME ~LateDelivery, MoveTypeOK, OpStep, NEW name \in Names
    PROVE  \/ objects'[name] = objects[name]
           \/ name = op.source
           \/ name = op.target /\ (~Present(name) \/ op.pc \in UndoPcs)
<1>0. op.source \in Names /\ op.target \in Names /\ objects \in [Names -> Versions]
  BY OpStepBusy DEF MoveTypeOK, Idle, Ops
<1>1. CASE \/ ObjectGeneration \/ CopyPage \/ ConfirmCopy \/ SourceState \/ ConfirmMove
           \/ FailureStep
  BY <1>1, GetEffect, PageEffect DEF ObjectGeneration, CopyPage, ConfirmCopy, SourceState,
     ConfirmMove, FailureStep, ConfirmedFailure, ConfirmSource, ConfirmTarget, service
<1>2. CASE \/ ClearInterruptForRollback \/ UndoSource \/ CleanupState \/ CleanupConfirm
           \/ RbSource \/ RbTarget \/ RbCopyPage \/ RbConfirmCopy \/ RbTargetState \/ RbConfirm
  BY <1>2, GetEffect, PageEffect DEF ClearInterruptForRollback, UndoSource, CleanupState,
     CleanupConfirm, RbSource, RbTarget, RbCopyPage, RbConfirmCopy, RbTargetState, RbConfirm,
     service
<1>3. CASE CopyObject \/ RbCopy
  BY <1>0, <1>3, RewriteEffect DEF CopyObject, RbCopy
<1>4. CASE DeleteSource
  BY <1>0, <1>4, DeleteEffect DEF DeleteSource
<1>5. CASE CleanupDelete \/ RbDelete
  BY <1>0, <1>5, DeleteEffect DEF CleanupDelete, RbDelete, UndoPcs
<1> QED BY <1>1, <1>2, <1>3, <1>4, <1>5 DEF OpStep, MoveStep, UndoStep

(* A move whose target is taken never gets past the rewrite. *)
LEMMA TargetTaken ==
    ASSUME ~LateDelivery, op \in Ops, OpOwned, OpStep, Present(op.target),
           op.pc \notin CopiedPcs \cup UndoPcs
    PROVE  /\ op'.pc \notin CopiedPcs \cup UndoPcs
           /\ op'.pc = "done" => ~IsOk(op'.error)
<1>0. /\ \A next : Goto(next).pc = next
      /\ \A error : /\ Return(error).pc = "done" /\ Return(error).error = error
                    /\ Fail(error).pc = "failed"
      /\ op.source \in Names /\ op.target \in Names
  BY DEF Ops, Goto, Return, Fail
<1>1. CASE ObjectGeneration
  BY <1>0, <1>1 DEF ObjectGeneration, Ops, CopiedPcs, UndoPcs
<1>2. CASE CopyPage
  BY <1>0, <1>2 DEF CopyPage, Ops, CopiedPcs, UndoPcs
<1>3. CASE CopyObject
  <2>1. PICK e \in ErrorKinds :
           /\ Send(Rewrite(op.source, op.sgen, op.target), e)
           /\ op' = IF e = "Ok"
                    THEN [op EXCEPT !.pc = "confirmCopy", !.tgen = nextGen]
                    ELSE Fail(PageError(e))
    BY <1>3 DEF CopyObject
  <2>2. e # "Ok"
    BY <1>0, <2>1, SendAnswered DEF Status, Rewrite
  <2> QED BY <1>0, <2>1, <2>2 DEF CopiedPcs, UndoPcs
<1>4. CASE FailureStep
  <2>1. Failure(op.error) /\ ~IsOk(Err("Recovery"))
    BY <1>4 DEF FailureStep, ConfirmedFailure, ConfirmSource, ConfirmTarget, OpOwned,
       FailurePcs, IsOk, Err
  <2>2. CASE ConfirmedFailure
    BY <1>0, <2>1, <2>2 DEF ConfirmedFailure, Failure, CopiedPcs, UndoPcs
  <2>3. CASE ConfirmSource
    BY <2>3 DEF ConfirmSource, Ops, CopiedPcs, UndoPcs
  <2>4. CASE ConfirmTarget
    BY <1>0, <2>1, <2>4 DEF ConfirmTarget, Failure, CopiedPcs, UndoPcs
  <2> QED BY <1>4, <2>2, <2>3, <2>4 DEF FailureStep
<1>5. ~(ConfirmCopy \/ DeleteSource \/ SourceState \/ ConfirmMove)
  BY DEF ConfirmCopy, DeleteSource, SourceState, ConfirmMove, CopiedPcs
<1>6. ~UndoStep
  BY DEF UndoStep, ClearInterruptForRollback, UndoSource, CleanupState, CleanupDelete,
     CleanupConfirm, RbSource, RbTarget, RbCopyPage, RbCopy, RbConfirmCopy, RbDelete,
     RbTargetState, RbConfirm, CopiedPcs, UndoPcs
<1> QED BY <1>1, <1>2, <1>3, <1>4, <1>5, <1>6 DEF OpStep, MoveStep

(* The objects of an operation of the transaction are the staged object of *)
(* the file at hand and its target.                                        *)
LEMMA OpNames ==
    ASSUME UploadInv, ListsInv, OpAbout, phase # "stage"
    PROVE  /\ index \in DOMAIN files /\ index \in Nat /\ index <= Len(staged)
           /\ op.source = StagingOf(index) /\ op.target \in {StagingOf(index), files[index]}
           /\ phase = "rollbackFinalized" => index <= Len(finalized)
           /\ phase = "rollbackStaged" =>
                 op.target = StagingOf(index) /\ index > Len(finalized)
           /\ phase \in {"finalize", "rollbackFinalized", "rollbackStaged"}
<1>1. index \in DOMAIN staged \/ index \in DOMAIN finalized
  BY DEF OpAbout
<1> QED BY <1>1, ListsOrder DEF OpAbout

(* OpStep keeps the account. *)
LEMMA OpStepAccount ==
    ASSUME ~LateDelivery, UploadInv, PublishInv, AccountInv, CountsInv', Calmly' => Calmly,
           UploadInv', OpStep, UNCHANGED transactionVars, upload.pc = "idle",
           UNCHANGED <<plan, upload>>
    PROVE  AccountInv'
<1>0. /\ op \in Ops /\ op # Idle /\ op.pc # "done" /\ OpAbout /\ MoveTypeOK /\ OpOwned /\ CallerInv
      /\ FilesInv /\ ListsInv /\ BucketInv /\ UnmadeInv /\ NewTargets
  BY OpStepBusy, OpStepRunning
     DEF Idle, UploadInv, TransactionInv, MoveTypeOK, ChangesOwned, OwnedInv, AccountInv
<1>1. /\ UNCHANGED <<phase, index, staged, finalized, undone, result, files, existing, uploads>>
      /\ upload' = upload /\ phase \notin {"build", "stage", "end"}
  BY <1>0 DEF plan, transactionVars, PublishInv, ProgressInv
<1>2. /\ index \in DOMAIN files /\ index \in Nat /\ index <= Len(staged)
      /\ op.source = StagingOf(index) /\ op.target \in {StagingOf(index), files[index]}
      /\ phase = "rollbackFinalized" => index <= Len(finalized)
      /\ phase = "rollbackStaged" =>
            op.target = StagingOf(index) /\ index > Len(finalized)
  BY <1>0, <1>1, OpNames
<1>3. /\ op'.source = op.source /\ op'.target = op.target /\ op'.caller = op.caller
  BY <1>0, NamesKept, CallerKept
<1>4. op' # Idle
  <2>1. op' \in Ops
    BY <1>0, OpStepType
  <2> QED BY <2>1 DEF Ops, OpPcs, MovePcs, UndoPcs, FailurePcs, Idle
<1>5. \A name \in Names : Present(name) /\ name \in existing => objects'[name] = objects[name]
  <2>1. StagingOf(index) \notin existing
    BY <1>0, <1>2, StagingNew
  <2>2. op.pc \in UndoPcs => op.target \notin existing
    BY <1>0 DEF NewTargets
  <2> QED BY <1>0, <1>2, <2>1, <2>2, OpStepTouches
<1>6. \A name \in Names \ {op.source, op.target} : objects'[name] = objects[name]
  BY <1>0, OpStepTouches
<1>7. BucketInv'
  <2> SUFFICES ASSUME NEW name \in Names
               PROVE  IF name \in existing THEN HoldsData(name, name)'
                      ELSE Present(name)' =>
                              \E i \in DOMAIN files : name \in {StagingOf(i), files[i]}
    BY <1>1 DEF BucketInv, StagingOf
  <2>1. CASE name \in existing
    BY <1>0, <1>5, <2>1 DEF BucketInv, HoldsData, Present
  <2>2. CASE name \notin existing /\ name \in {op.source, op.target}
    BY <1>2, <2>2
  <2>3. CASE name \notin existing /\ name \notin {op.source, op.target}
    BY <1>0, <1>6, <2>3 DEF BucketInv, Present
  <2> QED BY <2>1, <2>2, <2>3
<1>8. NewTargets'
  <2>1. \A i \in DOMAIN finalized' : finalized'[i].target \notin existing'
    BY <1>0, <1>1 DEF NewTargets
  <2>2. CASE op.target \notin existing
    BY <1>1, <1>3, <2>1, <2>2 DEF NewTargets
  <2>3. CASE op.target \in existing
    <3>1. Present(op.target) /\ op.pc \notin CopiedPcs \cup UndoPcs
      BY <1>0, <2>3 DEF BucketInv, HoldsData, NewTargets, Ops
    <3>2. /\ op'.pc \notin CopiedPcs \cup UndoPcs
          /\ op'.pc = "done" => ~IsOk(op'.error)
      BY <1>0, <3>1, TargetTaken
    <3> QED BY <2>1, <3>2 DEF NewTargets
  <2> QED BY <2>2, <2>3
<1>9. ListsInv'
  BY <1>0, <1>1 DEF ListsInv, StagingOf
<1>10. OpSettled' \/ op'.target \in existing'
  BY <1>0, <1>1, <1>3, OpStepSettled DEF AccountInv
<1>11. UploadCourse'
  BY <1>1, IdleAccount
<1>12. /\ \A i \in DOMAIN files :
             /\ i # index /\ Unmade(StagingOf(i)) => Unmade(StagingOf(i))'
             /\ i # index \/ op.target = StagingOf(index) =>
                   (Unmade(files[i]) => Unmade(files[i])')
  <2> SUFFICES ASSUME NEW i \in DOMAIN files
               PROVE  /\ i # index /\ Unmade(StagingOf(i)) => Unmade(StagingOf(i))'
                      /\ i # index \/ op.target = StagingOf(index) =>
                            (Unmade(files[i]) => Unmade(files[i])')
    OBVIOUS
  <2>1. /\ StagingOf(i) \in Names /\ files[i] \in Names /\ files[i] # StagingOf(index)
        /\ StagingOf(i) # files[index]
        /\ i # index => files[i] # files[index] /\ StagingOf(i) # StagingOf(index)
    BY <1>0, <1>2, FileNames
  <2>2. i # index => objects'[StagingOf(i)] = objects[StagingOf(i)]
    BY <1>2, <1>6, <2>1
  <2>3. i # index \/ op.target = StagingOf(index) => objects'[files[i]] = objects[files[i]]
    BY <1>2, <1>6, <2>1
  <2>4. StagingOf(i)' = StagingOf(i)
    BY <1>1 DEF StagingOf
  <2> QED BY <1>1, <2>2, <2>3, <2>4 DEF Unmade, Present
<1>13. UnmadeInv'
  <2>1. \A i \in DOMAIN files :
           /\ i > Len(staged) \/ i < index \/ i > index => i # index
           /\ phase = "rollbackStaged" /\ i <= Len(finalized) => i # index
    BY <1>0, <1>2, ListsOrder
  <2>2. Plainly' => Plainly
    BY <1>1 DEF Plainly
  <2>3. CASE phase = "finalize"
    BY <1>0, <1>1, <1>4, <1>12, <2>1, <2>3 DEF UnmadeInv
  <2>4. CASE phase = "rollbackFinalized"
    BY <1>0, <1>1, <1>4, <1>12, <2>1, <2>2, <2>4 DEF UnmadeInv
  <2>5. CASE phase = "rollbackStaged"
    BY <1>0, <1>1, <1>2, <1>4, <1>12, <2>1, <2>2, <2>5 DEF UnmadeInv
  <2> QED BY <1>0, <1>1, <2>3, <2>4, <2>5, OpNames
<1>14. OpAbout'
  <2>1. op.target = StagingOf(index) /\ Unmade(files[index]) =>
           \A i : i = index => Unmade(files[i])'
    BY <1>2, <1>12
  <2>2. StagingOf(index)' = StagingOf(index)
    BY <1>1 DEF StagingOf
  <2> QED BY <1>0, <1>1, <1>3, <2>1, <2>2 DEF OpAbout
<1> QED BY <1>7, <1>8, <1>9, <1>10, <1>11, <1>13, <1>14 DEF AccountInv

(* A step between two operations that changes no object. *)
LEMMA IdleSteps ==
    ASSUME AccountInv, CountsInv', objects' = objects, UNCHANGED <<files, existing>>,
           upload'.pc = "idle", op' = Idle, ListsInv', UnmadeInv',
           \A i \in DOMAIN finalized' : finalized'[i].target \notin existing
    PROVE  AccountInv'
<1>1. BucketInv' /\ UploadCourse' /\ NewTargets'
  BY QuietAccount, IdleAccount DEF AccountInv
<1> QED BY <1>1 DEF AccountInv

(* The call of an operation on the staged object of the file at hand. *)
LEMMA CallSteps ==
    ASSUME UploadInv, AccountInv, CountsInv', Calmly' => Calmly, objects' = objects,
           UNCHANGED <<transactionVars, plan>>, upload'.pc = "idle", phase # "stage",
           op = Idle \/ (phase = "rollbackFinalized" /\ index \in DOMAIN finalized),
           op' # Idle, OpAbout', OpSettled' \/ op'.target \in existing,
           op'.pc \in CopiedPcs \cup UndoPcs \cup {"done"} => op'.target \notin existing
    PROVE  AccountInv'
<1>0. UNCHANGED <<phase, index, staged, finalized, undone, result, files, existing, uploads>>
  BY DEF transactionVars, plan
<1>1. /\ BucketInv' /\ UploadCourse'
      /\ \A i \in DOMAIN files : /\ Unmade(StagingOf(i)) => Unmade(StagingOf(i))'
                                 /\ Unmade(files[i]) => Unmade(files[i])'
  BY <1>0, QuietAccount, IdleAccount DEF AccountInv
<1>2. NewTargets'
  BY <1>0 DEF AccountInv, NewTargets
<1>3. ListsInv'
  BY <1>0 DEF AccountInv, ListsInv, StagingOf
<1>4. Plainly' => Plainly
  BY <1>0 DEF Plainly
<1>5. UnmadeInv'
  BY <1>0, <1>1, <1>4 DEF AccountInv, UnmadeInv
<1> QED BY <1>0, <1>1, <1>2, <1>3, <1>5 DEF AccountInv

(* StagingDone: every file is staged. *)
LEMMA StagingDoneAccount ==
    ASSUME UploadInv, PublishInv, AccountInv, CountsInv', StagingDone(Len(uploads)),
           upload.pc = "idle", UNCHANGED <<plan, upload>>
    PROVE  AccountInv'
<1>0. /\ phase = "stage" /\ op' = Idle /\ objects' = objects /\ phase' = "finalize" /\ index' = 1
      /\ UNCHANGED <<staged, finalized, undone, result, files, existing, uploads, upload>>
      /\ index > Len(uploads) /\ index = Len(staged) + 1 /\ finalized = <<>>
      /\ uploads = [i \in DOMAIN files |-> PlannedUpload(files[i])]
  BY DEF StagingDone, moveVars, service, plan, UploadInv, TransactionInv, TransactionIndexInv,
     PublishInv, ProgressInv
<1>1. Len(uploads) = Len(files)
  BY <1>0, ListsOrder DEF AccountInv
<1>2. Len(staged) = Len(files) /\ Len(finalized) = 0
  <2>1. Len(finalized) = 0
    BY <1>0
  <2>2. /\ Len(files) \in Nat /\ Len(staged) \in Nat /\ Len(staged) <= Len(files)
    BY ListsOrder DEF AccountInv
  <2> QED BY <1>0, <1>1, <2>1, <2>2
<1>3. ListsInv'
  BY <1>0, <1>2 DEF AccountInv, ListsInv, StagingOf
<1>4. \A i \in DOMAIN files : i \in Nat /\ i > 0 /\ Unmade(files[i])'
  BY <1>0, QuietAccount, ListsOrder DEF AccountInv, UnmadeInv
<1>5. UnmadeInv'
  <2>1. \A i \in DOMAIN files : ~(i < 1)
    BY <1>4
  <2> QED BY <1>0, <1>4, <2>1 DEF UnmadeInv
<1> QED BY <1>0, <1>3, <1>5, IdleSteps DEF AccountInv, NewTargets

(* What is left to undo when publishing gives up. *)
LEMMA PublishAborted ==
    ASSUME UploadInv, AccountInv, CountsInv', Calmly' => Calmly, objects' = objects,
           UNCHANGED <<files, existing, finalized>>, upload'.pc = "idle",
           phase = "finalize", op' = Idle, phase' = "rollbackFinalized",
           index' = Len(finalized), Len(staged') = Len(files), ListsInv',
           \A i \in DOMAIN files : i = index /\ Plainly' => Unmade(files[i])
    PROVE  AccountInv'
<1>0. /\ index = Len(finalized) + 1 /\ Len(staged') = Len(files)
      /\ Len(finalized) \in Nat /\ \A i \in DOMAIN files : i \in Nat /\ i <= Len(files)
      /\ Len(files) \in Nat
  BY ListsOrder DEF AccountInv, ListsInv
<1>1. \A i \in DOMAIN files :
         /\ i > index' => i > index \/ i = index
         /\ i <= Len(finalized) => i < index
         /\ ~(i > Len(staged'))
  BY <1>0
<1>2. \A i \in DOMAIN files : /\ Unmade(StagingOf(i)) => Unmade(StagingOf(i))'
                              /\ Unmade(files[i]) => Unmade(files[i])'
  BY QuietAccount
<1>3. UnmadeInv'
  BY <1>1, <1>2 DEF UnmadeInv, AccountInv
<1> QED BY <1>3, IdleSteps DEF AccountInv, NewTargets

(* BeginPublish: the rewrite is next, or the reserved name is rejected. *)
LEMMA BeginPublishAccount ==
    ASSUME UploadInv, PublishInv, AccountInv, CountsInv', Calmly' => Calmly, BeginPublish,
           upload.pc = "idle", UNCHANGED <<plan, upload>>
    PROVE  AccountInv'
<1>0. /\ phase = "finalize" /\ index \in DOMAIN staged /\ op = Idle /\ objects' = objects
      /\ UNCHANGED <<files, existing, uploads, upload>>
  BY DEF BeginPublish, RejectBucketLockObject, BeginMove, service, plan
<1>1. /\ index \in DOMAIN files /\ ListsInv /\ Len(staged) = Len(files)
      /\ staged[index].source = StagingOf(index) /\ staged[index].target = files[index]
  BY <1>0, ListsOrder DEF AccountInv, ListsInv
<1>2. Unmade(files[index])
  BY <1>0, <1>1 DEF AccountInv, UnmadeInv
<1> DEFINE call == MoveCall(StagingOf(index), files[index], staged[index].generation)
<1>3. /\ call.pc \in {"generation", "copy"} /\ call # Idle /\ call.caller = "move"
      /\ call.source = StagingOf(index) /\ call.target = files[index]
  BY DEF MoveCall, Call, Idle
<1>4. CASE RejectBucketLockObject(staged[index])
  <2>1. /\ op' = [call EXCEPT !.pc = "failed", !.error = Err("Message")]
        /\ UNCHANGED transactionVars
    BY <1>1, <1>4 DEF RejectBucketLockObject
  <2>2. /\ op'.pc = "failed" /\ op'.caller = "move" /\ op'.error = Err("Message")
        /\ op'.source = StagingOf(index) /\ op'.target = files[index]
    BY <2>1 DEF MoveCall, Call
  <2>3. op' # Idle /\ OpSettled'
    BY <2>2 DEF OpSettled, Idle, MayHaveReachedStorage, Err
  <2>4. OpAbout'
    BY <1>0, <2>1, <2>2 DEF OpAbout, transactionVars, StagingOf
  <2>5. op'.pc \notin CopiedPcs \cup UndoPcs \cup {"done"}
    BY <2>2 DEF CopiedPcs, UndoPcs
  <2>6. UNCHANGED <<transactionVars, plan>> /\ upload'.pc = "idle"
    BY <1>0, <2>1
  <2> QED BY <1>0, <2>3, <2>4, <2>5, <2>6, CallSteps
<1>5. CASE BeginMove(staged[index].source, staged[index].target, staged[index].generation)
           /\ ~interrupted
  <2>1. op' = call /\ UNCHANGED transactionVars
    BY <1>1, <1>5 DEF BeginMove, transactionVars
  <2>2. OpSettled' \/ op'.target \in existing
    <3>1. \A name : Present(name)' <=> Present(name)
      BY <1>0 DEF Present
    <3>2. \A source, target, g :
             op' = MoveCall(source, target, g) /\ ~Present(target) => OpSettled'
      BY <3>1, NewSettled
    <3> QED BY <1>2, <1>3, <2>1, <3>2 DEF Unmade
  <2>3. OpAbout'
    BY <1>0, <1>3, <2>1 DEF OpAbout, transactionVars, StagingOf
  <2> HIDE DEF call
  <2>4. op' # Idle /\ op'.pc \notin CopiedPcs \cup UndoPcs \cup {"done"}
    BY <1>3, <2>1 DEF CopiedPcs, UndoPcs
  <2>5. UNCHANGED <<transactionVars, plan>> /\ upload'.pc = "idle"
    BY <1>0, <2>1
  <2> QED BY <1>0, <2>2, <2>3, <2>4, <2>5, CallSteps
<1>6. CASE BeginMove(staged[index].source, staged[index].target, staged[index].generation)
           /\ interrupted
  <2>1. /\ op' = Idle /\ phase' = "rollbackFinalized" /\ index' = Len(finalized)
        /\ UNCHANGED <<staged, finalized>>
    BY <1>6 DEF BeginMove, Abort
  <2>2. ListsInv'
    BY <1>0, <1>1, <2>1 DEF ListsInv, StagingOf
  <2> QED BY <1>0, <1>1, <1>2, <2>1, <2>2, PublishAborted
<1> QED BY <1>4, <1>5, <1>6 DEF BeginPublish

(* EndPublish: the object is published, or everything is undone. *)
LEMMA EndPublishAccount ==
    ASSUME UploadInv, PublishInv, AccountInv, CountsInv', Calmly' => Calmly, EndPublish,
           upload.pc = "idle", UNCHANGED <<plan, upload>>
    PROVE  AccountInv'
<1>0. /\ phase = "finalize" /\ index \in DOMAIN staged /\ op.pc = "done" /\ op' = Idle
      /\ objects' = objects /\ op # Idle
      /\ UNCHANGED <<files, existing, uploads, upload>>
  BY DEF EndPublish, EndFinalize, service, plan, Idle
<1>1. /\ index \in DOMAIN files /\ ListsInv /\ Len(staged) = Len(files)
      /\ staged[index].source = StagingOf(index) /\ staged[index].target = files[index]
      /\ index = Len(finalized) + 1
  BY <1>0, ListsOrder DEF AccountInv, ListsInv
<1>2. /\ op.caller = "move" /\ op.source = StagingOf(index) /\ op.target = files[index]
      /\ OpSettled \/ op.target \in existing
  BY <1>0 DEF AccountInv, OpAbout
<1>o. /\ Len(files) \in Nat /\ Len(finalized) \in Nat /\ DOMAIN finalized = 1..Len(finalized)
      /\ finalized \in Seq(RemoteChanges) /\ staged \in Seq(RemoteChanges)
      /\ DOMAIN staged = 1..Len(staged)
      /\ \A i \in DOMAIN files : i \in Nat /\ i <= Len(files)
  BY <1>1, ListsOrder
<1>3. CASE IsOk(op.error)
  <2> DEFINE change == Change(StagingOf(index), files[index], op.tgen)
  <2>1. finalized' = Append(finalized, change) /\ staged' = staged /\ CheckedStep(index)
    BY <1>0, <1>1, <1>3 DEF EndPublish, EndFinalize
  <2>2. change.source = StagingOf(index) /\ change.target = files[index]
    BY DEF Change
  <2> HIDE DEF change
  <2>3. /\ DOMAIN finalized' = 1..index /\ Len(finalized') = index
        /\ finalized'[index] = change
        /\ \A i \in 1..Len(finalized) : finalized'[i] = finalized[i]
        /\ \A i \in 1..index : i = index \/ i \in 1..Len(finalized)
    BY <1>1, <1>o, <2>1
  <2>4. files[index] \notin existing /\ Unmade(StagingOf(index))
    BY <1>0, <1>2, <1>3 DEF AccountInv, NewTargets, OpSettled, Unmade
  <2>5. \A i \in DOMAIN finalized' :
           /\ finalized'[i].source = StagingOf(i) /\ finalized'[i].target = files[i]
           /\ finalized'[i].target \notin existing
    BY <1>1, <1>o, <2>2, <2>3, <2>4 DEF AccountInv, ListsInv, NewTargets
  <2>6. index <= Len(staged)
    BY <1>0, <1>o
  <2>7. \A i \in DOMAIN files : /\ Unmade(StagingOf(i)) => Unmade(StagingOf(i))'
                                /\ Unmade(files[i]) => Unmade(files[i])'
    BY <1>0, QuietAccount
  <2>8. CASE phase' = "rollbackFinalized" /\ index' = index
    <3>1. ListsInv'
      BY <1>0, <1>1, <1>o, <2>1, <2>3, <2>5, <2>6, <2>8 DEF ListsInv, StagingOf
    <3>2. \A i \in DOMAIN files : /\ i <= Len(finalized') => i < index \/ i = index
                                  /\ ~(i > Len(staged'))
      BY <1>1, <1>o, <2>1, <2>3
    <3>3. UnmadeInv'
      BY <1>0, <2>4, <2>7, <2>8, <3>2 DEF UnmadeInv, AccountInv
    <3> QED BY <1>0, <2>5, <3>1, <3>3, IdleSteps
  <2>9. CASE index' = index + 1 /\ UNCHANGED <<phase, undone, result>>
    <3>1. ListsInv'
      BY <1>0, <1>1, <1>o, <2>1, <2>3, <2>5, <2>6, <2>9 DEF ListsInv, StagingOf
    <3>2. \A i \in DOMAIN files : /\ i < index' => i < index \/ i = index
                                  /\ i > index' \/ i = index' => i > index
      BY <1>1, <1>o, <2>9
    <3>3. UnmadeInv'
      BY <1>0, <2>4, <2>7, <2>9, <3>2 DEF UnmadeInv, AccountInv
    <3> QED BY <1>0, <2>5, <3>1, <3>3, IdleSteps
  <2> QED BY <2>1, <2>8, <2>9 DEF CheckedStep, Abort
<1>4. CASE ~IsOk(op.error)
  <2>1. /\ staged' = KeepRestoredGeneration(op.error) /\ finalized' = finalized
        /\ phase' = "rollbackFinalized" /\ index' = Len(finalized) /\ result' = op.error
    BY <1>4 DEF EndPublish, EndFinalize, Abort
  <2>2. /\ Len(staged') = Len(staged) /\ DOMAIN staged' = DOMAIN staged
        /\ \A i \in DOMAIN staged :
              staged'[i].source = staged[i].source /\ staged'[i].target = staged[i].target
    BY <1>0, <1>o, <2>1 DEF KeepRestoredGeneration, RemoteChanges
  <2>3. ListsInv'
    BY <1>0, <1>1, <1>o, <2>1, <2>2 DEF ListsInv, StagingOf
  <2>4. Plainly' => Unmade(files[index])
    BY <1>0, <1>2, <1>4, <2>1 DEF Plainly, OpSettled, Unmade
  <2> QED BY <1>0, <1>1, <2>1, <2>2, <2>3, <2>4, PublishAborted
<1> QED BY <1>3, <1>4

(* FinalizingDone: every staged object is published. *)
LEMMA FinalizingDoneAccount ==
    ASSUME UploadInv, PublishInv, AccountInv, CountsInv', FinalizingDone,
           upload.pc = "idle", UNCHANGED <<plan, upload>>
    PROVE  AccountInv'
<1>0. /\ phase = "finalize" /\ op' = Idle /\ objects' = objects /\ phase' = "end"
      /\ UNCHANGED <<index, staged, finalized, undone, result, files, existing, uploads, upload>>
      /\ index > Len(staged) /\ IsOk(result) /\ Len(staged) = Len(files)
      /\ uploads = [i \in DOMAIN files |-> PlannedUpload(files[i])]
  BY DEF FinalizingDone, moveVars, service, plan, PublishInv, ProgressInv, AccountInv, ListsInv
<1>1. ListsInv'
  BY <1>0 DEF AccountInv, ListsInv, StagingOf
<1>2. \A i \in DOMAIN files : i < index
  BY <1>0, ListsOrder DEF AccountInv
<1>3. \A i \in DOMAIN files : Unmade(StagingOf(i))'
  BY <1>0, <1>2, QuietAccount DEF AccountInv, UnmadeInv
<1>4. UnmadeInv'
  BY <1>0, <1>3 DEF UnmadeInv
<1> QED BY <1>0, <1>1, <1>4, IdleSteps DEF AccountInv, NewTargets

(* A change is left out of the second half of the rollback exactly when    *)
(* its object was published.                                               *)
LEMMA SkippedPublished ==
    ASSUME UploadInv, ListsInv, phase = "rollbackStaged", index \in DOMAIN staged
    PROVE  Skipped(staged[index]) <=> index <= Len(finalized)
<1>0. /\ index \in DOMAIN files /\ index \in Nat /\ index > 0
      /\ staged[index].source = StagingOf(index)
      /\ DOMAIN finalized = 1..Len(finalized) /\ DOMAIN finalized \subseteq DOMAIN files
      /\ Len(finalized) \in Nat
  BY ListsOrder DEF ListsInv
<1>1. ASSUME index <= Len(finalized) PROVE Skipped(staged[index])
  <2>1. index \in DOMAIN finalized /\ finalized[index].source = StagingOf(index)
    BY <1>0, <1>1 DEF ListsInv
  <2> QED BY <1>0, <2>1 DEF Skipped, FinalizedSources
<1>2. ASSUME Skipped(staged[index]) PROVE index <= Len(finalized)
  <2>1. PICK j \in DOMAIN finalized : finalized[j].source = staged[index].source
    BY <1>2 DEF Skipped, FinalizedSources
  <2>2. j \in DOMAIN files /\ StagingOf(j) = StagingOf(index)
    BY <1>0, <2>1 DEF ListsInv
  <2>3. j = index
    BY <1>0, <2>2, FileNames DEF UploadInv
  <2> QED BY <1>0, <2>3
<1> QED BY <1>1, <1>2

(* Where the rollback is. *)
LEMMA RollbackAt ==
    ASSUME UploadInv, ListsInv, RollingBack, index > 0
    PROVE  /\ index \in DOMAIN staged /\ index \in DOMAIN files
           /\ phase = "rollbackFinalized" => index \in DOMAIN finalized
<1>1. /\ phase = "rollbackFinalized" => index <= Len(finalized)
      /\ phase = "rollbackStaged" => index <= Len(staged)
  BY DEF UploadInv, TransactionInv, TransactionIndexInv
<1> QED BY <1>1, ListsOrder DEF RollingBack

(* BeginRollback: a published object is moved back, a staged one removed. *)
LEMMA BeginRollbackAccount ==
    ASSUME UploadInv, PublishInv, AccountInv, CountsInv', Calmly' => Calmly,
           BeginRollback(RollbackOf(Recorded[index])), upload.pc = "idle",
           UNCHANGED <<plan, upload>>
    PROVE  AccountInv'
<1>0. /\ RollingBack /\ op = Idle /\ index > 0 /\ ~Skipped(Recorded[index])
      /\ op' = RollbackOf(Recorded[index])
      /\ objects' = objects /\ UNCHANGED <<transactionVars, plan>> /\ upload'.pc = "idle"
      /\ UNCHANGED <<phase, index, staged, finalized, files, existing>>
  BY DEF BeginRollback, service, plan, transactionVars
<1>1. /\ index \in DOMAIN staged /\ index \in DOMAIN files
      /\ phase = "rollbackFinalized" => index \in DOMAIN finalized
      /\ ListsInv /\ StagingOf(index) \notin existing
  BY <1>0, RollbackAt, StagingNew DEF AccountInv, UploadInv
<1>2. CASE phase = "rollbackFinalized"
  <2>1. /\ op' = RollbackCall(StagingOf(index), files[index], finalized[index].generation)
        /\ files[index] \notin existing
    BY <1>0, <1>1, <1>2 DEF RollbackOf, Recorded, ListsInv, AccountInv, NewTargets
  <2>2. /\ op' # Idle /\ op'.pc = "rbSource" /\ op'.caller = "transaction"
        /\ op'.source = StagingOf(index) /\ op'.target = files[index]
    BY <2>1 DEF RollbackCall, Call, Idle
  <2>3. OpSettled'
    BY <2>2 DEF OpSettled
  <2>4. OpAbout'
    BY <1>0, <1>1, <1>2, <2>2 DEF OpAbout, StagingOf
  <2> QED BY <1>0, <1>2, <2>1, <2>2, <2>3, <2>4, CallSteps
<1>3. CASE phase = "rollbackStaged"
  <2>1. /\ op' = CleanupCall(StagingOf(index), staged[index].generation)
        /\ ~(index <= Len(finalized))
    BY <1>0, <1>1, <1>3, SkippedPublished DEF RollbackOf, Recorded, ListsInv
  <2>2. /\ op' # Idle /\ op'.pc = "cleanupState" /\ op'.caller = "cleanup"
        /\ op'.source = StagingOf(index) /\ op'.target = StagingOf(index)
    BY <2>1 DEF CleanupCall, Call, Idle
  <2>3. OpSettled'
    BY <2>2 DEF OpSettled
  <2>4. index > Len(finalized)
    BY <1>1, <2>1, ListsOrder
  <2>5. OpAbout'
    BY <1>0, <1>1, <1>3, <2>2, <2>4 DEF OpAbout, StagingOf
  <2> QED BY <1>0, <1>1, <1>3, <2>2, <2>3, <2>5, CallSteps
<1> QED BY <1>0, <1>2, <1>3 DEF RollingBack

(* CleanupRestored: what was moved back is removed. *)
LEMMA CleanupRestoredAccount ==
    ASSUME UploadInv, PublishInv, AccountInv, CountsInv', Calmly' => Calmly,
           CleanupRestored, upload.pc = "idle", UNCHANGED <<plan, upload>>
    PROVE  AccountInv'
<1>0. /\ RollingBack /\ op.pc = "done" /\ op.caller = "transaction" /\ IsOk(op.error)
      /\ op # Idle /\ phase # "stage" /\ op' = CleanupCall(op.source, op.sgen)
      /\ objects' = objects /\ UNCHANGED <<transactionVars, plan>> /\ upload'.pc = "idle"
      /\ UNCHANGED <<phase, index, staged, finalized, files, existing>>
  BY DEF CleanupRestored, MovedBack, RollingBack, service, plan, transactionVars, Idle
<1>1. /\ phase = "rollbackFinalized" /\ index \in DOMAIN finalized
      /\ op.source = StagingOf(index) /\ op.target = files[index]
      /\ OpSettled \/ op.target \in existing
  BY <1>0 DEF AccountInv, OpAbout
<1>2. Unmade(files[index])
  BY <1>0, <1>1 DEF OpSettled, Unmade
<1>3. /\ op' # Idle /\ op'.pc = "cleanupState" /\ op'.caller = "cleanup"
      /\ op'.source = StagingOf(index) /\ op'.target = StagingOf(index)
  BY <1>0, <1>1 DEF CleanupCall, Call, Idle
<1>4. OpSettled'
  BY <1>3 DEF OpSettled
<1>5. OpAbout'
  <2>1. \A i : i = index => Unmade(files[i])'
    BY <1>0, <1>2 DEF Unmade, Present
  <2> QED BY <1>0, <1>1, <1>3, <2>1 DEF OpAbout, StagingOf
<1>6. StagingOf(index) \notin existing
  BY <1>1, StagingNew, ListsOrder DEF AccountInv, UploadInv
<1> QED BY <1>0, <1>1, <1>3, <1>4, <1>5, <1>6, CallSteps

(* EndRollback: one change less to undo, and a failure is on record. *)
LEMMA EndRollbackAccount ==
    ASSUME UploadInv, PublishInv, AccountInv, CountsInv', Calmly' => Calmly,
           ~MovedBack, EndRollback, upload.pc = "idle", UNCHANGED <<plan, upload>>
    PROVE  AccountInv'
<1>0. /\ RollingBack /\ op.pc = "done" /\ op # Idle /\ phase # "stage"
      /\ undone' = (undone /\ IsOk(op.error)) /\ index' = index - 1
      /\ op' = Idle /\ objects' = objects /\ upload'.pc = "idle"
      /\ UNCHANGED <<phase, staged, finalized, result, files, existing, uploads>>
  BY DEF EndRollback, RollingBack, service, plan, Idle
<1>1. /\ OpAbout /\ ListsInv /\ (OpSettled \/ op.target \in existing)
      /\ index \in DOMAIN files /\ index \in Nat /\ op.source = StagingOf(index)
      /\ StagingOf(index) \notin existing
  BY <1>0, OpNames, StagingNew DEF AccountInv, UploadInv
<1>2. ListsInv'
  BY <1>0, <1>1 DEF ListsInv, StagingOf, RollingBack
<1>3. ASSUME Plainly'
      PROVE  /\ Plainly /\ ~Present(StagingOf(index))
             /\ phase = "rollbackFinalized" => Unmade(files[index])
  <2>1. Plainly /\ IsOk(op.error)
    BY <1>0, <1>3 DEF Plainly
  <2>2. op.caller = "cleanup" /\ op.target = StagingOf(index)
    BY <1>0, <1>1, <2>1 DEF OpAbout, MovedBack, RollingBack
  <2> QED BY <1>0, <1>1, <2>1, <2>2 DEF OpSettled, OpAbout
<1>4. \A i \in DOMAIN files : /\ Unmade(StagingOf(i)) => Unmade(StagingOf(i))'
                              /\ Unmade(files[i]) => Unmade(files[i])'
  BY <1>0, QuietAccount
<1>5. \A i \in DOMAIN files : i > index' => i > index \/ i = index
  BY <1>0, <1>1, ListsOrder
<1>6. CASE phase = "rollbackFinalized"
  <2>1. UnmadeInv'
    BY <1>0, <1>3, <1>4, <1>5, <1>6 DEF UnmadeInv, AccountInv, Unmade
  <2> QED BY <1>0, <1>2, <2>1, IdleSteps DEF AccountInv, NewTargets
<1>7. CASE phase = "rollbackStaged"
  <2>1. UnmadeInv'
    BY <1>0, <1>3, <1>4, <1>5, <1>7 DEF UnmadeInv, AccountInv, Unmade
  <2> QED BY <1>0, <1>2, <2>1, IdleSteps DEF AccountInv, NewTargets
<1> QED BY <1>0, <1>6, <1>7 DEF RollingBack

(* The steps of the rollback between two operations. *)
LEMMA RollbackNextAccount ==
    ASSUME UploadInv, PublishInv, AccountInv, CountsInv', Calmly' => Calmly,
           SkipRollback \/ RollbackStagedNext \/ RollbackDoneAll,
           upload.pc = "idle", UNCHANGED <<plan, upload>>
    PROVE  AccountInv'
<1>0. /\ RollingBack /\ op = Idle /\ op' = Idle /\ objects' = objects /\ upload'.pc = "idle"
      /\ UNCHANGED <<staged, finalized, undone, files, existing, uploads>>
      /\ ListsInv /\ ~IsOk(result)
  BY DEF SkipRollback, RollbackStagedNext, RollbackDoneAll, RollingBack, service, moveVars, plan,
     AccountInv, PublishInv, ProgressInv
<1>1. \A i \in DOMAIN files : /\ Unmade(StagingOf(i)) => Unmade(StagingOf(i))'
                              /\ Unmade(files[i]) => Unmade(files[i])'
  BY <1>0, QuietAccount
<1>2. \A i \in DOMAIN files : i \in Nat /\ i > 0
  BY <1>0, ListsOrder
<1>3. CASE SkipRollback
  <2>1. /\ phase = "rollbackStaged" /\ index > 0 /\ index' = index - 1
        /\ UNCHANGED <<phase, result>> /\ Skipped(staged[index])
    BY <1>3 DEF SkipRollback, Skipped, Recorded
  <2>2. index <= Len(finalized) /\ index \in Nat
    BY <1>0, <2>1, RollbackAt, SkippedPublished, ListsOrder
  <2>3. \A i \in DOMAIN files : i > index' => i > index \/ i <= Len(finalized)
    BY <1>0, <1>2, <2>1, <2>2, ListsOrder
  <2>4. Plainly' => Plainly
    BY <1>0, <2>1 DEF Plainly
  <2>5. UnmadeInv'
    BY <1>0, <1>1, <2>1, <2>3, <2>4 DEF UnmadeInv, AccountInv
  <2>6. ListsInv'
    BY <1>0, <2>1 DEF ListsInv, StagingOf
  <2> QED BY <1>0, <2>5, <2>6, IdleSteps DEF AccountInv, NewTargets
<1>4. CASE RollbackStagedNext
  <2>1. /\ phase = "rollbackFinalized" /\ index = 0 /\ phase' = "rollbackStaged"
        /\ index' = Len(staged) /\ UNCHANGED result
    BY <1>4 DEF RollbackStagedNext
  <2>2. Plainly' => Plainly
    BY <1>0, <2>1 DEF Plainly
  <2>3. UnmadeInv'
    BY <1>0, <1>1, <1>2, <2>1, <2>2 DEF UnmadeInv, AccountInv
  <2>4. ListsInv'
    BY <1>0, <2>1 DEF ListsInv, StagingOf
  <2> QED BY <1>0, <2>3, <2>4, IdleSteps DEF AccountInv, NewTargets
<1>5. CASE RollbackDoneAll
  <2>1. /\ phase = "rollbackStaged" /\ index = 0 /\ phase' = "end"
        /\ result' = Rollback(result, ~undone)
    BY <1>5 DEF RollbackDoneAll
  <2>2. /\ ~IsOk(result') /\ (~Look(result') => undone /\ ~Look(result))
    <3>1. result \in AppErrors
      BY DEF UploadInv, TransactionInv, TransactionTypeOK
    <3> QED BY <1>0, <2>1, <3>1 DEF Rollback, IsOk, Look, ReportsLeftovers, AppErrors
  <2>3. ~Look(result') /\ Calmly' => Plainly
    BY <2>2 DEF Plainly
  <2>4. UnmadeInv'
    BY <1>0, <1>1, <1>2, <2>1, <2>2, <2>3 DEF UnmadeInv, AccountInv
  <2>5. ListsInv'
    BY <1>0, <2>1, <2>2 DEF ListsInv, StagingOf
  <2> QED BY <1>0, <2>4, <2>5, IdleSteps DEF AccountInv, NewTargets
<1> QED BY <1>3, <1>4, <1>5

(* Every step of the transaction keeps the account. *)
LEMMA TransactionStepAccount ==
    ASSUME ~LateDelivery, UploadInv, PublishInv, AccountInv, CountsInv', Calmly' => Calmly,
           UploadInv', TransactionStep
    PROVE  AccountInv'
<1>1. upload.pc = "idle" /\ UNCHANGED <<plan, upload>>
  BY TransactionIdle DEF TransactionStep
<1>2. CASE EndUpload \/ StagingDone(Len(uploads))
  BY <1>1, <1>2, EndUploadAccount, StagingDoneAccount
<1>3. CASE BeginPublish \/ EndPublish \/ FinalizingDone
  BY <1>1, <1>3, BeginPublishAccount, EndPublishAccount, FinalizingDoneAccount
<1>4. CASE RollbackRemote
  <2>1. CASE BeginRollback(RollbackOf(Recorded[index]))
    BY <1>1, <2>1, BeginRollbackAccount
  <2>2. CASE CleanupRestored
    BY <1>1, <2>2, CleanupRestoredAccount
  <2>3. CASE ~MovedBack /\ EndRollback
    BY <1>1, <2>3, EndRollbackAccount
  <2>4. CASE SkipRollback \/ RollbackStagedNext \/ RollbackDoneAll
    BY <1>1, <2>4, RollbackNextAccount
  <2> QED BY <1>4, <2>1, <2>2, <2>3, <2>4 DEF RollbackRemote
<1>5. CASE OpStep /\ UNCHANGED transactionVars
  BY <1>1, <1>5, OpStepAccount
<1> QED BY <1>2, <1>3, <1>4, <1>5 DEF TransactionStep

(* A step that touches neither the bucket nor what the run knows. *)
LEMMA AloofAccount ==
    ASSUME UploadInv, AccountInv, CountsInv', Calmly' => Calmly, objects' = objects,
           UNCHANGED <<transactionVars, plan, upload, op, transfer, doubted>>,
           session' = session \/ session'.committed < Size
    PROVE  AccountInv'
<1>0. UNCHANGED <<phase, index, staged, finalized, undone, result, files, existing, uploads>>
  BY DEF transactionVars, plan
<1>1. /\ BucketInv'
      /\ \A i \in DOMAIN files : /\ Unmade(StagingOf(i)) => Unmade(StagingOf(i))'
                                 /\ Unmade(files[i]) => Unmade(files[i])'
  BY <1>0, QuietAccount DEF AccountInv
<1>2. NewTargets' /\ ListsInv'
  BY <1>0 DEF AccountInv, NewTargets, ListsInv, StagingOf
<1>3. (Plainly' => Plainly) /\ (Vacant' <=> Vacant)
  BY <1>0 DEF Plainly, Vacant, Present, StagingOf
<1>4. UnmadeInv'
  BY <1>0, <1>1, <1>3 DEF AccountInv, UnmadeInv
<1>5. OpAbout => OpAbout'
  BY <1>0 DEF OpAbout, Unmade, Present, StagingOf
<1>6. OpSettled => OpSettled'
  BY SettledKept
<1>7. TransferCourse => TransferCourse'
  BY <1>3 DEF TransferCourse, Accounted
<1>8. UploadCourse'
  BY <1>0, <1>3, <1>7 DEF AccountInv, UploadCourse, Accounted
<1> QED BY <1>0, <1>1, <1>2, <1>4, <1>5, <1>6, <1>8 DEF AccountInv

(* The environment: no step of it touches the bucket when all writers      *)
(* honour the lock and nothing is executed late.                           *)
LEMMA DisturbanceAccount ==
    ASSUME MaxForeign = 0, UploadInv, AccountInv, CountsInv', Calmly' => Calmly, Disturbance
    PROVE  AccountInv'
<1>0. /\ late = NoChunk /\ wire = {} /\ meddled \in 0..MaxForeign
      /\ UNCHANGED <<transactionVars, plan, upload>> /\ session \in Sessions
  BY DEF AccountInv, CountsInv, UploadInv, SessionInv, TransactionInv, MoveTypeOK, Disturbance
<1>1. CASE (Meddling \/ Land) /\ UNCHANGED resumable
  <2>1. Signal
    BY <1>0, <1>1 DEF Meddling, Land, ForeignWrite, ForeignDelete
  <2> QED BY <1>0, <1>1, <2>1, AloofAccount DEF Signal, service, resumable
<1>2. CASE (EditSource \/ RemoveSource) /\ UNCHANGED resumable
  BY <1>0, <1>2, AloofAccount DEF EditSource, RemoveSource, moveVars, service, resumable
<1>3. CASE ForgetUnits /\ UNCHANGED op
  <2>1. session'.committed < Size
    BY <1>0, <1>3, ResumableAssumption DEF ForgetUnits, Sessions
  <2> QED BY <1>0, <1>3, <2>1, AloofAccount DEF ForgetUnits, service
<1>4. ~LandChunk
  BY <1>0 DEF LandChunk
<1> QED BY <1>1, <1>2, <1>3, <1>4 DEF Disturbance

(* At the start nothing was made. *)
LEMMA InitAccount == Init => AccountInv
<1> SUFFICES ASSUME Init PROVE AccountInv
  OBVIOUS
<1>0. /\ phase = "build" /\ op = Idle /\ upload.pc = "idle" /\ Idle.pc = "idle"
      /\ staged = <<>> /\ finalized = <<>> /\ undone /\ IsOk(result)
      /\ objects = [name \in Names |->
                       IF name \in existing THEN [gen |-> 1, data |-> name] ELSE Absent]
      /\ Absent.gen = 0
  BY DEF Init, MoveInit, TransactionInit, NoUpload, Idle, IsOk, NoError, Err, Absent
<1>1. FilesInv
  BY InitUpload DEF UploadInv
<1>2. CountsInv
  <2>1. \A i \in DOMAIN disk : disk[i].opens
    BY DEF Init
  <2> QED BY <2>1 DEF Init, MoveInit, ResumableInit, CountsInv, Signalled
<1>3. \A name \in Names : IF name \in existing THEN HoldsData(name, name) ELSE ~Present(name)
  BY <1>0 DEF HoldsData, Present
<1>4. NewTargets /\ BucketInv
  BY <1>0, <1>3 DEF NewTargets, BucketInv, CopiedPcs, UndoPcs
<1>5. ListsInv
  <2>1. Len(staged) = 0 /\ Len(finalized) = 0 /\ DOMAIN staged = {} /\ DOMAIN finalized = {}
    BY <1>0
  <2>2. Len(files) \in Nat
    BY <1>1, FileNames
  <2> QED BY <1>0, <2>1, <2>2 DEF ListsInv
<1>6. UnmadeInv
  BY <1>0, <1>1, <1>3, FileNames DEF UnmadeInv, Unmade
<1>7. UploadCourse
  BY <1>0 DEF UploadCourse
<1> QED BY <1>0, <1>2, <1>4, <1>5, <1>6, <1>7 DEF AccountInv

(* Every step of the run and of its environment. *)
LEMMA NextAccount ==
    ASSUME ~LateDelivery, MaxForeign = 0, UploadInv, PublishInv, AccountInv, [Next]_vars
    PROVE  AccountInv'
<1>0. /\ CountsInv' /\ (Calmly' => Calmly) /\ UploadInv'
  BY NextCounts, NextUpload DEF AccountInv
<1>1. CASE vars' = vars
  BY <1>0, <1>1, AloofAccount DEF vars, moveVars, service, resumable
<1>2. CASE PlanUploads
  BY <1>0, <1>2, PlanUploadsAccount
<1>3. CASE UploadStep
  <2>1. CASE upload.pc = "idle"
    <3>1. BeginUpload
      BY <1>3, <2>1 DEF UploadStep, CaptureFingerprint, OpenSource, SendUpload, SendResumable,
         EndResumable, VerifySent, ConfirmedUploadFailure, ConfirmWrite
    <3> QED BY <1>0, <3>1, BeginUploadAccount
  <2>2. CASE upload.pc # "idle"
    BY <1>0, <1>3, <2>2, UploadStepAccount
  <2> QED BY <2>1, <2>2
<1>4. CASE TransactionStep
  BY <1>0, <1>4, TransactionStepAccount
<1>5. CASE Disturbance
  BY <1>0, <1>5, DisturbanceAccount
<1> QED BY <1>1, <1>2, <1>3, <1>4, <1>5 DEF Next, RunStep, Terminated

(* What the account says at the end. *)
LEMMA AccountMeans ==
    ASSUME UploadInv, AccountInv
    PROVE  AllOrNothing
<1>1. ASSUME phase = "end", IsOk(result), NEW name \in Names
      PROVE  AsBefore(name) \/ (name \in Targets /\ name \notin existing)
  <2>1. CASE name \in existing
    BY <2>1 DEF AccountInv, BucketInv, AsBefore
  <2>2. CASE name \notin existing /\ Present(name)
    <3>1. PICK i \in DOMAIN files : name \in {StagingOf(i), files[i]}
      BY <2>2 DEF AccountInv, BucketInv
    <3>2. ~Present(StagingOf(i))
      BY <1>1, StagingNew DEF AccountInv, UnmadeInv, UploadInv
    <3>3. uploads = [j \in DOMAIN files |-> PlannedUpload(files[j])]
      BY <1>1 DEF AccountInv, ListsInv
    <3> QED BY <2>2, <3>1, <3>2, <3>3 DEF Targets, PlannedUpload
  <2> QED BY <2>1, <2>2 DEF AsBefore
<1>2. ASSUME result.kind # "HttpConnect", Calmly, phase = "end", ~IsOk(result),
             ~ReportsLeftovers(result), NEW name \in Names
      PROVE  AsBefore(name)
  <2>1. \A i \in DOMAIN files : Unmade(StagingOf(i)) /\ Unmade(files[i])
    BY <1>2 DEF AccountInv, UnmadeInv, Look
  <2> QED BY <2>1 DEF AccountInv, BucketInv, AsBefore, Unmade
<1> QED BY <1>1, <1>2 DEF AllOrNothing, UnchangedUnlessReported, Calmly

(* AllOrNothing: upload_planned_files returns all or nothing unless its    *)
(* error tells the operator to look, for any number of faults, signals,    *)
(* edits and removals, as long as every writer honours the bucket lock     *)
(* and no request is executed after the client has given up on it.         *)
THEOREM AllPublishedOrNone ==
    ASSUME ~LateDelivery, MaxForeign = 0
    PROVE  Spec => []AllOrNothing
<1> DEFINE IInv == UploadInv /\ PublishInv /\ AccountInv
<1>1. Init => IInv
  BY InitUpload, InitHeld, InitAccount
<1>2. IInv /\ [Next]_vars => IInv'
  BY NextUpload, NextHeld, NextAccount
<1>3. IInv => AllOrNothing
  BY AccountMeans
<1> QED BY <1>1, <1>2, <1>3, PTL DEF Spec
=============================================================================
