----------------------- MODULE RemoteOwnershipProofs -----------------------
(***************************************************************************)
(* A run touches only versions it has made or copied: facts about single   *)
(* requests and moves, for every schedule, with other writers and with     *)
(* requests that the service executes late; what a move or an undo has     *)
(* settled in the bucket when it returns; and the course of an operation   *)
(* that a single failed request or signal disturbs.                        *)
(***************************************************************************)
EXTENDS RemoteMovesProofs

(* A generation that belongs to the run: it was given out, and no version  *)
(* of another writer that the run has not copied bears it.                 *)
Mine(g) == g # 0 /\ g < nextGen /\ g \notin others

(* Generations are given out once. *)
GenerationsInv ==
    /\ \A name \in Names : objects[name].gen < nextGen
    /\ \A g \in others : 0 < g /\ g < nextGen

(* A delete that is still on its way names a version of the run. *)
WireOwned == \A request \in wire : request.type = "delete" => Mine(request.generation)

RestoredPcs == {"rbConfirmCopy", "rbDelete", "rbTargetState", "rbConfirm"}

(* The failures that an operation has on record: none yet, and never a     *)
(* restored generation before it returns.                                  *)
Failure(error) == ~IsOk(error) /\ ~HasRestoredGeneration(error)

(* What an operation knows of its generations at each point: after the     *)
(* rewrite of a move both are the run's, during an undo the target is, and *)
(* what it returns is.                                                     *)
OpOwned ==
    /\ op.pc = "copy" => op.sgen # 0
    /\ op.pc \in CopiedPcs \cup UndoPcs => Mine(op.tgen)
    /\ op.pc \in CopiedPcs \cup RestoredPcs => Mine(op.sgen)
    /\ \/ op.pc \in FailurePcs \/ op.pc \in {"interruptedMove", "undoSource"}
       \/ op.pc \in UndoPcs /\ op.caller = "move"
       => Failure(op.error)
    /\ op.pc = "done" =>
          /\ IsOk(op.error) => Mine(op.tgen)
          /\ HasRestoredGeneration(op.error) => Mine(op.error.generation)

OwnedInv == GenerationsInv /\ WireOwned /\ OpOwned

(* What a step does to the versions of others and to the run's own. *)
OthersKept == \A name \in Names : objects[name].gen \in others => objects'[name] = objects[name]
OwnKept == \A g \in Nat : Mine(g) => Mine(g)'

-----------------------------------------------------------------------------
(* Executing a request whose deletes name a version of the run. *)
LEMMA ProcessOwned ==
    ASSUME ServiceTypeOK, GenerationsInv, NEW request \in Requests, Process(request),
           request.type = "delete" => Mine(request.generation)
    PROVE  /\ GenerationsInv' /\ OthersKept /\ OwnKept
           /\ \A g : /\ request.type \in {"rewrite", "write"} /\ Status(request) = "Ok"
                     /\ g = nextGen
                     => Mine(g)'
           /\ \A g : /\ request.type = "rewrite" /\ Status(request) = "Ok"
                     /\ g = objects[request.name].gen
                     => Mine(g)'
<1>0. /\ request.name \in Names /\ request.to \in Names
      /\ objects \in [Names -> Versions] /\ nextGen \in Nat \ {0} /\ others \subseteq Nat
      /\ \A name \in Names : objects[name].gen \in Nat
  BY DEF Requests, ServiceTypeOK, Versions
<1>1. CASE request.type = "rewrite" /\ Status(request) = "Ok"
  <2>1. /\ objects' = [objects EXCEPT ![request.to] =
                          [gen |-> nextGen, data |-> objects[request.name].data]]
        /\ nextGen' = nextGen + 1 /\ others' = others \ {objects[request.name].gen}
    BY <1>1 DEF Process
  <2>2. objects[request.to].gen = 0 /\ objects[request.name].gen # 0
    BY <1>1 DEF Status, Present
  <2>3. GenerationsInv'
    BY <1>0, <1>1, <2>1 DEF GenerationsInv
  <2>4. OthersKept
    BY <1>0, <1>1, <2>1, <2>2 DEF OthersKept, GenerationsInv
  <2>5. OwnKept
    BY <1>0, <2>1 DEF OwnKept, Mine
  <2>6. \A g : g = nextGen => Mine(g)'
    BY <1>0, <2>1 DEF GenerationsInv, Mine
  <2>7. \A g : g = objects[request.name].gen => Mine(g)'
    BY <1>0, <2>1, <2>2 DEF Mine, GenerationsInv
  <2> QED BY <2>3, <2>4, <2>5, <2>6, <2>7
<1>2. CASE request.type = "write" /\ Status(request) = "Ok"
  <2>1. /\ objects' = [objects EXCEPT ![request.name] =
                          [gen |-> nextGen, data |-> request.to]]
        /\ nextGen' = nextGen + 1 /\ others' = others
    BY <1>2 DEF Process
  <2>2. objects[request.name].gen = 0
    BY <1>2 DEF Status, Present
  <2>3. GenerationsInv'
    BY <1>0, <2>1 DEF GenerationsInv
  <2>4. OthersKept
    BY <1>0, <2>1, <2>2 DEF OthersKept, GenerationsInv
  <2>5. OwnKept /\ \A g : g = nextGen => Mine(g)'
    BY <1>0, <2>1 DEF OwnKept, Mine, GenerationsInv
  <2> QED BY <1>2, <2>3, <2>4, <2>5
<1>3. CASE request.type = "delete" /\ Status(request) = "Ok"
  <2>1. /\ objects' = [objects EXCEPT ![request.name] = Absent]
        /\ nextGen' = nextGen /\ others' = others
    BY <1>3 DEF Process
  <2>2. objects[request.name].gen \notin others
    BY <1>3 DEF Status, Mine
  <2>3. GenerationsInv'
    BY <1>0, <2>1 DEF GenerationsInv, Absent
  <2>4. OthersKept /\ OwnKept
    BY <1>0, <2>1, <2>2 DEF OthersKept, OwnKept, Mine
  <2> QED BY <1>3, <2>3, <2>4
<1>4. CASE ~(request.type \in {"rewrite", "write", "delete"} /\ Status(request) = "Ok")
  <2>1. UNCHANGED <<objects, nextGen, others>>
    BY <1>4 DEF Process, service
  <2> QED BY <1>4, <2>1 DEF GenerationsInv, OthersKept, OwnKept, Mine
<1> QED BY <1>1, <1>2, <1>3, <1>4

(* A step that leaves the service alone leaves ownership alone. *)
LEMMA QuietOwned ==
    ASSUME UNCHANGED service, GenerationsInv
    PROVE  GenerationsInv' /\ OthersKept /\ OwnKept
BY DEF service, GenerationsInv, OthersKept, OwnKept, Mine

(* What the run owns it still owns when the wire has grown by a request    *)
(* that is the run's.                                                      *)
LEMMA WireKept ==
    ASSUME ServiceTypeOK, WireOwned, OwnKept,
           \A request \in wire' \ wire : request \in Requests /\
              (request.type = "delete" => Mine(request.generation))
    PROVE  WireOwned'
<1> SUFFICES ASSUME NEW request \in wire', request.type = "delete"
             PROVE  Mine(request.generation)'
  BY DEF WireOwned
<1>1. request \in Requests /\ Mine(request.generation)
  BY DEF WireOwned, ServiceTypeOK
<1>2. request.generation \in Nat
  BY <1>1 DEF Requests
<1>3. \A g \in Nat : Mine(g) => Mine(g)'
  BY DEF OwnKept
<1> QED BY <1>1, <1>2, <1>3 DEF Mine

(* Sending such a request, whatever becomes of it. *)
LEMMA SendOwned ==
    ASSUME ServiceTypeOK, GenerationsInv, WireOwned, NEW request \in Requests, NEW e,
           Send(request, e), request.type = "delete" => Mine(request.generation)
    PROVE  /\ GenerationsInv' /\ WireOwned' /\ OthersKept /\ OwnKept
           /\ meddled' = meddled /\ e # "InterruptedAfterMoveRollback"
           /\ e = "Ok" /\ request.type \in {"rewrite", "write"} =>
                 \A g : g = nextGen => Mine(g)'
           /\ e = "Ok" /\ request.type = "rewrite" =>
                 \A g : g = objects[request.name].gen => Mine(g)'
           /\ e = "Ok" => Status(request) = "Ok"
<1>1. /\ meddled' = meddled /\ e # "InterruptedAfterMoveRollback"
      /\ wire' = wire \/ wire' = wire \cup {request}
      /\ \/ Process(request) /\ (e = "Ok" => Status(request) = "Ok")
         \/ UNCHANGED service /\ e # "Ok"
  <2>1. CASE Unsent(e)
    BY <2>1 DEF Unsent
  <2>2. CASE Answered(request, e)
    BY <2>2 DEF Answered, environment, Status
  <2>3. CASE Abandoned(request, e)
    BY <2>3 DEF Abandoned, Outcome
  <2> QED BY <2>1, <2>2, <2>3 DEF Send
<1>2. CASE Process(request) /\ (e = "Ok" => Status(request) = "Ok")
  BY <1>1, <1>2, ProcessOwned, WireKept
<1>3. CASE UNCHANGED service /\ e # "Ok"
  BY <1>1, <1>3, QuietOwned, WireKept
<1> QED BY <1>1, <1>2, <1>3

-----------------------------------------------------------------------------
(* What the ways a step can end leave in the fields of the call stack. *)
LEMMA OpFields ==
    ASSUME op \in Ops
    PROVE  /\ \A next : /\ Goto(next).pc = next /\ Goto(next).sgen = op.sgen
                        /\ Goto(next).tgen = op.tgen /\ Goto(next).error = op.error
                        /\ Goto(next).caller = op.caller
           /\ \A error : /\ Return(error).pc = "done" /\ Return(error).error = error
                         /\ Return(error).tgen = op.tgen
                         /\ Fail(error).pc = "failed" /\ Fail(error).error = error
                         /\ MoveFailed(error).pc \in {"interruptedMove", "failed"}
                         /\ MoveFailed(error).error = error
                         /\ MoveFailed(error).sgen = op.sgen
                         /\ MoveFailed(error).tgen = op.tgen
                         /\ \/ /\ op.caller = "move"
                               /\ UndoFailed(error).pc = "failed"
                               /\ UndoFailed(error).error = Rollback(op.error, TRUE)
                            \/ /\ UndoFailed(error).pc = "done"
                               /\ UndoFailed(error).error = error
                               /\ UndoFailed(error).tgen = op.tgen
           /\ \/ CleanupDone.pc = "failed" /\ CleanupDone.error = Err("Interrupted")
              \/ /\ CleanupDone.pc = "done" /\ CleanupDone.error = NoError
                 /\ CleanupDone.tgen = op.tgen
           /\ RollbackDone.pc = "done" /\ RollbackDone.tgen = op.tgen
           /\ RollbackDone.error \in {NoError, InterruptedAfterMoveRollback(op.sgen)}
<1>1. \A error : /\ Return(error).pc = "done" /\ Return(error).error = error
                 /\ Return(error).tgen = op.tgen
                 /\ Fail(error).pc = "failed" /\ Fail(error).error = error
  BY DEF Ops, Return, Fail
<1>2. \A next : /\ Goto(next).pc = next /\ Goto(next).sgen = op.sgen
                /\ Goto(next).tgen = op.tgen /\ Goto(next).error = op.error
                /\ Goto(next).caller = op.caller
  BY DEF Ops, Goto
<1>3. \A error : /\ MoveFailed(error).pc \in {"interruptedMove", "failed"}
                 /\ MoveFailed(error).error = error
                 /\ MoveFailed(error).sgen = op.sgen /\ MoveFailed(error).tgen = op.tgen
  BY DEF Ops, MoveFailed
<1> QED BY <1>1, <1>2, <1>3 DEF UndoFailed, CleanupDone, RollbackDone

(* The errors that the handlers make of a failed request. *)
LEMMA HandlerFailures ==
    ASSUME NEW e \in ErrorKinds, e # "Ok", e # "InterruptedAfterMoveRollback"
    PROVE  /\ Failure(Err(e)) /\ Failure(MarkStorageReached(Err(e)))
           /\ Failure(PageError(e))
<1>1. Failure(Err(e)) /\ Failure(MarkStorageReached(Err(e)))
  BY DEF Failure, IsOk, HasRestoredGeneration, Err, MarkStorageReached
<1> QED BY <1>1 DEF PageError

(* The errors of a confirmation. *)
LEMMA ConfirmFailures ==
    ASSUME NEW e \in ErrorKinds, e # "InterruptedAfterMoveRollback", NEW found, NEW expected
    PROVE  \/ IsOk(ConfirmGeneration(e, found, expected))
           \/ Failure(ConfirmGeneration(e, found, expected))
<1>1. Failure(Err("Recovery"))
  BY DEF Failure, IsOk, HasRestoredGeneration, Err
<1>2. CASE e = "Ok"
  BY <1>1, <1>2 DEF ConfirmGeneration, IsOk, NoError, Err, IsInterrupted
<1>3. CASE e # "Ok"
  BY <1>1, <1>3, HandlerFailures DEF ConfirmGeneration
<1> QED BY <1>2, <1>3

(* Wrapping a failure leaves a failure. *)
LEMMA RollbackFailure ==
    ASSUME NEW error \in AppErrors, Failure(error)
    PROVE  Failure(Rollback(error, TRUE))
BY DEF Failure, IsOk, HasRestoredGeneration, Rollback, AppErrors

-----------------------------------------------------------------------------
(* A step that goes on with the generations and the error on record. *)
LEMMA GoesOnOwned ==
    ASSUME op \in Ops, OpOwned, OwnKept, op'.pc # "done", op'.sgen = op.sgen,
           op'.tgen = op.tgen, op'.error = op.error, op'.caller = op.caller,
           op'.pc \in CopiedPcs \cup UndoPcs => op.pc \in CopiedPcs \cup UndoPcs,
           op'.pc \in CopiedPcs \cup RestoredPcs => op.pc \in CopiedPcs \cup RestoredPcs,
           op'.pc = "copy" => op.pc = "copy",
           op'.pc \in FailurePcs => op.pc \in FailurePcs,
           op'.pc \in {"interruptedMove", "undoSource"} =>
              op.pc \in {"interruptedMove", "undoSource"},
           op'.pc \in UndoPcs => op.pc \in UndoPcs \cup {"undoSource"}
    PROVE  OpOwned'
<1>1. \A g \in {op.sgen, op.tgen} : Mine(g) => Mine(g)'
  BY DEF OwnKept, Ops
<1>2. op'.pc \in CopiedPcs \cup UndoPcs => Mine(op.tgen)'
  BY <1>1 DEF OpOwned, Mine
<1>3. op'.pc \in CopiedPcs \cup RestoredPcs => Mine(op.sgen)'
  BY <1>1 DEF OpOwned, Mine
<1>4. \/ op'.pc \in FailurePcs \/ op'.pc \in {"interruptedMove", "undoSource"}
      \/ op'.pc \in UndoPcs /\ op'.caller = "move"
      => Failure(op'.error)
  BY DEF OpOwned
<1> QED BY <1>2, <1>3, <1>4 DEF OpOwned

(* The ways an operation fails or returns. *)
LEMMA EndsOwned ==
    ASSUME op \in Ops, OpOwned, OwnKept
    PROVE  /\ \A error : op' = Fail(error) /\ Failure(error) => OpOwned'
           /\ \A error :
                 /\ op' = Return(error) /\ ~HasRestoredGeneration(error)
                 /\ IsOk(error) => op.pc \in CopiedPcs \cup UndoPcs
                 => OpOwned'
           /\ \A error :
                 op' = MoveFailed(error) /\ Failure(error) /\ op.pc \in CopiedPcs => OpOwned'
           /\ \A error :
                 /\ op' = UndoFailed(error) /\ Failure(error)
                 /\ op.pc \in UndoPcs \cup {"undoSource"}
                 => OpOwned'
           /\ op' = CleanupDone /\ op.pc \in UndoPcs => OpOwned'
           /\ op' = RollbackDone /\ op.pc \in RestoredPcs => OpOwned'
<1>0. \A g \in {op.sgen, op.tgen} : Mine(g) => Mine(g)'
  BY DEF OwnKept, Ops
<1> USE DEF CopiedPcs, UndoPcs, RestoredPcs, FailurePcs
<1>1. ASSUME op'.pc = "failed", Failure(op'.error) PROVE OpOwned'
  BY <1>1 DEF OpOwned
<1>2. ASSUME op'.pc = "done", op'.tgen = op.tgen, ~HasRestoredGeneration(op'.error),
             IsOk(op'.error) => op.pc \in CopiedPcs \cup UndoPcs
      PROVE  OpOwned'
  <2>1. IsOk(op'.error) => Mine(op.tgen)'
    BY <1>0, <1>2 DEF OpOwned, Mine
  <2> QED BY <1>2, <2>1 DEF OpOwned, Mine
<1>3. ASSUME NEW error, op' = MoveFailed(error), Failure(error), op.pc \in CopiedPcs
      PROVE  OpOwned'
  <2>1. /\ op'.pc \in {"interruptedMove", "failed"} /\ op'.error = error
        /\ op'.sgen = op.sgen /\ op'.tgen = op.tgen
    BY <1>3, OpFields
  <2>2. Mine(op.tgen)' /\ Mine(op.sgen)'
    BY <1>0, <1>3, <2>1 DEF OpOwned, Mine
  <2> QED BY <1>3, <2>1, <2>2 DEF OpOwned
<1>4. ASSUME NEW error, op' = UndoFailed(error), Failure(error),
             op.pc \in UndoPcs \cup {"undoSource"}
      PROVE  OpOwned'
  <2>1. CASE op.caller = "move" /\ op'.pc = "failed" /\ op'.error = Rollback(op.error, TRUE)
    <3>1. Failure(op.error) /\ op.error \in AppErrors
      BY <1>4, <2>1 DEF OpOwned, Ops
    <3> QED BY <1>1, <2>1, <3>1, RollbackFailure
  <2>2. CASE op'.pc = "done" /\ op'.error = error /\ op'.tgen = op.tgen
    BY <1>2, <1>4, <2>2 DEF Failure
  <2>3. \/ op.caller = "move" /\ op'.pc = "failed" /\ op'.error = Rollback(op.error, TRUE)
        \/ op'.pc = "done" /\ op'.error = error /\ op'.tgen = op.tgen
    BY <1>4 DEF UndoFailed, Fail, Return, Ops
  <2> QED BY <2>1, <2>2, <2>3
<1>5. ASSUME op' = CleanupDone, op.pc \in UndoPcs PROVE OpOwned'
  <2>1. Failure(Err("Interrupted")) /\ ~HasRestoredGeneration(NoError)
    BY DEF Failure, IsOk, HasRestoredGeneration, NoError, Err
  <2> QED BY <1>1, <1>2, <1>5, <2>1, OpFields
<1>6. ASSUME op' = RollbackDone, op.pc \in RestoredPcs PROVE OpOwned'
  <2>1. /\ op'.pc = "done" /\ op'.tgen = op.tgen
        /\ op'.error \in {NoError, InterruptedAfterMoveRollback(op.sgen)}
    BY <1>6, OpFields
  <2>2. CASE op'.error = NoError
    <3>1. ~HasRestoredGeneration(NoError)
      BY DEF HasRestoredGeneration, NoError, Err
    <3> QED BY <1>2, <1>6, <2>1, <2>2, <3>1
  <2>3. CASE op'.error = InterruptedAfterMoveRollback(op.sgen)
    <3>1. ~IsOk(op'.error) /\ op'.error.generation = op.sgen
      BY <2>3 DEF IsOk, InterruptedAfterMoveRollback
    <3>2. Mine(op.error.generation)'
      BY <1>0, <1>6, <3>1 DEF OpOwned, Mine
    <3> QED BY <2>1, <3>1, <3>2 DEF OpOwned
  <2> QED BY <2>1, <2>2, <2>3
<1>7. ASSUME NEW error, op' = Fail(error), Failure(error) PROVE OpOwned'
  <2>1. op'.pc = "failed" /\ op'.error = error
    BY <1>7, OpFields
  <2> QED BY <1>1, <1>7, <2>1
<1>8. ASSUME NEW error, op' = Return(error), ~HasRestoredGeneration(error),
             IsOk(error) => op.pc \in CopiedPcs \cup UndoPcs
      PROVE  OpOwned'
  <2>1. op'.pc = "done" /\ op'.error = error /\ op'.tgen = op.tgen
    BY <1>8, OpFields
  <2> QED BY <1>2, <1>8, <2>1
<1> QED BY <1>3, <1>4, <1>5, <1>6, <1>7, <1>8

-----------------------------------------------------------------------------
(* A request of the operation is the run's to send. *)
LEMMA OpRequestOwned ==
    ASSUME MoveTypeOK, OwnedInv, op \in Ops, NEW request \in Requests, NEW e,
           Send(request, e), request.type = "delete" => Mine(request.generation)
    PROVE  /\ GenerationsInv' /\ WireOwned' /\ OthersKept /\ OwnKept /\ meddled' = meddled
           /\ e # "InterruptedAfterMoveRollback"
<1>1. ServiceTypeOK /\ GenerationsInv /\ WireOwned
  BY DEF MoveTypeOK, ServiceTypeOK, OwnedInv
<1> QED BY <1>1, SendOwned

(* A lookup in the middle of an operation. *)
LEMMA GetOwned ==
    ASSUME MoveTypeOK, OwnedInv, op \in Ops, NEW name \in {op.source, op.target},
           NEW g \in Nat, NEW e, Send(Get(name, g), e)
    PROVE  /\ GenerationsInv' /\ WireOwned' /\ OthersKept /\ OwnKept /\ meddled' = meddled
           /\ e # "InterruptedAfterMoveRollback"
<1>1. Get(name, g) \in Requests /\ Get(name, g).type # "delete"
  BY RequestType DEF Get
<1> QED BY <1>1, OpRequestOwned

(* So are a delete of a version of the run and a page of a rewrite. *)
LEMMA DeleteOwned ==
    ASSUME MoveTypeOK, OwnedInv, op \in Ops, NEW name \in {op.source, op.target},
           NEW g \in Nat, Mine(g), NEW e, Send(Delete(name, g), e)
    PROVE  /\ GenerationsInv' /\ WireOwned' /\ OthersKept /\ OwnKept /\ meddled' = meddled
           /\ e # "InterruptedAfterMoveRollback"
<1>1. Delete(name, g) \in Requests /\ Delete(name, g).generation = g
  BY RequestType DEF Delete
<1> QED BY <1>1, OpRequestOwned

(* A page of a rewrite changes nothing. *)
LEMMA PageOwned ==
    ASSUME MoveTypeOK, OwnedInv, op \in Ops, NEW name \in {op.source, op.target},
           NEW to \in {op.source, op.target}, NEW g \in Nat, NEW e,
           Send(RewritePage(name, g, to), e)
    PROVE  /\ GenerationsInv' /\ WireOwned' /\ OthersKept /\ OwnKept /\ meddled' = meddled
           /\ e # "InterruptedAfterMoveRollback"
<1>1. RewritePage(name, g, to) \in Requests /\ RewritePage(name, g, to).type # "delete"
  BY RequestType DEF RewritePage
<1> QED BY <1>1, OpRequestOwned

(* A rewrite that is answered makes its destination the run's, and what it *)
(* has copied as well.                                                     *)
LEMMA RewriteOwned ==
    ASSUME MoveTypeOK, OwnedInv, op \in Ops, NEW name \in {op.source, op.target},
           NEW to \in {op.source, op.target}, NEW g \in Nat, NEW e,
           Send(Rewrite(name, g, to), e)
    PROVE  /\ GenerationsInv' /\ WireOwned' /\ OthersKept /\ OwnKept /\ meddled' = meddled
           /\ e # "InterruptedAfterMoveRollback"
           /\ e = "Ok" => \A h : h = nextGen => Mine(h)'
           /\ e = "Ok" /\ g # 0 => \A h : h = g => Mine(h)'
<1>0. ServiceTypeOK /\ GenerationsInv /\ WireOwned
  BY DEF MoveTypeOK, ServiceTypeOK, OwnedInv
<1>1. PICK request \in Requests : request = Rewrite(name, g, to)
  BY RequestType
<1>2. /\ request.type = "rewrite" /\ request.name = name /\ request.generation = g
  BY <1>1 DEF Rewrite
<1>3. /\ GenerationsInv' /\ WireOwned' /\ OthersKept /\ OwnKept /\ meddled' = meddled
      /\ e # "InterruptedAfterMoveRollback"
      /\ e = "Ok" => \A h : h = nextGen => Mine(h)'
      /\ e = "Ok" => \A h : h = objects[name].gen => Mine(h)'
      /\ e = "Ok" => Status(request) = "Ok"
  BY <1>0, <1>1, <1>2, SendOwned
<1>4. e = "Ok" /\ g # 0 => objects[name].gen = g
  BY <1>2, <1>3 DEF Status
<1> QED BY <1>3, <1>4

(* The generation that the first lookup of a move finds is not zero. *)
LEMMA FoundGeneration ==
    ASSUME NEW name \in Names, NEW e, Send(Get(name, 0), e), e = "Ok"
    PROVE  objects[name].gen # 0
<1>1. Get(name, 0).type = "get" /\ Get(name, 0).name = name
  BY DEF Get
<1>2. Status(Get(name, 0)) = "Ok"
  BY DEF Send, Unsent, Answered, Abandoned
<1> QED BY <1>1, <1>2 DEF Status, Present

(* Every step of a move, of an undo and of the confirmation of a failure   *)
(* leaves the versions of others alone and keeps track of the run's own.   *)
LEMMA OpStepOwned ==
    ASSUME MoveTypeOK, OwnedInv, OpStep
    PROVE  OwnedInv' /\ OthersKept /\ OwnKept /\ meddled' = meddled
<1>0. /\ op \in Ops /\ OpOwned /\ GenerationsInv /\ WireOwned
      /\ op.source \in Names /\ op.target \in Names
      /\ op.sgen \in Nat /\ op.tgen \in Nat /\ op.error \in AppErrors
  BY OpStepBusy DEF MoveTypeOK, Idle, Ops, OwnedInv
<1> SUFFICES /\ GenerationsInv' /\ WireOwned' /\ OthersKept /\ OwnKept /\ meddled' = meddled
             /\ OpOwned'
  BY DEF OwnedInv
<1>m. Failure(Err("Message")) /\ Failure(Err("Recovery")) /\ ~HasRestoredGeneration(NoError)
  BY DEF Failure, IsOk, HasRestoredGeneration, NoError, Err
<1> USE DEF CopiedPcs, UndoPcs, RestoredPcs, FailurePcs
<1>1. CASE ObjectGeneration
  <2>1. PICK e \in ErrorKinds :
           /\ Send(Get(op.source, 0), e)
           /\ \/ op' = [op EXCEPT !.pc = "copy", !.sgen = objects[op.source].gen] /\ e = "Ok"
              \/ op' = Fail(Err(e)) /\ e # "Ok"
    BY <1>0, <1>1 DEF ObjectGeneration, Generation, Get
  <2>2. op.pc = "generation"
    BY <1>1 DEF ObjectGeneration
  <2>3. /\ GenerationsInv' /\ WireOwned' /\ OthersKept /\ OwnKept
        /\ meddled' = meddled /\ e # "InterruptedAfterMoveRollback"
    BY <1>0, <2>1, <2>2, GetOwned
  <2>4. CASE op' = [op EXCEPT !.pc = "copy", !.sgen = objects[op.source].gen] /\ e = "Ok"
    <3>1. op'.pc = "copy" /\ op'.sgen = objects[op.source].gen
      BY <1>0, <2>4 DEF Ops
    <3>2. objects[op.source].gen # 0
      BY <1>0, <2>1, <2>4, FoundGeneration
    <3> QED BY <2>3, <3>1, <3>2 DEF OpOwned
  <2>5. CASE op' = Fail(Err(e)) /\ e # "Ok"
    BY <1>0, <1>m, <2>2, <2>3, <2>5, EndsOwned, HandlerFailures
  <2> QED BY <2>1, <2>3, <2>4, <2>5
<1>2. CASE CopyPage
  <2>1. PICK e \in ErrorKinds :
           /\ Send(RewritePage(op.source, op.sgen, op.target), e)
           /\ \/ op' = [op EXCEPT !.pages = @ + 1]
              \/ op' = Fail(PageError(e)) /\ e # "Ok"
    BY <1>0, <1>2 DEF CopyPage
  <2>2. op.pc = "copy"
    BY <1>2 DEF CopyPage
  <2>3. /\ GenerationsInv' /\ WireOwned' /\ OthersKept /\ OwnKept
        /\ meddled' = meddled /\ e # "InterruptedAfterMoveRollback"
    BY <1>0, <2>1, <2>2, PageOwned
  <2>4. CASE op' = [op EXCEPT !.pages = @ + 1]
    <3>1. /\ op'.pc = "copy" /\ op'.sgen = op.sgen /\ op'.tgen = op.tgen
          /\ op'.error = op.error /\ op'.caller = op.caller
      BY <1>0, <2>2, <2>4 DEF Ops
    <3> QED BY <1>0, <2>2, <2>3, <3>1, GoesOnOwned
  <2>5. CASE op' = Fail(PageError(e)) /\ e # "Ok"
    BY <1>0, <1>m, <2>2, <2>3, <2>5, EndsOwned, HandlerFailures
  <2> QED BY <2>1, <2>3, <2>4, <2>5
<1>3. CASE CopyObject
  <2>1. PICK e \in ErrorKinds :
           /\ Send(Rewrite(op.source, op.sgen, op.target), e)
           /\ \/ op' = [op EXCEPT !.pc = "confirmCopy", !.tgen = nextGen] /\ e = "Ok"
              \/ op' = Fail(PageError(e)) /\ e # "Ok"
    BY <1>0, <1>3 DEF CopyObject
  <2>2. op.pc = "copy"
    BY <1>3 DEF CopyObject
  <2>3. /\ GenerationsInv' /\ WireOwned' /\ OthersKept /\ OwnKept
        /\ meddled' = meddled /\ e # "InterruptedAfterMoveRollback"
    BY <1>0, <2>1, <2>2, RewriteOwned
  <2>4. CASE op' = [op EXCEPT !.pc = "confirmCopy", !.tgen = nextGen] /\ e = "Ok"
    <3>1. op'.pc = "confirmCopy" /\ op'.tgen = nextGen /\ op'.sgen = op.sgen
      BY <1>0, <2>4 DEF Ops
    <3>2. op.sgen # 0
      BY <1>0, <2>2 DEF OpOwned
    <3>3. \A h : h = nextGen \/ h = op.sgen => Mine(h)'
      BY <1>0, <2>1, <2>4, <3>2, RewriteOwned
    <3> QED BY <2>3, <3>1, <3>3 DEF OpOwned, Mine
  <2>5. CASE op' = Fail(PageError(e)) /\ e # "Ok"
    BY <1>0, <1>m, <2>2, <2>3, <2>5, EndsOwned, HandlerFailures
  <2> QED BY <2>1, <2>3, <2>4, <2>5
<1>4. CASE ConfirmCopy
  <2>1. PICK e \in ErrorKinds :
           /\ Send(Get(op.target, 0), e)
           /\ \/ op' = Goto("deleteSource")
              \/ \E found, expected : /\ ~IsOk(ConfirmGeneration(e, found, expected))
                                   /\ op' = MoveFailed(ConfirmGeneration(e, found, expected))
    BY <1>0, <1>4 DEF ConfirmCopy
  <2>2. op.pc = "confirmCopy"
    BY <1>4 DEF ConfirmCopy
  <2>3. /\ GenerationsInv' /\ WireOwned' /\ OthersKept /\ OwnKept
        /\ meddled' = meddled /\ e # "InterruptedAfterMoveRollback"
    BY <1>0, <2>1, <2>2, GetOwned
  <2>4. CASE op' = Goto("deleteSource")
    <3>1. /\ op'.pc = "deleteSource" /\ op'.sgen = op.sgen /\ op'.tgen = op.tgen
          /\ op'.error = op.error /\ op'.caller = op.caller
      BY <1>0, <2>4, OpFields
    <3> QED BY <1>0, <2>2, <2>3, <3>1, GoesOnOwned
  <2>5. CASE \E found, expected : /\ ~IsOk(ConfirmGeneration(e, found, expected))
                                   /\ op' = MoveFailed(ConfirmGeneration(e, found, expected))
    BY <1>0, <1>m, <2>2, <2>3, <2>5, EndsOwned, ConfirmFailures
  <2> QED BY <2>1, <2>3, <2>4, <2>5
<1>5. CASE DeleteSource
  <2>1. PICK e \in ErrorKinds :
           /\ Send(Delete(op.source, op.sgen), e)
           /\ \/ op' = Goto("sourceState")
              \/ op' = MoveFailed(MarkStorageReached(Err(e))) /\ e # "Ok"
    BY <1>0, <1>5 DEF DeleteSource
  <2>2. op.pc = "deleteSource"
    BY <1>5 DEF DeleteSource
  <2>3. /\ GenerationsInv' /\ WireOwned' /\ OthersKept /\ OwnKept
        /\ meddled' = meddled /\ e # "InterruptedAfterMoveRollback"
    BY <1>0, <2>1, <2>2, DeleteOwned DEF OpOwned
  <2>4. CASE op' = Goto("sourceState")
    <3>1. /\ op'.pc = "sourceState" /\ op'.sgen = op.sgen /\ op'.tgen = op.tgen
          /\ op'.error = op.error /\ op'.caller = op.caller
      BY <1>0, <2>4, OpFields
    <3> QED BY <1>0, <2>2, <2>3, <3>1, GoesOnOwned
  <2>5. CASE op' = MoveFailed(MarkStorageReached(Err(e))) /\ e # "Ok"
    BY <1>0, <1>m, <2>2, <2>3, <2>5, EndsOwned, HandlerFailures
  <2> QED BY <2>1, <2>3, <2>4, <2>5
<1>6. CASE SourceState
  <2>1. PICK e \in ErrorKinds :
           /\ Send(Get(op.source, 0), e)
           /\ \/ op' = [op EXCEPT !.pc = "confirmMove", !.sourceSeen = Seen(e)]
              \/ op' = MoveFailed(MarkStorageReached(Err(e))) /\ e # "Ok"
    BY <1>0, <1>6 DEF SourceState, Seen
  <2>2. op.pc = "sourceState"
    BY <1>6 DEF SourceState
  <2>3. /\ GenerationsInv' /\ WireOwned' /\ OthersKept /\ OwnKept
        /\ meddled' = meddled /\ e # "InterruptedAfterMoveRollback"
    BY <1>0, <2>1, <2>2, GetOwned
  <2>4. CASE op' = [op EXCEPT !.pc = "confirmMove", !.sourceSeen = Seen(e)]
    <3>1. /\ op'.pc = "confirmMove" /\ op'.sgen = op.sgen /\ op'.tgen = op.tgen
          /\ op'.error = op.error /\ op'.caller = op.caller
      BY <1>0, <2>2, <2>4 DEF Ops
    <3> QED BY <1>0, <2>2, <2>3, <3>1, GoesOnOwned
  <2>5. CASE op' = MoveFailed(MarkStorageReached(Err(e))) /\ e # "Ok"
    BY <1>0, <1>m, <2>2, <2>3, <2>5, EndsOwned, HandlerFailures
  <2> QED BY <2>1, <2>3, <2>4, <2>5
<1>7. CASE ConfirmMove
  <2>1. PICK e \in ErrorKinds :
           /\ Send(Get(op.target, 0), e)
           /\ \/ op' = Return(NoError)
              \/ op' = Fail(Err("Message"))
              \/ \E found, expected : /\ ~IsOk(ConfirmGeneration(e, found, expected))
                                   /\ op' = MoveFailed(ConfirmGeneration(e, found, expected))
    BY <1>0, <1>7 DEF ConfirmMove
  <2>2. op.pc = "confirmMove"
    BY <1>7 DEF ConfirmMove
  <2>3. /\ GenerationsInv' /\ WireOwned' /\ OthersKept /\ OwnKept
        /\ meddled' = meddled /\ e # "InterruptedAfterMoveRollback"
    BY <1>0, <2>1, <2>2, GetOwned
  <2>4. CASE op' = Return(NoError)
    BY <1>0, <1>m, <2>2, <2>3, <2>4, EndsOwned
  <2>5. CASE op' = Fail(Err("Message"))
    BY <1>0, <1>m, <2>2, <2>3, <2>5, EndsOwned
  <2>6. CASE \E found, expected : /\ ~IsOk(ConfirmGeneration(e, found, expected))
                                   /\ op' = MoveFailed(ConfirmGeneration(e, found, expected))
    BY <1>0, <1>m, <2>2, <2>3, <2>6, EndsOwned, ConfirmFailures
  <2> QED BY <2>1, <2>3, <2>4, <2>5, <2>6
<1>8. CASE ClearInterruptForRollback
  <2>1. /\ op.pc = "interruptedMove" /\ op' = Goto("undoSource")
        /\ UNCHANGED <<service, wire, meddled>>
    BY <1>8 DEF ClearInterruptForRollback, environment
  <2>2. GenerationsInv' /\ OthersKept /\ OwnKept
    BY <1>0, <2>1, QuietOwned
  <2>3. WireOwned'
    BY <1>0, <2>1, <2>2, WireKept DEF MoveTypeOK, ServiceTypeOK
  <2>4. /\ op'.pc = "undoSource" /\ op'.sgen = op.sgen /\ op'.tgen = op.tgen
        /\ op'.error = op.error /\ op'.caller = op.caller
    BY <1>0, <2>1, OpFields
  <2>5. OpOwned'
    BY <1>0, <2>1, <2>2, <2>4, GoesOnOwned
  <2> QED BY <2>1, <2>2, <2>3, <2>5
<1>9. CASE UndoSource
  <2>1. PICK e \in ErrorKinds :
           /\ Send(Get(op.source, 0), e)
           /\ \/ op' = Goto("cleanupState")
              \/ op' = [op EXCEPT !.pc = "rbSource", !.pages = 0]
              \/ op' = UndoFailed(Err(e)) /\ e # "Ok"
    BY <1>0, <1>9 DEF UndoSource, Seen
  <2>2. op.pc = "undoSource"
    BY <1>9 DEF UndoSource
  <2>3. /\ GenerationsInv' /\ WireOwned' /\ OthersKept /\ OwnKept
        /\ meddled' = meddled /\ e # "InterruptedAfterMoveRollback"
    BY <1>0, <2>1, <2>2, GetOwned
  <2>4. CASE op' = Goto("cleanupState")
    <3>1. /\ op'.pc = "cleanupState" /\ op'.sgen = op.sgen /\ op'.tgen = op.tgen
          /\ op'.error = op.error /\ op'.caller = op.caller
      BY <1>0, <2>4, OpFields
    <3> QED BY <1>0, <2>2, <2>3, <3>1, GoesOnOwned
  <2>5. CASE op' = [op EXCEPT !.pc = "rbSource", !.pages = 0]
    <3>1. /\ op'.pc = "rbSource" /\ op'.sgen = op.sgen /\ op'.tgen = op.tgen
          /\ op'.error = op.error /\ op'.caller = op.caller
      BY <1>0, <2>2, <2>5 DEF Ops
    <3> QED BY <1>0, <2>2, <2>3, <3>1, GoesOnOwned
  <2>6. CASE op' = UndoFailed(Err(e)) /\ e # "Ok"
    BY <1>0, <1>m, <2>2, <2>3, <2>6, EndsOwned, HandlerFailures
  <2> QED BY <2>1, <2>3, <2>4, <2>5, <2>6
<1>10. CASE CleanupState
  <2>1. PICK e \in ErrorKinds :
           /\ Send(Get(op.target, op.tgen), e)
           /\ \/ op' = Goto("cleanupDelete")
              \/ op' = Goto("cleanupConfirm")
              \/ op' = UndoFailed(Err(e)) /\ e # "Ok"
    BY <1>0, <1>10 DEF CleanupState, Seen
  <2>2. op.pc = "cleanupState"
    BY <1>10 DEF CleanupState
  <2>3. /\ GenerationsInv' /\ WireOwned' /\ OthersKept /\ OwnKept
        /\ meddled' = meddled /\ e # "InterruptedAfterMoveRollback"
    BY <1>0, <2>1, <2>2, GetOwned
  <2>4. CASE op' = Goto("cleanupDelete")
    <3>1. /\ op'.pc = "cleanupDelete" /\ op'.sgen = op.sgen /\ op'.tgen = op.tgen
          /\ op'.error = op.error /\ op'.caller = op.caller
      BY <1>0, <2>4, OpFields
    <3> QED BY <1>0, <2>2, <2>3, <3>1, GoesOnOwned
  <2>5. CASE op' = Goto("cleanupConfirm")
    <3>1. /\ op'.pc = "cleanupConfirm" /\ op'.sgen = op.sgen /\ op'.tgen = op.tgen
          /\ op'.error = op.error /\ op'.caller = op.caller
      BY <1>0, <2>5, OpFields
    <3> QED BY <1>0, <2>2, <2>3, <3>1, GoesOnOwned
  <2>6. CASE op' = UndoFailed(Err(e)) /\ e # "Ok"
    BY <1>0, <1>m, <2>2, <2>3, <2>6, EndsOwned, HandlerFailures
  <2> QED BY <2>1, <2>3, <2>4, <2>5, <2>6
<1>11. CASE CleanupDelete
  <2>1. PICK e \in ErrorKinds :
           /\ Send(Delete(op.target, op.tgen), e)
           /\ \/ op' = Goto("cleanupConfirm")
              \/ op' = UndoFailed(MarkStorageReached(Err(e))) /\ e # "Ok"
    BY <1>0, <1>11 DEF CleanupDelete
  <2>2. op.pc = "cleanupDelete"
    BY <1>11 DEF CleanupDelete
  <2>3. /\ GenerationsInv' /\ WireOwned' /\ OthersKept /\ OwnKept
        /\ meddled' = meddled /\ e # "InterruptedAfterMoveRollback"
    BY <1>0, <2>1, <2>2, DeleteOwned DEF OpOwned
  <2>4. CASE op' = Goto("cleanupConfirm")
    <3>1. /\ op'.pc = "cleanupConfirm" /\ op'.sgen = op.sgen /\ op'.tgen = op.tgen
          /\ op'.error = op.error /\ op'.caller = op.caller
      BY <1>0, <2>4, OpFields
    <3> QED BY <1>0, <2>2, <2>3, <3>1, GoesOnOwned
  <2>5. CASE op' = UndoFailed(MarkStorageReached(Err(e))) /\ e # "Ok"
    BY <1>0, <1>m, <2>2, <2>3, <2>5, EndsOwned, HandlerFailures
  <2> QED BY <2>1, <2>3, <2>4, <2>5
<1>12. CASE CleanupConfirm
  <2>1. PICK e \in ErrorKinds :
           /\ Send(Get(op.target, 0), e)
           /\ \/ op' = CleanupDone
              \/ op' = UndoFailed(Err("Message"))
              \/ op' = UndoFailed(MarkStorageReached(Err(e))) /\ e # "Ok"
    BY <1>0, <1>12 DEF CleanupConfirm, Seen
  <2>2. op.pc = "cleanupConfirm"
    BY <1>12 DEF CleanupConfirm
  <2>3. /\ GenerationsInv' /\ WireOwned' /\ OthersKept /\ OwnKept
        /\ meddled' = meddled /\ e # "InterruptedAfterMoveRollback"
    BY <1>0, <2>1, <2>2, GetOwned
  <2>4. CASE op' = CleanupDone
    BY <1>0, <1>m, <2>2, <2>3, <2>4, EndsOwned
  <2>5. CASE op' = UndoFailed(Err("Message"))
    BY <1>0, <1>m, <2>2, <2>3, <2>5, EndsOwned
  <2>6. CASE op' = UndoFailed(MarkStorageReached(Err(e))) /\ e # "Ok"
    BY <1>0, <1>m, <2>2, <2>3, <2>6, EndsOwned, HandlerFailures
  <2> QED BY <2>1, <2>3, <2>4, <2>5, <2>6
<1>13. CASE RbSource
  <2>1. PICK e \in ErrorKinds :
           /\ Send(Get(op.source, 0), e)
           /\ \/ op' = Goto("rbTarget")
              \/ op' = UndoFailed(Err("Message"))
              \/ op' = UndoFailed(Err(e)) /\ e # "Ok"
    BY <1>0, <1>13 DEF RbSource, Seen
  <2>2. op.pc = "rbSource"
    BY <1>13 DEF RbSource
  <2>3. /\ GenerationsInv' /\ WireOwned' /\ OthersKept /\ OwnKept
        /\ meddled' = meddled /\ e # "InterruptedAfterMoveRollback"
    BY <1>0, <2>1, <2>2, GetOwned
  <2>4. CASE op' = Goto("rbTarget")
    <3>1. /\ op'.pc = "rbTarget" /\ op'.sgen = op.sgen /\ op'.tgen = op.tgen
          /\ op'.error = op.error /\ op'.caller = op.caller
      BY <1>0, <2>4, OpFields
    <3> QED BY <1>0, <2>2, <2>3, <3>1, GoesOnOwned
  <2>5. CASE op' = UndoFailed(Err("Message"))
    BY <1>0, <1>m, <2>2, <2>3, <2>5, EndsOwned
  <2>6. CASE op' = UndoFailed(Err(e)) /\ e # "Ok"
    BY <1>0, <1>m, <2>2, <2>3, <2>6, EndsOwned, HandlerFailures
  <2> QED BY <2>1, <2>3, <2>4, <2>5, <2>6
<1>14. CASE RbTarget
  <2>1. PICK e \in ErrorKinds :
           /\ Send(Get(op.target, op.tgen), e)
           /\ \/ op' = Goto("rbCopy")
              \/ op' = UndoFailed(Err("Message"))
              \/ op' = UndoFailed(Err(e)) /\ e # "Ok"
    BY <1>0, <1>14 DEF RbTarget, Seen
  <2>2. op.pc = "rbTarget"
    BY <1>14 DEF RbTarget
  <2>3. /\ GenerationsInv' /\ WireOwned' /\ OthersKept /\ OwnKept
        /\ meddled' = meddled /\ e # "InterruptedAfterMoveRollback"
    BY <1>0, <2>1, <2>2, GetOwned
  <2>4. CASE op' = Goto("rbCopy")
    <3>1. /\ op'.pc = "rbCopy" /\ op'.sgen = op.sgen /\ op'.tgen = op.tgen
          /\ op'.error = op.error /\ op'.caller = op.caller
      BY <1>0, <2>4, OpFields
    <3> QED BY <1>0, <2>2, <2>3, <3>1, GoesOnOwned
  <2>5. CASE op' = UndoFailed(Err("Message"))
    BY <1>0, <1>m, <2>2, <2>3, <2>5, EndsOwned
  <2>6. CASE op' = UndoFailed(Err(e)) /\ e # "Ok"
    BY <1>0, <1>m, <2>2, <2>3, <2>6, EndsOwned, HandlerFailures
  <2> QED BY <2>1, <2>3, <2>4, <2>5, <2>6
<1>15. CASE RbCopyPage
  <2>1. PICK e \in ErrorKinds :
           /\ Send(RewritePage(op.target, op.tgen, op.source), e)
           /\ \/ op' = [op EXCEPT !.pages = @ + 1]
              \/ op' = UndoFailed(PageError(e)) /\ e # "Ok"
    BY <1>0, <1>15 DEF RbCopyPage
  <2>2. op.pc = "rbCopy"
    BY <1>15 DEF RbCopyPage
  <2>3. /\ GenerationsInv' /\ WireOwned' /\ OthersKept /\ OwnKept
        /\ meddled' = meddled /\ e # "InterruptedAfterMoveRollback"
    BY <1>0, <2>1, <2>2, PageOwned
  <2>4. CASE op' = [op EXCEPT !.pages = @ + 1]
    <3>1. /\ op'.pc = "rbCopy" /\ op'.sgen = op.sgen /\ op'.tgen = op.tgen
          /\ op'.error = op.error /\ op'.caller = op.caller
      BY <1>0, <2>2, <2>4 DEF Ops
    <3> QED BY <1>0, <2>2, <2>3, <3>1, GoesOnOwned
  <2>5. CASE op' = UndoFailed(PageError(e)) /\ e # "Ok"
    BY <1>0, <1>m, <2>2, <2>3, <2>5, EndsOwned, HandlerFailures
  <2> QED BY <2>1, <2>3, <2>4, <2>5
<1>16. CASE RbCopy
  <2>1. PICK e \in ErrorKinds :
           /\ Send(Rewrite(op.target, op.tgen, op.source), e)
           /\ \/ op' = [op EXCEPT !.pc = "rbConfirmCopy", !.sgen = nextGen] /\ e = "Ok"
              \/ op' = UndoFailed(PageError(e)) /\ e # "Ok"
    BY <1>0, <1>16 DEF RbCopy
  <2>2. op.pc = "rbCopy"
    BY <1>16 DEF RbCopy
  <2>3. /\ GenerationsInv' /\ WireOwned' /\ OthersKept /\ OwnKept
        /\ meddled' = meddled /\ e # "InterruptedAfterMoveRollback"
    BY <1>0, <2>1, <2>2, RewriteOwned
  <2>4. CASE op' = [op EXCEPT !.pc = "rbConfirmCopy", !.sgen = nextGen] /\ e = "Ok"
    <3>1. /\ op'.pc = "rbConfirmCopy" /\ op'.sgen = nextGen /\ op'.tgen = op.tgen
          /\ op'.error = op.error /\ op'.caller = op.caller
      BY <1>0, <2>4 DEF Ops
    <3>2. Mine(op.tgen) /\ (op.caller = "move" => Failure(op.error))
      BY <1>0, <2>2 DEF OpOwned
    <3>3. \A h : h = nextGen \/ h = op.tgen => Mine(h)'
      BY <1>0, <2>1, <2>4, <3>2, RewriteOwned DEF Mine
    <3> QED BY <2>3, <3>1, <3>2, <3>3 DEF OpOwned, Mine
  <2>5. CASE op' = UndoFailed(PageError(e)) /\ e # "Ok"
    BY <1>0, <1>m, <2>2, <2>3, <2>5, EndsOwned, HandlerFailures
  <2> QED BY <2>1, <2>3, <2>4, <2>5
<1>17. CASE RbConfirmCopy
  <2>1. PICK e \in ErrorKinds :
           /\ Send(Get(op.source, 0), e)
           /\ \/ op' = Goto("rbDelete")
              \/ op' = UndoFailed(Err("Recovery"))
    BY <1>0, <1>17 DEF RbConfirmCopy
  <2>2. op.pc = "rbConfirmCopy"
    BY <1>17 DEF RbConfirmCopy
  <2>3. /\ GenerationsInv' /\ WireOwned' /\ OthersKept /\ OwnKept
        /\ meddled' = meddled /\ e # "InterruptedAfterMoveRollback"
    BY <1>0, <2>1, <2>2, GetOwned
  <2>4. CASE op' = Goto("rbDelete")
    <3>1. /\ op'.pc = "rbDelete" /\ op'.sgen = op.sgen /\ op'.tgen = op.tgen
          /\ op'.error = op.error /\ op'.caller = op.caller
      BY <1>0, <2>4, OpFields
    <3> QED BY <1>0, <2>2, <2>3, <3>1, GoesOnOwned
  <2>5. CASE op' = UndoFailed(Err("Recovery"))
    BY <1>0, <1>m, <2>2, <2>3, <2>5, EndsOwned
  <2> QED BY <2>1, <2>3, <2>4, <2>5
<1>18. CASE RbDelete
  <2>1. PICK e \in ErrorKinds :
           /\ Send(Delete(op.target, op.tgen), e)
           /\ \/ op' = Goto("rbTargetState")
              \/ op' = UndoFailed(MarkStorageReached(Err(e))) /\ e # "Ok"
    BY <1>0, <1>18 DEF RbDelete
  <2>2. op.pc = "rbDelete"
    BY <1>18 DEF RbDelete
  <2>3. /\ GenerationsInv' /\ WireOwned' /\ OthersKept /\ OwnKept
        /\ meddled' = meddled /\ e # "InterruptedAfterMoveRollback"
    BY <1>0, <2>1, <2>2, DeleteOwned DEF OpOwned
  <2>4. CASE op' = Goto("rbTargetState")
    <3>1. /\ op'.pc = "rbTargetState" /\ op'.sgen = op.sgen /\ op'.tgen = op.tgen
          /\ op'.error = op.error /\ op'.caller = op.caller
      BY <1>0, <2>4, OpFields
    <3> QED BY <1>0, <2>2, <2>3, <3>1, GoesOnOwned
  <2>5. CASE op' = UndoFailed(MarkStorageReached(Err(e))) /\ e # "Ok"
    BY <1>0, <1>m, <2>2, <2>3, <2>5, EndsOwned, HandlerFailures
  <2> QED BY <2>1, <2>3, <2>4, <2>5
<1>19. CASE RbTargetState
  <2>1. PICK e \in ErrorKinds :
           /\ Send(Get(op.target, 0), e)
           /\ \/ op' = [op EXCEPT !.pc = "rbConfirm", !.targetSeen = Seen(e)]
              \/ op' = UndoFailed(MarkStorageReached(Err(e))) /\ e # "Ok"
    BY <1>0, <1>19 DEF RbTargetState, Seen
  <2>2. op.pc = "rbTargetState"
    BY <1>19 DEF RbTargetState
  <2>3. /\ GenerationsInv' /\ WireOwned' /\ OthersKept /\ OwnKept
        /\ meddled' = meddled /\ e # "InterruptedAfterMoveRollback"
    BY <1>0, <2>1, <2>2, GetOwned
  <2>4. CASE op' = [op EXCEPT !.pc = "rbConfirm", !.targetSeen = Seen(e)]
    <3>1. /\ op'.pc = "rbConfirm" /\ op'.sgen = op.sgen /\ op'.tgen = op.tgen
          /\ op'.error = op.error /\ op'.caller = op.caller
      BY <1>0, <2>2, <2>4 DEF Ops
    <3> QED BY <1>0, <2>2, <2>3, <3>1, GoesOnOwned
  <2>5. CASE op' = UndoFailed(MarkStorageReached(Err(e))) /\ e # "Ok"
    BY <1>0, <1>m, <2>2, <2>3, <2>5, EndsOwned, HandlerFailures
  <2> QED BY <2>1, <2>3, <2>4, <2>5
<1>20. CASE RbConfirm
  <2>1. PICK e \in ErrorKinds :
           /\ Send(Get(op.source, 0), e)
           /\ \/ op' = RollbackDone
              \/ op' = UndoFailed(Err("Recovery"))
              \/ op' = UndoFailed(Err("Message"))
    BY <1>0, <1>20 DEF RbConfirm
  <2>2. op.pc = "rbConfirm"
    BY <1>20 DEF RbConfirm
  <2>3. /\ GenerationsInv' /\ WireOwned' /\ OthersKept /\ OwnKept
        /\ meddled' = meddled /\ e # "InterruptedAfterMoveRollback"
    BY <1>0, <2>1, <2>2, GetOwned
  <2>4. CASE op' = RollbackDone
    BY <1>0, <1>m, <2>2, <2>3, <2>4, EndsOwned
  <2>5. CASE op' = UndoFailed(Err("Recovery"))
    BY <1>0, <1>m, <2>2, <2>3, <2>5, EndsOwned
  <2>6. CASE op' = UndoFailed(Err("Message"))
    BY <1>0, <1>m, <2>2, <2>3, <2>6, EndsOwned
  <2> QED BY <2>1, <2>3, <2>4, <2>5, <2>6
<1>21. CASE ConfirmedFailure
  <2>1. /\ op.pc = "failed"
        /\ op' = Goto("confirmSource") \/ op' = Return(op.error)
        /\ UNCHANGED <<service, wire, meddled>>
    BY <1>21 DEF ConfirmedFailure, environment
  <2>2. GenerationsInv' /\ OthersKept /\ OwnKept
    BY <1>0, <2>1, QuietOwned
  <2>3. WireOwned'
    BY <1>0, <2>1, <2>2, WireKept DEF MoveTypeOK, ServiceTypeOK
  <2>4. Failure(op.error)
    BY <1>0, <2>1 DEF OpOwned
  <2>5. CASE op' = Return(op.error)
    BY <1>0, <2>1, <2>2, <2>3, <2>4, <2>5, EndsOwned DEF Failure
  <2>6. CASE op' = Goto("confirmSource")
    <3>1. /\ op'.pc = "confirmSource" /\ op'.sgen = op.sgen /\ op'.tgen = op.tgen
          /\ op'.error = op.error /\ op'.caller = op.caller
      BY <1>0, <2>6, OpFields
    <3>2. OpOwned'
      BY <1>0, <2>1, <2>2, <3>1, GoesOnOwned
    <3> QED BY <2>1, <2>2, <2>3, <3>2
  <2> QED BY <2>1, <2>5, <2>6
<1>22. CASE ConfirmSource
  <2>1. PICK e \in ErrorKinds :
           /\ Send(Get(op.source, 0), e)
           /\ \/ op' = [op EXCEPT !.pc = "confirmTarget", !.sourceSeen = Seen(e)]
    BY <1>0, <1>22 DEF ConfirmSource
  <2>2. op.pc = "confirmSource"
    BY <1>22 DEF ConfirmSource
  <2>3. /\ GenerationsInv' /\ WireOwned' /\ OthersKept /\ OwnKept
        /\ meddled' = meddled /\ e # "InterruptedAfterMoveRollback"
    BY <1>0, <2>1, <2>2, GetOwned
  <2>4. CASE op' = [op EXCEPT !.pc = "confirmTarget", !.sourceSeen = Seen(e)]
    <3>1. /\ op'.pc = "confirmTarget" /\ op'.sgen = op.sgen /\ op'.tgen = op.tgen
          /\ op'.error = op.error /\ op'.caller = op.caller
      BY <1>0, <2>2, <2>4 DEF Ops
    <3> QED BY <1>0, <2>2, <2>3, <3>1, GoesOnOwned
  <2> QED BY <2>1, <2>3, <2>4
<1>23. CASE ConfirmTarget
  <2>1. PICK e \in ErrorKinds :
           /\ Send(Get(op.target, 0), e)
           /\ \/ op' = Return(op.error)
              \/ op' = Return(Err("Recovery"))
    BY <1>0, <1>23 DEF ConfirmTarget
  <2>2. op.pc = "confirmTarget"
    BY <1>23 DEF ConfirmTarget
  <2>3. /\ GenerationsInv' /\ WireOwned' /\ OthersKept /\ OwnKept
        /\ meddled' = meddled /\ e # "InterruptedAfterMoveRollback"
    BY <1>0, <2>1, <2>2, GetOwned
  <2>4. CASE op' = Return(op.error)
    <3>1. Failure(op.error)
      BY <1>0, <2>2 DEF OpOwned
    <3> QED BY <1>0, <2>2, <2>3, <2>4, <3>1, EndsOwned DEF Failure
  <2>5. CASE op' = Return(Err("Recovery"))
    BY <1>0, <1>m, <2>2, <2>3, <2>5, EndsOwned DEF Failure
  <2> QED BY <2>1, <2>3, <2>4, <2>5
<1> QED
  BY <1>1, <1>2, <1>3, <1>4, <1>5, <1>6, <1>7, <1>8, <1>9, <1>10, <1>11, <1>12,
     <1>13, <1>14, <1>15, <1>16, <1>17, <1>18, <1>19, <1>20, <1>21, <1>22, <1>23
     DEF OpStep, MoveStep, UndoStep, FailureStep

-----------------------------------------------------------------------------
(* No operation, nothing to know. *)
LEMMA IdleOwned == /\ op = Idle => OpOwned
                   /\ op' = Idle => OpOwned'
BY DEF OpOwned, Idle, CopiedPcs, UndoPcs, RestoredPcs, FailurePcs

(* The call of a move has no generation to delete yet, and that of an      *)
(* undo is given one of the run's.                                         *)
LEMMA CallOwned ==
    ASSUME NEW source, NEW target, NEW g
    PROVE  /\ op' = MoveCall(source, target, g) => OpOwned'
           /\ op' = RollbackCall(source, target, g) /\ Mine(g)' => OpOwned'
           /\ op' = CleanupCall(target, g) /\ Mine(g)' => OpOwned'
<1> USE DEF CopiedPcs, UndoPcs, RestoredPcs, FailurePcs
<1>1. ASSUME op' = MoveCall(source, target, g) PROVE OpOwned'
  <2>1. op'.pc \in {"generation", "copy"} /\ (op'.pc = "copy" => op'.sgen # 0)
    BY <1>1 DEF MoveCall, Call
  <2> QED BY <2>1 DEF OpOwned
<1>2. ASSUME op' = RollbackCall(source, target, g), Mine(g)' PROVE OpOwned'
  <2>1. op'.pc = "rbSource" /\ op'.caller = "transaction" /\ op'.tgen = g
    BY <1>2 DEF RollbackCall, Call
  <2> QED BY <1>2, <2>1 DEF OpOwned, Mine
<1>3. ASSUME op' = CleanupCall(target, g), Mine(g)' PROVE OpOwned'
  <2>1. op'.pc = "cleanupState" /\ op'.caller = "cleanup" /\ op'.tgen = g
    BY <1>3 DEF CleanupCall, Call
  <2> QED BY <1>3, <2>1 DEF OpOwned, Mine
<1> QED BY <1>1, <1>2, <1>3

(* An operation that does not move keeps what it knows. *)
LEMMA OpKeptOwned ==
    ASSUME MoveTypeOK, OpOwned, OwnKept, op' = op
    PROVE  OpOwned'
<1>1. CASE op = Idle
  BY <1>1 DEF OpOwned, Idle, CopiedPcs, UndoPcs, RestoredPcs, FailurePcs
<1>2. CASE op \in Ops
  <2>1. \A g \in {op.sgen, op.tgen, op.error.generation} : Mine(g) => Mine(g)'
    BY <1>2 DEF OwnKept, Ops, AppErrors
  <2>2. /\ Mine(op.sgen) => Mine(op.sgen)'
        /\ Mine(op.tgen) => Mine(op.tgen)'
        /\ Mine(op.error.generation) => Mine(op.error.generation)'
    BY <2>1 DEF Mine
  <2>3. CASE op.pc # "done"
    <3>1. op.pc \in CopiedPcs \cup UndoPcs => Mine(op.tgen)'
      BY <2>2 DEF OpOwned
    <3>2. op.pc \in CopiedPcs \cup RestoredPcs => Mine(op.sgen)'
      BY <2>2 DEF OpOwned
    <3> QED BY <2>3, <3>1, <3>2 DEF OpOwned
  <2>4. CASE op.pc = "done"
    BY <2>2, <2>4 DEF OpOwned, CopiedPcs, UndoPcs, RestoredPcs, FailurePcs
  <2> QED BY <2>3, <2>4
<1> QED BY <1>1, <1>2 DEF MoveTypeOK

(* A signal, another writer and the late execution of an abandoned request *)
(* take nothing from the run, and only another writer touches the versions *)
(* of others.                                                              *)
LEMMA DisturbanceOwned ==
    ASSUME MoveTypeOK, OwnedInv, Meddling \/ Land
    PROVE  OwnedInv' /\ OwnKept /\ (meddled' = meddled => OthersKept)
<1>0. /\ ServiceTypeOK /\ GenerationsInv /\ WireOwned /\ OpOwned
      /\ nextGen \in Nat \ {0} /\ others \subseteq Nat /\ meddled \in Nat
      /\ \A name \in Names : objects[name].gen \in Nat
  BY BoundsAssumption DEF MoveTypeOK, ServiceTypeOK, OwnedInv, Versions
<1>1. /\ GenerationsInv' /\ OwnKept /\ op' = op /\ wire' \subseteq wire
      /\ meddled' = meddled => OthersKept
  <2>1. CASE Signal
    BY <1>0, <2>1, QuietOwned DEF Signal
  <2>2. CASE ForeignWrite
    <3>1. GenerationsInv' /\ OwnKept
      BY <1>0, <2>2 DEF ForeignWrite, GenerationsInv, OwnKept, Mine, MoveTypeOK
    <3> QED BY <1>0, <2>2, <3>1 DEF ForeignWrite
  <2>3. CASE ForeignDelete
    <3>1. GenerationsInv' /\ OwnKept
      BY <1>0, <2>3 DEF ForeignDelete, GenerationsInv, OwnKept, Mine, MoveTypeOK, Absent
    <3> QED BY <1>0, <2>3, <3>1 DEF ForeignDelete
  <2>4. CASE Land
    <3>1. PICK request \in wire : Process(request) /\ wire' = wire \ {request}
      BY <2>4 DEF Land
    <3>2. request \in Requests /\ (request.type = "delete" => Mine(request.generation))
      BY <1>0, <3>1 DEF ServiceTypeOK, WireOwned
    <3>3. GenerationsInv' /\ OthersKept /\ OwnKept
      BY <1>0, <3>1, <3>2, ProcessOwned
    <3> QED BY <2>4, <3>1, <3>3 DEF Land
  <2> QED BY <2>1, <2>2, <2>3, <2>4 DEF Meddling
<1>2. WireOwned'
  BY <1>0, <1>1, WireKept
<1>3. OpOwned'
  BY <1>0, <1>1, OpKeptOwned
<1> QED BY <1>1, <1>2, <1>3 DEF OwnedInv

-----------------------------------------------------------------------------
(* Who has called an operation: only object_move::execute runs the steps   *)
(* of a move and confirms its failures, and the rollback of a transaction  *)
(* that succeeds has restored a version of the run under sgen.             *)
CleanupPcs == {"cleanupState", "cleanupDelete", "cleanupConfirm"}

CallerInv ==
    /\ op.pc \in MovePcs \cup FailurePcs => op.caller = "move"
    /\ op.pc \in CleanupPcs => op.caller # "transaction"
    /\ op.pc = "done" /\ op.caller = "transaction" /\ IsOk(op.error) => Mine(op.sgen)

(* The caller does not change under way. *)
LEMMA CallerKept ==
    ASSUME op \in Ops, OpStep
    PROVE  op'.caller = op.caller
<1>1. /\ \A next : Goto(next).caller = op.caller
      /\ \A error : /\ Return(error).caller = op.caller /\ Fail(error).caller = op.caller
                    /\ MoveFailed(error).caller = op.caller
  BY DEF Ops, Goto, Return, Fail, MoveFailed
<1>2. /\ \A error : UndoFailed(error).caller = op.caller
      /\ CleanupDone.caller = op.caller /\ RollbackDone.caller = op.caller
  BY <1>1 DEF UndoFailed, CleanupDone, RollbackDone
<1>3. CASE MoveStep
  BY <1>1, <1>3 DEF MoveStep, ObjectGeneration, CopyPage, CopyObject, ConfirmCopy, DeleteSource,
     SourceState, ConfirmMove, Ops
<1>4. CASE \/ ClearInterruptForRollback \/ UndoSource \/ CleanupState \/ CleanupDelete
           \/ CleanupConfirm
  BY <1>1, <1>2, <1>4 DEF ClearInterruptForRollback, UndoSource, CleanupState, CleanupDelete,
     CleanupConfirm, Ops
<1>5. CASE \/ RbSource \/ RbTarget \/ RbCopyPage \/ RbCopy \/ RbConfirmCopy \/ RbDelete
           \/ RbTargetState \/ RbConfirm
  BY <1>1, <1>2, <1>5 DEF RbSource, RbTarget, RbCopyPage, RbCopy, RbConfirmCopy, RbDelete,
     RbTargetState, RbConfirm, Ops
<1>6. CASE FailureStep
  BY <1>1, <1>6 DEF FailureStep, ConfirmedFailure, ConfirmSource, ConfirmTarget, Ops
<1> QED BY <1>3, <1>4, <1>5, <1>6 DEF OpStep, UndoStep

(* Where an undo that was not called by a move goes: on, or back to the    *)
(* transaction, with an error unless it has run to its end.                *)
LEMMA UndoPath ==
    ASSUME op \in Ops, op.caller # "move", op.pc \in UndoPcs, OpStep
    PROVE  \/ op.pc \in CleanupPcs /\ op'.pc \in CleanupPcs \cup {"done"}
           \/ op.pc \notin CleanupPcs /\ op'.pc \in UndoPcs \ CleanupPcs
           \/ op.pc \notin CleanupPcs /\ op'.pc = "done" /\ ~IsOk(op'.error)
           \/ op.pc = "rbConfirm" /\ op'.pc = "done" /\ op'.sgen = op.sgen
<1>1. /\ \A next : Goto(next).pc = next
      /\ \A error : /\ Return(error).pc = "done" /\ Return(error).error = error
                    /\ Return(error).sgen = op.sgen
                    /\ UndoFailed(error) = Return(error)
      /\ CleanupDone = Return(NoError) /\ RollbackDone = Return(NoError)
  BY DEF Ops, Goto, Return, UndoFailed, CleanupDone, RollbackDone
<1>2. /\ \A e \in ErrorKinds : e # "Ok" =>
            ~IsOk(Err(e)) /\ ~IsOk(MarkStorageReached(Err(e))) /\ ~IsOk(PageError(e))
      /\ ~IsOk(Err("Message")) /\ ~IsOk(Err("Recovery"))
  BY DEF IsOk, Err, MarkStorageReached, PageError
<1>3. ASSUME NEW e \in ErrorKinds, Seen(e) \notin {"present", "missing"} PROVE e # "Ok"
  BY <1>3 DEF Seen
<1> USE DEF CleanupPcs, UndoPcs
<1>4. CASE CleanupState \/ CleanupDelete \/ CleanupConfirm
  BY <1>1, <1>4 DEF CleanupState, CleanupDelete, CleanupConfirm
<1>5. CASE RbSource \/ RbTarget
  BY <1>1, <1>2, <1>3, <1>5 DEF RbSource, RbTarget
<1>6. CASE RbCopyPage \/ RbCopy
  <2>1. PICK e \in ErrorKinds :
           \/ op' = [op EXCEPT !.pages = @ + 1]
           \/ op' = [op EXCEPT !.pc = "rbConfirmCopy", !.sgen = nextGen]
           \/ op' = UndoFailed(PageError(e)) /\ e # "Ok"
    BY <1>6 DEF RbCopyPage, RbCopy
  <2>2. op.pc = "rbCopy"
    BY <1>6 DEF RbCopyPage, RbCopy
  <2>3. CASE op' = UndoFailed(PageError(e)) /\ e # "Ok"
    BY <1>1, <1>2, <2>2, <2>3
  <2>4. CASE \/ op' = [op EXCEPT !.pages = @ + 1]
             \/ op' = [op EXCEPT !.pc = "rbConfirmCopy", !.sgen = nextGen]
    BY <2>2, <2>4 DEF Ops
  <2> QED BY <2>1, <2>3, <2>4
<1>7. CASE RbConfirmCopy \/ RbDelete
  BY <1>1, <1>2, <1>7 DEF RbConfirmCopy, RbDelete
<1>8. CASE RbTargetState
  BY <1>1, <1>2, <1>3, <1>8 DEF RbTargetState, Ops
<1>9. CASE RbConfirm
  BY <1>1, <1>9 DEF RbConfirm
<1>10. ~MoveStep /\ ~FailureStep /\ ~ClearInterruptForRollback /\ ~UndoSource
  BY DEF MoveStep, ObjectGeneration, CopyPage, CopyObject, ConfirmCopy, DeleteSource,
     SourceState, ConfirmMove, FailureStep, ConfirmedFailure, ConfirmSource, ConfirmTarget,
     ClearInterruptForRollback, UndoSource
<1> QED BY <1>4, <1>5, <1>6, <1>7, <1>8, <1>9, <1>10 DEF OpStep, UndoStep

(* The steps of an operation keep CallerInv. *)
LEMMA OpStepCallers ==
    ASSUME MoveTypeOK, OpOwned, CallerInv, OwnKept, OpStep
    PROVE  CallerInv'
<1>0. op \in Ops
  BY OpStepBusy DEF MoveTypeOK, Idle
<1>1. op'.caller = op.caller
  BY <1>0, CallerKept
<1>2. CASE op.caller = "move"
  BY <1>1, <1>2 DEF CallerInv
<1>3. CASE op.caller # "move"
  <2>1. op.pc \in UndoPcs
    <3>1. op.pc \notin MovePcs \cup FailurePcs
      BY <1>3 DEF CallerInv
    <3>2. op.pc # "done"
      BY DEF OpStep, MoveStep, ObjectGeneration, CopyPage, CopyObject, ConfirmCopy,
         DeleteSource, SourceState, ConfirmMove, UndoStep, ClearInterruptForRollback,
         UndoSource, CleanupState, CleanupDelete, CleanupConfirm, RbSource, RbTarget,
         RbCopyPage, RbCopy, RbConfirmCopy, RbDelete, RbTargetState, RbConfirm, FailureStep,
         ConfirmedFailure, ConfirmSource, ConfirmTarget
    <3> QED BY <1>0, <3>1, <3>2 DEF Ops, OpPcs
  <2>2. op.pc = "rbConfirm" => Mine(op.sgen) /\ op.sgen \in Nat
    BY <1>0 DEF OpOwned, RestoredPcs, Ops
  <2>3. op.pc = "rbConfirm" /\ op'.sgen = op.sgen => Mine(op.sgen)'
    BY <2>2 DEF OwnKept, Mine
  <2> QED BY <1>0, <1>1, <1>3, <2>1, <2>3, UndoPath
             DEF CallerInv, CleanupPcs, UndoPcs, MovePcs, FailurePcs
<1> QED BY <1>2, <1>3

(* An operation that does not move keeps its caller. *)
LEMMA CallersKept ==
    ASSUME MoveTypeOK, CallerInv, OwnKept, op' = op
    PROVE  CallerInv'
<1>1. CASE op = Idle
  BY <1>1 DEF CallerInv, Idle, MovePcs, FailurePcs, CleanupPcs
<1>2. CASE op \in Ops
  <2>1. Mine(op.sgen) => Mine(op.sgen)'
    BY <1>2 DEF OwnKept, Ops, Mine
  <2> QED BY <2>1 DEF CallerInv
<1> QED BY <1>1, <1>2 DEF MoveTypeOK

-----------------------------------------------------------------------------
(* What an operation has settled when it returns, as long as every writer  *)
(* honours the lock and no request is executed late.                       *)

(* The operator is told to look, or may be: a refused connection after a   *)
(* successful rewrite counts as "nothing was sent".                        *)
Look(error) == ReportsLeftovers(error) \/ error.kind = "HttpConnect"

(* A move that succeeds has removed its source, and one that fails with a  *)
(* plain error has left nothing under its target; so has an undo that      *)
(* succeeds.                                                               *)
OpSettled ==
    /\ op.pc \in {"generation", "copy"} => ~Present(op.target)
    /\ op.pc = "confirmMove" /\ op.sourceSeen = "missing" => ~Present(op.source)
    /\ op.pc = "rbConfirm" /\ op.targetSeen = "missing" => ~Present(op.target)
    /\ op.pc = "failed" =>
          MayHaveReachedStorage(op.error) \/ Look(op.error) \/ ~Present(op.target)
    /\ op.pc = "done" /\ op.caller = "move" =>
          IF IsOk(op.error) THEN ~Present(op.source)
          ELSE Look(op.error) \/ ~Present(op.target)
    /\ op.pc = "done" /\ op.caller # "move" /\ IsOk(op.error) => ~Present(op.target)

(* The source and the target of an operation do not change under way. *)
LEMMA NamesKept ==
    ASSUME op \in Ops, OpStep
    PROVE  op'.source = op.source /\ op'.target = op.target
<1>1. /\ \A next : Goto(next).source = op.source /\ Goto(next).target = op.target
      /\ \A error : /\ Return(error).source = op.source /\ Fail(error).source = op.source
                    /\ MoveFailed(error).source = op.source
                    /\ Return(error).target = op.target /\ Fail(error).target = op.target
                    /\ MoveFailed(error).target = op.target
  BY DEF Ops, Goto, Return, Fail, MoveFailed
<1>2. /\ \A error : UndoFailed(error).source = op.source /\ UndoFailed(error).target = op.target
      /\ CleanupDone.source = op.source /\ CleanupDone.target = op.target
      /\ RollbackDone.source = op.source /\ RollbackDone.target = op.target
  BY <1>1 DEF UndoFailed, CleanupDone, RollbackDone
<1>3. CASE ObjectGeneration \/ CopyPage \/ CopyObject
  BY <1>1, <1>3 DEF ObjectGeneration, CopyPage, CopyObject, Ops
<1>4. CASE ConfirmCopy \/ DeleteSource \/ SourceState \/ ConfirmMove
  <2>1. CASE ConfirmCopy \/ ConfirmMove
    BY <1>1, <2>1 DEF ConfirmCopy, ConfirmMove
  <2>2. CASE DeleteSource \/ SourceState
    BY <1>1, <2>2 DEF DeleteSource, SourceState, Ops
  <2> QED BY <1>4, <2>1, <2>2
<1>5. CASE ClearInterruptForRollback \/ UndoSource
  BY <1>1, <1>2, <1>5 DEF ClearInterruptForRollback, UndoSource, Ops
<1>6. CASE CleanupState \/ CleanupDelete \/ CleanupConfirm
  BY <1>1, <1>2, <1>6 DEF CleanupState, CleanupDelete, CleanupConfirm
<1>7. CASE RbSource \/ RbTarget \/ RbConfirmCopy \/ RbDelete \/ RbConfirm
  BY <1>1, <1>2, <1>7 DEF RbSource, RbTarget, RbConfirmCopy, RbDelete, RbConfirm
<1>8. CASE RbCopyPage \/ RbCopy \/ RbTargetState
  BY <1>2, <1>8 DEF RbCopyPage, RbCopy, RbTargetState, Ops
<1>9. CASE FailureStep
  BY <1>1, <1>9 DEF FailureStep, ConfirmedFailure, ConfirmSource, ConfirmTarget, Ops
<1> QED BY <1>3, <1>4, <1>5, <1>6, <1>7, <1>8, <1>9 DEF OpStep, MoveStep, UndoStep

(* What one step of an operation does to the bucket: nothing, a copy       *)
(* between its two names, or a delete of one of two copies.                *)
Copies(from, to) ==
    /\ Present(from) /\ ~Present(to)
    /\ objects' = [objects EXCEPT ![to] = [gen |-> nextGen, data |-> objects[from].data]]
Drops(name, kept) ==
    /\ name # kept /\ Present(kept)
    /\ Present(name) => objects[name].data = objects[kept].data
    /\ objects' = [objects EXCEPT ![name] = Absent]

(* Every step of an operation is one of the three. *)
LEMMA OpStepObjects ==
    ASSUME ~LateDelivery, MoveTypeOK, CopyBeforeDelete, OpStep
    PROVE  \/ objects' = objects
           \/ \E one, two \in {op.source, op.target} : Copies(one, two) \/ Drops(one, two)
<1>0. op \in Ops /\ op.source \in Names /\ op.target \in Names
  BY OpStepBusy DEF MoveTypeOK, Idle, Ops
<1>1. CASE \/ ObjectGeneration \/ CopyPage \/ ConfirmCopy \/ SourceState \/ ConfirmMove
           \/ FailureStep
  BY <1>1, GetEffect, PageEffect DEF ObjectGeneration, CopyPage, ConfirmCopy, SourceState,
     ConfirmMove, FailureStep, ConfirmedFailure, ConfirmSource, ConfirmTarget, service
<1>2. CASE \/ ClearInterruptForRollback \/ UndoSource \/ CleanupState \/ CleanupConfirm
           \/ RbSource \/ RbTarget \/ RbCopyPage \/ RbConfirmCopy \/ RbTargetState \/ RbConfirm
  BY <1>2, GetEffect, PageEffect DEF ClearInterruptForRollback, UndoSource, CleanupState,
     CleanupConfirm, RbSource, RbTarget, RbCopyPage, RbConfirmCopy, RbTargetState, RbConfirm,
     service
<1>3. CASE CopyObject \/ RbCopy
  BY <1>0, <1>3, RewriteEffect DEF CopyObject, RbCopy, Copies
<1>4. CASE DeleteSource
  BY <1>0, <1>4, DeleteEffect DEF DeleteSource, Drops, CopyBeforeDelete, CopiedPcs
<1>5. CASE CleanupDelete \/ RbDelete
  BY <1>0, <1>5, DeleteEffect DEF CleanupDelete, RbDelete, Drops, CopyBeforeDelete, KeptPcs
<1> QED BY <1>1, <1>2, <1>3, <1>4, <1>5 DEF OpStep, MoveStep, UndoStep

(* What can become of a request. *)
LEMMA SendOutcomes ==
    ASSUME NEW request, NEW e, Send(request, e)
    PROVE  e \in {"Ok", "NotFound", "PreconditionFailed", "Token", "TokenInterrupted",
                  "Interrupted", "HttpConnect", "Http", "StorageResponse",
                  "InterruptedAfterRequest"}
BY DEF Send, Unsent, Answered, Abandoned, Status

(* A request that fails in a way that is not taken for one that may have   *)
(* reached the service has not left, or was refused.                       *)
LEMMA UnreachedOutcomes ==
    ASSUME NEW request, NEW e, Send(request, e)
    PROVE  /\ \/ MayHaveReachedStorage(Err(e)) \/ Look(Err(e))
              \/ UNCHANGED service
           /\ \/ MayHaveReachedStorage(MarkStorageReached(Err(e)))
              \/ Look(MarkStorageReached(Err(e))) \/ IsInterrupted(MarkStorageReached(Err(e)))
<1>1. CASE e \in {"Token", "TokenInterrupted", "Interrupted"}
  <2>1. UNCHANGED service
    BY <1>1 DEF Send, Unsent, Answered, Abandoned, Status
  <2> QED BY <1>1, <2>1 DEF MayHaveReachedStorage, MarkStorageReached, Err, IsInterrupted
<1>2. CASE e \notin {"Token", "TokenInterrupted", "Interrupted"}
  BY <1>2, SendOutcomes DEF MayHaveReachedStorage, MarkStorageReached, Err, Look
<1> QED BY <1>1, <1>2

(* Every step of an operation settles what it says it has settled. *)
LEMMA OpStepSettled ==
    ASSUME ~LateDelivery, MoveTypeOK, OpOwned, CallerInv, OpSettled, OpStep
    PROVE  OpSettled'
<1>0. /\ op \in Ops /\ op.source \in Names /\ op.target \in Names /\ op.error \in AppErrors
      /\ op'.source = op.source /\ op'.target = op.target /\ op'.caller = op.caller
  BY OpStepBusy, NamesKept, CallerKept DEF MoveTypeOK, Idle, Ops
<1>1. /\ \A next : Goto(next).pc = next
      /\ \A error : /\ Return(error).pc = "done" /\ Return(error).error = error
                    /\ Fail(error).pc = "failed" /\ Fail(error).error = error
                    /\ MoveFailed(error).error = error
                    /\ MoveFailed(error).pc = IF IsInterrupted(error) THEN "interruptedMove"
                                              ELSE "failed"
  BY <1>0 DEF Ops, Goto, Return, Fail, MoveFailed
<1>2. /\ MayHaveReachedStorage(Err("Recovery")) /\ MayHaveReachedStorage(Err("Message"))
      /\ Look(Err("Recovery")) /\ ~IsOk(Err("Recovery")) /\ ~IsOk(Err("Message"))
      /\ MayHaveReachedStorage(Rollback(op.error, TRUE))
  BY <1>0 DEF MayHaveReachedStorage, Err, Look, ReportsLeftovers, IsOk, Rollback, AppErrors
<1>f. ASSUME \E error : op' = UndoFailed(error) /\ ~IsOk(error)
      PROVE  OpSettled'
  <2>1. PICK error : op' = UndoFailed(error) /\ ~IsOk(error)
    BY <1>f
  <2>2. CASE op.caller = "move"
    <3>1. op'.pc = "failed" /\ MayHaveReachedStorage(op'.error)
      BY <1>1, <1>2, <2>1, <2>2 DEF UndoFailed
    <3> QED BY <3>1 DEF OpSettled
  <2>3. CASE op.caller # "move"
    <3>1. op'.pc = "done" /\ ~IsOk(op'.error)
      BY <1>1, <2>1, <2>3 DEF UndoFailed
    <3> QED BY <1>0, <2>3, <3>1 DEF OpSettled
  <2> QED BY <2>2, <2>3
<1>3. ASSUME NEW e \in ErrorKinds, e # "Ok"
      PROVE  ~IsOk(Err(e)) /\ ~IsOk(MarkStorageReached(Err(e))) /\ ~IsOk(PageError(e))
  BY <1>3 DEF IsOk, Err, MarkStorageReached, PageError
<1>q. ASSUME op'.pc \in {"interruptedMove", "undoSource", "confirmCopy", "deleteSource",
                         "sourceState", "cleanupState", "cleanupDelete", "cleanupConfirm",
                         "rbSource", "rbTarget", "rbCopy", "rbConfirmCopy", "rbDelete",
                         "rbTargetState", "confirmSource", "confirmTarget"}
      PROVE  OpSettled'
  BY <1>q DEF OpSettled
<1>4. CASE ObjectGeneration \/ CopyPage
  <2>0. op.pc \in {"generation", "copy"} /\ ~Present(op.target) /\ objects' = objects
    BY <1>4, GetEffect, PageEffect DEF ObjectGeneration, CopyPage, OpSettled
  <2>1. ~Present(op.target)'
    BY <1>0, <2>0 DEF Present
  <2>2. op'.pc \in {"copy", "failed"}
    <3>1. /\ [op EXCEPT !.pages = @ + 1].pc = op.pc
          /\ \A g : [op EXCEPT !.pc = "copy", !.sgen = g].pc = "copy"
      BY <1>0 DEF Ops
    <3>2. CASE ObjectGeneration
      BY <1>1, <3>1, <3>2 DEF ObjectGeneration
    <3>3. CASE CopyPage
      BY <1>1, <3>1, <3>3 DEF CopyPage
    <3> QED BY <1>4, <3>2, <3>3
  <2> QED BY <2>1, <2>2 DEF OpSettled
<1>5. CASE CopyObject
  <2>1. PICK e \in ErrorKinds :
            /\ Send(Rewrite(op.source, op.sgen, op.target), e)
            /\ \/ op' = [op EXCEPT !.pc = "confirmCopy", !.tgen = nextGen]
               \/ op' = Fail(PageError(e))
    BY <1>5 DEF CopyObject
  <2>2. CASE op' = [op EXCEPT !.pc = "confirmCopy", !.tgen = nextGen]
    BY <1>0, <1>q, <2>2 DEF Ops
  <2>3. CASE op' = Fail(PageError(e))
    <3>1. op'.pc = "failed" /\ op'.error \in {Err(e), MarkStorageReached(Err(e))}
      BY <1>1, <2>3 DEF PageError
    <3>2. ~Present(op.target)
      BY <1>5 DEF CopyObject, OpSettled
    <3>3. UNCHANGED service => ~Present(op.target)'
      BY <1>0, <3>2 DEF Present, service
    <3>4. MayHaveReachedStorage(Err(e)) =>
             MayHaveReachedStorage(MarkStorageReached(Err(e)))
      BY DEF MayHaveReachedStorage, MarkStorageReached, Err
    <3>5. Look(Err(e)) => Look(MarkStorageReached(Err(e)))
      BY DEF Look, ReportsLeftovers, MarkStorageReached, Err
    <3> QED BY <2>1, <3>1, <3>3, <3>4, <3>5, UnreachedOutcomes DEF OpSettled
  <2> QED BY <2>1, <2>2, <2>3
<1>6. CASE ConfirmCopy \/ DeleteSource \/ SourceState \/ ConfirmMove
  <2>1. ASSUME NEW request, NEW e \in ErrorKinds, Send(request, e),
               op' = MoveFailed(MarkStorageReached(Err(e)))
        PROVE  OpSettled'
    BY <1>1, <1>q, <2>1, UnreachedOutcomes DEF OpSettled
  <2>2. ASSUME NEW request, NEW e \in ErrorKinds, Send(request, e), NEW found, NEW expected,
               ~IsOk(ConfirmGeneration(e, found, expected)),
               op' = MoveFailed(ConfirmGeneration(e, found, expected))
        PROVE  OpSettled'
    <3>1. CASE ConfirmGeneration(e, found, expected) = MarkStorageReached(Err(e))
      BY <2>1, <2>2, <3>1
    <3>2. CASE ConfirmGeneration(e, found, expected) = Err("Recovery")
      BY <1>1, <1>2, <1>q, <2>2, <3>2 DEF OpSettled
    <3> QED BY <2>2, <3>1, <3>2 DEF ConfirmGeneration, IsOk, NoError, Err
  <2>3. CASE ConfirmCopy
    BY <1>1, <1>q, <2>2, <2>3 DEF ConfirmCopy
  <2>4. CASE DeleteSource
    BY <1>1, <1>q, <2>1, <2>4 DEF DeleteSource
  <2>5. CASE SourceState
    <3>1. PICK e \in ErrorKinds :
              /\ Send(Get(op.source, 0), e)
              /\ \/ op' = MoveFailed(MarkStorageReached(Err(e)))
                 \/ op' = [op EXCEPT !.pc = "confirmMove", !.sourceSeen = Seen(e)]
      BY <2>5 DEF SourceState
    <3>2. CASE op' = [op EXCEPT !.pc = "confirmMove", !.sourceSeen = Seen(e)]
      <4>1. op'.pc = "confirmMove" /\ op'.sourceSeen = Seen(e)
        BY <1>0, <3>2 DEF Ops
      <4>2. Seen(e) = "missing" => ~Present(op.source)'
        BY <1>0, <3>1, GetEffect DEF Present
      <4> QED BY <4>1, <4>2 DEF OpSettled
    <3> QED BY <2>1, <3>1, <3>2
  <2>6. CASE ConfirmMove
    <3>1. PICK e, found, expected :
              /\ e \in ErrorKinds /\ Send(Get(op.target, 0), e) /\ objects' = objects
              /\ \/ /\ ~IsOk(ConfirmGeneration(e, found, expected))
                    /\ op' = MoveFailed(ConfirmGeneration(e, found, expected))
                 \/ op.sourceSeen = "missing" /\ op' = Return(NoError)
                 \/ op' = Fail(Err("Message"))
      BY <2>6, GetEffect DEF ConfirmMove
    <3>2. CASE op.sourceSeen = "missing" /\ op' = Return(NoError)
      <4>1. ~Present(op.source)'
        BY <1>0, <2>6, <3>1, <3>2 DEF ConfirmMove, OpSettled, Present
      <4>2. op'.pc = "done" /\ IsOk(op'.error) /\ op'.caller = "move"
        BY <1>0, <1>1, <2>6, <3>2 DEF IsOk, NoError, Err, CallerInv, ConfirmMove, MovePcs
      <4> QED BY <4>1, <4>2 DEF OpSettled
    <3>3. CASE op' = Fail(Err("Message"))
      BY <1>1, <1>2, <3>3 DEF OpSettled
    <3> QED BY <2>2, <3>1, <3>2, <3>3
  <2> QED BY <1>6, <2>3, <2>4, <2>5, <2>6
<1>7. CASE ClearInterruptForRollback \/ UndoSource
  <2>1. [op EXCEPT !.pc = "rbSource", !.pages = 0].pc = "rbSource"
    BY <1>0 DEF Ops
  <2>2. \/ op' = Goto("undoSource") \/ op' = Goto("cleanupState")
        \/ op' = [op EXCEPT !.pc = "rbSource", !.pages = 0]
        \/ \E e \in ErrorKinds : op' = UndoFailed(Err(e)) /\ e # "Ok"
    BY <1>7 DEF ClearInterruptForRollback, UndoSource, Seen
  <2>3. CASE \E e \in ErrorKinds : op' = UndoFailed(Err(e)) /\ e # "Ok"
    BY <1>3, <1>f, <2>3
  <2>4. CASE op' = [op EXCEPT !.pc = "rbSource", !.pages = 0]
    BY <1>q, <2>1, <2>4
  <2> QED BY <1>1, <1>q, <2>2, <2>3, <2>4
<1>8. CASE CleanupState \/ CleanupDelete
  <2>1. \/ op' = Goto("cleanupDelete") \/ op' = Goto("cleanupConfirm")
        \/ \E e \in ErrorKinds : e # "Ok" /\ op' \in {UndoFailed(Err(e)), UndoFailed(MarkStorageReached(Err(e)))}
    BY <1>8 DEF CleanupState, CleanupDelete, Seen
  <2> QED BY <1>1, <1>3, <1>f, <1>q, <2>1
<1>9. CASE CleanupConfirm
  <2>1. PICK e \in ErrorKinds :
           /\ Send(Get(op.target, 0), e)
           /\ \/ Seen(e) = "missing" /\ op' = CleanupDone
              \/ op' = UndoFailed(Err("Message"))
              \/ e # "Ok" /\ op' = UndoFailed(MarkStorageReached(Err(e)))
    BY <1>9 DEF CleanupConfirm, Seen
  <2>2. CASE Seen(e) = "missing" /\ op' = CleanupDone
    <3>1. ~Present(op.target)'
      BY <1>0, <2>1, <2>2, GetEffect DEF Present
    <3>2. \/ op.caller = "move" /\ op'.pc = "failed"
          \/ op.caller # "move" /\ op'.pc = "done"
      BY <1>1, <2>2 DEF CleanupDone
    <3> QED BY <1>0, <3>1, <3>2 DEF OpSettled
  <2> QED BY <1>2, <1>3, <1>f, <2>1, <2>2
<1>10. CASE RbSource \/ RbTarget
  <2>1. \/ op' = Goto("rbTarget") \/ op' = Goto("rbCopy")
        \/ op' = UndoFailed(Err("Message"))
        \/ \E e \in ErrorKinds : e # "Ok" /\ op' = UndoFailed(Err(e))
    BY <1>10 DEF RbSource, RbTarget, Seen
  <2> QED BY <1>1, <1>2, <1>3, <1>f, <1>q, <2>1
<1>11. CASE RbCopyPage \/ RbCopy
  <2>1. /\ [op EXCEPT !.pages = @ + 1].pc = op.pc
        /\ [op EXCEPT !.pc = "rbConfirmCopy", !.sgen = nextGen].pc = "rbConfirmCopy"
    BY <1>0 DEF Ops
  <2>2. \/ op' = [op EXCEPT !.pages = @ + 1] /\ op.pc = "rbCopy"
        \/ op' = [op EXCEPT !.pc = "rbConfirmCopy", !.sgen = nextGen]
        \/ \E e \in ErrorKinds : e # "Ok" /\ op' = UndoFailed(PageError(e))
    BY <1>11 DEF RbCopyPage, RbCopy
  <2> QED BY <1>3, <1>f, <1>q, <2>1, <2>2
<1>12. CASE RbConfirmCopy \/ RbDelete
  <2>1. \/ op' = Goto("rbDelete") \/ op' = Goto("rbTargetState")
        \/ op' = UndoFailed(Err("Recovery"))
        \/ \E e \in ErrorKinds : e # "Ok" /\ op' = UndoFailed(MarkStorageReached(Err(e)))
    BY <1>12 DEF RbConfirmCopy, RbDelete
  <2> QED BY <1>1, <1>2, <1>3, <1>f, <1>q, <2>1
<1>13. CASE RbTargetState
  <2>1. PICK e \in ErrorKinds :
           /\ Send(Get(op.target, 0), e)
           /\ \/ e # "Ok" /\ op' = UndoFailed(MarkStorageReached(Err(e)))
              \/ op' = [op EXCEPT !.pc = "rbConfirm", !.targetSeen = Seen(e)]
    BY <1>13 DEF RbTargetState, Seen
  <2>2. CASE op' = [op EXCEPT !.pc = "rbConfirm", !.targetSeen = Seen(e)]
    <3>1. op'.pc = "rbConfirm" /\ op'.targetSeen = Seen(e)
      BY <1>0, <2>2 DEF Ops
    <3>2. Seen(e) = "missing" => ~Present(op.target)'
      BY <1>0, <2>1, GetEffect DEF Present
    <3> QED BY <3>1, <3>2 DEF OpSettled
  <2> QED BY <1>3, <1>f, <2>1, <2>2
<1>14. CASE RbConfirm
  <2>1. /\ objects' = objects
        /\ \/ op' = UndoFailed(Err("Recovery")) \/ op' = UndoFailed(Err("Message"))
           \/ op.targetSeen = "missing" /\ op' = RollbackDone
    BY <1>14, GetEffect DEF RbConfirm
  <2>2. CASE op.targetSeen = "missing" /\ op' = RollbackDone
    <3>1. ~Present(op.target)'
      BY <1>0, <1>14, <2>1, <2>2 DEF RbConfirm, OpSettled, Present
    <3>2. op'.pc = "done" /\ (op.caller = "move" => ~IsOk(op'.error))
      BY <1>1, <2>2 DEF RollbackDone, IsOk, InterruptedAfterMoveRollback
    <3> QED BY <1>0, <3>1, <3>2 DEF OpSettled
  <2> QED BY <1>2, <1>f, <2>1, <2>2
<1>15. CASE FailureStep
  <2>0. op.caller = "move" /\ ~IsOk(op.error)
    BY <1>15 DEF FailureStep, ConfirmedFailure, ConfirmSource, ConfirmTarget, CallerInv, OpOwned,
       Failure, FailurePcs
  <2>1. CASE ConfirmedFailure
    <3>1. /\ objects' = objects /\ op.pc = "failed"
          /\ \/ op' = Goto("confirmSource")
             \/ ~MayHaveReachedStorage(op.error) /\ op' = Return(op.error)
      BY <2>1 DEF ConfirmedFailure, service
    <3>2. CASE ~MayHaveReachedStorage(op.error) /\ op' = Return(op.error)
      <4>1. Look(op.error) \/ ~Present(op.target)'
        BY <1>0, <3>1, <3>2 DEF OpSettled, Present
      <4>2. op'.pc = "done" /\ op'.error = op.error
        BY <1>1, <3>2
      <4> QED BY <1>0, <2>0, <4>1, <4>2 DEF OpSettled
    <3> QED BY <1>1, <1>q, <3>1, <3>2
  <2>2. CASE ConfirmSource
    <3>1. op'.pc = "confirmTarget"
      BY <1>0, <2>2 DEF ConfirmSource, Ops
    <3> QED BY <1>q, <3>1
  <2>3. CASE ConfirmTarget
    <3>1. PICK e \in ErrorKinds :
             /\ Send(Get(op.target, 0), e)
             /\ \/ Seen(e) = "missing" /\ op' = Return(op.error)
                \/ op' = Return(Err("Recovery"))
      BY <2>3 DEF ConfirmTarget
    <3>2. CASE Seen(e) = "missing" /\ op' = Return(op.error)
      <4>1. ~Present(op.target)'
        BY <1>0, <3>1, <3>2, GetEffect DEF Present
      <4> QED BY <1>0, <1>1, <2>0, <3>2, <4>1 DEF OpSettled
    <3>3. CASE op' = Return(Err("Recovery"))
      BY <1>0, <1>1, <1>2, <2>0, <3>3 DEF OpSettled
    <3> QED BY <3>1, <3>2, <3>3
  <2> QED BY <1>15, <2>1, <2>2, <2>3 DEF FailureStep
<1> QED BY <1>4, <1>5, <1>6, <1>7, <1>8, <1>9, <1>10, <1>11, <1>12, <1>13, <1>14, <1>15
       DEF OpStep, MoveStep, UndoStep

(* New calls have a caller that may make them. *)
LEMMA NewCallers ==
    /\ op' = Idle \/ op'.caller = "move" => CallerInv'
    /\ \A target, g : op' = CleanupCall(target, g) => CallerInv'
    /\ \A source, target, g : op' = RollbackCall(source, target, g) => CallerInv'
<1> USE DEF CleanupPcs, MovePcs, FailurePcs
<1>1. op' = Idle => CallerInv'
  BY DEF CallerInv, Idle
<1>2. op'.caller = "move" => CallerInv'
  BY DEF CallerInv
<1>3. \A target, g : op' = CleanupCall(target, g) => CallerInv'
  BY DEF CallerInv, CleanupCall, Call
<1>4. \A source, target, g : op' = RollbackCall(source, target, g) => CallerInv'
  BY DEF CallerInv, RollbackCall, Call
<1> QED BY <1>1, <1>2, <1>3, <1>4

(* A call has nothing to show for yet, and a move is called when its       *)
(* target is free.                                                         *)
LEMMA NewSettled ==
    ASSUME NEW source, NEW target, NEW g
    PROVE  /\ op' = Idle => OpSettled'
           /\ op' = MoveCall(source, target, g) /\ ~Present(target)' => OpSettled'
           /\ op' = RollbackCall(source, target, g) => OpSettled'
           /\ op' = CleanupCall(target, g) => OpSettled'
<1>1. op' = Idle => OpSettled'
  BY DEF OpSettled, Idle
<1>2. op' = MoveCall(source, target, g) /\ ~Present(target)' => OpSettled'
  BY DEF OpSettled, MoveCall, Call
<1>3. /\ op' = RollbackCall(source, target, g) => OpSettled'
      /\ op' = CleanupCall(target, g) => OpSettled'
  BY DEF OpSettled, RollbackCall, CleanupCall, Call
<1> QED BY <1>1, <1>2, <1>3

(* What an operation has settled stays settled while the bucket does. *)
LEMMA SettledKept ==
    ASSUME OpSettled, objects' = objects, op' = op
    PROVE  OpSettled'
BY DEF OpSettled, Present

-----------------------------------------------------------------------------
(* What is known of an operation when the environment has acted at most    *)
(* once, by one failed request or by one signal, every writer honours the  *)
(* lock and no request is executed late.  Before the disturbance every     *)
(* request is answered as the program expects, and so is every request     *)
(* after it: an undo cannot fail any more.                                 *)

(* The version of a name is the one with this generation. *)
Stands(name, generation) == objects[name].gen = generation /\ generation # 0

SourceStandsPcs == {"copy", "confirmCopy", "deleteSource"} \cup CleanupPcs \cup RestoredPcs
SourceGonePcs == {"sourceState", "confirmMove", "rbSource", "rbTarget", "rbCopy"}
TargetStandsPcs == CopiedPcs \cup {"cleanupState", "cleanupDelete", "rbSource", "rbTarget",
                                   "rbCopy", "rbConfirmCopy", "rbDelete"}
TargetGonePcs == {"generation", "copy", "cleanupConfirm", "rbTargetState", "rbConfirm"}

(* Where the two versions of the operation are.  A move that has failed on *)
(* account of a signal still has its source, or has got it back under a    *)
(* new generation that it returns; an undo runs to its end.                *)
OpCourse ==
    /\ op.pc = "generation" => Present(op.source) /\ op.sgen = 0
    /\ op.pc \in SourceStandsPcs => Stands(op.source, op.sgen)
    /\ op.pc \in SourceGonePcs => ~Present(op.source)
    /\ op.pc \in TargetStandsPcs => Stands(op.target, op.tgen)
    /\ op.pc \in TargetGonePcs => ~Present(op.target)
    /\ op.pc \in {"interruptedMove", "undoSource"} =>
          ~Present(op.source) \/ Stands(op.source, op.sgen)
    /\ op.pc = "confirmMove" => op.sourceSeen = "missing"
    /\ op.pc = "rbConfirm" => op.targetSeen = "missing"
    /\ op.pc \in FailurePcs \cup {"interruptedMove"} => faults + signals # 0
    /\ op.pc \in UndoPcs \cup {"undoSource"} => ~interrupted /\ faults + signals # 0
    /\ op.pc \in FailurePcs /\ faults = 0 /\ op.sgen # 0 => Stands(op.source, op.sgen)
    /\ op.pc = "done" /\ op.caller = "transaction" =>
          IsOk(op.error) /\ Present(op.source) /\ ~Present(op.target)
    /\ op.pc = "done" /\ op.caller = "move" =>
          /\ IF IsOk(op.error) THEN ~Present(op.source) /\ Stands(op.target, op.tgen)
             ELSE faults + signals # 0
          /\ HasRestoredGeneration(op.error) => Stands(op.source, op.error.generation)
          /\ Failure(op.error) /\ faults = 0 /\ op.sgen # 0 => Stands(op.source, op.sgen)

(* The source has not been restored under a new generation. *)
Original == op.pc \notin RestoredPcs /\ ~(op.pc = "done" /\ HasRestoredGeneration(op.error))

(* A signal is on record when the flag is set. *)
Signalled == interrupted => signals # 0

(* The three things that can happen to a request while the environment     *)
(* acts at most once: it is answered, it fails, or a signal gets it.       *)
Undisturbed == UNCHANGED <<faults, signals, interrupted>>
Breaks(e) == faults' # 0 /\ faults + signals = 0 /\ e \in Faults
Interrupts(e) ==
    /\ faults' = 0 /\ faults' + signals' # 0 /\ (interrupted \/ faults + signals = 0)
    /\ e \in {"TokenInterrupted", "Interrupted", "InterruptedAfterRequest"}

(* Every request of a calm run comes to one of the three. *)
LEMMA CalmSend ==
    ASSUME ~LateDelivery, MoveTypeOK, Signalled, NEW request, NEW e, Send(request, e),
           faults' + signals' <= 1
    PROVE  /\ \/ Undisturbed /\ e = Status(request) /\ Process(request)
              \/ Breaks(e)
              \/ Interrupts(e) /\ (Process(request) \/ objects' = objects)
           /\ Signalled'
<1>0. /\ faults \in Nat /\ signals \in Nat /\ interrupted \in BOOLEAN
  BY BoundsAssumption DEF MoveTypeOK
<1>1. CASE Unsent(e)
  BY <1>0, <1>1, BoundsAssumption DEF Unsent, Signalled, Breaks, Interrupts, Faults, service
<1>2. CASE Answered(request, e)
  BY <1>0, <1>2 DEF Answered, environment, Signalled, Undisturbed
<1>3. CASE Abandoned(request, e)
  BY <1>0, <1>3 DEF Abandoned, Outcome, Signalled, Breaks, Interrupts, Faults, service
<1> QED BY <1>1, <1>2, <1>3 DEF Send

(* How the service answers when the versions are where they are expected. *)
LEMMA ExpectedStatus ==
    ASSUME NEW name, NEW g, NEW to
    PROVE  /\ Present(name) => Status(Get(name, 0)) = "Ok"
           /\ ~Present(name) => Status(Get(name, g)) = "NotFound"
           /\ Stands(name, g) =>
                 /\ Status(Get(name, g)) = "Ok" /\ Status(Get(name, 0)) = "Ok"
                 /\ Status(Delete(name, g)) = "Ok"
                 /\ ~Present(to) => /\ Status(Rewrite(name, g, to)) = "Ok"
                                    /\ Status(RewritePage(name, g, to)) = "Ok"
BY DEF Status, Present, Stands, Get, Delete, Rewrite, RewritePage

(* What the errors of a disturbance are taken for. *)
LEMMA DisturbedErrors ==
    ASSUME NEW e
    PROVE  /\ Breaks(e) =>
                 /\ e # "Ok" /\ Seen(e) = "failed"
                 /\ ~IsInterrupted(MarkStorageReached(Err(e)))
                 /\ \A found, expected :
                       ConfirmGeneration(e, found, expected) = Err("Recovery")
           /\ Interrupts(e) =>
                 /\ e # "Ok" /\ Seen(e) = "failed"
                 /\ IsInterrupted(MarkStorageReached(Err(e)))
                 /\ \A found, expected :
                       ConfirmGeneration(e, found, expected) = MarkStorageReached(Err(e))
           /\ ~IsOk(Err("Recovery")) /\ ~IsInterrupted(Err("Recovery"))
           /\ IsInterrupted(MarkStorageReached(Err(e))) => ~IsOk(MarkStorageReached(Err(e)))
           /\ \A found : ConfirmGeneration("Ok", found, found) = NoError
           /\ IsOk(NoError)
<1> USE DEF IsInterrupted, MarkStorageReached, Err, IsOk, NoError
<1>1. Breaks(e) => /\ e # "Ok" /\ Seen(e) = "failed"
                   /\ ~IsInterrupted(MarkStorageReached(Err(e))) /\ ~IsInterrupted(Err(e))
  BY DEF Breaks, Faults, Seen
<1>2. Interrupts(e) => /\ e # "Ok" /\ Seen(e) = "failed"
                       /\ IsInterrupted(MarkStorageReached(Err(e))) /\ IsInterrupted(Err(e))
  BY DEF Interrupts, Seen
<1>3. \A found, expected : /\ Breaks(e) => ConfirmGeneration(e, found, expected) = Err("Recovery")
                           /\ Interrupts(e) => ConfirmGeneration(e, found, expected)
                                                  = MarkStorageReached(Err(e))
  BY <1>1, <1>2 DEF ConfirmGeneration
<1> QED BY <1>1, <1>2, <1>3 DEF ConfirmGeneration

(* The effect of a rewrite and of a delete that are answered with success. *)
LEMMA AnsweredEffect ==
    ASSUME MoveTypeOK, NEW name \in Names, NEW to \in Names, NEW g
    PROVE  /\ Process(Rewrite(name, g, to)) /\ Status(Rewrite(name, g, to)) = "Ok" =>
                 /\ objects'[to].gen = nextGen /\ nextGen # 0
                 /\ \A other \in Names : other # to => objects'[other] = objects[other]
           /\ Process(Delete(name, g)) /\ Status(Delete(name, g)) = "Ok" =>
                 /\ objects'[name].gen = 0
                 /\ \A other \in Names : other # name => objects'[other] = objects[other]
<1>1. Rewrite(name, g, to).type = "rewrite" /\ Rewrite(name, g, to).to = to
  BY DEF Rewrite
<1>2. Delete(name, g).type = "delete" /\ Delete(name, g).name = name
  BY DEF Delete
<1> QED BY <1>1, <1>2 DEF Process, MoveTypeOK, Absent

(* A step that leaves the objects alone and goes on with the operation. *)
LEMMA SameObjects ==
    ASSUME objects' = objects, op'.source = op.source, op'.target = op.target
    PROVE  /\ Present(op.source)' <=> Present(op.source)
           /\ Present(op.target)' <=> Present(op.target)
           /\ op'.sgen = op.sgen => (Stands(op.source, op.sgen)' <=> Stands(op.source, op.sgen))
           /\ op'.tgen = op.tgen => (Stands(op.target, op.tgen)' <=> Stands(op.target, op.tgen))
BY DEF Present, Stands

(* Where the steps of an operation lead. *)
LEMMA CourseFields ==
    ASSUME op \in Ops
    PROVE  /\ \A next : /\ Goto(next).pc = next /\ Goto(next).sgen = op.sgen
                        /\ Goto(next).tgen = op.tgen
           /\ \A error : /\ Fail(error).pc = "failed" /\ Fail(error).sgen = op.sgen
                         /\ Return(error).pc = "done" /\ Return(error).sgen = op.sgen
                         /\ Return(error).tgen = op.tgen /\ Return(error).error = error
                         /\ IsInterrupted(error) => MoveFailed(error) = [Goto("interruptedMove") EXCEPT !.error = error]
                         /\ ~IsInterrupted(error) => MoveFailed(error) = Fail(error)
                         /\ MoveFailed(error).sgen = op.sgen /\ MoveFailed(error).tgen = op.tgen
                         /\ MoveFailed(error).pc = IF IsInterrupted(error) THEN "interruptedMove"
                                                   ELSE "failed"
BY DEF Ops, Goto, Fail, Return, MoveFailed

(* A move that fails is on course: only a signal is held against it. *)
LEMMA FailedCourse ==
    ASSUME op'.pc \in FailurePcs, faults' + signals' # 0,
           faults' = 0 /\ op'.sgen # 0 => Stands(op.source, op.sgen)'
    PROVE  OpCourse' /\ Original'
BY DEF OpCourse, FailurePcs, SourceStandsPcs, SourceGonePcs, TargetStandsPcs, TargetGonePcs,
       CleanupPcs, RestoredPcs, CopiedPcs, UndoPcs, Original

(* How an operation goes on: it never asks for the generation again, and   *)
(* the generation of its source is replaced only by a restored one.        *)
GoesOn ==
    /\ op'.pc # "generation"
    /\ op.caller = "move" /\ Original' => Original /\ (op.pc = "generation" \/ op'.sgen = op.sgen)

(* The steps of a move keep it on course. *)
LEMMA MoveStepCourse ==
    ASSUME ~LateDelivery, MoveTypeOK, CopyBeforeDelete, CallerInv, Signalled, OpCourse, MoveStep,
           faults' + signals' <= 1
    PROVE  OpCourse' /\ Signalled' /\ GoesOn
<1>0. /\ op \in Ops /\ op.source \in Names /\ op.target \in Names /\ op.pc \in MovePcs
      /\ op'.source = op.source /\ op'.target = op.target /\ op'.caller = op.caller
      /\ op.caller = "move" /\ Original /\ faults' \in Nat /\ signals' \in Nat
  <2>1. OpStep /\ op \in Ops /\ op.pc \in MovePcs /\ Original
    <3>1. OpStep /\ op \in Ops
      BY OpStepBusy DEF OpStep, MoveTypeOK, Idle
    <3>2. op.pc \in MovePcs
      BY DEF MoveStep, ObjectGeneration, CopyPage, CopyObject, ConfirmCopy, DeleteSource,
         SourceState, ConfirmMove, MovePcs
    <3> QED BY <3>1, <3>2 DEF MovePcs, Original, RestoredPcs
  <2>2. MoveTypeOK'
    BY <2>1, OpStepType
  <2> QED BY <2>1, <2>2, NamesKept, CallerKept, BoundsAssumption DEF Ops, CallerInv, MoveTypeOK
<1> USE DEF SourceStandsPcs, SourceGonePcs, TargetStandsPcs, TargetGonePcs, CleanupPcs,
            RestoredPcs, CopiedPcs, UndoPcs, FailurePcs
<1>f. ASSUME op'.pc = "failed", op'.sgen = op.sgen, faults' + signals' # 0,
             faults' = 0 /\ op'.sgen # 0 => Stands(op.source, op.sgen)'
      PROVE  OpCourse' /\ GoesOn
  BY <1>0, <1>f, FailedCourse DEF GoesOn
<1>b. ASSUME NEW e, Breaks(e) \/ Interrupts(e)
      PROVE  faults' + signals' # 0
  <2>1. faults' # 0 \/ faults' + signals' # 0
    BY <1>b DEF Breaks, Interrupts
  <2>2. faults' \in Nat /\ signals' \in Nat
    BY <1>0
  <2>3. \A m, n \in Nat : m # 0 => m + n # 0
    OBVIOUS
  <2> QED BY <2>1, <2>2, <2>3
<1>i. ASSUME op'.pc = "interruptedMove", op'.sgen = op.sgen, faults' + signals' # 0,
             ~Present(op.source)' \/ Stands(op.source, op.sgen)', Stands(op.target, op.tgen)'
      PROVE  OpCourse' /\ GoesOn
  BY <1>0, <1>i DEF OpCourse, GoesOn
<1>1. CASE ObjectGeneration
  <2>1. PICK e \in ErrorKinds :
           /\ Send(Get(op.source, 0), e)
           /\ op' = IF e = "Ok" THEN [op EXCEPT !.pc = "copy", !.sgen = objects[op.source].gen]
                    ELSE Fail(Err(e))
    BY <1>1 DEF ObjectGeneration, Generation, Get
  <2>2. /\ op.pc = "generation" /\ Present(op.source) /\ ~Present(op.target) /\ op.sgen = 0
        /\ objects' = objects /\ Status(Get(op.source, 0)) = "Ok"
    BY <1>1, <2>1, GetEffect, ExpectedStatus DEF ObjectGeneration, OpCourse
  <2>3. CASE e = "Ok"
    <3>1. op'.pc = "copy" /\ op'.sgen = objects[op.source].gen
      BY <1>0, <2>1, <2>3 DEF Ops
    <3>2. Stands(op.source, op.sgen)' /\ ~Present(op.target)'
      BY <1>0, <2>2, <3>1 DEF Stands, Present
    <3>3. OpCourse' /\ GoesOn
      BY <1>0, <2>2, <3>1, <3>2 DEF OpCourse, GoesOn
    <3> QED BY <2>1, <3>3, CalmSend
  <2>4. CASE e # "Ok"
    <3>1. op'.pc = "failed" /\ op'.sgen = op.sgen
      BY <1>0, <2>1, <2>4, CourseFields
    <3>2. Signalled' /\ faults' + signals' # 0
      BY <1>b, <2>1, <2>2, <2>4, CalmSend
    <3> QED BY <1>f, <2>2, <3>1, <3>2
  <2> QED BY <2>3, <2>4
<1>2. CASE CopyPage
  <2>1. PICK e \in ErrorKinds :
           /\ Send(RewritePage(op.source, op.sgen, op.target), e)
           /\ op' = IF e = "Ok" THEN [op EXCEPT !.pages = @ + 1] ELSE Fail(PageError(e))
    BY <1>2 DEF CopyPage
  <2>2. /\ op.pc = "copy" /\ Stands(op.source, op.sgen) /\ ~Present(op.target)
        /\ objects' = objects
    BY <1>2, <2>1, PageEffect DEF CopyPage, OpCourse
  <2>3. Signalled'
    BY <2>1, CalmSend
  <2>4. CASE e = "Ok"
    <3>1. op'.pc = "copy" /\ op'.sgen = op.sgen
      BY <1>0, <2>1, <2>2, <2>4 DEF Ops
    <3>2. Stands(op.source, op.sgen)' /\ ~Present(op.target)'
      BY <1>0, <2>2, <3>1, SameObjects
    <3> QED BY <1>0, <2>2, <2>3, <3>1, <3>2 DEF OpCourse, GoesOn
  <2>5. CASE e # "Ok"
    <3>1. op'.pc = "failed" /\ op'.sgen = op.sgen
      BY <1>0, <2>1, <2>5, CourseFields
    <3>2. faults' + signals' # 0
      BY <1>b, <2>1, <2>2, <2>5, CalmSend, ExpectedStatus
    <3> QED BY <1>0, <1>f, <2>2, <2>3, <3>1, <3>2, SameObjects
  <2> QED BY <2>4, <2>5
<1>3. CASE CopyObject
  <2> DEFINE request == Rewrite(op.source, op.sgen, op.target)
  <2>1. PICK e \in ErrorKinds :
           /\ Send(request, e)
           /\ op' = IF e = "Ok" THEN [op EXCEPT !.pc = "confirmCopy", !.tgen = nextGen]
                    ELSE Fail(PageError(e))
    BY <1>3 DEF CopyObject
  <2>2. /\ op.pc = "copy" /\ Stands(op.source, op.sgen) /\ ~Present(op.target)
        /\ op.source # op.target
    BY <1>3 DEF CopyObject, OpCourse, Stands, Present
  <2>3. Status(request) = "Ok"
    BY <2>2, ExpectedStatus
  <2>4. Process(request) => /\ objects'[op.target].gen = nextGen /\ nextGen # 0
                            /\ objects'[op.source] = objects[op.source]
    BY <1>0, <2>2, <2>3, AnsweredEffect
  <2>5. /\ Signalled'
        /\ \/ Undisturbed /\ e = "Ok" /\ Process(request)
           \/ Breaks(e)
           \/ Interrupts(e) /\ (Process(request) \/ objects' = objects)
    <3> HIDE DEF request
    <3> QED BY <2>1, <2>3, CalmSend
  <2>6. CASE Undisturbed /\ e = "Ok" /\ Process(request)
    <3>1. op'.pc = "confirmCopy" /\ op'.sgen = op.sgen /\ op'.tgen = nextGen
      BY <1>0, <2>1, <2>6 DEF Ops
    <3>2. Stands(op.source, op.sgen)' /\ Stands(op.target, op.tgen)'
      BY <1>0, <2>2, <2>4, <2>6, <3>1 DEF Stands
    <3> QED BY <1>0, <2>5, <3>1, <3>2 DEF OpCourse, GoesOn
  <2>7. CASE Breaks(e) \/ Interrupts(e)
    <3>1. op'.pc = "failed" /\ op'.sgen = op.sgen
      BY <1>0, <2>1, <2>7, CourseFields, DisturbedErrors
    <3>2. faults' = 0 => Stands(op.source, op.sgen)'
      <4>1. faults' = 0 => objects'[op.source] = objects[op.source]
        BY <1>0, <2>4, <2>5, <2>7, DisturbedErrors DEF Breaks, Interrupts
      <4> QED BY <1>0, <2>2, <3>1, <4>1 DEF Stands
    <3> QED BY <1>b, <1>f, <2>5, <2>7, <3>1, <3>2
  <2> QED BY <2>5, <2>6, <2>7
<1>4. CASE ConfirmCopy
  <2>1. PICK e \in ErrorKinds :
           /\ Send(Get(op.target, 0), e)
           /\ LET confirmed == ConfirmGeneration(e, objects[op.target].gen, op.tgen)
              IN  op' = IF IsOk(confirmed) THEN Goto("deleteSource") ELSE MoveFailed(confirmed)
    BY <1>4 DEF ConfirmCopy
  <2>2. /\ op.pc = "confirmCopy" /\ Stands(op.source, op.sgen) /\ Stands(op.target, op.tgen)
        /\ objects' = objects
    BY <1>4, <2>1, GetEffect DEF ConfirmCopy, OpCourse
  <2>3. Signalled' /\ (e = "Ok" \/ Breaks(e) \/ Interrupts(e))
    BY <2>1, <2>2, CalmSend, ExpectedStatus
  <2>4. CASE e = "Ok"
    <3>1. op'.pc = "deleteSource" /\ op'.sgen = op.sgen /\ op'.tgen = op.tgen
      BY <1>0, <2>1, <2>2, <2>4, CourseFields, DisturbedErrors DEF Stands
    <3>2. Stands(op.source, op.sgen)' /\ Stands(op.target, op.tgen)'
      BY <1>0, <2>2, <3>1, SameObjects
    <3> QED BY <1>0, <2>3, <3>1, <3>2 DEF OpCourse, GoesOn
  <2>5. CASE Breaks(e)
    <3>1. op' = MoveFailed(Err("Recovery"))
      BY <2>1, <2>5, DisturbedErrors
    <3>2. op'.pc = "failed" /\ op'.sgen = op.sgen
      BY <1>0, <3>1, CourseFields, DisturbedErrors
    <3> QED BY <1>b, <1>f, <2>3, <2>5, <3>2 DEF Breaks
  <2>6. CASE Interrupts(e)
    <3>1. op' = MoveFailed(MarkStorageReached(Err(e))) /\ IsInterrupted(MarkStorageReached(Err(e)))
      BY <2>1, <2>6, DisturbedErrors
    <3>2. op'.pc = "interruptedMove" /\ op'.sgen = op.sgen /\ op'.tgen = op.tgen
      BY <1>0, <3>1, CourseFields
    <3> QED BY <1>0, <1>i, <2>2, <2>3, <2>6, <3>2, SameObjects DEF Interrupts
  <2> QED BY <2>3, <2>4, <2>5, <2>6
<1>5. CASE DeleteSource
  <2> DEFINE request == Delete(op.source, op.sgen)
  <2>1. PICK e \in ErrorKinds :
           /\ Send(request, e)
           /\ op' = IF e = "Ok" THEN Goto("sourceState")
                    ELSE MoveFailed(MarkStorageReached(Err(e)))
    BY <1>5 DEF DeleteSource
  <2>2. /\ op.pc = "deleteSource" /\ Stands(op.source, op.sgen) /\ Stands(op.target, op.tgen)
        /\ op.source # op.target
    BY <1>5 DEF DeleteSource, OpCourse, CopyBeforeDelete
  <2>3. Status(request) = "Ok"
    BY <2>2, ExpectedStatus
  <2>4. Process(request) => objects'[op.source].gen = 0 /\ objects'[op.target] = objects[op.target]
    BY <1>0, <2>2, <2>3, AnsweredEffect
  <2>5. /\ Signalled'
        /\ \/ Undisturbed /\ e = "Ok" /\ Process(request)
           \/ Breaks(e)
           \/ Interrupts(e) /\ (Process(request) \/ objects' = objects)
    <3> HIDE DEF request
    <3> QED BY <2>1, <2>3, CalmSend
  <2>6. CASE e = "Ok" /\ Process(request)
    <3>1. op'.pc = "sourceState" /\ op'.sgen = op.sgen /\ op'.tgen = op.tgen
      BY <1>0, <2>1, <2>6, CourseFields
    <3>2. ~Present(op.source)' /\ Stands(op.target, op.tgen)'
      BY <1>0, <2>2, <2>4, <2>6, <3>1 DEF Present, Stands
    <3> QED BY <1>0, <2>5, <3>1, <3>2 DEF OpCourse, GoesOn
  <2>7. CASE Breaks(e)
    <3>1. op'.pc = "failed" /\ op'.sgen = op.sgen
      BY <1>0, <2>1, <2>7, CourseFields, DisturbedErrors
    <3> QED BY <1>b, <1>f, <2>5, <2>7, <3>1 DEF Breaks
  <2>8. CASE Interrupts(e) /\ (Process(request) \/ objects' = objects)
    <3>1. op'.pc = "interruptedMove" /\ op'.sgen = op.sgen /\ op'.tgen = op.tgen
      BY <1>0, <2>1, <2>8, CourseFields, DisturbedErrors
    <3>2. (~Present(op.source)' \/ Stands(op.source, op.sgen)') /\ Stands(op.target, op.tgen)'
      BY <1>0, <2>2, <2>4, <2>8, <3>1 DEF Present, Stands
    <3> QED BY <1>i, <2>5, <2>8, <3>1, <3>2 DEF Interrupts
  <2> QED BY <2>5, <2>6, <2>7, <2>8
<1>6. CASE SourceState
  <2>1. PICK e \in ErrorKinds :
           /\ Send(Get(op.source, 0), e)
           /\ op' = IF Seen(e) = "failed" THEN MoveFailed(MarkStorageReached(Err(e)))
                    ELSE [op EXCEPT !.pc = "confirmMove", !.sourceSeen = Seen(e)]
    BY <1>6 DEF SourceState
  <2>2. /\ op.pc = "sourceState" /\ ~Present(op.source) /\ Stands(op.target, op.tgen)
        /\ objects' = objects
    BY <1>6, <2>1, GetEffect DEF SourceState, OpCourse
  <2>3. Signalled' /\ (e = "NotFound" \/ Breaks(e) \/ Interrupts(e))
    BY <2>1, <2>2, CalmSend, ExpectedStatus
  <2>4. CASE e = "NotFound"
    <3>1. /\ op'.pc = "confirmMove" /\ op'.sgen = op.sgen /\ op'.tgen = op.tgen
          /\ op'.sourceSeen = "missing"
      BY <1>0, <2>1, <2>4 DEF Seen, Ops
    <3>2. ~Present(op.source)' /\ Stands(op.target, op.tgen)'
      BY <1>0, <2>2, <3>1, SameObjects
    <3> QED BY <1>0, <2>3, <3>1, <3>2 DEF OpCourse, GoesOn
  <2>5. CASE Breaks(e)
    <3>1. op'.pc = "failed" /\ op'.sgen = op.sgen
      BY <1>0, <2>1, <2>5, CourseFields, DisturbedErrors
    <3> QED BY <1>b, <1>f, <2>3, <2>5, <3>1 DEF Breaks
  <2>6. CASE Interrupts(e)
    <3>1. op'.pc = "interruptedMove" /\ op'.sgen = op.sgen /\ op'.tgen = op.tgen
      BY <1>0, <2>1, <2>6, CourseFields, DisturbedErrors
    <3> QED BY <1>0, <1>i, <2>2, <2>3, <2>6, <3>1, SameObjects DEF Interrupts
  <2> QED BY <2>3, <2>4, <2>5, <2>6
<1>7. CASE ConfirmMove
  <2>1. PICK e \in ErrorKinds :
           /\ Send(Get(op.target, 0), e)
           /\ LET confirmed == ConfirmGeneration(e, objects[op.target].gen, op.tgen)
              IN  op' = IF ~IsOk(confirmed) THEN MoveFailed(confirmed)
                        ELSE IF op.sourceSeen = "missing" THEN Return(NoError)
                        ELSE Fail(Err("Message"))
    BY <1>7 DEF ConfirmMove
  <2>2. /\ op.pc = "confirmMove" /\ ~Present(op.source) /\ Stands(op.target, op.tgen)
        /\ objects' = objects /\ op.sourceSeen = "missing"
    BY <1>7, <2>1, GetEffect DEF ConfirmMove, OpCourse
  <2>3. Signalled' /\ (e = "Ok" \/ Breaks(e) \/ Interrupts(e))
    BY <2>1, <2>2, CalmSend, ExpectedStatus
  <2>4. CASE e = "Ok"
    <3>1. op' = Return(NoError)
      BY <2>1, <2>2, <2>4, DisturbedErrors DEF Stands
    <3>2. /\ op'.pc = "done" /\ op'.sgen = op.sgen /\ op'.tgen = op.tgen
          /\ IsOk(op'.error) /\ ~HasRestoredGeneration(op'.error) /\ ~Failure(op'.error)
      BY <1>0, <3>1, CourseFields DEF IsOk, NoError, Err, HasRestoredGeneration, Failure
    <3>3. ~Present(op.source)' /\ Stands(op.target, op.tgen)'
      BY <1>0, <2>2, <3>2, SameObjects
    <3> QED BY <1>0, <2>3, <3>2, <3>3 DEF OpCourse, GoesOn
  <2>5. CASE Breaks(e)
    <3>1. op' = MoveFailed(Err("Recovery"))
      BY <2>1, <2>5, DisturbedErrors
    <3>2. op'.pc = "failed" /\ op'.sgen = op.sgen
      BY <1>0, <3>1, CourseFields, DisturbedErrors
    <3> QED BY <1>b, <1>f, <2>3, <2>5, <3>2 DEF Breaks
  <2>6. CASE Interrupts(e)
    <3>1. op' = MoveFailed(MarkStorageReached(Err(e))) /\ IsInterrupted(MarkStorageReached(Err(e)))
      BY <2>1, <2>6, DisturbedErrors
    <3>2. op'.pc = "interruptedMove" /\ op'.sgen = op.sgen /\ op'.tgen = op.tgen
      BY <1>0, <3>1, CourseFields
    <3> QED BY <1>0, <1>i, <2>2, <2>3, <2>6, <3>2, SameObjects DEF Interrupts
  <2> QED BY <2>3, <2>4, <2>5, <2>6
<1> QED BY <1>1, <1>2, <1>3, <1>4, <1>5, <1>6, <1>7 DEF MoveStep

(* After the disturbance every request is answered. *)
LEMMA WarySend ==
    ASSUME ~LateDelivery, MoveTypeOK, Signalled, NEW request, NEW e, Send(request, e),
           faults' + signals' <= 1, ~interrupted, faults + signals # 0
    PROVE  e = Status(request) /\ Process(request) /\ Undisturbed /\ Signalled'
BY CalmSend DEF Breaks, Interrupts

(* An undo runs to its end. *)
LEMMA UndoStepCourse ==
    ASSUME ~LateDelivery, MoveTypeOK, CopyBeforeDelete, CallerInv, Signalled, OpCourse, UndoStep,
           faults' + signals' <= 1
    PROVE  OpCourse' /\ Signalled' /\ GoesOn
<1>0. /\ op \in Ops /\ op.source \in Names /\ op.target \in Names
      /\ op'.source = op.source /\ op'.target = op.target /\ op'.caller = op.caller
      /\ faults \in Nat /\ signals \in Nat
  <2>1. OpStep /\ op \in Ops
    BY OpStepBusy DEF OpStep, MoveTypeOK, Idle
  <2> QED BY <2>1, NamesKept, CallerKept, BoundsAssumption DEF Ops, MoveTypeOK
<1>e. \A error : /\ [op EXCEPT !.pc = "rbSource", !.pages = 0].pc = "rbSource"
                 /\ [op EXCEPT !.pc = "rbSource", !.pages = 0].sgen = op.sgen
                 /\ [op EXCEPT !.pc = "rbSource", !.pages = 0].tgen = op.tgen
                 /\ [op EXCEPT !.pages = @ + 1].pc = op.pc
                 /\ [op EXCEPT !.pages = @ + 1].sgen = op.sgen
                 /\ [op EXCEPT !.pages = @ + 1].tgen = op.tgen
  BY <1>0 DEF Ops
<1> USE DEF SourceStandsPcs, SourceGonePcs, TargetStandsPcs, TargetGonePcs, CleanupPcs,
            RestoredPcs, CopiedPcs, UndoPcs, FailurePcs
<1>1. CASE ClearInterruptForRollback
  <2>1. /\ op.pc = "interruptedMove" /\ op' = Goto("undoSource") /\ objects' = objects
        /\ interrupted' = FALSE /\ faults' = faults /\ signals' = signals
    BY <1>1 DEF ClearInterruptForRollback, service, environment
  <2>2. op'.pc = "undoSource" /\ op'.sgen = op.sgen /\ op'.tgen = op.tgen
    BY <1>0, <2>1, CourseFields
  <2>3. /\ ~Present(op.source)' \/ Stands(op.source, op.sgen)' 
        /\ Stands(op.target, op.tgen)' /\ faults' + signals' # 0
    BY <1>0, <2>1, <2>2, SameObjects DEF OpCourse
  <2> QED BY <1>0, <2>1, <2>2, <2>3 DEF OpCourse, GoesOn, Original, Signalled
<1>w. ASSUME op.pc \in UndoPcs \cup {"undoSource"}, NEW request, NEW e, Send(request, e)
      PROVE  /\ e = Status(request) /\ Process(request) /\ Signalled'
             /\ ~interrupted' /\ faults' + signals' # 0
  <2>1. ~interrupted /\ faults + signals # 0
    BY <1>w DEF OpCourse
  <2> QED BY <1>w, <2>1, WarySend DEF Undisturbed
<1>2. CASE UndoSource
  <2>1. PICK e \in ErrorKinds :
           /\ Send(Get(op.source, 0), e)
           /\ op' = CASE Seen(e) = "present" -> Goto("cleanupState")
                      [] Seen(e) = "missing" -> [op EXCEPT !.pc = "rbSource", !.pages = 0]
                      [] OTHER -> UndoFailed(Err(e))
    BY <1>2 DEF UndoSource
  <2>2. /\ op.pc = "undoSource" /\ objects' = objects /\ Stands(op.target, op.tgen)
        /\ ~Present(op.source) \/ Stands(op.source, op.sgen)
    BY <1>2, <2>1, GetEffect DEF UndoSource, OpCourse
  <2>3. /\ e = Status(Get(op.source, 0)) /\ Signalled' /\ ~interrupted' /\ faults' + signals' # 0
    BY <1>w, <2>1, <2>2
  <2>4. CASE ~Present(op.source)
    <3>1. Seen(e) = "missing"
      BY <2>3, <2>4, ExpectedStatus DEF Seen
    <3>2. op'.pc = "rbSource" /\ op'.sgen = op.sgen /\ op'.tgen = op.tgen
      BY <1>e, <2>1, <3>1
    <3>3. ~Present(op.source)' /\ Stands(op.target, op.tgen)'
      BY <1>0, <2>2, <2>4, <3>2, SameObjects
    <3> QED BY <1>0, <2>2, <2>3, <3>2, <3>3 DEF OpCourse, GoesOn, Original
  <2>5. CASE Stands(op.source, op.sgen)
    <3>1. Seen(e) = "present"
      BY <2>3, <2>5, ExpectedStatus DEF Seen
    <3>2. op'.pc = "cleanupState" /\ op'.sgen = op.sgen /\ op'.tgen = op.tgen
      BY <1>0, <2>1, <3>1, CourseFields
    <3>3. Stands(op.source, op.sgen)' /\ Stands(op.target, op.tgen)'
      BY <1>0, <2>2, <2>5, <3>2, SameObjects
    <3> QED BY <1>0, <2>2, <2>3, <3>2, <3>3 DEF OpCourse, GoesOn, Original
  <2> QED BY <2>2, <2>4, <2>5
<1>3. CASE CleanupState
  <2>1. PICK e \in ErrorKinds :
           /\ Send(Get(op.target, op.tgen), e)
           /\ Seen(e) = "present" => op' = Goto("cleanupDelete")
    BY <1>3 DEF CleanupState
  <2>2. /\ op.pc = "cleanupState" /\ objects' = objects
        /\ Stands(op.source, op.sgen) /\ Stands(op.target, op.tgen)
    BY <1>3, <2>1, GetEffect DEF CleanupState, OpCourse
  <2>3. e = "Ok" /\ Signalled' /\ ~interrupted' /\ faults' + signals' # 0
    BY <1>w, <2>1, <2>2, ExpectedStatus
  <2>4. op'.pc = "cleanupDelete" /\ op'.sgen = op.sgen /\ op'.tgen = op.tgen
    BY <1>0, <2>1, <2>3, CourseFields DEF Seen
  <2>5. Stands(op.source, op.sgen)' /\ Stands(op.target, op.tgen)'
    BY <1>0, <2>2, <2>4, SameObjects
  <2> QED BY <1>0, <2>2, <2>3, <2>4, <2>5 DEF OpCourse, GoesOn, Original
<1>4. CASE CleanupDelete
  <2>1. PICK e \in ErrorKinds :
           /\ Send(Delete(op.target, op.tgen), e)
           /\ e = "Ok" => op' = Goto("cleanupConfirm")
    BY <1>4 DEF CleanupDelete
  <2>2. /\ op.pc = "cleanupDelete" /\ op.source # op.target
        /\ Stands(op.source, op.sgen) /\ Stands(op.target, op.tgen)
    BY <1>4 DEF CleanupDelete, OpCourse, CopyBeforeDelete, KeptPcs
  <2>3. Status(Delete(op.target, op.tgen)) = "Ok"
    BY <2>2, ExpectedStatus
  <2>4. /\ e = "Ok" /\ Process(Delete(op.target, op.tgen))
        /\ Signalled' /\ ~interrupted' /\ faults' + signals' # 0
    BY <1>w, <2>1, <2>2, <2>3
  <2>5. objects'[op.target].gen = 0 /\ objects'[op.source] = objects[op.source]
    BY <1>0, <2>2, <2>3, <2>4, AnsweredEffect
  <2>6. op'.pc = "cleanupConfirm" /\ op'.sgen = op.sgen /\ op'.tgen = op.tgen
    BY <1>0, <2>1, <2>4, CourseFields
  <2>7. Stands(op.source, op.sgen)' /\ ~Present(op.target)'
    BY <1>0, <2>2, <2>5, <2>6 DEF Stands, Present
  <2> QED BY <1>0, <2>2, <2>4, <2>6, <2>7 DEF OpCourse, GoesOn, Original
<1>5. CASE CleanupConfirm
  <2>1. PICK e \in ErrorKinds :
           Send(Get(op.target, 0), e) /\ (Seen(e) = "missing" => op' = CleanupDone)
    BY <1>5 DEF CleanupConfirm
  <2>2. /\ op.pc = "cleanupConfirm" /\ objects' = objects /\ op.caller # "transaction"
        /\ Stands(op.source, op.sgen) /\ ~Present(op.target)
    BY <1>5, <2>1, GetEffect DEF CleanupConfirm, OpCourse, CallerInv
  <2>3. e = "NotFound" /\ Signalled' /\ ~interrupted' /\ faults' + signals' # 0
    BY <1>w, <2>1, <2>2, ExpectedStatus
  <2>4. op' = CleanupDone
    BY <2>1, <2>3 DEF Seen
  <2>5. CASE op.caller = "move"
    <3>1. op'.pc = "failed" /\ op'.sgen = op.sgen
      BY <1>0, <2>4, <2>5, CourseFields DEF CleanupDone
    <3>2. Stands(op.source, op.sgen)'
      BY <1>0, <2>2, <3>1, SameObjects
    <3> QED BY <2>2, <2>3, <3>1, <3>2, FailedCourse DEF GoesOn, Original
  <2>6. CASE op.caller # "move"
    <3>1. op'.pc = "done" /\ op'.caller \notin {"move", "transaction"}
      BY <1>0, <2>2, <2>4, <2>6, CourseFields DEF CleanupDone
    <3> QED BY <1>0, <2>3, <3>1 DEF OpCourse, GoesOn
  <2> QED BY <2>5, <2>6
<1>6. CASE RbSource \/ RbTarget
  <2>1. /\ op.pc \in {"rbSource", "rbTarget"} /\ ~Present(op.source) /\ Stands(op.target, op.tgen)
    BY <1>6 DEF RbSource, RbTarget, OpCourse
  <2>2. /\ objects' = objects /\ Signalled' /\ ~interrupted' /\ faults' + signals' # 0
        /\ op' \in {Goto("rbTarget"), Goto("rbCopy")}
    <3>1. CASE RbSource
      <4>1. PICK e \in ErrorKinds :
               Send(Get(op.source, 0), e) /\ (Seen(e) = "missing" => op' = Goto("rbTarget"))
        BY <3>1 DEF RbSource
      <4>2. e = "NotFound"
        BY <1>w, <2>1, <4>1, ExpectedStatus
      <4> QED BY <1>w, <2>1, <4>1, <4>2, GetEffect DEF Seen
    <3>2. CASE RbTarget
      <4>1. PICK e \in ErrorKinds :
               Send(Get(op.target, op.tgen), e) /\ (Seen(e) = "present" => op' = Goto("rbCopy"))
        BY <3>2 DEF RbTarget
      <4>2. e = "Ok"
        BY <1>w, <2>1, <4>1, ExpectedStatus
      <4> QED BY <1>w, <2>1, <4>1, <4>2, GetEffect DEF Seen
    <3> QED BY <1>6, <3>1, <3>2
  <2>3. op'.pc \in {"rbTarget", "rbCopy"} /\ op'.sgen = op.sgen /\ op'.tgen = op.tgen
    BY <1>0, <2>2, CourseFields
  <2>4. ~Present(op.source)' /\ Stands(op.target, op.tgen)'
    BY <1>0, <2>1, <2>2, <2>3, SameObjects
  <2> QED BY <1>0, <2>1, <2>2, <2>3, <2>4 DEF OpCourse, GoesOn, Original
<1>7. CASE RbCopyPage
  <2>1. PICK e \in ErrorKinds :
           /\ Send(RewritePage(op.target, op.tgen, op.source), e)
           /\ e = "Ok" => op' = [op EXCEPT !.pages = @ + 1]
    BY <1>7 DEF RbCopyPage
  <2>2. /\ op.pc = "rbCopy" /\ ~Present(op.source) /\ Stands(op.target, op.tgen) /\ objects' = objects
    BY <1>7, <2>1, PageEffect DEF RbCopyPage, OpCourse
  <2>3. e = "Ok" /\ Signalled' /\ ~interrupted' /\ faults' + signals' # 0
    BY <1>w, <2>1, <2>2, ExpectedStatus
  <2>4. op'.pc = "rbCopy" /\ op'.sgen = op.sgen /\ op'.tgen = op.tgen
    BY <1>e, <2>1, <2>2, <2>3
  <2>5. ~Present(op.source)' /\ Stands(op.target, op.tgen)'
    BY <1>0, <2>2, <2>4, SameObjects
  <2> QED BY <1>0, <2>2, <2>3, <2>4, <2>5 DEF OpCourse, GoesOn, Original
<1>8. CASE RbCopy
  <2>1. PICK e \in ErrorKinds :
           /\ Send(Rewrite(op.target, op.tgen, op.source), e)
           /\ e = "Ok" => op' = [op EXCEPT !.pc = "rbConfirmCopy", !.sgen = nextGen]
    BY <1>8 DEF RbCopy
  <2>2. /\ op.pc = "rbCopy" /\ ~Present(op.source) /\ Stands(op.target, op.tgen)
        /\ op.source # op.target
    BY <1>8 DEF RbCopy, OpCourse, Stands, Present
  <2>3. Status(Rewrite(op.target, op.tgen, op.source)) = "Ok"
    BY <2>2, ExpectedStatus
  <2>4. /\ e = "Ok" /\ Process(Rewrite(op.target, op.tgen, op.source))
        /\ Signalled' /\ ~interrupted' /\ faults' + signals' # 0
    BY <1>w, <2>1, <2>2, <2>3
  <2>5. /\ objects'[op.source].gen = nextGen /\ nextGen # 0
        /\ objects'[op.target] = objects[op.target]
    BY <1>0, <2>2, <2>3, <2>4, AnsweredEffect
  <2>6. op'.pc = "rbConfirmCopy" /\ op'.sgen = nextGen /\ op'.tgen = op.tgen
    BY <1>0, <2>1, <2>4 DEF Ops
  <2>7. Stands(op.source, op.sgen)' /\ Stands(op.target, op.tgen)'
    BY <1>0, <2>2, <2>5, <2>6 DEF Stands
  <2> QED BY <1>0, <2>2, <2>4, <2>6, <2>7 DEF OpCourse, GoesOn, Original
<1>9. CASE RbConfirmCopy
  <2>1. PICK e \in ErrorKinds :
           /\ Send(Get(op.source, 0), e)
           /\ e = "Ok" /\ objects[op.source].gen = op.sgen => op' = Goto("rbDelete")
    BY <1>9 DEF RbConfirmCopy
  <2>2. /\ op.pc = "rbConfirmCopy" /\ objects' = objects
        /\ Stands(op.source, op.sgen) /\ Stands(op.target, op.tgen)
    BY <1>9, <2>1, GetEffect DEF RbConfirmCopy, OpCourse
  <2>3. e = "Ok" /\ Signalled' /\ ~interrupted' /\ faults' + signals' # 0
    BY <1>w, <2>1, <2>2, ExpectedStatus
  <2>4. op'.pc = "rbDelete" /\ op'.sgen = op.sgen /\ op'.tgen = op.tgen
    BY <1>0, <2>1, <2>2, <2>3, CourseFields DEF Stands
  <2>5. Stands(op.source, op.sgen)' /\ Stands(op.target, op.tgen)'
    BY <1>0, <2>2, <2>4, SameObjects
  <2> QED BY <1>0, <2>2, <2>3, <2>4, <2>5 DEF OpCourse, GoesOn, Original
<1>10. CASE RbDelete
  <2>1. PICK e \in ErrorKinds :
           /\ Send(Delete(op.target, op.tgen), e)
           /\ e = "Ok" => op' = Goto("rbTargetState")
    BY <1>10 DEF RbDelete
  <2>2. /\ op.pc = "rbDelete" /\ op.source # op.target
        /\ Stands(op.source, op.sgen) /\ Stands(op.target, op.tgen)
    BY <1>10 DEF RbDelete, OpCourse, CopyBeforeDelete, KeptPcs
  <2>3. Status(Delete(op.target, op.tgen)) = "Ok"
    BY <2>2, ExpectedStatus
  <2>4. /\ e = "Ok" /\ Process(Delete(op.target, op.tgen))
        /\ Signalled' /\ ~interrupted' /\ faults' + signals' # 0
    BY <1>w, <2>1, <2>2, <2>3
  <2>5. objects'[op.target].gen = 0 /\ objects'[op.source] = objects[op.source]
    BY <1>0, <2>2, <2>3, <2>4, AnsweredEffect
  <2>6. op'.pc = "rbTargetState" /\ op'.sgen = op.sgen /\ op'.tgen = op.tgen
    BY <1>0, <2>1, <2>4, CourseFields
  <2>7. Stands(op.source, op.sgen)' /\ ~Present(op.target)'
    BY <1>0, <2>2, <2>5, <2>6 DEF Stands, Present
  <2> QED BY <1>0, <2>2, <2>4, <2>6, <2>7 DEF OpCourse, GoesOn, Original
<1>11. CASE RbTargetState
  <2>1. PICK e \in ErrorKinds :
           /\ Send(Get(op.target, 0), e)
           /\ Seen(e) # "failed" => op' = [op EXCEPT !.pc = "rbConfirm", !.targetSeen = Seen(e)]
    BY <1>11 DEF RbTargetState
  <2>2. /\ op.pc = "rbTargetState" /\ objects' = objects
        /\ Stands(op.source, op.sgen) /\ ~Present(op.target)
    BY <1>11, <2>1, GetEffect DEF RbTargetState, OpCourse
  <2>3. e = "NotFound" /\ Signalled' /\ ~interrupted' /\ faults' + signals' # 0
    BY <1>w, <2>1, <2>2, ExpectedStatus
  <2>4. /\ op'.pc = "rbConfirm" /\ op'.sgen = op.sgen /\ op'.tgen = op.tgen
        /\ op'.targetSeen = "missing"
    BY <1>0, <2>1, <2>3 DEF Seen, Ops
  <2>5. Stands(op.source, op.sgen)' /\ ~Present(op.target)'
    BY <1>0, <2>2, <2>4, SameObjects
  <2> QED BY <1>0, <2>2, <2>3, <2>4, <2>5 DEF OpCourse, GoesOn, Original
<1>12. CASE RbConfirm
  <2>1. PICK e \in ErrorKinds :
           /\ Send(Get(op.source, 0), e)
           /\ e = "Ok" /\ objects[op.source].gen = op.sgen /\ op.targetSeen = "missing" =>
                 op' = RollbackDone
    BY <1>12 DEF RbConfirm
  <2>2. /\ op.pc = "rbConfirm" /\ objects' = objects /\ op.targetSeen = "missing"
        /\ Stands(op.source, op.sgen) /\ ~Present(op.target)
    BY <1>12, <2>1, GetEffect DEF RbConfirm, OpCourse
  <2>3. e = "Ok" /\ Signalled' /\ ~interrupted' /\ faults' + signals' # 0
    BY <1>w, <2>1, <2>2, ExpectedStatus
  <2>4. op' = RollbackDone
    BY <2>1, <2>2, <2>3 DEF Stands
  <2>5. /\ op'.pc = "done" /\ op'.sgen = op.sgen
        /\ op'.error = IF op.caller = "move" THEN InterruptedAfterMoveRollback(op.sgen) ELSE NoError
    BY <1>0, <2>4, CourseFields DEF RollbackDone
  <2>6. Stands(op.source, op.sgen)' /\ ~Present(op.target)' /\ Present(op.source)'
    BY <1>0, <2>2, <2>5, SameObjects DEF Stands, Present
  <2>7. CASE op.caller = "move"
    <3>1. /\ ~IsOk(op'.error) /\ HasRestoredGeneration(op'.error) /\ op'.error.generation = op'.sgen
          /\ ~Failure(op'.error)
      BY <2>5, <2>7 DEF IsOk, HasRestoredGeneration, InterruptedAfterMoveRollback, Failure
    <3>2. Stands(op.source, op.error.generation)'
      BY <2>6, <3>1 DEF Stands
    <3> QED BY <1>0, <2>3, <2>5, <2>7, <3>1, <3>2 DEF OpCourse, GoesOn, Original
  <2>8. CASE op.caller # "move"
    <3>1. IsOk(op'.error)
      BY <2>5, <2>8 DEF IsOk, NoError, Err
    <3> QED BY <1>0, <2>3, <2>5, <2>6, <2>8, <3>1 DEF OpCourse, GoesOn
  <2> QED BY <2>7, <2>8
<1> QED BY <1>1, <1>2, <1>3, <1>4, <1>5, <1>6, <1>7, <1>8, <1>9, <1>10, <1>11, <1>12 DEF UndoStep

(* The confirmation of a failure changes nothing. *)
LEMMA FailureStepCourse ==
    ASSUME ~LateDelivery, MoveTypeOK, OpOwned, CallerInv, Signalled, OpCourse, FailureStep,
           faults' + signals' <= 1
    PROVE  OpCourse' /\ Signalled' /\ GoesOn
<1>0. /\ op \in Ops /\ op'.source = op.source /\ op'.target = op.target /\ op'.caller = op.caller
      /\ faults \in Nat /\ signals \in Nat /\ faults' \in Nat /\ signals' \in Nat
  <2>1. OpStep /\ op \in Ops
    BY OpStepBusy DEF OpStep, MoveTypeOK, Idle
  <2>2. MoveTypeOK'
    BY <2>1, OpStepType
  <2> QED BY <2>1, <2>2, NamesKept, CallerKept, BoundsAssumption DEF Ops, MoveTypeOK
<1> USE DEF SourceStandsPcs, SourceGonePcs, TargetStandsPcs, TargetGonePcs, CleanupPcs,
            RestoredPcs, CopiedPcs, UndoPcs, FailurePcs
<1>1. /\ op.pc \in FailurePcs /\ objects' = objects /\ Signalled' /\ op.caller = "move"
      /\ faults' = 0 => faults = 0 /\ Failure(op.error)
      /\ faults' + signals' # 0
  <2>1. op.pc \in FailurePcs
    BY DEF FailureStep, ConfirmedFailure, ConfirmSource, ConfirmTarget
  <2>2. op.caller = "move" /\ Failure(op.error)
    BY <2>1 DEF CallerInv, OpOwned
  <2>0. faults + signals # 0
    BY <2>1 DEF OpCourse
  <2>3. /\ objects' = objects /\ Signalled' /\ (faults' = 0 => faults = 0)
        /\ faults' + signals' # 0
    <3>1. CASE ConfirmedFailure
      BY <2>0, <3>1 DEF ConfirmedFailure, service, environment, Signalled
    <3>2. ASSUME NEW name, NEW e, Send(Get(name, 0), e)
          PROVE  /\ objects' = objects /\ Signalled' /\ (faults' = 0 => faults = 0)
                 /\ faults' + signals' # 0
      <4>1. /\ faults' = faults \/ faults' = faults + 1
            /\ signals' = signals \/ signals' = signals + 1
        BY <3>2 DEF Send, Unsent, Answered, Abandoned, environment
      <4>2. objects' = objects /\ Signalled'
        BY <3>2, GetEffect, CalmSend
      <4>3. faults \in Nat /\ signals \in Nat
        BY <1>0
      <4>4. (faults' = 0 => faults = 0) /\ faults' + signals' # 0
        BY <2>0, <4>1, <4>3
      <4> QED BY <4>2, <4>4
    <3> QED BY <3>1, <3>2 DEF FailureStep, ConfirmSource, ConfirmTarget
  <2> QED BY <2>1, <2>2, <2>3
<1>2. CASE op'.pc \in FailurePcs /\ op'.sgen = op.sgen
  <2>1. faults' = 0 /\ op'.sgen # 0 => Stands(op.source, op.sgen)'
    BY <1>0, <1>1, <1>2, SameObjects DEF OpCourse
  <2> QED BY <1>1, <1>2, <2>1, FailedCourse DEF GoesOn, Original
<1>3. CASE op'.pc = "done" /\ op'.sgen = op.sgen /\ Failure(op'.error)
  <2>1. faults' = 0 /\ op'.sgen # 0 => Stands(op.source, op.sgen)'
    BY <1>0, <1>1, <1>3, SameObjects DEF OpCourse
  <2>2. ~IsOk(op'.error) /\ ~HasRestoredGeneration(op'.error)
    BY <1>3 DEF Failure
  <2> QED BY <1>0, <1>1, <1>3, <2>1, <2>2 DEF OpCourse, GoesOn, Original
<1>4. Failure(op.error) /\ Failure(Err("Recovery"))
  BY <1>1 DEF OpOwned, Failure, IsOk, HasRestoredGeneration, Err
<1>5. CASE ConfirmedFailure
  BY <1>0, <1>2, <1>3, <1>4, <1>5, CourseFields DEF ConfirmedFailure
<1>6. CASE ConfirmSource
  BY <1>0, <1>2, <1>6 DEF ConfirmSource, Ops
<1>7. CASE ConfirmTarget
  BY <1>0, <1>3, <1>4, <1>7, CourseFields DEF ConfirmTarget
<1> QED BY <1>5, <1>6, <1>7 DEF FailureStep

(* Every step of an operation keeps it on course as long as the            *)
(* environment acts at most once.                                          *)
LEMMA OpStepCourse ==
    ASSUME ~LateDelivery, MoveTypeOK, CopyBeforeDelete, OpOwned, CallerInv, Signalled, OpCourse,
           OpStep, faults' + signals' <= 1
    PROVE  OpCourse' /\ Signalled' /\ GoesOn
BY MoveStepCourse, UndoStepCourse, FailureStepCourse DEF OpStep
=============================================================================
