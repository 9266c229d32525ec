------------------------- MODULE CloudCommandProofs -------------------------
(***************************************************************************)
(* What wait_for_child_with_input leaves behind and what it hands back,    *)
(* for every program a child may run, every size of the pipes and of the   *)
(* script, and any number of signals.                                      *)
(***************************************************************************)
EXTENDS CloudCommand, TLAPS

-----------------------------------------------------------------------------
(* The inductive invariant. *)

(* Outside of a command there is neither a process nor a thread. *)
Quiet ==
    pc \in {"spawn", "returned", "end"} =>
        child.state \in {"none", "reaped"} /\ \A stream \in Streams : Joined(stream)

(* The threads are joined only after the child is reaped. *)
ReapedFirst == pc \in {"discard", "finish"} => child.state = "reaped"

(* Every unit a child wrote is in the pipe or was read. *)
Accounted == \A stream \in Outputs : written[stream] = collected[stream] + pipe[stream]

(* A reader ends with its pipe empty, and never before the child does. *)
Drained == \A stream \in Outputs : Joined(stream) => pipe[stream] = 0
Served ==
    Alive => \A stream \in Outputs \cap Piped(command) : thread[stream] = "running"

IInv == TypeOK /\ Quiet /\ ReapedFirst /\ Accounted /\ Drained /\ Served

-----------------------------------------------------------------------------
(* Every error the commands return has its shape. *)
LEMMA ErrType == \A kind \in ErrorKinds : Err(kind) \in AppErrors
BY DEF Err, AppErrors

(* The kinds of error that a command may return. *)
LEMMA Kinds == {"Ok", "Io", "Command", "Interrupted", "Message"} \subseteq ErrorKinds
BY DEF ErrorKinds

(* Only the state and the position of a child change once it is spawned. *)
LEMMA RecordType ==
    ASSUME NEW States, NEW P, NEW c \in [state : States, program : P, at : Nat]
    PROVE  /\ \A state \in States :
                 [c EXCEPT !.state = state] \in [state : States, program : P, at : Nat]
           /\ [c EXCEPT !.at = @ + 1] \in [state : States, program : P, at : Nat]
OBVIOUS

(* The same of the child itself. *)
LEMMA ChildType ==
    ASSUME TypeOK
    PROVE  /\ \A state \in ChildStates :
                 [child EXCEPT !.state = state]
                     \in [state : ChildStates, program : Programs \cup {<<>>}, at : Nat]
           /\ [child EXCEPT !.at = @ + 1]
                 \in [state : ChildStates, program : Programs \cup {<<>>}, at : Nat]
<1> DEFINE P == Programs \cup {<<>>}
<1>1. child \in [state : ChildStates, program : P, at : Nat]
  BY DEF TypeOK
<1> HIDE DEF P
<1>2. /\ \A state \in ChildStates :
            [child EXCEPT !.state = state] \in [state : ChildStates, program : P, at : Nat]
      /\ [child EXCEPT !.at = @ + 1] \in [state : ChildStates, program : P, at : Nat]
  BY <1>1, RecordType
<1> QED BY <1>2 DEF P

(* One unit more or less keeps a pipe within its capacity. *)
LEMMA PipeType ==
    ASSUME NEW S, NEW n \in Nat, NEW units \in [S -> 0..n], NEW s \in S
    PROVE  /\ units[s] > 0 => [units EXCEPT ![s] = @ - 1] \in [S -> 0..n]
           /\ units[s] < n => [units EXCEPT ![s] = @ + 1] \in [S -> 0..n]
           /\ [units EXCEPT ![s] = IF @ > 0 THEN @ - 1 ELSE 0] \in [S -> 0..n]
OBVIOUS

(* A count of units may grow. *)
LEMMA CountType ==
    ASSUME NEW S, NEW units \in [S -> Nat], NEW s \in S
    PROVE  [units EXCEPT ![s] = @ + 1] \in [S -> Nat]
OBVIOUS

(* The polling loop keeps every variable in its type. *)
LEMMA MainType ==
    ASSUME TypeOK, MainStep
    PROVE  TypeOK'
<1>0. {"reaped", "killed", "running"} \subseteq ChildStates
  BY DEF ChildStates
<1>1. CASE Spawn
  <2>1. child' \in [state : ChildStates, program : Programs \cup {<<>>}, at : Nat]
    BY <1>0, <1>1 DEF Spawn
  <2>2. pipe' \in [Streams -> 0..Capacity] /\ thread' \in [Streams -> Threads]
    BY <1>1, CommandAssumption DEF Spawn, Threads
  <2>3. written' \in [Outputs -> Nat] /\ collected' \in [Outputs -> Nat]
    BY <1>1 DEF Spawn
  <2>4. input' \in 0..InputSize
    BY <1>1, CommandAssumption DEF Spawn
  <2> QED BY <1>1, <2>1, <2>2, <2>3, <2>4 DEF Spawn, Pcs, TypeOK
<1>2. CASE SpawnFails
  BY <1>2, ErrType, Kinds DEF SpawnFails, Pcs, process, clock, TypeOK
<1>3. CASE TryWait
  BY <1>3, <1>0, ChildType, ErrType, Kinds DEF TryWait, NoError, Pcs, clock, TypeOK
<1>4. CASE CheckInterrupt
  BY <1>4, ErrType, Kinds DEF CheckInterrupt, Pcs, process, clock, TypeOK
<1>5. CASE CheckTimeout
  BY <1>5, ErrType, Kinds DEF CheckTimeout, Pcs, process, clock, TypeOK
<1>6. CASE Sleep
  BY <1>6 DEF Sleep, Pcs, process, clock, TypeOK
<1>7. CASE Kill
  BY <1>7, <1>0, ChildType DEF Kill, Pcs, clock, TypeOK
<1>8. CASE Wait
  BY <1>8, <1>0, ChildType DEF Wait, Pcs, clock, TypeOK
<1>9. CASE Discard
  BY <1>9 DEF Discard, Pcs, process, clock, TypeOK
<1>10. CASE Finish
  BY <1>10, ErrType, Kinds DEF Finish, Pcs, process, clock, TypeOK
<1>11. CASE NextCommand
  BY <1>11 DEF NextCommand, Commands, Pcs, process, clock, TypeOK
<1> QED BY <1>1, <1>2, <1>3, <1>4, <1>5, <1>6, <1>7, <1>8, <1>9, <1>10, <1>11 DEF MainStep

(* So do the pipe threads, ... *)
LEMMA ThreadType ==
    ASSUME TypeOK, ThreadStep
    PROVE  TypeOK'
<1>0. /\ {"ended", "failed"} \subseteq Threads
      /\ Outputs \subseteq Streams /\ "stdin" \in Streams
  BY DEF Threads, Streams
<1>1. CASE WriteInput
  <2>1. thread' \in [Streams -> Threads]
    BY <1>0, <1>1 DEF WriteInput, TypeOK
  <2>2. pipe' \in [Streams -> 0..Capacity]
    <3>1. \/ pipe' = pipe
          \/ pipe["stdin"] < Capacity /\ pipe' = [pipe EXCEPT !["stdin"] = @ + 1]
      BY <1>1 DEF WriteInput
    <3>2. Capacity \in Nat /\ pipe \in [Streams -> 0..Capacity]
      BY CommandAssumption DEF TypeOK
    <3> QED BY <1>0, <3>1, <3>2, PipeType
  <2>3. input' \in 0..InputSize
    BY <1>1, CommandAssumption DEF WriteInput, TypeOK
  <2> QED BY <1>1, <2>1, <2>2, <2>3 DEF WriteInput, TypeOK, clock
<1>2. ASSUME NEW stream \in Outputs, ReadOutput(stream) PROVE TypeOK'
  <2>1. thread' \in [Streams -> Threads]
    BY <1>0, <1>2 DEF ReadOutput, TypeOK
  <2>2. pipe' \in [Streams -> 0..Capacity]
    <3>1. \/ pipe' = pipe
          \/ pipe[stream] > 0 /\ pipe' = [pipe EXCEPT ![stream] = @ - 1]
      BY <1>2 DEF ReadOutput
    <3>2. stream \in Streams /\ Capacity \in Nat /\ pipe \in [Streams -> 0..Capacity]
      BY <1>0, CommandAssumption DEF TypeOK
    <3> QED BY <3>1, <3>2, PipeType
  <2>3. collected' \in [Outputs -> Nat]
    BY <1>2, CountType DEF ReadOutput, TypeOK
  <2> QED BY <1>2, <2>1, <2>2, <2>3 DEF ReadOutput, TypeOK, clock
<1> QED BY <1>1, <1>2 DEF ThreadStep

(* ... the child, the signal handler and the clock. *)
LEMMA EnvironmentType ==
    ASSUME TypeOK, ChildStep \/ Signal \/ Timeout \/ Terminated
    PROVE  TypeOK'
<1>0. /\ {"exited", "failed"} \subseteq ChildStates
      /\ Outputs \subseteq Streams /\ "stdin" \in Streams
  BY DEF ChildStates, Streams
<1>1. CASE ChildUsesStream
  <2>1. pipe' \in [Streams -> 0..Capacity] /\ written' \in [Outputs -> Nat]
    <3>1. CASE Stream \notin Piped(command)
      BY <1>1, <3>1 DEF ChildUsesStream, TypeOK
    <3>2. CASE Stream \in Piped(command) \cap Outputs
      <4>1. /\ pipe[Stream] < Capacity
            /\ pipe' = [pipe EXCEPT ![Stream] = @ + 1]
            /\ written' = [written EXCEPT ![Stream] = @ + 1]
        BY <1>1, <3>2 DEF ChildUsesStream
      <4> QED BY <1>0, <3>2, <4>1, CommandAssumption, PipeType, CountType DEF TypeOK
    <3>3. CASE Stream \in Piped(command) /\ Stream \notin Outputs
      <4>1. /\ pipe' = [pipe EXCEPT !["stdin"] = IF @ > 0 THEN @ - 1 ELSE 0]
            /\ UNCHANGED written
        BY <1>1, <3>3 DEF ChildUsesStream
      <4> QED BY <1>0, <4>1, CommandAssumption, PipeType DEF TypeOK
    <3> QED BY <3>1, <3>2, <3>3
  <2> QED BY <1>1, <2>1, ChildType DEF ChildUsesStream, Advance, TypeOK, clock
<1>2. CASE ChildExits
  BY <1>0, <1>2, ChildType DEF ChildExits, TypeOK, clock
<1>3. CASE Signal
  BY <1>3, CommandAssumption DEF Signal, TypeOK, process
<1>4. CASE Timeout
  BY <1>4 DEF Timeout, TypeOK, process
<1>5. CASE Terminated
  BY <1>5 DEF Terminated, TypeOK, vars, process, clock
<1> QED BY <1>1, <1>2, <1>3, <1>4, <1>5 DEF ChildStep

(* The initial states are well typed, ... *)
LEMMA InitType == Init => TypeOK
<1> SUFFICES ASSUME Init PROVE TypeOK
  OBVIOUS
<1>1. child \in [state : ChildStates, program : Programs \cup {<<>>}, at : Nat]
  BY DEF Init, ChildStates
<1>2. pipe \in [Streams -> 0..Capacity] /\ thread \in [Streams -> Threads]
  BY CommandAssumption DEF Init, Threads
<1>3. written \in [Outputs -> Nat] /\ collected \in [Outputs -> Nat]
  BY DEF Init
<1>4. input \in 0..InputSize /\ signals \in 0..MaxSignals
  BY CommandAssumption DEF Init
<1>5. result \in AppErrors
  BY ErrType, Kinds DEF Init, NoError
<1> QED BY <1>1, <1>2, <1>3, <1>4, <1>5 DEF Init, TypeOK, Commands, Pcs

(* ... and every step leaves them so. *)
LEMMA NextType == TypeOK /\ [Next]_vars => TypeOK'
<1>1. ASSUME TypeOK, UNCHANGED vars PROVE TypeOK'
  BY <1>1 DEF TypeOK, vars, process, clock
<1> QED BY <1>1, MainType, ThreadType, EnvironmentType DEF Next

(* Every variable of the model of src/cloud.rs keeps its shape. *)
THEOREM TypeCorrect == Spec => []TypeOK
BY InitType, NextType, PTL DEF Spec

-----------------------------------------------------------------------------
(* The invariant holds initially, ... *)
LEMMA InitInv == Init => IInv
<1> SUFFICES ASSUME Init PROVE IInv
  OBVIOUS
<1>1. TypeOK
  BY InitType
<1> QED BY <1>1 DEF Init, IInv, Quiet, ReapedFirst, Accounted, Drained, Served,
                    Joined, Alive, Streams, Outputs

(* The polling loop. *)
LEMMA MainInv ==
    ASSUME IInv, TypeOK', MainStep
    PROVE  IInv'
<1> USE DEF IInv
<1>1. CASE Spawn
  <2>1. pc' = "tryWait" /\ UNCHANGED command
    BY <1>1 DEF Spawn
  <2>2. Quiet' /\ ReapedFirst'
    BY <2>1 DEF Quiet, ReapedFirst
  <2>3. Accounted' /\ Drained'
    BY <1>1 DEF Spawn, Accounted,
              Drained, Streams
  <2>4. Served'
    BY <1>1, <2>1 DEF Spawn, Served, Streams
  <2> QED BY <2>2, <2>3, <2>4
<1>2. CASE SpawnFails
  BY <1>2 DEF SpawnFails, TypeOK, Quiet, ReapedFirst, Accounted,
              Drained, Served, Joined, Alive, process, clock
<1>3. CASE TryWait
  BY <1>3 DEF TryWait, TypeOK, Quiet, ReapedFirst, Accounted,
              Drained, Served, Joined, Alive, process, clock
<1>4. CASE CheckInterrupt
  BY <1>4 DEF CheckInterrupt, TypeOK, Quiet, ReapedFirst, Accounted,
              Drained, Served, Joined, Alive, process, clock
<1>5. CASE CheckTimeout
  BY <1>5 DEF CheckTimeout, TypeOK, Quiet, ReapedFirst, Accounted,
              Drained, Served, Joined, Alive, process, clock
<1>6. CASE Sleep
  BY <1>6 DEF Sleep, TypeOK, Quiet, ReapedFirst, Accounted,
              Drained, Served, Joined, Alive, process, clock
<1>7. CASE Kill
  BY <1>7 DEF Kill, TypeOK, Quiet, ReapedFirst, Accounted,
              Drained, Served, Joined, Alive, process, clock
<1>8. CASE Wait
  BY <1>8 DEF Wait, TypeOK, Quiet, ReapedFirst, Accounted,
              Drained, Served, Joined, Alive, process, clock
<1>9. CASE Discard
  BY <1>9 DEF Discard, TypeOK, Quiet, ReapedFirst, Accounted,
              Drained, Served, Joined, Alive, process, clock
<1>10. CASE Finish
  BY <1>10 DEF Finish, TypeOK, Quiet, ReapedFirst, Accounted,
              Drained, Served, Joined, Alive, process, clock
<1>11. CASE NextCommand
  BY <1>11 DEF NextCommand, TypeOK, Quiet, ReapedFirst, Accounted,
              Drained, Served, Joined, Alive, process, clock
<1> QED BY <1>1, <1>2, <1>3, <1>4, <1>5, <1>6, <1>7, <1>8, <1>9, <1>10, <1>11 DEF MainStep

(* The pipe threads. *)
LEMMA ThreadInv ==
    ASSUME IInv, TypeOK', ThreadStep
    PROVE  IInv'
<1> USE DEF IInv
<1>1. CASE WriteInput
  <2>0. "stdin" \in Streams /\ "stdin" \notin Outputs /\ Outputs \subseteq Streams
    BY DEF Outputs, Streams
  <2>1. /\ thread["stdin"] = "running"
        /\ UNCHANGED <<command, pc, child, written, collected>>
        /\ \A stream \in Outputs :
              thread'[stream] = thread[stream] /\ pipe'[stream] = pipe[stream]
    BY <1>1, <2>0 DEF WriteInput, TypeOK
  <2>2. Quiet' /\ ReapedFirst'
    BY <2>0, <2>1 DEF Quiet, ReapedFirst, Joined
  <2>3. Accounted' /\ Drained' /\ Served'
    BY <2>1 DEF Accounted, Drained, Served, Joined, Alive
  <2> QED BY <2>2, <2>3
<1>2. ASSUME NEW stream \in Outputs, ReadOutput(stream) PROVE IInv'
  <2>0. stream \in Streams
    BY DEF Streams
  <2>1. thread[stream] = "running" /\ UNCHANGED <<command, pc, child, written>>
    BY <1>2 DEF ReadOutput
  <2>2. Quiet' /\ ReapedFirst'
    BY <2>0, <2>1 DEF Quiet, ReapedFirst, Joined
  <2>3. CASE /\ pipe[stream] > 0 /\ UNCHANGED thread
             /\ pipe' = [pipe EXCEPT ![stream] = @ - 1]
             /\ collected' = [collected EXCEPT ![stream] = @ + 1]
    <3>1. \A other \in Outputs : written'[other] = collected'[other] + pipe'[other]
      BY <2>0, <2>1, <2>3 DEF Accounted, TypeOK, Streams
    <3>2. Drained' /\ Served'
      BY <2>0, <2>1, <2>3 DEF Drained, Served, Joined, Alive, TypeOK, Streams
    <3> QED BY <2>2, <3>1, <3>2 DEF Accounted
  <2>4. CASE /\ pipe[stream] = 0 /\ ~Alive /\ UNCHANGED <<pipe, collected>>
             /\ thread' = [thread EXCEPT ![stream] = "ended"]
    <3>1. Accounted' /\ Served'
      BY <2>1, <2>4 DEF Accounted, Served, Alive
    <3>2. Drained'
      BY <2>0, <2>1, <2>4 DEF Drained, Joined, TypeOK
    <3> QED BY <2>2, <3>1, <3>2
  <2> QED BY <1>2, <2>3, <2>4 DEF ReadOutput
<1> QED BY <1>1, <1>2 DEF ThreadStep

(* The child, the signal handler and the clock. *)
LEMMA EnvironmentInv ==
    ASSUME IInv, TypeOK', ChildStep \/ Signal \/ Timeout \/ Terminated
    PROVE  IInv'
<1> USE DEF IInv
<1>1. CASE ChildUsesStream
  <2>0. "stdin" \in Streams /\ "stdin" \notin Outputs /\ Outputs \subseteq Streams
    BY DEF Outputs, Streams
  <2>1. /\ Alive /\ child'.state = child.state
        /\ UNCHANGED <<command, pc, thread, collected>>
    BY <1>1 DEF ChildUsesStream, Advance, TypeOK
  <2>2. Quiet' /\ ReapedFirst' /\ Served'
    BY <2>1 DEF Quiet, ReapedFirst, Served, Joined, Alive
  <2>3. CASE Stream \notin Piped(command)
    <3>1. UNCHANGED <<pipe, written>>
      BY <1>1, <2>3 DEF ChildUsesStream
    <3> QED BY <2>1, <2>2, <3>1 DEF Accounted, Drained, Joined
  <2>4. CASE Stream \in Piped(command) \cap Outputs
    <3> DEFINE s == Stream
    <3>1. /\ s \in Outputs /\ thread[s] = "running"
          /\ pipe' = [pipe EXCEPT ![s] = @ + 1]
          /\ written' = [written EXCEPT ![s] = @ + 1]
      BY <1>1, <2>1, <2>4 DEF ChildUsesStream, Served
    <3> HIDE DEF s
    <3>2. \A other \in Outputs : written'[other] = collected'[other] + pipe'[other]
      <4> SUFFICES ASSUME NEW other \in Outputs
                   PROVE  written'[other] = collected[other] + pipe'[other]
        BY <2>1
      <4>1. /\ written[other] \in Nat /\ collected[other] \in Nat /\ pipe[other] \in Nat
            /\ written[other] = collected[other] + pipe[other]
        BY <2>0, CommandAssumption DEF Accounted, TypeOK
      <4>2. CASE other = s
        <5>1. written'[s] = written[s] + 1 /\ pipe'[s] = pipe[s] + 1
          BY <2>0, <3>1 DEF TypeOK
        <5> QED BY <4>1, <4>2, <5>1
      <4>3. CASE other # s
        BY <2>0, <3>1, <4>1, <4>3 DEF TypeOK
      <4> QED BY <4>2, <4>3
    <3>3. Drained'
      BY <2>0, <2>1, <3>1 DEF Drained, Joined, TypeOK
    <3> QED BY <2>2, <3>2, <3>3 DEF Accounted
  <2>5. CASE Stream \in Piped(command) /\ Stream \notin Outputs
    <3>1. /\ UNCHANGED written
          /\ \A stream \in Outputs : pipe'[stream] = pipe[stream]
      BY <1>1, <2>0, <2>5 DEF ChildUsesStream, TypeOK
    <3> QED BY <2>1, <2>2, <3>1 DEF Accounted, Drained, Joined
  <2> QED BY <2>3, <2>4, <2>5
<1>2. CASE ChildExits
  BY <1>2 DEF ChildExits, TypeOK, Quiet, ReapedFirst, Accounted,
              Drained, Served, Joined, Alive
<1>3. CASE Signal \/ Timeout \/ Terminated
  BY <1>3 DEF Signal, Timeout, Terminated, process, vars, Quiet, ReapedFirst, Accounted,
              Drained, Served, Joined, Alive
<1> QED BY <1>1, <1>2, <1>3 DEF ChildStep

(* ... and every step keeps it. *)
LEMMA NextInv == IInv /\ [Next]_vars => IInv'
<1> SUFFICES ASSUME IInv, [Next]_vars PROVE IInv'
  OBVIOUS
<1>1. TypeOK'
  BY NextType DEF IInv
<1>2. CASE UNCHANGED vars
  BY <1>1, <1>2 DEF IInv, vars, process, Quiet, ReapedFirst, Accounted, Drained, Served,
                    Joined, Alive
<1> QED BY <1>1, <1>2, MainInv, ThreadInv, EnvironmentInv DEF Next

(* The invariant holds in every reachable state. *)
LEMMA Inductive == Spec => []IInv
BY InitInv, NextInv, PTL DEF Spec

(* However a command ends, wait_for_child_with_input returns with the      *)
(* child reaped and every pipe thread joined.                              *)
THEOREM NoOrphans == Spec => []NothingLeftRunning
<1>1. IInv => NothingLeftRunning
  BY DEF IInv, Quiet, NothingLeftRunning
<1> QED BY <1>1, Inductive, PTL

(* What a command hands back is all its child wrote.                       *)
THEOREM NothingCutShort == Spec => []OutputComplete
<1>1. IInv => OutputComplete
  <2> SUFFICES ASSUME IInv, pc = "returned" PROVE collected = written
    BY DEF OutputComplete
  <2>1. \A stream \in Outputs : pipe[stream] = 0
    BY DEF IInv, Quiet, Drained, Streams
  <2>2. \A stream \in Outputs : collected[stream] = written[stream]
    BY <2>1 DEF IInv, TypeOK, Accounted
  <2> QED BY <2>2 DEF IInv, TypeOK
<1> QED BY <1>1, Inductive, PTL
=============================================================================
