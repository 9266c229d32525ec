---------------------------- MODULE CloudCommand ----------------------------
(***************************************************************************)
(* The Cloud SDK commands a run starts with (src/cloud.rs): set_project    *)
(* pipes a script into ssh, login captures the account and, when there is  *)
(* none, starts an interactive login.  Every command is a child process;   *)
(* wait_for_child_with_input polls it for its exit, the interrupt flag and *)
(* the timeout while one thread per pipe writes its input and drains its   *)
(* output, and joins the threads before it returns.                        *)
(*                                                                         *)
(* A child runs one of Programs, a sequence of the streams it reads or     *)
(* writes one unit of, in this order; it blocks on an empty or a full pipe *)
(* and it may stop for good at any point.                                  *)
(***************************************************************************)
EXTENDS Naturals, Sequences, AppError

CONSTANTS
    Programs,    \* what a child may do before it exits
    Capacity,    \* units a pipe holds
    InputSize,   \* units of the script
    MaxSignals   \* how many times SIGINT or SIGTERM arrives

Outputs == {"stdout", "stderr"}
Streams == Outputs \cup {"stdin"}

ASSUME CommandAssumption ==
    /\ Programs \subseteq Seq(Streams)
    /\ Capacity \in Nat \ {0} /\ InputSize \in Nat /\ MaxSignals \in Nat

VARIABLES
    command,      \* the command being run
    pc,           \* where wait_for_child_with_input is
    child,        \* the process: its state, its program and how far it is
    pipe,         \* the units in each pipe
    thread,       \* the thread that serves each pipe
    input,        \* units of the script that are still to be written
    written, collected,  \* per output: what the child wrote, what was read
    interrupted, signals, expired,  \* InterruptFlag; has the timeout passed?
    result

process == <<child, pipe, thread, input, written, collected>>
clock == <<interrupted, signals, expired>>
vars == <<command, pc, process, clock, result>>

(* Which streams run_script, run_capture and run_interactive connect. *)
Piped(name) ==
    CASE name = "set_project" -> Streams
      [] name = "account" -> Outputs
      [] OTHER -> {}

Commands == {"set_project", "account", "auth_login"}
Pcs == {"spawn", "tryWait", "interrupt", "timeout", "sleep", "kill", "wait", "discard",
        "finish", "returned", "end"}
ChildStates == {"none", "running", "exited", "failed", "killed", "reaped"}
Threads == {"none", "running", "ended", "failed"}

Alive == child.state = "running"
Joined(stream) == thread[stream] # "running"

-----------------------------------------------------------------------------
(* ssh(...).spawn and ChildPipes::new. *)
Spawn ==
    /\ pc = "spawn"
    /\ \E program \in Programs : child' = [state |-> "running", program |-> program, at |-> 1]
    /\ pipe' = [stream \in Streams |-> 0]
    /\ thread' = [stream \in Streams |->
                     IF stream \in Piped(command) THEN "running" ELSE "none"]
    /\ input' = InputSize
    /\ written' = [stream \in Outputs |-> 0] /\ collected' = [stream \in Outputs |-> 0]
    /\ expired' = FALSE
    /\ pc' = "tryWait"
    /\ UNCHANGED <<command, interrupted, signals, result>>

SpawnFails ==
    /\ pc = "spawn"
    /\ pc' = "returned" /\ result' = Err("Io")
    /\ UNCHANGED <<command, process, clock>>

(* The polling loop asks for the exit first, then for the flag, then for   *)
(* the timeout.                                                            *)
TryWait ==
    /\ pc = "tryWait"
    /\ pc' = IF Alive THEN "interrupt" ELSE "finish"
    /\ child' = IF Alive THEN child
                ELSE [child EXCEPT !.state = "reaped"]
    /\ result' = IF child.state = "failed" THEN Err("Command") ELSE NoError
    /\ UNCHANGED <<command, pipe, thread, input, written, collected, clock>>

CheckInterrupt ==
    /\ pc = "interrupt"
    /\ IF interrupted
       THEN pc' = "kill" /\ result' = Err("Interrupted")
       ELSE pc' = "timeout" /\ UNCHANGED result
    /\ UNCHANGED <<command, process, clock>>

CheckTimeout ==
    /\ pc = "timeout"
    /\ IF expired
       THEN pc' = "kill" /\ result' = Err("Message")
       ELSE pc' = "sleep" /\ UNCHANGED result
    /\ UNCHANGED <<command, process, clock>>

Sleep == pc = "sleep" /\ pc' = "tryWait" /\ UNCHANGED <<command, process, clock, result>>

(* Mutant: the threads are joined before the child is killed. *)
KillJoining ==
    /\ pc = "kill" /\ \A stream \in Streams : Joined(stream)
    /\ child' = IF Alive THEN [child EXCEPT !.state = "killed"] ELSE child
    /\ pc' = "wait"
    /\ UNCHANGED <<command, pipe, thread, input, written, collected, clock, result>>

(* terminate_child.  The child may have exited since try_wait. *)
Kill ==
    /\ pc = "kill"
    /\ child' = IF Alive THEN [child EXCEPT !.state = "killed"] ELSE child
    /\ pc' = "wait"
    /\ UNCHANGED <<command, pipe, thread, input, written, collected, clock, result>>

Wait ==
    /\ pc = "wait" /\ ~Alive
    /\ child' = [child EXCEPT !.state = "reaped"]
    /\ pc' = "discard"
    /\ UNCHANGED <<command, pipe, thread, input, written, collected, clock, result>>

(* Mutant: leaves the threads to themselves. *)
DiscardDetached ==
    /\ pc = "discard"
    /\ pc' = "returned"
    /\ UNCHANGED <<command, process, clock, result>>

(* ChildPipes::discard joins every thread. *)
Discard ==
    /\ pc = "discard" /\ \A stream \in Streams : Joined(stream)
    /\ pc' = "returned"
    /\ UNCHANGED <<command, process, clock, result>>

(* ChildPipes::finish joins them as well, and an error of the writer goes  *)
(* before the status of the child.  output_text rejects invalid UTF-8.     *)
Finish ==
    /\ pc = "finish" /\ \A stream \in Streams : Joined(stream)
    /\ IF thread["stdin"] = "failed" THEN result' = Err("Io")
       ELSE \/ UNCHANGED result
            \/ Piped(command) # {} /\ IsOk(result) /\ result' = Err("Message")
    /\ pc' = "returned"
    /\ UNCHANGED <<command, process, clock>>

(* set_project(project)?; login()?.  An account that is empty or unset     *)
(* starts the interactive login.                                           *)
NextCommand ==
    /\ pc = "returned"
    /\ \/ /\ ~IsOk(result) \/ command # "set_project"
          /\ pc' = "end" /\ UNCHANGED command
       \/ /\ IsOk(result)
          /\ \/ command = "set_project" /\ command' = "account"
             \/ command = "account" /\ command' = "auth_login"
          /\ pc' = "spawn"
    /\ UNCHANGED <<process, clock, result>>

MainStep ==
    \/ Spawn \/ SpawnFails \/ TryWait \/ CheckInterrupt \/ CheckTimeout \/ Sleep
    \/ Kill \/ Wait \/ Discard \/ Finish \/ NextCommand

-----------------------------------------------------------------------------
(* The pipe threads. *)

(* Mutant: a reader takes the exit of the child for the end of its output. *)
ReadOutputUntilExit(stream) ==
    /\ thread[stream] = "running"
    /\ IF Alive
       THEN /\ pipe[stream] > 0
            /\ pipe' = [pipe EXCEPT ![stream] = @ - 1]
            /\ collected' = [collected EXCEPT ![stream] = @ + 1]
            /\ UNCHANGED thread
       ELSE thread' = [thread EXCEPT ![stream] = "ended"] /\ UNCHANGED <<pipe, collected>>
    /\ UNCHANGED <<command, pc, child, input, written, clock, result>>

(* Mutant: nothing is read while the child runs. *)
ReadOutputAfterExit(stream) ==
    /\ thread[stream] = "running" /\ ~Alive
    /\ IF pipe[stream] > 0
       THEN /\ pipe' = [pipe EXCEPT ![stream] = @ - 1]
            /\ collected' = [collected EXCEPT ![stream] = @ + 1]
            /\ UNCHANGED thread
       ELSE thread' = [thread EXCEPT ![stream] = "ended"] /\ UNCHANGED <<pipe, collected>>
    /\ UNCHANGED <<command, pc, child, input, written, clock, result>>

(* spawn_reader: read_to_end ends once the child has closed its end. *)
ReadOutput(stream) ==
    /\ thread[stream] = "running"
    /\ \/ /\ pipe[stream] > 0
          /\ pipe' = [pipe EXCEPT ![stream] = @ - 1]
          /\ collected' = [collected EXCEPT ![stream] = @ + 1]
          /\ UNCHANGED thread
       \/ /\ pipe[stream] = 0 /\ ~Alive
          /\ thread' = [thread EXCEPT ![stream] = "ended"]
          /\ UNCHANGED <<pipe, collected>>
    /\ UNCHANGED <<command, pc, child, input, written, clock, result>>

(* Mutant: does not notice the end of its input. *)
WriteInputOnceMore ==
    /\ thread["stdin"] = "running"
    /\ IF ~Alive
       THEN thread' = [thread EXCEPT !["stdin"] = "failed"] /\ UNCHANGED <<pipe, input>>
       ELSE /\ pipe["stdin"] < Capacity
            /\ pipe' = [pipe EXCEPT !["stdin"] = @ + 1]
            /\ input' = input - 1
            /\ UNCHANGED thread
    /\ UNCHANGED <<command, pc, child, written, collected, clock, result>>

(* spawn_writer: write_all fails once nobody can read the pipe, and drops  *)
(* its end when it is done.                                                *)
WriteInput ==
    /\ thread["stdin"] = "running"
    /\ IF input = 0
       THEN thread' = [thread EXCEPT !["stdin"] = "ended"] /\ UNCHANGED <<pipe, input>>
       ELSE IF ~Alive
       THEN thread' = [thread EXCEPT !["stdin"] = "failed"] /\ UNCHANGED <<pipe, input>>
       ELSE /\ pipe["stdin"] < Capacity
            /\ pipe' = [pipe EXCEPT !["stdin"] = @ + 1]
            /\ input' = input - 1
            /\ UNCHANGED thread
    /\ UNCHANGED <<command, pc, child, written, collected, clock, result>>

ThreadStep == WriteInput \/ \E stream \in Outputs : ReadOutput(stream)

-----------------------------------------------------------------------------
(* The environment: the child, the signal handler and the clock. *)

Stream == child.program[child.at]
Advance == child' = [child EXCEPT !.at = @ + 1]

ChildUsesStream ==
    /\ Alive /\ child.at \in DOMAIN child.program
    /\ Advance
    /\ CASE Stream \notin Piped(command) -> UNCHANGED <<pipe, written>>
         [] Stream \in Piped(command) \cap Outputs ->
               /\ pipe[Stream] < Capacity
               /\ pipe' = [pipe EXCEPT ![Stream] = @ + 1]
               /\ written' = [written EXCEPT ![Stream] = @ + 1]
         [] OTHER ->
               /\ pipe["stdin"] > 0 \/ Joined("stdin")
               /\ pipe' = [pipe EXCEPT !["stdin"] = IF @ > 0 THEN @ - 1 ELSE 0]
               /\ UNCHANGED written
    /\ UNCHANGED <<command, pc, thread, input, collected, clock, result>>

ChildExits ==
    /\ Alive /\ child.at \notin DOMAIN child.program
    /\ \E state \in {"exited", "failed"} : child' = [child EXCEPT !.state = state]
    /\ UNCHANGED <<command, pc, pipe, thread, input, written, collected, clock, result>>

ChildStep == ChildUsesStream \/ ChildExits

Signal ==
    /\ pc # "end" /\ signals < MaxSignals /\ ~interrupted
    /\ interrupted' = TRUE /\ signals' = signals + 1
    /\ UNCHANGED <<command, pc, process, expired, result>>

(* SSH_COMMAND_TIMEOUT passes. *)
Timeout ==
    /\ pc \notin {"spawn", "end"} /\ ~expired
    /\ expired' = TRUE
    /\ UNCHANGED <<command, pc, process, interrupted, signals, result>>

Terminated == pc = "end" /\ UNCHANGED vars

Next == MainStep \/ ThreadStep \/ ChildStep \/ Signal \/ Timeout \/ Terminated

Init ==
    /\ command = "set_project" /\ pc = "spawn"
    /\ child = [state |-> "none", program |-> <<>>, at |-> 1]
    /\ pipe = [stream \in Streams |-> 0]
    /\ thread = [stream \in Streams |-> "none"]
    /\ input = 0
    /\ written = [stream \in Outputs |-> 0] /\ collected = [stream \in Outputs |-> 0]
    /\ interrupted = FALSE /\ signals = 0 /\ expired = FALSE
    /\ result = NoError

Spec == Init /\ [][Next]_vars

(* The operating system schedules the main thread and every pipe thread.   *)
(* Neither the child nor the clock is assumed to go on.                    *)
FairSpec ==
    /\ Spec
    /\ WF_vars(MainStep) /\ WF_vars(WriteInput)
    /\ \A stream \in Outputs : WF_vars(ReadOutput(stream))

-----------------------------------------------------------------------------
(* The shape of every variable. *)
TypeOK ==
    /\ command \in Commands /\ pc \in Pcs
    /\ child \in [state : ChildStates, program : Programs \cup {<<>>}, at : Nat]
    /\ pipe \in [Streams -> 0..Capacity] /\ thread \in [Streams -> Threads]
    /\ input \in 0..InputSize
    /\ written \in [Outputs -> Nat] /\ collected \in [Outputs -> Nat]
    /\ interrupted \in BOOLEAN /\ signals \in 0..MaxSignals /\ expired \in BOOLEAN
    /\ result \in AppErrors

(* However a command ends, by itself, by a signal, by the timeout or in a  *)
(* race of these, wait_for_child_with_input returns with the child reaped  *)
(* and no thread left on its pipes: no zombie and no late write is there   *)
(* while the rollback of a workflow runs (terminate_child).                *)
NothingLeftRunning ==
    pc \in {"returned", "end"} =>
        child.state \in {"none", "reaped"} /\ \A stream \in Streams : Joined(stream)

(* The output of a command that returns without an error is everything the *)
(* child wrote, also what was still in a pipe when it exited: an account   *)
(* or a token is never cut short.                                          *)
OutputComplete ==
    pc = "returned" /\ IsOk(result) => collected = written

(* A child that goes on is never kept waiting: whatever order it reads and *)
(* writes in and however small the pipes are, every command returns, with  *)
(* no help from a signal or the timeout (ChildPipes: "a child blocked on a *)
(* full pipe cannot deadlock the polling loop").                           *)
ReturnsWhenChildRuns == WF_vars(ChildStep) => <>(pc = "end")

(* A child that hangs, before, while or after it uses its pipes, does not  *)
(* hang the run: the timeout ends every command.                           *)
ReturnsByTimeout == WF_vars(Timeout) => <>(pc = "end")
=============================================================================
