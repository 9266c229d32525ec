----------------------------- MODULE AtomicLock -----------------------------
(***************************************************************************)
(* What with_bucket_locks promises to its callers, without lock objects,   *)
(* requests, signals and crashes: a run enters all the buckets it asked    *)
(* for in one step, while no other run is inside any of them, and leaves   *)
(* them in one step.                                                       *)
(***************************************************************************)
CONSTANTS
    Runs,
    Requested   \* the buckets that each run asks for

VARIABLE inside \* the buckets that each run works on

Outside == [r \in Runs |-> {}]

Enter(r) ==
    /\ inside[r] = {}
    /\ \A s \in Runs : inside[s] \cap Requested[r] = {}
    /\ inside' = [inside EXCEPT ![r] = Requested[r]]

Leave(r) == inside' = [inside EXCEPT ![r] = {}]

Init == inside = Outside
Next == \E r \in Runs : Enter(r) \/ Leave(r)
Spec == Init /\ [][Next]_inside
=============================================================================
