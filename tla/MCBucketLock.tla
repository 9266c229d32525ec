---------------------------- MODULE MCBucketLock ----------------------------
(***************************************************************************)
(* Small instances of BucketLock: two runs that name two buckets in        *)
(* opposite orders, and a third one for a single bucket.                   *)
(***************************************************************************)
EXTENDS BucketLock

CONSTANTS r1, r2, r3

MCWanted == [r \in Runs |->
                CASE r = r1 -> <<2, 1, 2>> [] r = r2 -> <<1, 2>> [] OTHER -> <<2>>]
=============================================================================
