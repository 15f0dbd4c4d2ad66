--------------------------- MODULE SchedulerLease ---------------------------
(***************************************************************************)
(* withLease: a scheduled job runs on the API process that holds the       *)
(* job's Redis key.  The key names the process, not the tick, and expires  *)
(* unless it is renewed; renewal and release compare the name first.       *)
(* Time is left out: LeaseLapses is the expiry, and a renewal that reaches *)
(* Redis in time is a step that changes nothing.                           *)
(***************************************************************************)
CONSTANTS
    Instance,       \* API processes, by INSTANCE_ID
    NULL

ASSUME LeaseAssumption == NULL \notin Instance

VARIABLE lease      \* the process named by the key, NULL when there is none

LeaseTypeOK == lease \in Instance \cup {NULL}
LeaseInit == lease = NULL

AcquireAlways(i) == lease' = i          \* mutant: SET without NX

\* SET key INSTANCE_ID PX ttl NX.
Acquire(i) == lease = NULL /\ lease' = i

\* The compare-and-delete script in the finally block.
Release(i) == lease' = IF lease = i THEN NULL ELSE lease

\* That script fails: the key is left to its TTL.
ReleaseFails == lease' = lease

Lapse == lease # NULL /\ lease' = NULL
=============================================================================
