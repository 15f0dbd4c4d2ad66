------------------------------ MODULE Readiness ------------------------------
(***************************************************************************)
(* Whether an instance should be sent traffic: readiness() of              *)
(* system.service.ts behind GET /health. Probes are not cached, ask both   *)
(* dependencies at once and wait for neither longer than the timeout.      *)
(***************************************************************************)
EXTENDS Naturals

CONSTANTS
    Timeout,        \* READINESS_TIMEOUT_MS, in ticks
    NULL

ReadinessAssumption ==
    /\ Timeout \in Nat \ {0}
    /\ NULL \notin {"ok", "unready"}

VARIABLES
    up,         \* per dependency: whether it answers
    downFor,    \* per dependency: for how long it has not
    probe       \* its age, whom it waits for, what it knows

vars == <<up, downFor, probe>>

Dependency == {"database", "redis"}
NoProbe == [age |-> 0, pending |-> {}, status |-> NULL]

Init ==
    /\ up = [d \in Dependency |-> TRUE]
    /\ downFor = [d \in Dependency |-> 0]
    /\ probe = NoProbe

-----------------------------------------------------------------------------
Probe ==
    /\ probe.pending = {}
    /\ probe' = [age |-> 0, pending |-> Dependency, status |-> "ok"]
    /\ UNCHANGED <<up, downFor>>

\* The status is ok if every check is, and known when all have settled.
Settled(d, ok) ==
    [probe EXCEPT !.pending = @ \ {d}, !.status = IF ok THEN @ ELSE "unready"]

\* timedCheck: an answer, or an error.
Answers(d) ==
    /\ d \in probe.pending
    /\ probe' = Settled(d, up[d])
    /\ UNCHANGED <<up, downFor>>

\* withTimeout: the timer wins the race.
TimesOut(d) ==
    /\ d \in probe.pending
    /\ probe.age = Timeout
    /\ probe' = Settled(d, FALSE)
    /\ UNCHANGED <<up, downFor>>

Fails(d) ==
    /\ up[d]
    /\ up' = [up EXCEPT ![d] = FALSE]
    /\ UNCHANGED <<downFor, probe>>

Recovers(d) ==
    /\ ~up[d]
    /\ up' = [up EXCEPT ![d] = TRUE]
    /\ downFor' = [downFor EXCEPT ![d] = 0]
    /\ UNCHANGED probe

\* Time passes; the timer of a check goes off when it is due. An answer that
\* was given is acted on within the tick.
Tick ==
    /\ probe.pending # {} => probe.age < Timeout
    /\ probe' = IF probe.pending = {} THEN NoProbe
                ELSE [probe EXCEPT !.age = @ + 1]
    /\ downFor' = [d \in Dependency |->
                      IF up[d] THEN 0
                      ELSE IF downFor[d] > Timeout THEN downFor[d]
                      ELSE downFor[d] + 1]
    /\ UNCHANGED up

Next ==
    \/ \E d \in Dependency : Answers(d) \/ TimesOut(d) \/ Fails(d) \/ Recovers(d)
    \/ Probe \/ Tick

Spec == Init /\ [][Next]_vars

-----------------------------------------------------------------------------
\* Types, over system.service.ts readiness.
TypeOK ==
    /\ up \in [Dependency -> BOOLEAN]
    /\ downFor \in [Dependency -> 0..(Timeout + 1)]
    /\ probe \in [age : 0..Timeout, pending : SUBSET Dependency,
                  status : {NULL, "ok", "unready"}]

\* A probe never sends traffic to an instance one of whose dependencies had
\* been gone for longer than the probe may take: an answer that came early
\* does not stand for the one that is awaited (readiness, timedCheck).
ReadyWasUp ==
    (probe.pending = {} /\ probe.status = "ok") =>
        \A d \in Dependency : downFor[d] <= Timeout

\* What it rests on: a dependency that answered well can have been gone since
\* then at the most.
ProbeInv ==
    /\ TypeOK
    /\ \A d \in Dependency :
           /\ up[d] => downFor[d] = 0
           /\ (probe.status = "ok" /\ d \notin probe.pending) => downFor[d] <= probe.age
=============================================================================
