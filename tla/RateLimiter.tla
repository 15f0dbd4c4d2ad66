----------------------------- MODULE RateLimiter -----------------------------
(***************************************************************************)
(* One bucket of the shared rate limiter: a Redis hash that a Lua script   *)
(* reads, refills, spends and writes in one step, at the time that the API *)
(* process read from its own clock before it sent the command.  Redis      *)
(* forgets the hash when it has not been touched for its TTL, by Redis's.  *)
(***************************************************************************)
EXTENDS TokenBucket

CONSTANTS
    MaxSkew,        \* how far the times that are sent may be apart
    Slack,          \* what ttlMs adds to a full refill: 60 seconds
    MaxTime,        \* bound on the time that is modelled
    MaxLosses,      \* bound on requests that Redis does not answer
    NULL

\* What Redis keeps: the balance, its time, and when it is forgotten.
Hash == [state : State, expires : Nat]

LimiterAssumption ==
    /\ BucketAssumption
    /\ NULL \notin Hash
    /\ MaxSkew \in Nat
    /\ MaxSkew <= Slack
    /\ Slack \in Nat
    /\ MaxTime \in Nat
    /\ MaxLosses \in Nat

VARIABLES
    time,           \* Redis's clock
    bucket,         \* the hash and when it expires
    decision,       \* the last one, NULL when it was made without Redis
    since,          \* history: when the window that is watched began,
    spent,          \* history: and the requests Redis let through in it
    losses

vars == <<time, bucket, decision, since, spent, losses>>

TypeOK ==
    /\ time \in Nat
    /\ bucket \in {NULL} \cup Hash
    /\ decision \in {NULL} \cup
          [allowed : BOOLEAN, remaining : Nat, retry : Nat, reset : Nat,
           at : Nat, before : State]
    /\ since \in Nat
    /\ spent \in Nat
    /\ losses \in Nat

Init ==
    /\ time = 0
    /\ bucket = NULL
    /\ decision = NULL
    /\ since = 0
    /\ spent = 0
    /\ losses = 0

Tick ==
    /\ time < MaxTime
    /\ time' = time + 1
    /\ UNCHANGED <<bucket, decision, since, spent, losses>>

\* Whichever window one looks at.
Watch ==
    /\ since # time
    /\ since' = time
    /\ spent' = 0
    /\ UNCHANGED <<time, bucket, decision, losses>>

\* Mutant: the bucket is forgotten after the slack alone.
ShortTtl == Slack

\* ttlMs: a full refill, and the slack.
Ttl == CeilDiv(Full, PerMinute) + Slack

Expired == bucket = NULL \/ bucket.expires <= time

\* What HMGET finds, or a full bucket.
Stored(now) == IF Expired THEN fullBucket(now) ELSE bucket.state

\* The script moves the balance forwards only.
Refilled(now) ==
    LET s == Stored(now)
    IN  IF now > s.ts
        THEN [tokens |-> Lesser(Full, s.tokens + (now - s.ts) * PerMinute),
              ts |-> now]
        ELSE s

\* CONSUME_SCRIPT.
Consume(now) ==
    LET s == Refilled(now)
        allowed == s.tokens >= Minute
        left == IF allowed THEN s.tokens - Minute ELSE s.tokens
    IN
    /\ bucket' = [state   |-> [tokens |-> left, ts |-> s.ts],
                  expires |-> time + Ttl]
    /\ decision' =
          [allowed   |-> allowed,
           remaining |-> left \div Minute,
           retry     |-> IF allowed THEN 0 ELSE msFor(Minute - left),
           reset     |-> msFor(Full - left),
           at        |-> now,
           before    |-> Stored(now)]
    /\ spent' = IF allowed THEN spent + 1 ELSE spent
    /\ UNCHANGED <<time, since, losses>>

\* Redis does not answer: the policy decides, and nothing is metered.
Unmetered ==
    /\ losses < MaxLosses
    /\ losses' = losses + 1
    /\ decision' = NULL
    /\ UNCHANGED <<time, bucket, since, spent>>

Next ==
    \/ Tick
    \/ Watch
    \/ \E now \in time..(time + MaxSkew) : Consume(now)
    \/ Unmetered

Spec == Init /\ [][Next]_vars

-----------------------------------------------------------------------------
\* In any window, Redis lets through no more than a burst and what the rate adds,
\* for all processes together, though their clocks disagree, their commands
\* overtake one another and the bucket expires.
BurstPlusRate ==
    spent * Minute <= Full + (time - since + MaxSkew) * PerMinute

\* The comment on the script: it and the pure functions are "expected to agree
\* token for token".
AgreesWithTokenBucket ==
    decision # NULL =>
        LET d == consume(decision.before, decision.at)
        IN
        /\ d.allowed = decision.allowed
        /\ d.remaining = decision.remaining
        /\ d.retry = decision.retry
        /\ d.reset = decision.reset
        /\ d.state = bucket.state

\* A client that waits as long as it is told finds a token, and one that waits
\* a millisecond less does not, when nobody else spends and the process that
\* asks has not been overtaken by one whose clock is ahead.
RetryAfterIsExact ==
    decision # NULL /\ ~decision.allowed /\ decision.at >= bucket.state.ts =>
        LET then == decision.at + decision.retry
        IN
        /\ consume(bucket.state, then).allowed
        /\ ~consume(bucket.state, then - 1).allowed

-----------------------------------------------------------------------------
\* The invariant that the proof in ServicesProofs uses.

\* What the rate adds from a time to another, if that is later.
Refill(from, to) == IF to > from THEN (to - from) * PerMinute ELSE 0

\* What was spent in the window and what is left in the bucket are a burst and
\* what the rate added between the beginning of the window and the bucket's own
\* time, and the hash outlives the time that fills an empty bucket.
BucketInv ==
    /\ since <= time
    /\ bucket = NULL => spent = 0
    /\ bucket # NULL =>
          LET s == bucket.state
          IN
          /\ s.ts <= time + MaxSkew
          /\ (bucket.expires - s.ts) * PerMinute >= Full
          /\ spent > 0 => s.ts >= since
          /\ spent * Minute + s.tokens <= Full + Refill(since, s.ts)

\* The last decision is about the bucket as it is.
DecisionInv ==
    decision # NULL =>
        /\ bucket # NULL
        /\ decision.at <= bucket.state.ts
        /\ ~decision.allowed =>
              /\ bucket.state.tokens < Minute
              /\ decision.retry = msFor(Minute - bucket.state.tokens)

LimiterInv == TypeOK /\ BucketInv /\ DecisionInv /\ AgreesWithTokenBucket
=============================================================================
