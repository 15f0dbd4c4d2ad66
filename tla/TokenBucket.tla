----------------------------- MODULE TokenBucket -----------------------------
(***************************************************************************)
(* The refill arithmetic of analytics/token-bucket.ts, in exact fractions: *)
(* a balance is counted in units of which a token has Minute, so that a    *)
(* millisecond refills PerMinute of them and nothing is rounded that the   *)
(* code does not round.                                                    *)
(***************************************************************************)
EXTENDS Integers

CONSTANTS
    Capacity,       \* burst, in tokens
    PerMinute,      \* sustained rate, in tokens
    Minute          \* a minute, in milliseconds

BucketAssumption ==
    /\ Capacity \in Nat \ {0}
    /\ PerMinute \in Nat \ {0}
    /\ Minute \in Nat \ {0}

Full == Capacity * Minute

Lesser(a, b) == IF a < b THEN a ELSE b
CeilDiv(a, b) == (a + b - 1) \div b

State == [tokens : 0..Full, ts : Int]

fullBucket(now) == [tokens |-> Full, ts |-> now]

refill(state, now) ==
    IF now <= state.ts THEN state
    ELSE [tokens |-> Lesser(Full, state.tokens + (now - state.ts) * PerMinute),
          ts |-> now]

\* Milliseconds until the balance has grown by units.
msFor(units) == CeilDiv(units, PerMinute)

consume(state, now) ==
    LET refilled == refill(state, now)
        allowed == refilled.tokens >= Minute
        after == IF allowed THEN [refilled EXCEPT !.tokens = @ - Minute]
                 ELSE refilled
    IN  [allowed   |-> allowed,
         state     |-> after,
         remaining |-> after.tokens \div Minute,
         retry     |-> IF allowed THEN 0 ELSE msFor(Minute - after.tokens),
         reset     |-> msFor(Full - after.tokens)]
=============================================================================
