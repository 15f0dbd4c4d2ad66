------------------------------ MODULE MCServices ------------------------------
(***************************************************************************)
(* The components that share nothing but the database server, one at a     *)
(* time: the initial state chooses the component that runs and the others  *)
(* stay as they are, so that their states add up instead of multiplying.   *)
(* Order intake is extended, the others are instances.                     *)
(***************************************************************************)
EXTENDS OrderIntake

CONSTANTS
    \* click pipeline: one visitor, whose clicks all fall on the same key
    ClickId, Malformed, Invalid, Orphan, visitor, Worker, Replayer, BatchMax,
    Faults, MaxReplays,
    \* order intake: alice has one link, bob the others
    aliceLink, alice, bob,
    \* idempotency keys: one of the requests carries another body
    HttpRequest, Key, KeyOf, Body, BodyOf, key, body, otherBody, oddRequest,
    \* import jobs
    mixed, overlapping, headless, good, again, poison, badLine, unlinked, fresh,
    BatchSize, ProgressEvery,
    \* notification outbox
    Note, Optional, Limit,
    \* rate limiter
    Capacity, PerMinute, Minute, MaxSkew, Slack, MaxTime,
    \* several of them
    Instance, MaxAttempts

VARIABLES
    component,
    queue, dlq, parked, window, stored, clickCount, drain, replaying, pushed,
    opened, givenUp, replays,
    row, keyed, answer, done, vanished,
    file, job, jobs, imported, worker,
    lease, createdAt, status, attempts, suppressed, optedOut, backedOff, pass,
    tries, received, everOff, overlaps,
    time, bucket, decision, since, spent

clickVars ==
    <<queue, dlq, parked, window, stored, clickCount, drain, replaying, pushed,
      opened, givenUp, replays>>
intakeVars ==
    <<campaign, clicks, conversion, subscription, request, sales, renewals>>
keyVars == <<row, keyed, answer, done, vanished>>
importVars == <<file, job, jobs, imported, worker>>
noteVars ==
    <<lease, createdAt, status, attempts, suppressed, optedOut, backedOff, pass,
      tries, received, everOff, overlaps>>
limiterVars == <<time, bucket, decision, since, spent>>

Clicks == INSTANCE ClickPipeline WITH
    Click <- ClickId,
    Visitor <- {visitor},
    VisitorOf <- [c \in ClickId |-> visitor]

OwnerOf == [l \in Link |-> IF l = aliceLink THEN alice ELSE bob]
RenewedBy == [b \in Billing |-> CHOOSE o \in Order : TRUE]

Keys == INSTANCE IdempotencyKeys WITH
    Request <- HttpRequest,
    request <- keyed

OneKey == [q \in HttpRequest |-> key]
OddBody == [q \in HttpRequest |-> IF q = oddRequest THEN otherBody ELSE body]

\* A line of the overlapping file has the order id of one in the mixed file.
Lines == {good, again, poison, badLine, unlinked, fresh}

Imports == INSTANCE ImportJobs WITH
    Job <- {mixed, overlapping, headless},
    Row <- Lines,
    File <- [j \in {mixed, overlapping, headless} |->
                CASE j = mixed       -> <<good, poison, badLine>>
                  [] j = overlapping -> <<again, unlinked, fresh>>
                  [] OTHER           -> <<good>>],
    Headless <- {headless},
    Order <- Lines,
    OrderOf <- [r \in Lines |-> IF r = again THEN good ELSE r],
    Bad <- {badLine},
    Unlinked <- {unlinked},
    Poison <- {poison},
    created <- jobs,
    conversion <- imported

Notes == INSTANCE NotificationOutbox

Limiter == INSTANCE RateLimiter

ASSUME ServicesAssumption ==
    /\ Clicks!ClickAssumption
    /\ IntakeAssumption
    /\ Keys!KeyAssumption
    /\ Imports!ImportAssumption
    /\ Notes!NoteAssumption
    /\ Limiter!LimiterAssumption

ServicesInit ==
    /\ component \in {"clicks", "intake", "keys", "imports", "notes", "limiter"}
    /\ Clicks!Init
    /\ Init
    /\ component = "intake"
       \/ campaign = CHOOSE c \in [model : Models, status : {"ACTIVE"}] : TRUE
    /\ Keys!Init
    /\ Imports!Init
    /\ Notes!Init
    /\ Limiter!Init

ServicesNext ==
    \/ /\ component = "clicks"
       /\ Clicks!Next
       /\ UNCHANGED <<component, intakeVars, keyVars, importVars, noteVars,
                      limiterVars>>
    \/ /\ component = "intake"
       /\ Next
       /\ UNCHANGED <<component, clickVars, keyVars, importVars, noteVars,
                      limiterVars>>
    \/ /\ component = "keys"
       /\ Keys!Next
       /\ UNCHANGED <<component, clickVars, intakeVars, importVars, noteVars,
                      limiterVars>>
    \/ /\ component = "imports"
       /\ Imports!Next
       /\ UNCHANGED <<component, clickVars, intakeVars, keyVars, noteVars,
                      limiterVars>>
    \/ /\ component = "notes"
       /\ Notes!Next
       /\ UNCHANGED <<component, clickVars, intakeVars, keyVars, importVars,
                      limiterVars>>
    \/ /\ component = "limiter"
       /\ Limiter!Next
       /\ UNCHANGED <<component, clickVars, intakeVars, keyVars, importVars,
                      noteVars>>

\* Only the click drains are assumed to be scheduled.
ServicesSpec ==
    /\ ServicesInit
    /\ [][ServicesNext]_<<component, losses, clickVars, intakeVars, keyVars, importVars,
                  noteVars, limiterVars>>
    /\ Clicks!DrainFairness

ServicesTypeOK ==
    /\ Clicks!TypeOK
    /\ TypeOK
    /\ Keys!TypeOK
    /\ Imports!TypeOK
    /\ Notes!TypeOK
    /\ Limiter!TypeOK

\* No click is lost, doubled or counted twice, and only what cannot be stored
\* is given up, in its time.
ClicksAccountedFor ==
    /\ Clicks!ClicksAccountedFor
    /\ Clicks!PoisonIsIsolated
    /\ Clicks!GivenUpInTime
    /\ Clicks!CountedOncePerWindow

ClicksAreStored == Clicks!ClicksAreStored

\* A request sent again is answered, not done again.
RetryIsReplay == Keys!WorkDoneOnce /\ Keys!ReplayIsTheAnswer

ImportsAccountedFor == Imports!ImportsAccountedFor /\ Imports!OnlyBadRowsFail
NotesReceived == Notes!SentMeansReceived /\ Notes!TriesAreBounded

\* The limiter in Lua is the bucket of the package, and keeps its promise.
LimitIsKept ==
    /\ Limiter!BurstPlusRate
    /\ Limiter!AgreesWithTokenBucket
    /\ Limiter!RetryAfterIsExact
=============================================================================
