---------------------------- MODULE ClickPipeline ----------------------------
(***************************************************************************)
(* Clicks on their way from the redirect service to PostgreSQL: an LPUSH   *)
(* at the edge, workers that RPOP a batch and commit it, bisecting a batch *)
(* that fails, and the dead-letter and parked lists for what they could    *)
(* not store.  Nothing guards the workers: any number of drains share the  *)
(* queue.  Each Redis command and each transaction is a step; what a drain *)
(* has popped and not yet stored is only in its memory.                    *)
(***************************************************************************)
EXTENDS Integers, FiniteSets, SequencesExt, Bisection

CONSTANTS
    Click,          \* messages that may be pushed
    Malformed,      \* those that are not JSON,
    Invalid,        \* that fail the schema,
    Orphan,         \* and whose foreign key does not resolve
    Visitor,
    VisitorOf,      \* the attribution cookie each click carries
    Worker,         \* drains that may be in progress
    Replayer,       \* replays that may be in progress
    MaxAttempts,    \* MAX_ATTEMPTS
    BatchMax,       \* BATCH_MAX
    Faults,         \* faults considered besides crashes
    MaxLosses,      \* bound on crashes and other faults
    MaxReplays,     \* bound on messages popped by replays
    NULL

\* A message with the attempts its envelope records, none for a bare payload.
Message == [click : Click, counted : BOOLEAN, attempts : Nat]

ClickAssumption ==
    /\ Malformed \cup Invalid \cup Orphan \subseteq Click
    /\ VisitorOf \in [Click -> Visitor]
    /\ MaxAttempts \in Nat \ {0}
    /\ BatchMax \in Nat \ {0}
    /\ Faults \subseteq {"read fails", "write fails", "commit fails"}
    /\ MaxLosses \in Nat
    /\ MaxReplays \in Nat
    /\ IsFiniteSet(Worker)
    /\ IsFiniteSet(Replayer)
    /\ NULL \notin Message

VARIABLES
    queue,      \* click_events, newest first
    dlq,        \* click_events_dlq
    parked,     \* click_events_parked
    window,     \* visitors whose deduplication key is set
    stored,     \* rows of each click
    clickCount, \* the counter of the tracking link
    drain,      \* each drain in progress
    replaying,  \* the message each replay holds
    pushed,     \* history: clicks that reached the queue
    opened,     \* history: deduplication windows opened
    givenUp,    \* history: times a drain gave up on each click
    losses,
    replays

listVars == <<queue, dlq, parked>>
rowVars == <<stored, clickCount>>
vars == <<listVars, window, rowVars, drain, replaying, pushed, opened, givenUp,
          losses, replays>>

Good == Click \ (Malformed \cup Invalid \cup Orphan)

\* A drain pops, then commits the slices in work, then buries what failed.
Drain == [step: {"idle", "popping", "committing"}, pops: Nat,
          events: Seq(Message), work: Seq(Seq(Message)), failed: Seq(Message)]
IdleDrain == [step |-> "idle", pops |-> 0, events |-> <<>>, work |-> <<>>,
              failed |-> <<>>]

TypeOK ==
    /\ queue \in Seq(Message)
    /\ dlq \in Seq(Message)
    /\ parked \in Seq(Message)
    /\ window \subseteq Visitor
    /\ stored \in [Click -> Nat]
    /\ clickCount \in Nat
    /\ drain \in [Worker -> Drain]
    /\ replaying \in [Replayer -> Message \cup {NULL}]
    /\ pushed \subseteq Click
    /\ opened \in Nat
    /\ givenUp \in [Click -> Nat]
    /\ losses \in Nat
    /\ replays \in Nat

Init ==
    /\ queue = <<>>
    /\ dlq = <<>>
    /\ parked = <<>>
    /\ window = {}
    /\ stored = [c \in Click |-> 0]
    /\ clickCount = 0
    /\ drain = [w \in Worker |-> IdleDrain]
    /\ replaying = [r \in Replayer |-> NULL]
    /\ pushed = {}
    /\ opened = 0
    /\ givenUp = [c \in Click |-> 0]
    /\ losses = 0
    /\ replays = 0

LPush(m, list) == <<m>> \o list

-----------------------------------------------------------------------------
\* The redirect: SET NX decides whether the click counts, and the click is
\* pushed.
Visit(c) ==
    LET v == VisitorOf[c]
    IN
    /\ c \notin pushed \cup Malformed \cup Invalid
    /\ queue' = LPush([click |-> c, counted |-> v \notin window,
                       attempts |-> 0], queue)
    /\ window' = window \cup {v}
    /\ opened' = IF v \in window THEN opened ELSE opened + 1
    /\ pushed' = pushed \cup {c}
    /\ UNCHANGED <<dlq, parked, rowVars, drain, replaying, givenUp, losses,
                   replays>>

\* The push fails once the key is set; nobody waits for it.
VisitLost(v) ==
    /\ "write fails" \in Faults
    /\ losses < MaxLosses
    /\ losses' = losses + 1
    /\ window' = window \cup {v}
    /\ opened' = IF v \in window THEN opened ELSE opened + 1
    /\ UNCHANGED <<listVars, rowVars, drain, replaying, pushed, givenUp, replays>>

\* The worker does not know who else writes to the list, or what.
Produce(c) ==
    /\ c \in (Malformed \cup Invalid) \ pushed
    /\ queue' = LPush([click |-> c, counted |-> FALSE, attempts |-> 0], queue)
    /\ pushed' = pushed \cup {c}
    /\ UNCHANGED <<dlq, parked, window, rowVars, drain, replaying, opened,
                   givenUp, losses, replays>>

\* The deduplication key expires.
WindowCloses(v) ==
    /\ v \in window
    /\ window' = window \ {v}
    /\ UNCHANGED <<listVars, rowVars, drain, replaying, pushed, opened, givenUp,
                   losses, replays>>

-----------------------------------------------------------------------------
\* drainClickEvents.

\* RPOP: malformed JSON is dropped, what fails the schema is buried before the
\* next RPOP, the rest goes into the batch.
Pop(w) ==
    LET d == drain[w]
        m == Last(queue)
    IN
    /\ d.step \in {"idle", "popping"}
    /\ d.failed = <<>>
    /\ d.pops < BatchMax
    /\ queue # <<>>
    /\ queue' = Front(queue)
    /\ drain' = [drain EXCEPT ![w] =
          [step   |-> "popping",
           pops   |-> d.pops + 1,
           events |-> IF m.click \in Malformed \cup Invalid THEN d.events
                      ELSE Append(d.events, m),
           work   |-> <<>>,
           failed |-> IF m.click \in Invalid THEN <<m>> ELSE <<>>]]
    /\ UNCHANGED <<dlq, parked, window, rowVars, replaying, pushed, opened,
                   givenUp, losses, replays>>

\* Mutant: a batch waits until it is full.
FlushWhenFull(w) ==
    LET d == drain[w]
    IN
    /\ d.step = "popping"
    /\ d.failed = <<>>
    /\ d.pops = BatchMax
    /\ drain' = [drain EXCEPT ![w] =
          IF d.events = <<>> THEN IdleDrain
          ELSE [d EXCEPT !.step = "committing", !.events = <<>>,
                         !.work = <<d.events>>]]
    /\ UNCHANGED <<listVars, window, rowVars, replaying, pushed, opened,
                   givenUp, losses, replays>>

\* The queue is empty or the batch is full: bisectCommit begins.
Flush(w) ==
    LET d == drain[w]
    IN
    /\ d.step = "popping"
    /\ d.failed = <<>>
    /\ queue = <<>> \/ d.pops = BatchMax
    /\ drain' = [drain EXCEPT ![w] =
          IF d.events = <<>> THEN IdleDrain
          ELSE [d EXCEPT !.step = "committing", !.events = <<>>,
                         !.work = <<d.events>>]]
    /\ UNCHANGED <<listVars, window, rowVars, replaying, pushed, opened,
                   givenUp, losses, replays>>

Rows(slice, c) == Cardinality({i \in DOMAIN slice : slice[i].click = c})
Counted(slice) == Cardinality({i \in DOMAIN slice : slice[i].counted})

Written(slice) ==
    /\ stored' = [c \in Click |-> stored[c] + Rows(slice, c)]
    /\ clickCount' = clickCount + Counted(slice)

\* flushBatch: one transaction for the rows and the counters of a slice.
Commit(w) ==
    LET d == drain[w]
    IN
    /\ d.step = "committing"
    /\ d.work # <<>>
    /\ \A i \in DOMAIN Head(d.work) : Head(d.work)[i].click \notin Orphan
    /\ Written(Head(d.work))
    /\ drain' = [drain EXCEPT ![w].work = Tail(@)]
    /\ UNCHANGED <<listVars, window, replaying, pushed, opened, givenUp, losses,
                   replays>>

\* The slice fails, and is bisected.
CommitFails(w) ==
    LET d == drain[w]
    IN
    /\ d.step = "committing"
    /\ d.work # <<>>
    /\ \/ /\ \E i \in DOMAIN Head(d.work) : Head(d.work)[i].click \in Orphan
          /\ UNCHANGED losses
       \/ /\ "commit fails" \in Faults
          /\ losses < MaxLosses
          /\ losses' = losses + 1
    /\ drain' = [drain EXCEPT ![w] = Bisect(d)]
    /\ UNCHANGED <<listVars, window, rowVars, replaying, pushed, opened,
                   givenUp, replays>>

\* Mutant: it records the attempts left.
CountdownEnvelope(m) == [m EXCEPT !.attempts = @ - 1]
Envelope(m) == [m EXCEPT !.attempts = @ + 1]

\* deadLetter, of the first event that failed.
Bury(w) ==
    LET d == drain[w]
        m == Envelope(Head(d.failed))
    IN
    /\ d.failed # <<>>
    /\ d.work = <<>>
    /\ drain' = [drain EXCEPT ![w].failed = Tail(@)]
    /\ givenUp' = [givenUp EXCEPT ![m.click] = @ + 1]
    /\ \/ /\ IF m.attempts >= MaxAttempts
             THEN parked' = LPush(m, parked) /\ UNCHANGED dlq
             ELSE dlq' = LPush(m, dlq) /\ UNCHANGED parked
          /\ UNCHANGED losses
       \/ /\ "write fails" \in Faults           \* and is logged
          /\ losses < MaxLosses
          /\ losses' = losses + 1
          /\ UNCHANGED <<dlq, parked>>
    /\ UNCHANGED <<queue, window, rowVars, replaying, pushed, opened, replays>>

DrainDone(w) ==
    /\ drain[w].step = "committing"
    /\ drain[w].work = <<>>
    /\ drain[w].failed = <<>>
    /\ drain' = [drain EXCEPT ![w] = IdleDrain]
    /\ UNCHANGED <<listVars, window, rowVars, replaying, pushed, opened,
                   givenUp, losses, replays>>

\* RPOP throws: so does the drain, with what it has popped.
PopFails(w) ==
    /\ "read fails" \in Faults
    /\ drain[w].step = "popping"
    /\ drain[w].failed = <<>>
    /\ drain[w].pops < BatchMax
    /\ losses < MaxLosses
    /\ losses' = losses + 1
    /\ drain' = [drain EXCEPT ![w] = IdleDrain]
    /\ UNCHANGED <<listVars, window, rowVars, replaying, pushed, opened,
                   givenUp, replays>>

-----------------------------------------------------------------------------
\* replayDeadLetters, one message at a time.

ReplayPop(r) ==
    /\ replaying[r] = NULL
    /\ dlq # <<>>
    /\ replays < MaxReplays
    /\ replays' = replays + 1
    /\ replaying' = [replaying EXCEPT ![r] = Last(dlq)]
    /\ dlq' = Front(dlq)
    /\ UNCHANGED <<queue, parked, window, rowVars, drain, pushed, opened,
                   givenUp, losses>>

ReplayPush(r) ==
    LET m == replaying[r]
    IN
    /\ m # NULL
    /\ replaying' = [replaying EXCEPT ![r] = NULL]
    /\ IF m.attempts >= MaxAttempts
       THEN parked' = LPush(m, parked) /\ UNCHANGED queue
       ELSE queue' = LPush(m, queue) /\ UNCHANGED parked
    /\ UNCHANGED <<dlq, window, rowVars, drain, pushed, opened, givenUp, losses,
                   replays>>

\* The process dies with what its drain or its replay holds.
Crash ==
    /\ losses < MaxLosses
    /\ losses' = losses + 1
    /\ \/ \E w \in Worker :
             /\ drain[w].step # "idle"
             /\ drain' = [drain EXCEPT ![w] = IdleDrain]
             /\ UNCHANGED replaying
       \/ \E r \in Replayer :
             /\ replaying[r] # NULL
             /\ replaying' = [replaying EXCEPT ![r] = NULL]
             /\ UNCHANGED drain
    /\ UNCHANGED <<listVars, window, rowVars, pushed, opened, givenUp, replays>>

-----------------------------------------------------------------------------
Draining(w) ==
    \/ Pop(w) \/ Flush(w) \/ Commit(w) \/ CommitFails(w) \/ Bury(w)
    \/ DrainDone(w)

Next ==
    \/ \E c \in Click : Visit(c) \/ Produce(c)
    \/ \E v \in Visitor : VisitLost(v) \/ WindowCloses(v)
    \/ \E w \in Worker : Draining(w) \/ PopFails(w)
    \/ \E r \in Replayer : ReplayPop(r) \/ ReplayPush(r)
    \/ Crash

Spec == Init /\ [][Next]_vars

\* setInterval starts drains, and a query or a command returns.  Nobody has to
\* click or to replay, and no command has to fail.
DrainFairness == \A w \in Worker : WF_vars(Draining(w))
FairSpec == Spec /\ DrainFairness

-----------------------------------------------------------------------------
\* The messages of a click, and those that count.
Of(c) == [click : {c}, counted : BOOLEAN, attempts : Nat]
Countable == [click : Click, counted : {TRUE}, attempts : Nat]

\* How many messages of B a drain holds, and how many there are in Redis and in
\* the memory of drains and replays.
HeldIn(d, B) == Occurs(d.failed, B) + Occurs(d.events, B) + OccursIn(d.work, B)
Replayed(B) == Cardinality({r \in Replayer : replaying[r] \in B})

OnTheWay(B) ==
    Occurs(queue, B) + Occurs(dlq, B) + Replayed(B)
      + SumFunctionOnSet([w \in Worker |-> HeldIn(drain[w], B)], Worker)
Unstored(B) == OnTheWay(B) + Occurs(parked, B)

Copies(c) == stored[c] + Unstored(Of(c))

Missing == {c \in pushed \ Malformed : Copies(c) = 0}

\* RPOP hands each event to one consumer and a failed slice applies nothing, so
\* bisection and replays neither double a click nor lose one, however many
\* drains there are.  A crash or a failing command loses at most the batch that
\* was in memory.
ClicksAccountedFor ==
    /\ \A c \in Click : Copies(c) <= 1
    /\ Cardinality(Missing) <= BatchMax * losses

\* A batch is not dragged down by the poison in it: only what cannot be stored
\* is set aside, and at most one good click for each commit that fails for
\* another reason.
PoisonIsIsolated ==
    Cardinality({c \in Good : Rows(dlq, c) + Rows(parked, c) > 0}) <= losses

\* A poison message is tried MAX_ATTEMPTS times in all and then parked: the
\* envelope carries its history through the dead-letter list and back.
GivenUpInTime ==
    \A c \in Click :
        /\ Rows(queue, c) + Rows(dlq, c) > 0 => givenUp[c] < MaxAttempts
        /\ Rows(parked, c) > 0 => givenUp[c] = MaxAttempts

\* A visitor counts once in a deduplication window, in the counter or in what
\* may still reach it.
CountedOncePerWindow == clickCount + Unstored(Countable) <= opened

\* A good click is stored, whatever else is in its batch.
ClicksAreStored ==
    \A c \in Good : c \in pushed ~> stored[c] > 0 \/ losses > 0

-----------------------------------------------------------------------------
\* The invariant of the proofs.

\* A drain holds no more than it has popped.
DrainsHold ==
    \A w \in Worker :
        LET d == drain[w]
        IN  /\ d.step = "idle" => d = IdleDrain
            /\ d.step = "popping" => d.work = <<>>
            /\ d.step = "committing" => d.events = <<>>
            /\ HeldIn(d, Message) <= d.pops
            /\ d.pops <= BatchMax

\* A click is pushed once, and then stored or on its way once.
NoneDoubled ==
    /\ IsFiniteSet(pushed)
    /\ \A c \in Click : Copies(c) <= IF c \in pushed THEN 1 ELSE 0
    /\ \A c \in Click \ pushed : givenUp[c] = 0

\* The messages of B that were given up on and not replayed yet.
SetAside(B) ==
    Occurs(dlq, B) + Occurs(parked, B) + Replayed(B)
      + SumFunctionOnSet([w \in Worker |-> Occurs(drain[w].failed, B)], Worker)

\* Only a loss sets a good message aside.
GoodOnes == [click : Good, counted : BOOLEAN, attempts : Nat]

\* A message carries how often its click was given up on.
Truthful == {m \in Message : m.attempts = givenUp[m.click]}
AttemptsAreCarried ==
    /\ OnTheWay(Message \ {m \in Truthful : m.attempts < MaxAttempts}) = 0
    /\ Occurs(parked, Message \ {m \in Truthful : m.attempts = MaxAttempts}) = 0

ClickInv ==
    /\ TypeOK
    /\ DrainsHold
    /\ NoneDoubled
    /\ Cardinality(Missing) <= BatchMax * losses
    /\ SetAside(GoodOnes) <= losses
    /\ AttemptsAreCarried
    /\ CountedOncePerWindow

=============================================================================
