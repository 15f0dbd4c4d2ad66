--------------------------- MODULE IdempotencyKeys ---------------------------
(***************************************************************************)
(* The Idempotency-Key of a mutating endpoint: a request claims its key by *)
(* inserting a row before the handler runs and stores the response in it   *)
(* afterwards, so that a retry is refused while the first request runs and *)
(* is answered with its response later.  The endpoint is the same for all  *)
(* requests here: the row is unique by key and endpoint.                   *)
(***************************************************************************)
EXTENDS Integers, FiniteSets

CONSTANTS
    Request,        \* requests, each sent once
    Key,
    KeyOf,          \* the key each request carries
    Body,
    BodyOf,         \* and the fingerprint of its body
    MaxLosses,      \* bound on crashes and failing updates
    NULL

\* A row remembers who claimed it, and the code of the response once stored.
Row == [by : Request, fingerprint : Body, expired : BOOLEAN,
        code : {"ok", "rejected", NULL}]

KeyAssumption ==
    /\ KeyOf \in [Request -> Key]
    /\ BodyOf \in [Request -> Body]
    /\ MaxLosses \in Nat
    /\ NULL \notin Row \cup {"ok", "rejected", "error"}

VARIABLES
    row,            \* the IdempotencyKey row of each key
    request,        \* where each request is
    answer,         \* what each client was answered
    done,           \* history: requests whose work was committed
    vanished,       \* history: keys whose row was deleted
    losses

vars == <<row, request, answer, done, vanished, losses>>

\* A response is the code of the handler of a request, or of the plugin.
Answer == [code : {"ok", "rejected", "error", "reused", "in flight"},
           of : Request]

\* Where a request is, whether it has claimed its key, and what its handler said.
Progress ==
    [step : {"new", "collided", "handling", "sending", "over"},
     claimed : BOOLEAN, code : {"ok", "rejected", "error", NULL}]

TypeOK ==
    /\ row \in [Key -> Row \cup {NULL}]
    /\ request \in [Request -> Progress]
    /\ answer \in [Request -> Answer \cup {NULL}]
    /\ done \subseteq Request
    /\ vanished \subseteq Key
    /\ losses \in Nat

Init ==
    /\ row = [k \in Key |-> NULL]
    /\ request = [q \in Request |-> [step |-> "new", claimed |-> FALSE,
                                     code |-> NULL]]
    /\ answer = [q \in Request |-> NULL]
    /\ done = {}
    /\ vanished = {}
    /\ losses = 0

Answered(q, code, of) ==
    /\ request' = [request EXCEPT ![q].step = "over"]
    /\ answer' = [answer EXCEPT ![q] = [code |-> code, of |-> of]]

-----------------------------------------------------------------------------
\* preHandler.

\* Mutant: a row without a response is taken over.
UnclaimedOrOpen(k) == row[k] = NULL \/ row[k].code = NULL

Unclaimed(k) == row[k] = NULL

\* The insert succeeds, or violates the unique key.
Claim(q) ==
    LET k == KeyOf[q]
    IN
    /\ request[q].step = "new"
    /\ IF Unclaimed(k)
       THEN /\ row' = [row EXCEPT ![k] =
                  [by |-> q, fingerprint |-> BodyOf[q], expired |-> FALSE,
                   code |-> NULL]]
            /\ request' = [request EXCEPT ![q].step = "handling",
                                          ![q].claimed = TRUE]
       ELSE /\ request' = [request EXCEPT ![q].step = "collided"]
            /\ UNCHANGED row
    /\ UNCHANGED <<answer, done, vanished, losses>>

Mismatch(q, r) == r.fingerprint # BodyOf[q]

InFlight(r) == r.code = NULL

\* findUnique, after the insert that failed: a row that is gone by now leaves
\* the request to its handler, without a claim.
Lookup(q) ==
    LET r == row[KeyOf[q]]
    IN
    /\ request[q].step = "collided"
    /\ \/ /\ r = NULL
          /\ request' = [request EXCEPT ![q].step = "handling"]
          /\ UNCHANGED answer
       \/ /\ r # NULL
          /\ Mismatch(q, r)
          /\ Answered(q, "reused", q)
       \/ /\ r # NULL
          /\ ~Mismatch(q, r)
          /\ InFlight(r)
          /\ Answered(q, "in flight", q)
       \/ /\ r # NULL
          /\ ~Mismatch(q, r)
          /\ ~InFlight(r)
          /\ Answered(q, r.code, r.by)
    /\ UNCHANGED <<row, done, vanished, losses>>

-----------------------------------------------------------------------------
\* The handler commits its work, or refuses it, or throws: before its work is
\* committed, or after.
Handle(q) ==
    /\ request[q].step = "handling"
    /\ \E code \in {"ok", "rejected", "error"}, work \in BOOLEAN :
          /\ code = "ok" => work
          /\ code = "rejected" => ~work
          /\ request' = [request EXCEPT ![q].step = "sending",
                                        ![q].code = code]
          /\ done' = IF work THEN done \cup {q} ELSE done
    /\ UNCHANGED <<row, answer, vanished, losses>>

\* onSend without a claim.
Send(q) ==
    /\ request[q].step = "sending"
    /\ ~request[q].claimed
    /\ Answered(q, request[q].code, q)
    /\ UNCHANGED <<row, done, vanished, losses>>

Claimed(q) == row[KeyOf[q]] # NULL /\ row[KeyOf[q]].by = q

\* onSend of a 5xx releases the key.
Release(q) ==
    LET k == KeyOf[q]
    IN
    /\ request[q].step = "sending"
    /\ request[q].claimed
    /\ request[q].code = "error"
    /\ Answered(q, "error", q)
    /\ IF Claimed(q)
       THEN /\ row' = [row EXCEPT ![k] = NULL]
            /\ vanished' = vanished \cup {k}
       ELSE UNCHANGED <<row, vanished>>
    /\ UNCHANGED <<done, losses>>

\* onSend of any other response stores it.
Store(q) ==
    /\ request[q].step = "sending"
    /\ request[q].claimed
    /\ request[q].code # "error"
    /\ Answered(q, request[q].code, q)
    /\ row' = IF Claimed(q)
              THEN [row EXCEPT ![KeyOf[q]].code = request[q].code]
              ELSE row
    /\ UNCHANGED <<done, vanished, losses>>

\* The statement of Release or Store fails, and is logged.
SendUnrecorded(q) ==
    /\ request[q].step = "sending"
    /\ request[q].claimed
    /\ losses < MaxLosses
    /\ losses' = losses + 1
    /\ Answered(q, request[q].code, q)
    /\ UNCHANGED <<row, done, vanished>>

\* The process dies; the client is not answered.
Crash(q) ==
    /\ request[q].step \in {"collided", "handling", "sending"}
    /\ losses < MaxLosses
    /\ losses' = losses + 1
    /\ request' = [request EXCEPT ![q].step = "over"]
    /\ UNCHANGED <<row, answer, done, vanished>>

\* expiresAt passes.  No request takes a day.
Expire(k) ==
    /\ row[k] # NULL
    /\ request[row[k].by].step = "over"
    /\ ~row[k].expired
    /\ row' = [row EXCEPT ![k].expired = TRUE]
    /\ UNCHANGED <<request, answer, done, vanished, losses>>

\* cleanupIdempotencyKeys.
Sweep ==
    LET old == {k \in Key : row[k] # NULL /\ row[k].expired}
    IN
    /\ old # {}
    /\ row' = [k \in Key |-> IF k \in old THEN NULL ELSE row[k]]
    /\ vanished' = vanished \cup old
    /\ UNCHANGED <<request, answer, done, losses>>

-----------------------------------------------------------------------------
Next ==
    \/ \E q \in Request :
          \/ Claim(q) \/ Lookup(q) \/ Handle(q)
          \/ Send(q) \/ Release(q) \/ Store(q) \/ SendUnrecorded(q)
          \/ Crash(q)
    \/ \E k \in Key : Expire(k)
    \/ Sweep

Spec == Init /\ [][Next]_vars

-----------------------------------------------------------------------------
\* Until its key is released or expires, the work of a request and its retries
\* is done once: also when two of them arrive together, when the process dies
\* before it answers, and when the response cannot be stored.
WorkDoneOnce ==
    \A k \in Key \ vanished :
        Cardinality({q \in done : KeyOf[q] = k}) <= 1

\* A retry that is answered with the outcome of another request sent the same
\* body, and that request committed its work exactly when the answer says so.
ReplayIsTheAnswer ==
    \A q \in Request :
        LET a == answer[q]
        IN  a # NULL /\ a.of # q =>
                /\ BodyOf[a.of] = BodyOf[q]
                /\ KeyOf[a.of] = KeyOf[q]
                /\ a.code = IF a.of \in done THEN "ok" ELSE "rejected"

-----------------------------------------------------------------------------
\* The invariants that the proofs in ServicesProofs use.

\* Where a request is tells what it has: a claim, a code, work done.
RequestInv ==
    \A q \in Request :
        /\ request[q].claimed => request[q].step \in {"handling", "sending", "over"}
        /\ request[q].step = "sending" => request[q].code # NULL
        /\ q \in done => request[q].step \in {"sending", "over"}
        /\ request[q].step = "sending" =>
              /\ request[q].code = "ok" => q \in done
              /\ request[q].code = "rejected" => q \notin done

\* A row is its claimant's, and holds a response only when that is over.
RowInv ==
    \A k \in Key : row[k] # NULL =>
        LET q == row[k].by
        IN
        /\ KeyOf[q] = k
        /\ row[k].fingerprint = BodyOf[q]
        /\ request[q].claimed
        /\ row[k].code # NULL =>
              /\ request[q].step = "over"
              /\ row[k].code = IF q \in done THEN "ok" ELSE "rejected"

\* While its row has not vanished, a key belongs to the first request that
\* claimed it, and to nobody else.
OwnerInv ==
    \A q \in Request : KeyOf[q] \notin vanished =>
        /\ request[q].step # "new" => row[KeyOf[q]] # NULL
        /\ request[q].step \in {"handling", "sending"} \/ q \in done =>
              row[KeyOf[q]] # NULL /\ row[KeyOf[q]].by = q

\* ReplayIsTheAnswer, of a request that will not change its mind.
AnswerInv ==
    \A q \in Request :
        LET a == answer[q]
        IN  a # NULL /\ a.of # q =>
                /\ BodyOf[a.of] = BodyOf[q]
                /\ KeyOf[a.of] = KeyOf[q]
                /\ request[a.of].step = "over"
                /\ a.code = IF a.of \in done THEN "ok" ELSE "rejected"

KeyInv == TypeOK /\ RequestInv /\ RowInv /\ OwnerInv /\ AnswerInv
=============================================================================
