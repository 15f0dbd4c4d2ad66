--------------------------- MODULE WebhookTransport ---------------------------
(***************************************************************************)
(* One attempt to deliver a webhook: lib/webhook-transport.ts, and the     *)
(* checks of lib/ssrf.ts it makes of the url and of the address. The far   *)
(* end answers when and what it likes: its name resolves to anything, its  *)
(* headers may dribble in, its body may not end. WebhookDelivery takes the *)
(* result of an attempt from here as its Result.                           *)
(***************************************************************************)
EXTENDS Naturals, FiniteSets

CONSTANTS
    Address,    \* what names resolve to
    Private,    \* those isBlockedAddress refuses
    Code,       \* status codes of a response
    Timeout,    \* WEBHOOK_TIMEOUT_MS, in ticks
    MaxBody,    \* MAX_RESPONSE_BYTES, in chunks
    MaxLookup,  \* bound: how long a lookup is observed, in ticks
    NULL

\* What an attempt that failed says, instead of or beside a status code.
Errors == {"invalid url", "private", "dns", "request", "response", "timeout"}

TransportAssumption ==
    /\ Private \subseteq Address
    /\ Timeout \in Nat \ {0}
    /\ {MaxBody, MaxLookup} \subseteq Nat
    /\ NULL \notin Address \cup Code \cup Nat \cup Errors

VARIABLES
    pc,         \* "idle", "lookup", "dialling", "body", "settled"
    address,    \* the one dialled
    looked,     \* what the lookup answered
    deadline,   \* the ticks the timer has run, NULL when it is not set
    dialled,    \* the ticks since the request was begun
    code,       \* the status code that arrived
    seen,       \* chunks of the body
    body,       \* "open", "destroyed" by us, "ended" by them
    attempt     \* what send resolved to

vars == <<pc, address, looked, deadline, dialled, code, seen, body, attempt>>

-----------------------------------------------------------------------------
isBlockedAddress(a) == a \in Private

\* A url is told from its parts: a scheme that is not http or https,
\* credentials, no host, a host without a dot, a private address as its host.
Urls == [kind : {"malformed", "scheme", "credentials", "hostless", "bare", "name"},
         host : Address \cup {NULL}]

parseWebhookUrl(url) ==
    /\ url.kind = "name"
    /\ url.host # NULL => ~isBlockedAddress(url.host)

Failed(error) == [statusCode |-> NULL, error |-> error]
Arrived(error) == [statusCode |-> code, error |-> error]

Init ==
    /\ pc = "idle"
    /\ address = NULL /\ looked = {}
    /\ deadline = NULL /\ dialled = 0
    /\ code = NULL /\ seen = 0 /\ body = "open"
    /\ attempt = NULL

-----------------------------------------------------------------------------
Resolved(result) == attempt' = result /\ pc' = "settled"

\* send: the url is parsed again, whatever was checked when it was registered.
Send(url) ==
    /\ pc = "idle"
    /\ IF parseWebhookUrl(url) THEN pc' = "lookup" /\ UNCHANGED attempt
       ELSE Resolved(Failed("invalid url"))
    /\ dialled' = 0
    /\ UNCHANGED <<address, looked, deadline, code, seen, body>>

\* The lookup answers all the addresses of the name, and the first that is
\* usable is dialled: the address, which no second lookup can replace.
Usable(answer) == {a \in answer : ~isBlockedAddress(a)}

Looked(answer) ==
    /\ pc = "lookup"
    /\ looked' = answer
    /\ IF Usable(answer) = {}
       THEN Resolved(Failed("private")) /\ UNCHANGED <<address, deadline>>
       ELSE /\ address' \in Usable(answer)
            /\ deadline' = 0
            /\ pc' = "dialling"
            /\ UNCHANGED attempt
    /\ dialled' = 0
    /\ UNCHANGED <<code, seen, body>>

LookupFails ==
    /\ pc = "lookup"
    /\ Resolved(Failed("dns"))
    /\ UNCHANGED <<address, looked, deadline, dialled, code, seen, body>>

-----------------------------------------------------------------------------
\* Bytes that arrive do not touch the deadline of the exchange.
Postponed(timer) == IF timer = NULL THEN NULL ELSE 0
Unmoved(timer) == timer

\* settle: the first to call it clears the deadline and resolves. Later events
\* of the socket, those our own destroy causes included, find it settled.
Settle(result) ==
    IF attempt # NULL THEN UNCHANGED <<attempt, deadline, pc>>
    ELSE /\ Resolved(result)
         /\ deadline' = NULL

\* A part of the headers. No event of ours tells of it.
Dribble ==
    /\ pc = "dialling"
    /\ deadline' = Unmoved(deadline)
    /\ UNCHANGED <<pc, address, looked, dialled, code, seen, body, attempt>>

\* req 'error': refused, reset, a certificate that does not match.
RequestError ==
    /\ pc \in {"dialling", "settled"}
    /\ address # NULL /\ code = NULL /\ body = "open"
    /\ Settle(Failed("request"))
    /\ body' = "ended"
    /\ UNCHANGED <<address, looked, dialled, code, seen>>

\* The headers are in.
Response(c) ==
    /\ pc = "dialling"
    /\ code' = c
    /\ pc' = "body"
    /\ UNCHANGED <<address, looked, deadline, dialled, seen, body, attempt>>

\* res 'data': a body longer than the maximum is cut off. The attempt is still
\* open then, and settles when the socket says it closed.
Data ==
    /\ pc = "body"
    /\ body = "open"
    /\ seen' = seen + 1
    /\ body' = IF seen' > MaxBody THEN "destroyed" ELSE body
    /\ deadline' = Unmoved(deadline)
    /\ UNCHANGED <<pc, address, looked, dialled, code, attempt>>

\* res 'end'
End ==
    /\ pc = "body"
    /\ body = "open"
    /\ body' = "ended"
    /\ Settle(Arrived(NULL))
    /\ UNCHANGED <<address, looked, dialled, code, seen>>

\* res 'error' and res 'close', of a body they or we broke off.
Broken ==
    /\ pc \in {"body", "settled"}
    /\ code # NULL /\ body # "ended"
    /\ \E error \in {"response", NULL} : Settle(Arrived(error))
    /\ body' = "ended"
    /\ UNCHANGED <<address, looked, dialled, code, seen>>

\* The deadline, over everything from the request on, destroys the request.
DeadlineDue ==
    /\ deadline = Timeout
    /\ Settle(Failed("timeout"))
    /\ body' = IF body = "open" THEN "destroyed" ELSE body
    /\ UNCHANGED <<address, looked, dialled, code, seen>>

\* Time passes, and a timer that is due goes off before more of it does. No
\* deadline is over a lookup.
Tick ==
    /\ pc \in {"lookup", "dialling", "body"}
    /\ deadline # NULL => deadline < Timeout
    /\ pc = "lookup" => dialled < MaxLookup
    /\ dialled <= Timeout
    /\ deadline' = IF deadline = NULL THEN NULL ELSE deadline + 1
    /\ dialled' = dialled + 1
    /\ UNCHANGED <<pc, address, looked, code, seen, body, attempt>>

Next ==
    \/ \E url \in Urls : Send(url)
    \/ \E answer \in SUBSET Address \ {{}} : Looked(answer)
    \/ LookupFails \/ Dribble \/ RequestError
    \/ \E c \in Code : Response(c)
    \/ Data \/ End \/ Broken \/ DeadlineDue \/ Tick

Spec == Init /\ [][Next]_vars

-----------------------------------------------------------------------------
Attempts == [statusCode : Code \cup {NULL}, error : Errors \cup {NULL}]

\* Types, over webhook-transport.ts.
TypeOK ==
    /\ pc \in {"idle", "lookup", "dialling", "body", "settled"}
    /\ address \in Address \cup {NULL}
    /\ looked \subseteq Address
    /\ deadline \in 0..Timeout \cup {NULL}
    /\ code \in Code \cup {NULL}
    /\ seen \in 0..(MaxBody + 1)
    /\ body \in {"open", "destroyed", "ended"}
    /\ attempt \in Attempts \cup {NULL}

\* An exchange holds the worker for the timeout and no longer, whatever the
\* far end dribbles, sends without end or leaves unsaid: the deadline runs from
\* the request and through the body (webhook-transport.ts dial).
SettledInTime == pc \in {"dialling", "body"} => dialled <= Timeout

\* The address dialled is one the lookup answered and the guard let pass; the
\* status code of an attempt is the one that address sent, and an attempt
\* without one says why; and what is refused was never dialled
\* (webhook-transport.ts send, dial).
AttemptIsTrue ==
    /\ address # NULL => address \in looked \ Private
    /\ attempt # NULL =>
           /\ attempt.statusCode # NULL => attempt.statusCode = code
           /\ attempt.statusCode = NULL => attempt.error # NULL
           /\ attempt.error \in {"private", "dns", "invalid url"} => address = NULL

\* What the two rest on: the deadline runs from the moment an address is
\* dialled to the moment the attempt is settled, and nothing that the attempt
\* says changes after it.
ExchangeInv ==
    /\ dialled \in Nat
    /\ pc \in {"idle", "lookup"} => address = NULL /\ deadline = NULL
    /\ pc \in {"dialling", "body"} =>
           address # NULL /\ deadline = dialled /\ deadline \in 0..Timeout
    /\ pc \in {"idle", "lookup", "dialling"} => code = NULL
    /\ pc = "body" => code # NULL
    /\ IF pc = "settled" THEN deadline = NULL ELSE attempt = NULL
    /\ body = "open" => seen <= MaxBody

AttemptInv == TypeOK /\ ExchangeInv /\ AttemptIsTrue
=============================================================================
