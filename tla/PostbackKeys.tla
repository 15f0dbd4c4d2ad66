----------------------------- MODULE PostbackKeys -----------------------------
(***************************************************************************)
(* Signed postbacks: the keys of api-key.service.ts, the signature of      *)
(* lib/postback-signature.ts and the check of lib/postback-auth.ts. A      *)
(* storefront signs what it sends with its own clock; what it sent may be  *)
(* late, come twice, or reach us rewritten by something in between; and a  *)
(* key may be revoked while a request that uses it is being checked.       *)
(***************************************************************************)
EXTENDS Integers, FiniteSets

CONSTANTS
    Key,            \* the pairs generateApiKeyPair draws: each is drawn once
    Campaign,
    Body,           \* what a postback may say
    Handler,        \* requests handled at once
    Tolerance,      \* DEFAULT_TOLERANCE_MS, in ticks
    MaxTime,        \* bound: ticks
    MaxSent,        \* bound: postbacks signed
    NULL

\* A row of the table of keys, as far as it is told apart.
Row == [campaign : Campaign, revoked : BOOLEAN]

PostbackAssumption ==
    /\ {Tolerance, MaxTime, MaxSent} \subseteq Nat
    /\ NULL \notin Key \cup Campaign \cup Body \cup Row

VARIABLES
    now,
    key,        \* per key: its campaign and whether it is revoked, NULL before
    used,       \* the keys whose lastUsedAt was written
    revoking,   \* per key: a revocation has read it and not yet written
    sent,       \* the postbacks that were signed
    request,    \* per handler: the postback it checks and what it knows
    accepted    \* the last postback that passed, and when

vars == <<now, key, used, revoking, sent, request, accepted>>

Idle == [pc |-> "idle"]

Init ==
    /\ now = 0
    /\ key = [k \in Key |-> NULL]
    /\ used = {}
    /\ revoking = {}
    /\ sent = {}
    /\ request = [h \in Handler |-> Idle]
    /\ accepted = NULL

-----------------------------------------------------------------------------
\* create: the secret is given to the brand, and only this once.
Create(k, c) ==
    /\ key[k] = NULL
    /\ key' = [key EXCEPT ![k] = [campaign |-> c, revoked |-> FALSE]]
    /\ UNCHANGED <<now, used, revoking, sent, request, accepted>>

\* revoke: the key is read, one that is revoked already is refused ...
Revoke(k) ==
    /\ key[k] # NULL
    /\ ~key[k].revoked
    /\ revoking' = revoking \cup {k}
    /\ UNCHANGED <<now, key, used, sent, request, accepted>>

\* ... and written by its id.
Revoked(k) ==
    /\ k \in revoking
    /\ key' = [key EXCEPT ![k].revoked = TRUE]
    /\ revoking' = revoking \ {k}
    /\ UNCHANGED <<now, used, sent, request, accepted>>

-----------------------------------------------------------------------------
\* The timestamp is inside of what is signed, as the sender wrote it.
signPostback(secret, timestamp, body) == <<secret, timestamp, body>>

\* A storefront whose clock need not be ours signs a postback.
Send(k, c, body, timestamp) ==
    /\ Cardinality(sent) < MaxSent
    /\ key[k] # NULL
    /\ sent' = sent \cup
           {[key |-> k, campaign |-> c, timestamp |-> timestamp, body |-> body,
             signature |-> signPostback(k, timestamp, body)]}
    /\ UNCHANGED <<now, key, used, revoking, request, accepted>>

\* A postback arrives, once or again; a proxy may have written its body anew.
\* rawBody is the bytes that came.
Arrive(h, m, rawBody) ==
    /\ request[h] = Idle
    /\ request' = [request EXCEPT ![h] =
                      [pc |-> "resolve", postback |-> [m EXCEPT !.body = rawBody],
                       revoked |-> key[m.key].revoked]]
    /\ UNCHANGED <<now, key, used, revoking, sent, accepted>>

Reject(h) ==
    /\ request' = [request EXCEPT ![h] = Idle]
    /\ UNCHANGED <<used, accepted>>

\* resolveSigningSecret: every failure is the same null.
Resolves(k, c) == key[k] # NULL /\ ~key[k].revoked /\ key[k].campaign = c

Resolve(h) ==
    /\ request[h].pc = "resolve"
    /\ LET m == request[h].postback IN
           \/ /\ Resolves(m.key, m.campaign)
              /\ request' = [request EXCEPT ![h].pc = "verify"]
              /\ UNCHANGED <<used, accepted>>
           \* An unknown key, or a secret that does not decrypt.
           \/ Reject(h)
    /\ UNCHANGED <<now, key, revoking, sent>>

\* verifyPostbackSignature, by our clock.
Distance(a, b) == IF a > b THEN a - b ELSE b - a
NotTooOld(nowMs, sentMs) == nowMs - sentMs <= Tolerance
Tolerated(nowMs, sentMs) == Distance(nowMs, sentMs) <= Tolerance

Verifies(m, secret) ==
    /\ Tolerated(now, m.timestamp)
    /\ m.signature = signPostback(secret, m.timestamp, m.body)

\* The use of the key is recorded later, by a promise nobody awaits.
Verify(h) ==
    /\ request[h].pc = "verify"
    /\ LET m == request[h].postback IN
           IF Verifies(m, m.key)
           THEN /\ accepted' = [postback |-> m, at |-> now,
                                revoked |-> request[h].revoked]
                /\ request' = [request EXCEPT ![h].pc = "touch"]
                /\ UNCHANGED used
           ELSE Reject(h)
    /\ UNCHANGED <<now, key, revoking, sent>>

\* touch: whether it is written or not is nobody's concern.
Touch(h) ==
    /\ request[h].pc = "touch"
    /\ used' \in {used, used \cup {request[h].postback.key}}
    /\ request' = [request EXCEPT ![h] = Idle]
    /\ UNCHANGED <<now, key, revoking, sent, accepted>>

Tick ==
    /\ now < MaxTime
    /\ now' = now + 1
    /\ UNCHANGED <<key, used, revoking, sent, request, accepted>>

Next ==
    \/ \E k \in Key :
           \/ Revoke(k) \/ Revoked(k)
           \/ \E c \in Campaign :
                  \/ Create(k, c)
                  \/ \E body \in Body, t \in 0..MaxTime : Send(k, c, body, t)
    \/ \E h \in Handler :
           \/ \E m \in sent, rawBody \in Body : Arrive(h, m, rawBody)
           \/ Resolve(h) \/ Verify(h) \/ Touch(h)
    \/ Tick

Spec == Init /\ [][Next]_vars

-----------------------------------------------------------------------------
\* Types, over api-key.service.ts and postback-auth.ts.
TypeOK ==
    /\ now \in 0..MaxTime
    /\ key \in [Key -> [campaign : Campaign, revoked : BOOLEAN] \cup {NULL}]
    /\ used \subseteq Key /\ revoking \subseteq Key
    /\ Cardinality(sent) <= MaxSent
    /\ \A h \in Handler :
           request[h].pc \in {"idle", "resolve", "verify", "touch"}

\* What passes is what a holder of a key of that very campaign signed, word
\* for word, not further from our clock than the tolerance when it is checked,
\* however long it waited before; and a key that was revoked when the request
\* arrived passes nothing (postback-auth.ts, postback-signature.ts).
AcceptedAsSigned ==
    accepted # NULL =>
        LET m == accepted.postback IN
            /\ m \in sent
            /\ key[m.key].campaign = m.campaign
            /\ m.timestamp - accepted.at \in -Tolerance..Tolerance
            /\ ~accepted.revoked

-----------------------------------------------------------------------------
\* What the proof of it carries along: a key keeps its campaign and a revoked
\* one stays revoked, what was sent was signed as it was sent, and what a
\* request checks is a postback that was sent, but for its body.
Postback == [key : Key, campaign : Campaign, timestamp : Nat, body : Body,
             signature : Key \X Nat \X Body]

Signed(m) == m.signature = signPostback(m.key, m.timestamp, m.body)
Rewritten(m) == \E n \in sent, b \in Body : m = [n EXCEPT !.body = b]

KeysInv ==
    /\ key \in [Key -> Row \cup {NULL}]
    /\ now \in Nat
    /\ \A k \in revoking : k \in Key /\ key[k] # NULL

SentInv ==
    /\ sent \subseteq Postback
    /\ \A m \in sent : Signed(m) /\ key[m.key] # NULL

Checks == [pc : {"resolve", "verify", "touch"}, postback : Postback,
           revoked : BOOLEAN]

Checked(r) ==
    /\ Rewritten(r.postback)
    /\ r.revoked => key[r.postback.key].revoked
    /\ r.pc = "verify" =>
           key[r.postback.key].campaign = r.postback.campaign /\ ~r.revoked

PostbackInv ==
    /\ KeysInv
    /\ SentInv
    /\ request \in [Handler -> Checks \cup {Idle}]
    /\ \A h \in Handler : request[h] # Idle => Checked(request[h])
    /\ AcceptedAsSigned
=============================================================================
