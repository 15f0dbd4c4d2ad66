-------------------------- MODULE MarketplaceProofs --------------------------
(***************************************************************************)
(* Proofs about what the people of the marketplace do with it, component   *)
(* by component: for any number of tabs, requests, handlers, accounts,     *)
(* keys, partners and switches, and any bound on what is counted.          *)
(***************************************************************************)
EXTENDS SaleMoneyProofs

-----------------------------------------------------------------------------
(* Postbacks. *)

LEMMA PostbackParameters ==
    /\ Tolerance \in Nat /\ MaxClock \in Nat
    /\ NULL \notin Postbacks!Row
  <1>1. Postbacks!PostbackAssumption
    BY MarketplaceAssumption DEF MarketplaceAssumption
  <1>2. QED
    BY <1>1, Zenon DEF Postbacks!PostbackAssumption

\* The tail of PostbackInv, of what was sent and of what is checked.
LEMMA PostbackFacts ==
    ASSUME Postbacks!PostbackInv
    PROVE  /\ key \in [ApiKey -> Postbacks!Row \cup {NULL}]
           /\ clock \in Nat
           /\ \A m \in sent : /\ m \in Postbacks!Postback
                              /\ m.key \in ApiKey /\ key[m.key] # NULL
                              /\ key[m.key] \in Postbacks!Row
           /\ postback \in [Handler -> Postbacks!Checks \cup {Postbacks!Idle}]
  <1>1. \A m \in Postbacks!Postback : m.key \in ApiKey
    BY DEF Postbacks!Postback
  <1>2. QED
    BY <1>1 DEF Postbacks!PostbackInv, Postbacks!KeysInv, Postbacks!SentInv

\* A postback that is checked names a key that a postback was sent with.
LEMMA CheckedKey ==
    ASSUME Postbacks!PostbackInv, NEW r, Postbacks!Rewritten(r.postback)
    PROVE  /\ r.postback.key \in ApiKey
           /\ key[r.postback.key] # NULL
           /\ key[r.postback.key] \in Postbacks!Row
  <1>1. PICK m \in sent, b \in Payload : r.postback = [m EXCEPT !.body = b]
    BY Zenon DEF Postbacks!Rewritten
  <1>2. m \in Postbacks!Postback
    BY PostbackFacts
  <1>3. r.postback.key = m.key
    BY <1>1, <1>2 DEF Postbacks!Postback
  <1>4. QED
    BY <1>3, PostbackFacts

LEMMA PostbackInit == Postbacks!Init => Postbacks!PostbackInv
  <1> SUFFICES ASSUME Postbacks!Init PROVE Postbacks!PostbackInv
    OBVIOUS
  <1>1. Postbacks!KeysInv
    BY DEF Postbacks!Init, Postbacks!KeysInv
  <1>2. Postbacks!SentInv
    BY DEF Postbacks!Init, Postbacks!SentInv
  <1>3. postback = [h \in Handler |-> Postbacks!Idle] /\ accepted = NULL
    BY DEF Postbacks!Init
  <1>4. QED
    BY <1>1, <1>2, <1>3
    DEF Postbacks!PostbackInv, Postbacks!AcceptedAsSigned

\* Keys come and are revoked: none becomes another campaign's, none comes back,
\* and what was sent and is checked stays as true as it was.
LEMMA KeysGrow ==
    ASSUME Postbacks!PostbackInv, Postbacks!KeysInv',
           \A k \in ApiKey : key[k] # NULL =>
               /\ key'[k] # NULL
               /\ key'[k].campaign = key[k].campaign
               /\ key[k].revoked => key'[k].revoked,
           UNCHANGED <<sent, postback, accepted>>
    PROVE  Postbacks!PostbackInv'
  <1>1. Postbacks!SentInv'
    BY PostbackFacts DEF Postbacks!PostbackInv, Postbacks!SentInv, Postbacks!Signed
  <1>2. ASSUME NEW h \in Handler, postback[h] # Postbacks!Idle
        PROVE  Postbacks!Checked(postback[h])'
    <2>1. Postbacks!Checked(postback[h])
      BY <1>2 DEF Postbacks!PostbackInv
    <2>2. Postbacks!Rewritten(postback[h].postback)
      BY <2>1 DEF Postbacks!Checked
    <2>3. postback[h].postback.key \in ApiKey /\ key[postback[h].postback.key] # NULL
      BY <2>2, CheckedKey
    <2>4. Postbacks!Rewritten(postback[h].postback)'
      BY <2>2 DEF Postbacks!Rewritten
    <2>5. QED
      BY <2>1, <2>3, <2>4 DEF Postbacks!Checked
  <1>3. Postbacks!AcceptedAsSigned'
    BY PostbackFacts DEF Postbacks!PostbackInv, Postbacks!AcceptedAsSigned
  <1>4. QED
    BY <1>1, <1>2, <1>3 DEF Postbacks!PostbackInv

LEMMA PostbackCreate ==
    ASSUME Postbacks!PostbackInv, NEW k \in ApiKey, NEW c \in {shoes, lamps},
           Postbacks!Create(k, c)
    PROVE  Postbacks!PostbackInv'
  <1>1. /\ key[k] = NULL
        /\ key' = [key EXCEPT ![k] = [campaign |-> c, revoked |-> FALSE]]
        /\ UNCHANGED <<clock, used, revoking, sent, postback, accepted>>
    BY DEF Postbacks!Create
  <1>2. [campaign |-> c, revoked |-> FALSE] \in Postbacks!Row
    BY DEF Postbacks!Row
  <1>3. Postbacks!KeysInv'
    BY <1>1, <1>2 DEF Postbacks!PostbackInv, Postbacks!KeysInv
  <1>4. QED
    BY <1>1, <1>3, PostbackFacts, KeysGrow

LEMMA PostbackRevoked ==
    ASSUME Postbacks!PostbackInv, NEW k \in ApiKey,
           Postbacks!Revoke(k) \/ Postbacks!Revoked(k)
    PROVE  Postbacks!PostbackInv'
  <1>1. CASE Postbacks!Revoke(k)
    <2>1. Postbacks!KeysInv'
      BY <1>1 DEF Postbacks!Revoke, Postbacks!PostbackInv, Postbacks!KeysInv
    <2>2. UNCHANGED <<key, sent, postback, accepted>>
      BY <1>1 DEF Postbacks!Revoke
    <2>3. QED
      BY <2>1, <2>2, KeysGrow
  <1>2. CASE Postbacks!Revoked(k)
    <2>1. /\ k \in revoking
          /\ key' = [key EXCEPT ![k].revoked = TRUE]
          /\ revoking' = revoking \ {k}
          /\ UNCHANGED <<clock, used, sent, postback, accepted>>
      BY <1>2 DEF Postbacks!Revoked
    <2>2. key[k] \in Postbacks!Row
      BY <2>1, PostbackFacts DEF Postbacks!PostbackInv, Postbacks!KeysInv
    <2>3. /\ [key[k] EXCEPT !.revoked = TRUE] \in Postbacks!Row
          /\ [key[k] EXCEPT !.revoked = TRUE].campaign = key[k].campaign
          /\ [key[k] EXCEPT !.revoked = TRUE].revoked
      BY <2>2 DEF Postbacks!Row
    <2>4. key' = [key EXCEPT ![k] = [key[k] EXCEPT !.revoked = TRUE]]
      BY <2>1
    <2>5. Postbacks!KeysInv'
      BY <2>1, <2>3, <2>4, PostbackParameters
      DEF Postbacks!PostbackInv, Postbacks!KeysInv
    <2>6. QED
      BY <2>1, <2>3, <2>4, <2>5, PostbackFacts, PostbackParameters, KeysGrow
  <1>3. QED
    BY <1>1, <1>2

LEMMA PostbackSend ==
    ASSUME Postbacks!PostbackInv, NEW k \in ApiKey, NEW c \in {shoes, lamps},
           NEW body \in Payload, NEW t \in 0..MaxClock,
           Postbacks!Send(k, c, body, t)
    PROVE  Postbacks!PostbackInv'
  <1> DEFINE m == [key |-> k, campaign |-> c, timestamp |-> t, body |-> body,
                   signature |-> Postbacks!signPostback(k, t, body)]
  <1>1. /\ key[k] # NULL
        /\ sent' = sent \cup {m}
        /\ UNCHANGED <<clock, key, used, revoking, postback, accepted>>
    BY DEF Postbacks!Send
  <1>2. m \in Postbacks!Postback /\ Postbacks!Signed(m) /\ m.key = k
    BY PostbackParameters
    DEF Postbacks!Postback, Postbacks!Signed, Postbacks!signPostback
  <1> HIDE DEF m
  <1>3. Postbacks!SentInv'
    BY <1>1, <1>2 DEF Postbacks!PostbackInv, Postbacks!SentInv, Postbacks!Signed
  <1>4. ASSUME NEW h \in Handler, postback[h] # Postbacks!Idle
        PROVE  Postbacks!Checked(postback[h])'
    <2> DEFINE q == postback[h]
    <2>1. q' = q /\ key' = key /\ sent \subseteq sent'
      BY <1>1, Zenon
    <2>2. Postbacks!Checked(q)
      BY <1>4, Zenon DEF Postbacks!PostbackInv
    <2>3. PICK n \in sent, b \in Payload : q.postback = [n EXCEPT !.body = b]
      BY <2>2, Zenon DEF Postbacks!Checked, Postbacks!Rewritten
    <2> HIDE DEF q
    <2>4. n \in sent'
      BY <2>1
    <2>5. Postbacks!Rewritten(q.postback)'
      BY <2>1, <2>3, <2>4, Zenon DEF Postbacks!Rewritten
    <2>6. Postbacks!Checked(q)'
      BY <2>1, <2>2, <2>5, Zenon DEF Postbacks!Checked
    <2>7. QED
      BY <2>6 DEF q
  <1>5. QED
    BY <1>1, <1>3, <1>4
    DEF Postbacks!PostbackInv, Postbacks!KeysInv, Postbacks!AcceptedAsSigned

\* A step of one request, which leaves the keys and what was sent alone.
LEMMA RequestMoves ==
    ASSUME Postbacks!PostbackInv, NEW h \in Handler, NEW r,
           r = Postbacks!Idle
               \/ (r \in Postbacks!Checks /\ Postbacks!Checked(r)),
           postback' = [postback EXCEPT ![h] = r],
           UNCHANGED <<clock, key, revoking, sent>>,
           Postbacks!AcceptedAsSigned'
    PROVE  Postbacks!PostbackInv'
  <1>1. Postbacks!Checked(r) => Postbacks!Checked(r)'
    BY DEF Postbacks!Checked, Postbacks!Rewritten
  <1>2. ASSUME NEW g \in Handler, postback'[g] # Postbacks!Idle
        PROVE  Postbacks!Checked(postback[g])'
    <2>1. CASE g = h
      BY <1>2, <2>1, PostbackFacts
      DEF Postbacks!Checked, Postbacks!Rewritten
    <2>2. CASE g # h
      <3>1. postback'[g] = postback[g] /\ Postbacks!Checked(postback[g])
        BY <1>2, <2>2, PostbackFacts DEF Postbacks!PostbackInv
      <3>2. UNCHANGED <<key, sent>>
        OBVIOUS
      <3>3. Postbacks!Rewritten(postback[g].postback)
        BY <3>1 DEF Postbacks!Checked
      <3>4. Postbacks!Rewritten(postback[g].postback)'
        BY <3>1, <3>2, <3>3 DEF Postbacks!Rewritten
      <3>5. QED
        BY <3>1, <3>2, <3>4 DEF Postbacks!Checked
    <2>3. QED
      BY <2>1, <2>2
  <1>3. postback' \in [Handler -> Postbacks!Checks \cup {Postbacks!Idle}]
    BY PostbackFacts
  <1>4. QED
    BY <1>2, <1>3
    DEF Postbacks!PostbackInv, Postbacks!KeysInv, Postbacks!SentInv, Postbacks!Signed

LEMMA PostbackArrive ==
    ASSUME Postbacks!PostbackInv, NEW h \in Handler, NEW m \in sent,
           NEW rawBody \in Payload, Postbacks!Arrive(h, m, rawBody)
    PROVE  Postbacks!PostbackInv'
  <1> DEFINE r == [pc |-> "resolve", postback |-> [m EXCEPT !.body = rawBody],
                   revoked |-> key[m.key].revoked]
  <1>1. /\ postback' = [postback EXCEPT ![h] = r]
        /\ UNCHANGED <<clock, key, used, revoking, sent, accepted>>
    BY DEF Postbacks!Arrive
  <1>2. m \in Postbacks!Postback /\ key[m.key] \in Postbacks!Row
    BY PostbackFacts
  <1>3. /\ r.postback = [m EXCEPT !.body = rawBody]
        /\ r.postback \in Postbacks!Postback
        /\ r.postback.key = m.key
        /\ r.revoked = key[m.key].revoked
        /\ r.revoked \in BOOLEAN
        /\ r.pc = "resolve"
    BY <1>2 DEF Postbacks!Postback, Postbacks!Row
  <1>4. r \in Postbacks!Checks
    BY <1>3 DEF Postbacks!Checks
  <1> HIDE DEF r
  <1>5. Postbacks!Rewritten(r.postback)
    BY <1>3 DEF Postbacks!Rewritten
  <1>6. Postbacks!Checked(r)
    BY <1>3, <1>5 DEF Postbacks!Checked
  <1>7. Postbacks!AcceptedAsSigned'
    BY <1>1 DEF Postbacks!PostbackInv, Postbacks!AcceptedAsSigned
  <1>8. QED
    BY <1>1, <1>4, <1>6, <1>7, RequestMoves

\* What a request of a handler knows, as it is.
LEMMA AtHand ==
    ASSUME Postbacks!PostbackInv, NEW h \in Handler,
           postback[h].pc \in {"resolve", "verify", "touch"}
    PROVE  postback[h] \in Postbacks!Checks /\ Postbacks!Checked(postback[h])
  <1>1. Postbacks!Idle.pc = "idle"
    BY DEF Postbacks!Idle
  <1>2. postback[h] # Postbacks!Idle
    BY <1>1
  <1>3. QED
    BY <1>2, PostbackFacts DEF Postbacks!PostbackInv

\* A request goes on with what it knows, past a check it has made.
LEMMA GoesOnTo ==
    ASSUME NEW r \in Postbacks!Checks, Postbacks!Checked(r),
           NEW pc \in {"verify", "touch"},
           pc = "verify" =>
               /\ key[r.postback.key].campaign = r.postback.campaign
               /\ ~r.revoked
    PROVE  /\ [r EXCEPT !.pc = pc] \in Postbacks!Checks
           /\ Postbacks!Checked([r EXCEPT !.pc = pc])
  <1>1. /\ [r EXCEPT !.pc = pc].postback = r.postback
        /\ [r EXCEPT !.pc = pc].revoked = r.revoked
        /\ [r EXCEPT !.pc = pc].pc = pc
        /\ [r EXCEPT !.pc = pc] \in Postbacks!Checks
    BY DEF Postbacks!Checks
  <1>2. QED
    BY <1>1 DEF Postbacks!Checked

LEMMA PostbackResolve ==
    ASSUME Postbacks!PostbackInv, NEW h \in Handler, Postbacks!Resolve(h)
    PROVE  Postbacks!PostbackInv'
  <1>1. /\ postback[h].pc = "resolve"
        /\ UNCHANGED <<clock, key, revoking, sent, accepted>>
    BY Zenon DEF Postbacks!Resolve, Postbacks!Reject
  <1>2. Postbacks!AcceptedAsSigned'
    BY <1>1 DEF Postbacks!PostbackInv, Postbacks!AcceptedAsSigned
  <1>3. CASE /\ Postbacks!Resolves(postback[h].postback.key,
                                   postback[h].postback.campaign)
             /\ postback' = [postback EXCEPT ![h].pc = "verify"]
    <2>1. postback[h] \in Postbacks!Checks /\ Postbacks!Checked(postback[h])
      BY <1>1, AtHand
    <2>2. /\ ~key[postback[h].postback.key].revoked
          /\ key[postback[h].postback.key].campaign = postback[h].postback.campaign
      BY <1>3 DEF Postbacks!Resolves
    <2>3. ~postback[h].revoked
      BY <2>1, <2>2 DEF Postbacks!Checked
    <2>4. postback' = [postback EXCEPT ![h] = [postback[h] EXCEPT !.pc = "verify"]]
      BY <1>3
    <2>5. QED
      BY <1>1, <1>2, <2>1, <2>2, <2>3, <2>4, GoesOnTo, RequestMoves
  <1>4. CASE postback' = [postback EXCEPT ![h] = Postbacks!Idle]
    BY <1>1, <1>2, <1>4, RequestMoves
  <1>5. QED
    BY <1>3, <1>4, Zenon DEF Postbacks!Resolve, Postbacks!Reject

\* Whose signature is right is what was sent, its body included.
LEMMA VerifiedWasSent ==
    ASSUME Postbacks!PostbackInv, NEW m, Postbacks!Rewritten(m),
           Postbacks!Verifies(m, m.key)
    PROVE  m \in sent
  <1>1. PICK n \in sent, b \in Payload : m = [n EXCEPT !.body = b]
    BY Zenon DEF Postbacks!Rewritten
  <1>2. n \in Postbacks!Postback /\ Postbacks!Signed(n)
    BY PostbackFacts DEF Postbacks!PostbackInv, Postbacks!SentInv
  <1>3. /\ m.key = n.key /\ m.timestamp = n.timestamp /\ m.body = b
        /\ m.signature = n.signature
    BY <1>1, <1>2 DEF Postbacks!Postback
  <1>4. m.signature = <<n.key, n.timestamp, b>>
    BY <1>3 DEF Postbacks!Verifies, Postbacks!signPostback
  <1>5. n.signature = <<n.key, n.timestamp, n.body>>
    BY <1>2 DEF Postbacks!Signed, Postbacks!signPostback
  <1>6. b = n.body
    <2>1. <<n.key, n.timestamp, b>>[3] = <<n.key, n.timestamp, n.body>>[3]
      BY <1>3, <1>4, <1>5
    <2>2. QED
      BY <2>1
  <1>7. m = n
    BY <1>1, <1>2, <1>6 DEF Postbacks!Postback
  <1>8. QED
    BY <1>7

LEMMA PostbackVerify ==
    ASSUME Postbacks!PostbackInv, NEW h \in Handler, Postbacks!Verify(h)
    PROVE  Postbacks!PostbackInv'
  <1> DEFINE m == postback[h].postback
             a == [postback |-> m, at |-> clock, revoked |-> postback[h].revoked]
  <1>1. postback[h].pc = "verify" /\ UNCHANGED <<clock, key, revoking, sent>>
    BY DEF Postbacks!Verify
  <1>2. postback[h] \in Postbacks!Checks /\ Postbacks!Checked(postback[h])
    BY <1>1, AtHand
  <1>3. CASE Postbacks!Verifies(m, m.key)
    <2>1. /\ accepted' = a
          /\ postback' = [postback EXCEPT ![h] = [postback[h] EXCEPT !.pc = "touch"]]
      BY <1>3 DEF Postbacks!Verify
    <2>2. m \in sent
      BY <1>2, <1>3, VerifiedWasSent DEF Postbacks!Checked
    <2>3. m.timestamp \in Nat /\ clock \in Nat
      BY <1>2, PostbackFacts DEF Postbacks!Checks, Postbacks!Postback
    <2>4. m.timestamp - clock \in -Tolerance..Tolerance
      <3> HIDE DEF m
      <3>1. Postbacks!Distance(clock, m.timestamp) <= Tolerance
        BY <1>3 DEF Postbacks!Verifies, Postbacks!Tolerated
      <3>2. QED
        BY <3>1, <2>3, PostbackParameters DEF Postbacks!Distance
    <2>5. key[m.key].campaign = m.campaign /\ ~postback[h].revoked
      BY <1>1, <1>2 DEF Postbacks!Checked
    <2>6. a.postback = m /\ a.at = clock /\ a.revoked = postback[h].revoked
      OBVIOUS
    <2> HIDE DEF a
    <2>7. Postbacks!AcceptedAsSigned'
      BY <1>1, <2>1, <2>2, <2>4, <2>5, <2>6 DEF Postbacks!AcceptedAsSigned
    <2>8. QED
      BY <1>1, <1>2, <2>1, <2>7, GoesOnTo, RequestMoves
  <1>4. CASE ~Postbacks!Verifies(m, m.key)
    <2>1. UNCHANGED accepted /\ postback' = [postback EXCEPT ![h] = Postbacks!Idle]
      BY <1>4, Zenon DEF Postbacks!Verify, Postbacks!Reject
    <2>2. Postbacks!AcceptedAsSigned'
      BY <1>1, <2>1 DEF Postbacks!PostbackInv, Postbacks!AcceptedAsSigned
    <2>3. QED
      BY <1>1, <2>1, <2>2, RequestMoves
  <1>5. QED
    BY <1>3, <1>4

LEMMA PostbackNext ==
    ASSUME Postbacks!PostbackInv, Postbacks!Next PROVE Postbacks!PostbackInv'
  <1>1. ASSUME NEW k \in ApiKey, Postbacks!Revoke(k) \/ Postbacks!Revoked(k)
        PROVE  Postbacks!PostbackInv'
    BY <1>1, PostbackRevoked
  <1>2. ASSUME NEW k \in ApiKey, NEW c \in {shoes, lamps}, Postbacks!Create(k, c)
        PROVE  Postbacks!PostbackInv'
    BY <1>2, PostbackCreate
  <1>3. ASSUME NEW k \in ApiKey, NEW c \in {shoes, lamps}, NEW body \in Payload,
               NEW t \in 0..MaxClock, Postbacks!Send(k, c, body, t)
        PROVE  Postbacks!PostbackInv'
    BY <1>3, PostbackSend
  <1>4. ASSUME NEW h \in Handler, NEW m \in sent, NEW rawBody \in Payload,
               Postbacks!Arrive(h, m, rawBody)
        PROVE  Postbacks!PostbackInv'
    BY <1>4, PostbackArrive
  <1>5. ASSUME NEW h \in Handler, Postbacks!Resolve(h) \/ Postbacks!Verify(h)
        PROVE  Postbacks!PostbackInv'
    BY <1>5, PostbackResolve, PostbackVerify
  <1>6. ASSUME NEW h \in Handler, Postbacks!Touch(h) PROVE Postbacks!PostbackInv'
    <2>1. /\ postback' = [postback EXCEPT ![h] = Postbacks!Idle]
          /\ UNCHANGED <<clock, key, revoking, sent, accepted>>
      BY <1>6 DEF Postbacks!Touch
    <2>2. Postbacks!AcceptedAsSigned'
      BY <2>1 DEF Postbacks!PostbackInv, Postbacks!AcceptedAsSigned
    <2>3. QED
      BY <2>1, <2>2, RequestMoves
  <1>7. CASE Postbacks!Tick
    <2>1. clock' = clock + 1 /\ UNCHANGED <<key, revoking, sent, postback, accepted>>
      BY <1>7 DEF Postbacks!Tick
    <2>2. Postbacks!KeysInv'
      BY <2>1 DEF Postbacks!PostbackInv, Postbacks!KeysInv
    <2>3. QED
      BY <2>1, <2>2, PostbackFacts, KeysGrow
  <1>8. QED
    BY <1>1, <1>2, <1>3, <1>4, <1>5, <1>6, <1>7, Zenon DEF Postbacks!Next

LEMMA PostbackFrame ==
    ASSUME Postbacks!PostbackInv, UNCHANGED postbackVars
    PROVE  Postbacks!PostbackInv'
  <1>1. UNCHANGED <<clock, key, used, revoking, sent, postback, accepted>>
    BY DEF postbackVars
  <1>2. Postbacks!KeysInv'
    BY <1>1 DEF Postbacks!PostbackInv, Postbacks!KeysInv
  <1>3. QED
    BY <1>1, <1>2, KeysGrow

LEMMA PostbacksAlone ==
    [MarketplaceNext]_marketVars => Postbacks!Next \/ UNCHANGED postbackVars
  BY Zenon DEF MarketplaceNext, marketVars, servedVars

\* Whatever storefronts sign, by whatever clock, however late or often it comes
\* and whatever is made of it on its way, and whenever keys are revoked: a
\* postback passes only as it was signed by a holder of a key of its campaign,
\* within the tolerance of our clock, and not on a key that had been revoked
\* when it arrived (postback-auth.ts, postback-signature.ts).
THEOREM PostbacksAreSigned == MarketplaceSpec => []AcceptedAsSigned
  <1>1. MarketplaceInit => Postbacks!PostbackInv
    BY PostbackInit DEF MarketplaceInit
  <1>2. Postbacks!PostbackInv /\ [MarketplaceNext]_marketVars
            => Postbacks!PostbackInv'
    BY PostbacksAlone, PostbackNext, PostbackFrame
  <1>3. Postbacks!PostbackInv => AcceptedAsSigned
    BY DEF Postbacks!PostbackInv, AcceptedAsSigned
  <1>4. QED
    BY <1>1, <1>2, <1>3, PTL DEF MarketplaceSpec, marketVars

-----------------------------------------------------------------------------
(* Accounts. *)

LEMMA AccountInit == Accounts_!Init => Accounts_!AccountInv
  <1> SUFFICES ASSUME Accounts_!Init PROVE Accounts_!AccountInv
    OBVIOUS
  <1>1. /\ email = [u \in User |-> NULL]
        /\ request = [q \in Request |-> Accounts_!Idle]
        /\ entered = NULL
    BY DEF Accounts_!Init
  <1>2. QED
    BY <1>1 DEF Accounts_!AccountInv, Accounts_!AddressesInv, Accounts_!AsksInv

\* A request moves on with its account and address, or is over.
LEMMA AccountAsks ==
    ASSUME Accounts_!AccountInv, UNCHANGED <<email, entered>>, Accounts_!AsksInv'
    PROVE  Accounts_!AccountInv'
  BY DEF Accounts_!AccountInv, Accounts_!AddressesInv

\* An address as it is filed, whoever wrote it how.
LEMMA InLowerCase ==
    ASSUME NEW e \in Accounts_!Spelling
    PROVE  /\ Accounts_!toLowerCase(e) \in Accounts_!Spelling
           /\ Accounts_!toLowerCase(e).written = "lower"
           /\ Accounts_!toLowerCase(e).mailbox = e.mailbox
           /\ e.written = "lower" => Accounts_!toLowerCase(e) = e
  BY DEF Accounts_!Spelling, Accounts_!toLowerCase

LEMMA AccountRequests ==
    ASSUME Accounts_!AccountInv, NEW q \in Request,
           \/ \E u \in User, e \in Accounts_!Spelling :
                  Accounts_!Register(q, u, e) \/ Accounts_!ChangeEmail(q, u, e)
           \/ Accounts_!Look(q)
    PROVE  Accounts_!AccountInv'
  <1> DEFINE Asks == [pc : {"look", "create", "update"}, user : User,
                      email : Accounts_!Spelling]
  <1>1. request \in [Request -> {Accounts_!Idle} \cup Asks]
    BY DEF Accounts_!AccountInv, Accounts_!AsksInv
  <1>2. ASSUME NEW u \in User, NEW e \in Accounts_!Spelling,
               Accounts_!Register(q, u, e) \/ Accounts_!ChangeEmail(q, u, e)
        PROVE  Accounts_!AsksInv' /\ UNCHANGED <<email, entered>>
    <2>1. PICK pc \in {"create", "look"} :
              request' = [request EXCEPT ![q] = [pc |-> pc, user |-> u, email |-> e]]
      BY <1>2, Zenon DEF Accounts_!Register, Accounts_!ChangeEmail
    <2>2. [pc |-> pc, user |-> u, email |-> e] \in Asks
      OBVIOUS
    <2>3. QED
      BY <1>1, <1>2, <2>1, <2>2
      DEF Accounts_!AsksInv, Accounts_!Register, Accounts_!ChangeEmail
  <1>3. CASE Accounts_!Look(q)
    <2>1. request[q].pc = "look" /\ UNCHANGED <<email, entered>>
      BY <1>3 DEF Accounts_!Look
    <2>2. request[q] \in Asks
      BY <1>1, <2>1 DEF Accounts_!Idle
    <2>3. [request[q] EXCEPT !.pc = "update"] \in Asks
      BY <2>2
    <2>4. CASE request' = [request EXCEPT ![q].pc = "update"]
      <3>1. request' = [request EXCEPT ![q] = [request[q] EXCEPT !.pc = "update"]]
        BY <2>4
      <3>2. Accounts_!AsksInv'
        BY <1>1, <2>3, <3>1 DEF Accounts_!AsksInv
      <3>3. QED
        BY <2>1, <3>2, AccountAsks
    <2>5. CASE Accounts_!Finish(q)
      <3>1. Accounts_!AsksInv'
        BY <1>1, <2>5 DEF Accounts_!AsksInv, Accounts_!Finish
      <3>2. QED
        BY <2>1, <3>1, AccountAsks
    <2>6. QED
      BY <1>3, <2>4, <2>5, Zenon DEF Accounts_!Look
  <1>4. QED
    BY <1>2, <1>3, AccountAsks

\* What is written is in lower case, and the index has it of nobody else.
LEMMA AccountWrite ==
    ASSUME Accounts_!AccountInv, NEW q \in Request, Accounts_!Write(q)
    PROVE  Accounts_!AccountInv'
  <1> DEFINE u == request[q].user
             e == Accounts_!Filed(request[q].email)
  <1>1. /\ request[q].pc \in {"create", "update"}
        /\ email' = IF Accounts_!Free(e, u) THEN [email EXCEPT ![u] = e] ELSE email
        /\ request' = [request EXCEPT ![q] = Accounts_!Idle]
        /\ entered' = entered
    BY DEF Accounts_!Write, Accounts_!Finish
  <1>2. u \in User /\ request[q].email \in Accounts_!Spelling
    BY <1>1 DEF Accounts_!AccountInv, Accounts_!AsksInv, Accounts_!Idle
  <1>3. e \in Accounts_!Spelling /\ e.written = "lower"
    BY <1>2, InLowerCase DEF Accounts_!Filed
  <1> HIDE DEF u, e
  <1>4. Accounts_!AsksInv'
    BY <1>1 DEF Accounts_!AccountInv, Accounts_!AsksInv
  <1>5. Accounts_!AddressesInv'
    BY <1>1, <1>2, <1>3
    DEF Accounts_!AccountInv, Accounts_!AddressesInv, Accounts_!Free
  <1>6. QED
    BY <1>1, <1>4, <1>5 DEF Accounts_!AccountInv

\* Whoever logs in by any spelling of an account's address finds that account.
LEMMA AccountLogin ==
    ASSUME Accounts_!AccountInv, NEW u \in User, NEW written \in {"lower", "mixed"},
           Accounts_!Login(u, written)
    PROVE  Accounts_!AccountInv'
  <1> DEFINE e == [email[u] EXCEPT !.written = written]
  <1>1. /\ email[u] # NULL
        /\ entered' = [user |-> u, found |-> Accounts_!findByEmail(e)]
        /\ UNCHANGED <<email, request>>
    BY DEF Accounts_!Login
  <1>2. email[u] \in Accounts_!Spelling /\ email[u].written = "lower"
    BY <1>1 DEF Accounts_!AccountInv, Accounts_!AddressesInv
  <1>3. Accounts_!toLowerCase(e) = email[u]
    BY <1>2 DEF Accounts_!toLowerCase, Accounts_!Spelling
  <1>4. Accounts_!findByEmail(e) = {u}
    BY <1>1, <1>3
    DEF Accounts_!findByEmail, Accounts_!AccountInv, Accounts_!AddressesInv
  <1> HIDE DEF e
  <1>5. entered'.found = {entered'.user}
    BY <1>1, <1>4
  <1>6. QED
    BY <1>1, <1>5
    DEF Accounts_!AccountInv, Accounts_!AddressesInv, Accounts_!AsksInv

LEMMA AccountNext ==
    ASSUME Accounts_!AccountInv, Accounts_!Next PROVE Accounts_!AccountInv'
  <1>1. CASE Accounts_!Past
    BY <1>1
    DEF Accounts_!Past, Accounts_!AccountInv, Accounts_!AddressesInv, Accounts_!AsksInv
  <1>2. ASSUME NEW u \in User, NEW written \in {"lower", "mixed"},
               Accounts_!Login(u, written)
        PROVE  Accounts_!AccountInv'
    BY <1>2, AccountLogin
  <1>3. ASSUME NEW q \in Request, Accounts_!Write(q) PROVE Accounts_!AccountInv'
    BY <1>3, AccountWrite
  <1>4. QED
    BY <1>1, <1>2, <1>3, AccountRequests, Zenon DEF Accounts_!Next

LEMMA AccountsAlone ==
    [MarketplaceNext]_marketVars => Accounts_!Next \/ UNCHANGED accountVars
  BY Zenon DEF MarketplaceNext, marketVars, servedVars

LEMMA AccountStep ==
    ASSUME Accounts_!AccountInv, [MarketplaceNext]_marketVars
    PROVE  Accounts_!AccountInv'
  <1>1. CASE Accounts_!Next
    BY <1>1, AccountNext
  <1>2. CASE UNCHANGED accountVars
    BY <1>2
    DEF accountVars, Accounts_!AccountInv, Accounts_!AddressesInv, Accounts_!AsksInv
  <1>3. QED
    BY <1>1, <1>2, AccountsAlone

\* Addresses in one case are different only if their mailboxes are.
LEMMA OneAccountPerMailbox ==
    Accounts_!AccountInv => Accounts_!MailboxHasOneAccount
  <1> SUFFICES ASSUME Accounts_!AccountInv, NEW u \in User, NEW v \in User,
                      u # v, email[u] # NULL, email[v] # NULL
               PROVE  email[u].mailbox # email[v].mailbox
    BY DEF Accounts_!AccountInv, Accounts_!MailboxHasOneAccount
  <1>1. /\ email[u] \in Accounts_!Spelling /\ email[v] \in Accounts_!Spelling
        /\ email[u].written = "lower" /\ email[v].written = "lower"
        /\ email[u] # email[v]
    BY DEF Accounts_!AccountInv, Accounts_!AddressesInv
  <1>2. QED
    BY <1>1 DEF Accounts_!Spelling

-----------------------------------------------------------------------------
(* Settings. *)

LEMMA SettingsInit == Settings_!Init => Settings_!SettingsInv
  <1> SUFFICES ASSUME Settings_!Init PROVE Settings_!SettingsInv
    OBVIOUS
  <1>1. PICK b \in Bio :
            user = [bio |-> b, method |-> NULL, details |-> Settings_!Nothing]
    BY Zenon DEF Settings_!Init
  <1>2. user \in Settings_!Row /\ Settings_!OfItsMethod(user)
    BY <1>1 DEF Settings_!Row, Settings_!OfItsMethod, Settings_!Nothing
  <1>3. Settings_!FormInv
    BY DEF Settings_!Init, Settings_!FormInv, Settings_!Method
  <1>4. Settings_!SavingInv
    BY DEF Settings_!Init, Settings_!SavingInv, Settings_!NotSaving
  <1>5. query = Settings_!Asked /\ asking = NULL /\ payout = NULL
    BY DEF Settings_!Init
  <1>6. Settings_!RowsInv /\ Settings_!PayoutInv
    BY <1>2, <1>5 DEF Settings_!RowsInv, Settings_!PayoutInv, Settings_!Asked
  <1>7. QED
    BY <1>3, <1>4, <1>6 DEF Settings_!SettingsInv

\* The details of one method, and of no other.
LEMMA OnlyOf ==
    ASSUME NEW m \in Settings_!Method, NEW details,
           user \in Settings_!Row, Settings_!setPayoutSettings(m, m)
    PROVE  user' \in Settings_!Row /\ Settings_!OfItsMethod(user')
  <1> DEFINE only == [Settings_!Nothing EXCEPT ![m] = m]
  <1>1. user' = [user EXCEPT !.method = m, !.details = only]
    BY DEF Settings_!setPayoutSettings, Settings_!Only
  <1>2. /\ only \in [Settings_!Method -> Settings_!Method \cup {NULL}]
        /\ \A n \in Settings_!Method : only[n] = IF n = m THEN n ELSE NULL
    BY DEF Settings_!Nothing
  <1> HIDE DEF only
  <1>3. /\ user' \in Settings_!Row
        /\ user'.method = m /\ user'.details = only
    BY <1>1, <1>2 DEF Settings_!Row
  <1>4. QED
    BY <1>2, <1>3 DEF Settings_!OfItsMethod

LEMMA Updated ==
    ASSUME NEW b \in Bio, user \in Settings_!Row, Settings_!OfItsMethod(user),
           Settings_!update(b)
    PROVE  user' \in Settings_!Row /\ Settings_!OfItsMethod(user')
  <1>1. user' = [user EXCEPT !.bio = b]
    BY DEF Settings_!update
  <1>2. /\ user' \in Settings_!Row
        /\ user'.method = user.method /\ user'.details = user.details
    BY <1>1 DEF Settings_!Row
  <1>3. QED
    BY <1>2 DEF Settings_!OfItsMethod


LEMMA SettingsQuery ==
    ASSUME Settings_!SettingsInv,
           \/ Settings_!ReadProfile \/ Settings_!ProfileComes \/ Settings_!QueryFails
    PROVE  Settings_!SettingsInv'
  <1>1. Settings_!RowsInv /\ Settings_!FormInv /\ Settings_!SavingInv
            /\ Settings_!PayoutInv
    BY DEF Settings_!SettingsInv
  <1>2. UNCHANGED <<user, saving, asking, payout>>
    BY DEF Settings_!ReadProfile, Settings_!ProfileComes, Settings_!QueryFails
  <1>3. Settings_!SavingInv' /\ Settings_!PayoutInv'
    BY <1>1, <1>2 DEF Settings_!SavingInv, Settings_!PayoutInv
  <1>4. CASE Settings_!ReadProfile
    <2>1. query' = [pc |-> "answered", data |-> user] /\ UNCHANGED form
      BY <1>4 DEF Settings_!ReadProfile
    <2>2. /\ query' \in [pc : {"answered"}, data : Settings_!Row]
          /\ query'.data = user
      BY <1>1, <2>1 DEF Settings_!RowsInv
    <2>3. Settings_!RowsInv'
      BY <1>1, <1>2, <2>2 DEF Settings_!RowsInv, Settings_!OfItsMethod
    <2>4. Settings_!FormInv'
      BY <1>1, <2>1 DEF Settings_!FormInv
    <2>5. QED
      BY <1>3, <2>3, <2>4 DEF Settings_!SettingsInv
  <1>5. CASE query' = Settings_!NoQuery /\ UNCHANGED form
    <2>1. Settings_!RowsInv'
      BY <1>1, <1>2, <1>5
      DEF Settings_!RowsInv, Settings_!OfItsMethod, Settings_!NoQuery
    <2>2. Settings_!FormInv'
      BY <1>1, <1>5 DEF Settings_!FormInv
    <2>3. QED
      BY <1>3, <2>1, <2>2 DEF Settings_!SettingsInv
  <1>6. CASE /\ Settings_!ProfileComes
             /\ form' = Settings_!Shown(query.data)
    <2>1. query.pc = "answered" /\ query' = Settings_!NoQuery
      BY <1>6 DEF Settings_!ProfileComes
    <2>2. query.data \in Settings_!Row /\ Settings_!OfItsMethod(query.data)
      BY <1>1, <2>1 DEF Settings_!RowsInv, Settings_!NoQuery, Settings_!Asked
    <2>3. Settings_!FormInv'
      <3>1. CASE query.data.method = NULL
        BY <1>1, <1>6, <2>2, <3>1
        DEF Settings_!FormInv, Settings_!Shown, Settings_!Row
      <3>2. CASE query.data.method # NULL
        <4> DEFINE m == query.data.method
        <4>1. m \in Settings_!Method
          BY <2>2, <3>2 DEF Settings_!Row
        <4>2. query.data.details[m] = m
          BY <2>2, <4>1 DEF Settings_!OfItsMethod
        <4>3. form' = [bio |-> query.data.bio, method |-> m, value |-> m]
          BY <1>6, <3>2, <4>2 DEF Settings_!Shown
        <4> HIDE DEF m
        <4>4. QED
          BY <2>2, <4>1, <4>3 DEF Settings_!FormInv, Settings_!Row
      <3>3. QED
        BY <3>1, <3>2
    <2>4. Settings_!RowsInv'
      BY <1>1, <1>2, <2>1
      DEF Settings_!RowsInv, Settings_!OfItsMethod, Settings_!NoQuery
    <2>5. QED
      BY <1>3, <2>3, <2>4 DEF Settings_!SettingsInv
  <1>7. QED
    BY <1>4, <1>5, <1>6, Zenon DEF Settings_!ProfileComes, Settings_!QueryFails

LEMMA SettingsTyped ==
    ASSUME Settings_!SettingsInv,
           \/ \E b \in Bio : Settings_!EditBio(b)
           \/ \E m \in Settings_!Method : Settings_!ChooseMethod(m)
           \/ Settings_!TypeDetails
    PROVE  Settings_!SettingsInv'
  <1>1. UNCHANGED <<user, query, saving, asking, payout>>
    BY Zenon DEF Settings_!EditBio, Settings_!ChooseMethod, Settings_!TypeDetails
  <1>2. form \in [bio : Bio \cup {NULL}, method : Settings_!Method,
                  value : Settings_!Method \cup {NULL}]
        /\ form.value \in {form.method, NULL}
    BY DEF Settings_!SettingsInv, Settings_!FormInv
  <1>3. Settings_!FormInv'
    <2>1. ASSUME NEW b \in Bio, Settings_!EditBio(b) PROVE Settings_!FormInv'
      BY <1>2, <2>1 DEF Settings_!EditBio, Settings_!FormInv
    <2>2. ASSUME NEW m \in Settings_!Method, Settings_!ChooseMethod(m)
          PROVE  Settings_!FormInv'
      BY <1>2, <2>2
      DEF Settings_!ChooseMethod, Settings_!Emptied, Settings_!FormInv
    <2>3. CASE Settings_!TypeDetails
      BY <1>2, <2>3 DEF Settings_!TypeDetails, Settings_!FormInv
    <2>4. QED
      BY <2>1, <2>2, <2>3
  <1>4. QED
    BY <1>1, <1>3
    DEF Settings_!SettingsInv, Settings_!RowsInv, Settings_!SavingInv,
        Settings_!PayoutInv, Settings_!OfItsMethod

\* A step of the mutations, after which the row is its method's as before.
LEMMA MutationMoves ==
    ASSUME Settings_!SettingsInv, Settings_!SavingInv',
           UNCHANGED <<form, asking, payout>>,
           query' \in {query, Settings_!Asked},
           user' \in Settings_!Row, Settings_!OfItsMethod(user')
    PROVE  Settings_!SettingsInv'
  <1>1. Settings_!RowsInv'
    BY DEF Settings_!SettingsInv, Settings_!RowsInv, Settings_!OfItsMethod,
           Settings_!Asked
  <1>2. QED
    BY <1>1 DEF Settings_!SettingsInv, Settings_!FormInv, Settings_!PayoutInv

\* What is on its way, of one part of the form.
LEMMA SavingOf ==
    ASSUME Settings_!SavingInv, NEW part \in {"bio", "payout"}, NEW s,
           s \in [pc : {"none", "sent", "answered"},
                  method : Settings_!Method \cup {NULL},
                  value : Bio \cup Settings_!Method \cup {NULL}],
           s.pc = "sent" => IF part = "bio" THEN s.value \in Bio
                            ELSE s.method \in Settings_!Method /\ s.value = s.method,
           saving' = [saving EXCEPT ![part] = s]
    PROVE  Settings_!SavingInv'
  BY DEF Settings_!SavingInv

LEMMA SettingsSaved ==
    ASSUME Settings_!SettingsInv,
           \/ Settings_!SaveProfile \/ Settings_!SavePayout
           \/ Settings_!ProfileSaved \/ Settings_!PayoutSaved
           \/ \E part \in {"bio", "payout"} :
                  Settings_!Answered(part) \/ Settings_!SaveFails(part)
           \/ Settings_!SavedElsewhere
    PROVE  Settings_!SettingsInv'
  <1> DEFINE Saving == [pc : {"none", "sent", "answered"},
                        method : Settings_!Method \cup {NULL},
                        value : Bio \cup Settings_!Method \cup {NULL}]
  <1>1. /\ user \in Settings_!Row /\ Settings_!OfItsMethod(user)
        /\ Settings_!FormInv /\ Settings_!SavingInv
        /\ saving \in [{"bio", "payout"} -> Saving]
    BY DEF Settings_!SettingsInv, Settings_!RowsInv, Settings_!SavingInv
  <1>2. CASE Settings_!SaveProfile
    <2>1. /\ form.bio # NULL
          /\ saving' = [saving EXCEPT !["bio"] = [Settings_!NotSaving EXCEPT
                                                   !.pc = "sent", !.value = form.bio]]
          /\ UNCHANGED <<user, form, query, asking, payout>>
      BY <1>2 DEF Settings_!SaveProfile
    <2>2. form.bio \in Bio
      BY <1>1, <2>1 DEF Settings_!FormInv
    <2>3. Settings_!SavingInv'
      BY <1>1, <2>1, <2>2, SavingOf DEF Settings_!NotSaving
    <2>4. QED
      BY <1>1, <2>1, <2>3, MutationMoves
  <1>3. CASE Settings_!SavePayout
    <2>1. /\ form.value # NULL
          /\ saving' = [saving EXCEPT !["payout"] =
                 [pc |-> "sent", method |-> form.method, value |-> form.value]]
          /\ UNCHANGED <<user, form, query, asking, payout>>
      BY <1>3 DEF Settings_!SavePayout
    <2>2. form.method \in Settings_!Method /\ form.value = form.method
      BY <1>1, <2>1 DEF Settings_!FormInv
    <2>3. Settings_!SavingInv'
      BY <1>1, <2>1, <2>2, SavingOf
    <2>4. QED
      BY <1>1, <2>1, <2>3, MutationMoves
  <1>4. CASE Settings_!ProfileSaved
    <2>1. /\ saving["bio"].pc = "sent"
          /\ Settings_!update(saving["bio"].value)
          /\ saving' = [saving EXCEPT !["bio"] =
                            [saving["bio"] EXCEPT !.pc = "answered"]]
          /\ UNCHANGED <<form, query, asking, payout>>
      BY <1>4 DEF Settings_!ProfileSaved
    <2>2. saving["bio"].value \in Bio
      BY <1>1, <2>1 DEF Settings_!SavingInv
    <2>3. /\ [saving["bio"] EXCEPT !.pc = "answered"] \in Saving
          /\ [saving["bio"] EXCEPT !.pc = "answered"].pc = "answered"
      BY <1>1
    <2>4. Settings_!SavingInv'
      BY <1>1, <2>1, <2>3, SavingOf
    <2>5. QED
      BY <1>1, <2>1, <2>2, <2>4, Updated, MutationMoves
  <1>5. CASE Settings_!PayoutSaved
    <2>1. /\ saving["payout"].pc = "sent"
          /\ Settings_!setPayoutSettings(saving["payout"].method,
                                         saving["payout"].value)
          /\ saving' = [saving EXCEPT !["payout"] =
                            [saving["payout"] EXCEPT !.pc = "answered"]]
          /\ UNCHANGED <<form, query, asking, payout>>
      BY <1>5 DEF Settings_!PayoutSaved
    <2>2. /\ saving["payout"].method \in Settings_!Method
          /\ saving["payout"].value = saving["payout"].method
      BY <1>1, <2>1 DEF Settings_!SavingInv
    <2>3. /\ [saving["payout"] EXCEPT !.pc = "answered"] \in Saving
          /\ [saving["payout"] EXCEPT !.pc = "answered"].pc = "answered"
      BY <1>1
    <2>4. Settings_!SavingInv'
      BY <1>1, <2>1, <2>3, SavingOf
    <2>5. QED
      BY <1>1, <2>1, <2>2, <2>4, OnlyOf, MutationMoves
  <1>6. ASSUME NEW part \in {"bio", "payout"},
               Settings_!Answered(part) \/ Settings_!SaveFails(part)
        PROVE  Settings_!SettingsInv'
    <2>1. /\ saving' = [saving EXCEPT ![part] = Settings_!NotSaving]
          /\ UNCHANGED <<user, form, asking, payout>>
          /\ query' \in {query, Settings_!Asked}
      BY <1>6 DEF Settings_!Answered, Settings_!SaveFails
    <2>2. Settings_!NotSaving \in Saving /\ Settings_!NotSaving.pc = "none"
      BY DEF Settings_!NotSaving
    <2>3. Settings_!SavingInv'
      BY <1>1, <2>1, <2>2, SavingOf
    <2>4. QED
      BY <1>1, <2>1, <2>3, MutationMoves
  <1>7. CASE Settings_!SavedElsewhere
    <2>1. UNCHANGED <<form, query, saving, asking, payout>>
      BY <1>7 DEF Settings_!SavedElsewhere
    <2>2. user' \in Settings_!Row /\ Settings_!OfItsMethod(user')
      BY <1>1, <1>7, OnlyOf, Updated DEF Settings_!SavedElsewhere
    <2>3. Settings_!SavingInv'
      BY <1>1, <2>1 DEF Settings_!SavingInv
    <2>4. QED
      BY <1>1, <2>1, <2>2, <2>3, MutationMoves
  <1>8. QED
    BY <1>2, <1>3, <1>4, <1>5, <1>6, <1>7, Zenon

\* A payout is asked for by a method whose details are there.
LEMMA SettingsPayout ==
    ASSUME Settings_!SettingsInv,
           \/ \E m \in Settings_!Method : Settings_!CheckDetails(m)
           \/ Settings_!CreatePayout
    PROVE  Settings_!SettingsInv'
  <1>1. UNCHANGED <<user, form, profile, query, saving>>
    BY DEF Settings_!CheckDetails, Settings_!CreatePayout
  <1>2. Settings_!PayoutInv'
    <2>1. ASSUME NEW m \in Settings_!Method, Settings_!CheckDetails(m)
          PROVE  Settings_!PayoutInv'
      <3>1. /\ user.details[m] # NULL
            /\ asking' = [method |-> m, details |-> user.details]
            /\ UNCHANGED payout
        BY <2>1 DEF Settings_!CheckDetails, Settings_!Missing
      <3>2. user.details[m] = m
        BY <3>1 DEF Settings_!SettingsInv, Settings_!RowsInv, Settings_!OfItsMethod
      <3>3. QED
        BY <3>1, <3>2 DEF Settings_!SettingsInv, Settings_!PayoutInv
    <2>2. CASE Settings_!CreatePayout
      BY <2>2 DEF Settings_!CreatePayout, Settings_!SettingsInv, Settings_!PayoutInv
    <2>3. QED
      BY <2>1, <2>2
  <1>3. QED
    BY <1>1, <1>2
    DEF Settings_!SettingsInv, Settings_!RowsInv, Settings_!FormInv,
        Settings_!SavingInv, Settings_!OfItsMethod

LEMMA SettingsNext ==
    ASSUME Settings_!SettingsInv, Settings_!Next PROVE Settings_!SettingsInv'
  BY SettingsQuery, SettingsTyped, SettingsSaved, SettingsPayout, Zenon
  DEF Settings_!Next

LEMMA SettingsAlone ==
    [MarketplaceNext]_marketVars => Settings_!Next \/ UNCHANGED settingVars
  BY Zenon DEF MarketplaceNext, marketVars, servedVars

LEMMA SettingsStep ==
    ASSUME Settings_!SettingsInv, [MarketplaceNext]_marketVars
    PROVE  Settings_!SettingsInv'
  <1>1. CASE Settings_!Next
    BY <1>1, SettingsNext
  <1>2. CASE UNCHANGED settingVars
    BY <1>2
    DEF settingVars, Settings_!SettingsInv, Settings_!RowsInv, Settings_!FormInv,
        Settings_!SavingInv, Settings_!PayoutInv, Settings_!OfItsMethod
  <1>3. QED
    BY <1>1, <1>2, SettingsAlone

-----------------------------------------------------------------------------
(* The switches of the links page. *)

LEMMA ToggleInit == Toggles!Init => Toggles!ToggleInv
  <1> SUFFICES ASSUME Toggles!Init PROVE Toggles!ToggleInv
    OBVIOUS
  <1>1. /\ active \in [Switch -> BOOLEAN] /\ shown = active
        /\ stale = FALSE /\ list = Toggles!NoQuery
        /\ toggle = [m \in Toggle |-> Toggles!Idle] /\ missed = {}
    BY DEF Toggles!Init
  <1>2. Toggles!ToggleTypeInv
    BY <1>1 DEF Toggles!ToggleTypeInv, Toggles!Lists
  <1>3. Toggles!AnsweredInv /\ Toggles!ShownInv
    BY <1>1 DEF Toggles!AnsweredInv, Toggles!ShownInv, Toggles!NoQuery
  <1>4. QED
    BY <1>1, <1>2, <1>3 DEF Toggles!ToggleInv

\* Types, of a step of one mutation.
LEMMA ToggleTypes ==
    ASSUME Toggles!ToggleInv, NEW m \in Toggle,
           \/ \E l \in Switch : Toggles!Mutate(m, l)
           \/ Toggles!Patch(m) \/ Toggles!Success(m) \/ Toggles!Error(m)
           \/ Toggles!PatchLate(m)
    PROVE  Toggles!ToggleTypeInv'
  <1> DEFINE Switching == [pc : {"sent", "written", "late"}, link : Switch,
                           isActive : BOOLEAN, previous : Toggles!Lists]
  <1>1. Toggles!ToggleTypeInv
    BY DEF Toggles!ToggleInv
  <1>2. toggle[m].pc # "idle" => toggle[m] \in Switching
    BY <1>1 DEF Toggles!ToggleTypeInv, Toggles!Idle
  <1>3. ASSUME NEW l \in Switch, Toggles!Mutate(m, l)
        PROVE  Toggles!ToggleTypeInv'
    <2>1. [pc |-> "sent", link |-> l, isActive |-> ~shown[l], previous |-> shown]
              \in Switching
      BY <1>1 DEF Toggles!ToggleTypeInv, Toggles!Lists
    <2>2. shown' \in Toggles!Lists
      BY <1>1, <1>3 DEF Toggles!Mutate, Toggles!ToggleTypeInv, Toggles!Lists
    <2>3. QED
      BY <1>1, <1>3, <2>1, <2>2 DEF Toggles!Mutate, Toggles!ToggleTypeInv
  <1>4. CASE Toggles!Patch(m)
    <2>1. toggle[m] \in Switching
      BY <1>2, <1>4 DEF Toggles!Patch
    <2>2. [toggle[m] EXCEPT !.pc = "written"] \in Switching
      BY <2>1
    <2>3. active' \in Toggles!Lists
      BY <1>1, <1>4, <2>1 DEF Toggles!Patch, Toggles!ToggleTypeInv, Toggles!Lists
    <2>4. toggle' = [toggle EXCEPT ![m] = [toggle[m] EXCEPT !.pc = "written"]]
      BY <1>4 DEF Toggles!Patch
    <2>5. QED
      BY <1>1, <1>4, <2>2, <2>3, <2>4 DEF Toggles!Patch, Toggles!ToggleTypeInv
  <1>5. CASE Toggles!Success(m)
    BY <1>1, <1>5
    DEF Toggles!Success, Toggles!Settled, Toggles!Restarted, Toggles!ToggleTypeInv
  <1>6. CASE Toggles!Error(m)
    <2>1. toggle[m] \in Switching
      BY <1>2, <1>6 DEF Toggles!Error
    <2>2. [toggle[m] EXCEPT !.pc = "late"] \in Switching
      BY <2>1
    <2>3. toggle' \in {[toggle EXCEPT ![m] = Toggles!Idle],
                       [toggle EXCEPT ![m] = [toggle[m] EXCEPT !.pc = "late"]]}
      BY <1>6 DEF Toggles!Error
    <2>4. QED
      BY <1>1, <1>6, <2>1, <2>2, <2>3
      DEF Toggles!Error, Toggles!Settled, Toggles!Restarted, Toggles!ToggleTypeInv
  <1>7. CASE Toggles!PatchLate(m)
    <2>1. toggle[m] \in Switching
      BY <1>2, <1>7 DEF Toggles!PatchLate
    <2>2. active' \in Toggles!Lists
      BY <1>1, <1>7, <2>1 DEF Toggles!PatchLate, Toggles!ToggleTypeInv, Toggles!Lists
    <2>3. QED
      BY <1>1, <1>7, <2>1, <2>2 DEF Toggles!PatchLate, Toggles!ToggleTypeInv
  <1>8. QED
    BY <1>3, <1>4, <1>5, <1>6, <1>7

\* A switch that is flipped makes up for the difference it shows.
LEMMA ToggleMutate ==
    ASSUME Toggles!ToggleInv, NEW m \in Toggle, NEW k \in Switch,
           Toggles!Mutate(m, k)
    PROVE  Toggles!ToggleInv'
  <1>1. Toggles!ToggleTypeInv /\ Toggles!ToggleTypeInv'
    BY ToggleTypes DEF Toggles!ToggleInv
  <1>2. /\ toggle[m] = Toggles!Idle
        /\ toggle' = [toggle EXCEPT ![m] = [pc |-> "sent", link |-> k,
                          isActive |-> ~shown[k], previous |-> shown]]
        /\ shown' = [shown EXCEPT ![k] = ~shown[k]]
        /\ list' = Toggles!NoQuery
        /\ UNCHANGED <<active, stale, missed>>
    BY DEF Toggles!Mutate
  <1>3. Toggles!AnsweredInv'
    BY <1>2 DEF Toggles!AnsweredInv, Toggles!NoQuery
  <1>4. toggle'[m].link = k /\ toggle'[m].pc = "sent"
    BY <1>1, <1>2 DEF Toggles!ToggleTypeInv
  <1>5. ASSUME NEW l \in Switch \ missed, ~stale
        PROVE  (shown[l] = active[l] \/ Toggles!Toggling(l, {"sent", "written"}))'
    <2>1. CASE l = k
      BY <1>4, <2>1 DEF Toggles!Toggling
    <2>2. CASE l # k
      <3>1. shown'[l] = shown[l] /\ active'[l] = active[l]
        BY <1>1, <1>2, <2>2 DEF Toggles!ToggleTypeInv, Toggles!Lists
      <3>2. CASE shown[l] = active[l]
        BY <3>1, <3>2
      <3>3. CASE Toggles!Toggling(l, {"sent", "written"})
        <4>1. PICK n \in Toggle :
                  toggle[n].link = l /\ toggle[n].pc \in {"sent", "written"}
          BY <3>3 DEF Toggles!Toggling
        <4>2. n # m
          BY <1>2, <4>1 DEF Toggles!Idle
        <4>3. toggle'[n] = toggle[n]
          BY <1>1, <1>2, <4>2 DEF Toggles!ToggleTypeInv
        <4>4. QED
          BY <4>1, <4>3 DEF Toggles!Toggling
      <3>4. QED
        BY <1>5, <3>2, <3>3 DEF Toggles!ToggleInv, Toggles!ShownInv
    <2>3. QED
      BY <2>1, <2>2
  <1>6. Toggles!ShownInv'
    BY <1>2, <1>5 DEF Toggles!ShownInv
  <1>7. QED
    BY <1>1, <1>2, <1>3, <1>6 DEF Toggles!ToggleInv

\* A row that is written differs from the list until its answer comes.
LEMMA TogglePatch ==
    ASSUME Toggles!ToggleInv, NEW m \in Toggle, Toggles!Patch(m)
    PROVE  Toggles!ToggleInv'
  <1>1. Toggles!ToggleTypeInv /\ Toggles!ToggleTypeInv'
    BY ToggleTypes DEF Toggles!ToggleInv
  <1>2. /\ toggle[m].pc = "sent"
        /\ active' = [active EXCEPT ![toggle[m].link] = toggle[m].isActive]
        /\ toggle' = [toggle EXCEPT ![m] = [toggle[m] EXCEPT !.pc = "written"]]
        /\ UNCHANGED <<shown, stale, list, missed>>
    BY DEF Toggles!Patch
  <1>3. toggle[m] \in [pc : {"sent", "written", "late"}, link : Switch,
                       isActive : BOOLEAN, previous : Toggles!Lists]
    BY <1>1, <1>2 DEF Toggles!ToggleTypeInv, Toggles!Idle
  <1>4. toggle'[m].link = toggle[m].link /\ toggle'[m].pc = "written"
    BY <1>1, <1>2, <1>3 DEF Toggles!ToggleTypeInv
  <1>6. ASSUME NEW l \in Switch, NEW steps, "written" \in steps,
               l = toggle[m].link \/ Toggles!Toggling(l, steps)
        PROVE  Toggles!Toggling(l, steps)'
    <2>1. CASE l = toggle[m].link
      BY <1>4, <1>6, <2>1 DEF Toggles!Toggling
    <2>2. CASE Toggles!Toggling(l, steps)
      <3>1. PICK n \in Toggle : toggle[n].link = l /\ toggle[n].pc \in steps
        BY <2>2 DEF Toggles!Toggling
      <3>2. CASE n = m
        BY <1>4, <1>6, <3>1, <3>2 DEF Toggles!Toggling
      <3>3. CASE n # m
        <4>1. toggle'[n] = toggle[n]
          BY <1>1, <1>2, <3>3 DEF Toggles!ToggleTypeInv
        <4>2. QED
          BY <3>1, <4>1 DEF Toggles!Toggling
      <3>4. QED
        BY <3>2, <3>3
    <2>3. QED
      BY <1>6, <2>1, <2>2
  <1>7. \A l \in Switch : l # toggle[m].link => active'[l] = active[l]
    BY <1>1, <1>2 DEF Toggles!ToggleTypeInv, Toggles!Lists
  <1>8. Toggles!AnsweredInv'
    <2> SUFFICES ASSUME list.pc = "answered", NEW l \in Switch \ missed
                 PROVE  list.list[l] = active'[l] \/ Toggles!Toggling(l, {"written"})'
      BY <1>2 DEF Toggles!AnsweredInv
    <2>1. list.list[l] = active[l] \/ Toggles!Toggling(l, {"written"})
      BY DEF Toggles!ToggleInv, Toggles!AnsweredInv
    <2>2. QED
      BY <1>6, <1>7, <2>1
  <1>9. Toggles!ShownInv'
    <2> SUFFICES ASSUME ~stale, NEW l \in Switch \ missed
                 PROVE  shown[l] = active'[l]
                            \/ Toggles!Toggling(l, {"sent", "written"})'
      BY <1>2 DEF Toggles!ShownInv
    <2>1. shown[l] = active[l] \/ Toggles!Toggling(l, {"sent", "written"})
      BY DEF Toggles!ToggleInv, Toggles!ShownInv
    <2>2. QED
      BY <1>6, <1>7, <2>1
  <1>10. QED
    BY <1>1, <1>2, <1>8, <1>9 DEF Toggles!ToggleInv

LEMMA ToggleSettled ==
    ASSUME Toggles!ToggleInv, NEW m \in Toggle,
           Toggles!Success(m) \/ Toggles!Error(m)
    PROVE  Toggles!ToggleInv'
  <1>1. Toggles!ToggleTypeInv'
    BY ToggleTypes
  <1>2. stale' = TRUE /\ list' = Toggles!Asked
    BY DEF Toggles!Success, Toggles!Error, Toggles!Settled, Toggles!Restarted
  <1>3. Toggles!AnsweredInv' /\ Toggles!ShownInv'
    BY <1>2 DEF Toggles!AnsweredInv, Toggles!ShownInv, Toggles!Asked
  <1>4. QED
    BY <1>1, <1>2, <1>3 DEF Toggles!ToggleInv

LEMMA TogglePatchLate ==
    ASSUME Toggles!ToggleInv, NEW m \in Toggle, Toggles!PatchLate(m)
    PROVE  Toggles!ToggleInv'
  <1>1. Toggles!ToggleTypeInv /\ Toggles!ToggleTypeInv'
    BY ToggleTypes DEF Toggles!ToggleInv
  <1>2. /\ toggle[m].pc = "late"
        /\ active' = [active EXCEPT ![toggle[m].link] = toggle[m].isActive]
        /\ missed' = missed \cup {toggle[m].link}
        /\ toggle' = [toggle EXCEPT ![m] = Toggles!Idle]
        /\ UNCHANGED <<shown, stale, list>>
    BY DEF Toggles!PatchLate
  <1>3. ASSUME NEW l \in Switch \ missed'
        PROVE  /\ active'[l] = active[l]
               /\ l \in Switch \ missed
               /\ \A steps \in {{"written"}, {"sent", "written"}} :
                      Toggles!Toggling(l, steps) => Toggles!Toggling(l, steps)'
    <2>1. active'[l] = active[l] /\ l \in Switch \ missed
      BY <1>1, <1>2 DEF Toggles!ToggleTypeInv, Toggles!Lists
    <2>2. ASSUME NEW steps \in {{"written"}, {"sent", "written"}},
                 Toggles!Toggling(l, steps)
          PROVE  Toggles!Toggling(l, steps)'
      <3>1. PICK n \in Toggle : toggle[n].link = l /\ toggle[n].pc \in steps
        BY <2>2 DEF Toggles!Toggling
      <3>2. n # m
        BY <1>2, <3>1
      <3>3. toggle'[n] = toggle[n]
        BY <1>1, <1>2, <3>2 DEF Toggles!ToggleTypeInv
      <3>4. QED
        BY <3>1, <3>3 DEF Toggles!Toggling
    <2>3. QED
      BY <2>1, <2>2
  <1>4. Toggles!AnsweredInv'
    <2> SUFFICES ASSUME list.pc = "answered", NEW l \in Switch \ missed'
                 PROVE  list.list[l] = active'[l] \/ Toggles!Toggling(l, {"written"})'
      BY <1>2 DEF Toggles!AnsweredInv
    <2>1. list.list[l] = active[l] \/ Toggles!Toggling(l, {"written"})
      BY <1>3 DEF Toggles!ToggleInv, Toggles!AnsweredInv
    <2>2. QED
      BY <1>3, <2>1
  <1>5. Toggles!ShownInv'
    <2> SUFFICES ASSUME ~stale, NEW l \in Switch \ missed'
                 PROVE  shown[l] = active'[l]
                            \/ Toggles!Toggling(l, {"sent", "written"})'
      BY <1>2 DEF Toggles!ShownInv
    <2>1. shown[l] = active[l] \/ Toggles!Toggling(l, {"sent", "written"})
      BY <1>3 DEF Toggles!ToggleInv, Toggles!ShownInv
    <2>2. QED
      BY <1>3, <2>1
  <1>6. QED
    BY <1>1, <1>2, <1>4, <1>5 DEF Toggles!ToggleInv

\* A list that comes is as true as it was when it was read, and better.
LEMMA ToggleLists ==
    ASSUME Toggles!ToggleInv,
           \/ Toggles!Read \/ Toggles!ListComes \/ Toggles!QueryFails \/ Toggles!Visit
    PROVE  Toggles!ToggleInv'
  <1>1. Toggles!ToggleTypeInv /\ Toggles!AnsweredInv /\ Toggles!ShownInv
            /\ (list # Toggles!NoQuery => stale)
    BY DEF Toggles!ToggleInv
  <1>2. CASE Toggles!Read
    <2>1. /\ list = Toggles!Asked
          /\ list' = [pc |-> "answered", list |-> active]
          /\ UNCHANGED <<active, shown, stale, toggle>>
          /\ missed' = {}
      BY <1>2 DEF Toggles!Read
    <2>2. list # Toggles!NoQuery
      BY <2>1 DEF Toggles!Asked, Toggles!NoQuery
    <2>3. Toggles!ToggleTypeInv'
      BY <1>1, <2>1 DEF Toggles!ToggleTypeInv
    <2>4. Toggles!AnsweredInv' /\ Toggles!ShownInv'
      BY <1>1, <2>1, <2>2 DEF Toggles!AnsweredInv, Toggles!ShownInv
    <2>5. QED
      BY <1>1, <2>1, <2>2, <2>3, <2>4 DEF Toggles!ToggleInv
  <1>3. CASE Toggles!ListComes
    <2>1. /\ list.pc = "answered" /\ shown' = list.list /\ stale' = FALSE
          /\ list' = Toggles!NoQuery
          /\ UNCHANGED <<active, toggle, missed>>
      BY <1>3 DEF Toggles!ListComes
    <2>2. list.list \in Toggles!Lists
      BY <1>1, <2>1 DEF Toggles!ToggleTypeInv, Toggles!NoQuery, Toggles!Asked
    <2>3. Toggles!ToggleTypeInv'
      BY <1>1, <2>1, <2>2, Zenon DEF Toggles!ToggleTypeInv
    <2>4. Toggles!AnsweredInv'
      BY <2>1 DEF Toggles!AnsweredInv, Toggles!NoQuery
    <2>5. Toggles!ShownInv'
      BY <1>1, <2>1 DEF Toggles!AnsweredInv, Toggles!ShownInv, Toggles!Toggling
    <2>6. QED
      BY <2>1, <2>3, <2>4, <2>5 DEF Toggles!ToggleInv
  <1>4. CASE Toggles!QueryFails \/ Toggles!Visit
    <2>1. /\ \/ list' = Toggles!NoQuery
             \/ list' = Toggles!Asked /\ stale
          /\ UNCHANGED <<active, shown, stale, toggle, missed>>
      BY <1>4 DEF Toggles!QueryFails, Toggles!Visit
    <2>2. Toggles!ToggleTypeInv'
      BY <1>1, <2>1 DEF Toggles!ToggleTypeInv
    <2>3. Toggles!AnsweredInv'
      BY <2>1 DEF Toggles!AnsweredInv, Toggles!NoQuery, Toggles!Asked
    <2>4. Toggles!ShownInv'
      BY <1>1, <2>1 DEF Toggles!ShownInv, Toggles!Toggling
    <2>5. QED
      BY <1>1, <2>1, <2>2, <2>3, <2>4 DEF Toggles!ToggleInv
  <1>5. QED
    BY <1>2, <1>3, <1>4

LEMMA ToggleNext ==
    ASSUME Toggles!ToggleInv, Toggles!Next PROVE Toggles!ToggleInv'
  BY ToggleMutate, TogglePatch, ToggleSettled, TogglePatchLate, ToggleLists, Zenon
  DEF Toggles!Next

LEMMA TogglesAlone ==
    [MarketplaceNext]_marketVars => Toggles!Next \/ UNCHANGED toggleVars
  BY Zenon DEF MarketplaceNext, marketVars, servedVars

LEMMA ToggleStep ==
    ASSUME Toggles!ToggleInv, [MarketplaceNext]_marketVars
    PROVE  Toggles!ToggleInv'
  <1>1. CASE Toggles!Next
    BY <1>1, ToggleNext
  <1>2. CASE UNCHANGED toggleVars
    BY <1>2
    DEF toggleVars, Toggles!ToggleInv, Toggles!ToggleTypeInv, Toggles!AnsweredInv,
        Toggles!ShownInv, Toggles!Toggling
  <1>3. QED
    BY <1>1, <1>2, TogglesAlone

LEMMA PageIsTrue == Toggles!ToggleInv => Toggles!PageAtRestIsTrue
  <1> SUFFICES ASSUME Toggles!ToggleInv,
                      \A m \in Toggle : toggle[m].pc \in {"idle", "late"}, ~stale,
                      NEW l \in Switch \ missed
               PROVE  shown[l] = active[l]
    BY DEF Toggles!PageAtRestIsTrue
  <1>1. ~Toggles!Toggling(l, {"sent", "written"})
    BY DEF Toggles!Toggling
  <1>2. QED
    BY <1>1 DEF Toggles!ToggleInv, Toggles!ShownInv

-----------------------------------------------------------------------------
(* The brand's list of conversions. *)

LEMMA DeskParameters ==
    /\ Price \in Nat \ {0} /\ Typed \subseteq 1 .. Price
    /\ NULL \notin Listed /\ NULL \notin Mutation /\ NULL \notin Nat
    /\ NULL \notin {"approve", "reject", "reverse"}
  <1>1. Desk!DeskAssumption
    BY MarketplaceAssumption DEF MarketplaceAssumption
  <1>2. QED
    BY <1>1 DEF Desk!DeskAssumption

\* Requests of the page that are what they may be.
Sendable ==
    {x \in [pc : {"idle", "sent", "done", "refused", "late"},
            kind : {"approve", "reject", "reverse", NULL},
            conversion : Listed \cup {NULL},
            reason : Desk!FilledReason \cup {NULL},
            refund : Desk!FilledRefund \cup {NULL}] :
        /\ x.kind # NULL => x.conversion \in Listed
        /\ x.pc # "idle" => x.kind # NULL
        /\ x.kind \in {"reject", "reverse"} =>
               /\ x.reason = [kind |-> x.kind, conversion |-> x.conversion]
               /\ x.refund # NULL => x.refund.of = x.conversion}

LEMMA AllSendable ==
    Desk!CallInv /\ Desk!SentAsTyped <=> mutation \in [Mutation -> Sendable]
  <1> DEFINE Row == [pc : {"idle", "sent", "done", "refused", "late"},
                     kind : {"approve", "reject", "reverse", NULL},
                     conversion : Listed \cup {NULL},
                     reason : Desk!FilledReason \cup {NULL},
                     refund : Desk!FilledRefund \cup {NULL}]
             Right(x) == /\ x.kind # NULL => x.conversion \in Listed
                         /\ x.pc # "idle" => x.kind # NULL
                         /\ x.kind \in {"reject", "reverse"} =>
                                /\ x.reason = [kind |-> x.kind,
                                               conversion |-> x.conversion]
                                /\ x.refund # NULL => x.refund.of = x.conversion
  <1>1. /\ Sendable = {x \in Row : Right(x)}
        /\ Desk!CallInv /\ Desk!SentAsTyped <=>
               mutation \in [Mutation -> Row] /\ \A m \in Mutation : Right(mutation[m])
    BY DEF Sendable, Desk!CallInv, Desk!SentAsTyped
  <1> HIDE DEF Row, Right
  <1>2. QED
    BY <1>1

LEMMA IdleIsSendable == Desk!Idle \in Sendable /\ Desk!Idle.kind = NULL
  BY DeskParameters DEF Sendable, Desk!Idle

\* The step of a request that is under way.
LEMMA Advances ==
    ASSUME NEW x \in Sendable, x.pc # "idle",
           NEW pc \in {"done", "refused", "late"}
    PROVE  /\ [x EXCEPT !.pc = pc] \in Sendable
           /\ [x EXCEPT !.pc = pc].pc = pc
           /\ [x EXCEPT !.pc = pc].kind = x.kind
           /\ [x EXCEPT !.pc = pc].conversion = x.conversion
           /\ [x EXCEPT !.pc = pc].refund = x.refund
  BY DEF Sendable

LEMMA DeskInit ==
    ASSUME Desk!Init PROVE Desk!DeskInv
  <1>1. /\ status \in [Listed -> {"PENDING", "APPROVED"}]
        /\ refunded = [c \in Listed |-> 0] /\ asked = [c \in Listed |-> 0]
        /\ listed = status /\ dialog = NULL /\ reason = NULL /\ refund = NULL
        /\ mutation = [m \in Mutation |-> Desk!Idle]
        /\ pending = [hook \in Desk!Hooks |-> NULL]
        /\ unanswered = FALSE
    BY DEF Desk!Init
  <1>2. Desk!CallInv /\ Desk!SentAsTyped
    BY <1>1, IdleIsSendable, AllSendable
  <1>3. \A m \in Mutation : mutation[m].pc = "idle" /\ mutation[m].kind = NULL
    BY <1>1 DEF Desk!Idle
  <1>4. Desk!TypeOK
    BY <1>1, <1>3, DeskParameters DEF Desk!TypeOK
  <1>5. Desk!RoomInv
    BY <1>1, <1>3, DeskParameters DEF Desk!RoomInv
  <1>6. QED
    BY <1>1, <1>2, <1>4, <1>5, DeskParameters
    DEF Desk!DeskInv, Desk!DialogInv, Desk!TakenOnce

\* The steps at the dialog that ask the server for nothing.
LEMMA DeskDialog ==
    ASSUME Desk!DeskInv,
           \/ \E c \in Listed : Desk!OpenReject(c) \/ Desk!OpenReverse(c)
           \/ Desk!TypeReason \/ Desk!Cancel \/ \E n \in Typed : Desk!TypeRefund(n)
    PROVE  Desk!DeskInv'
  <1>1. /\ UNCHANGED <<status, refunded, listed, mutation, pending, asked, presses,
                       unanswered>>
        /\ \/ \E c \in Listed, kind \in {"reject", "reverse"} :
                  /\ dialog' = [kind |-> kind, conversion |-> c, pressed |-> NULL]
                  /\ reason' = NULL
                  /\ refund' = IF kind = "reverse" THEN NULL ELSE refund
           \/ /\ dialog # NULL /\ UNCHANGED <<dialog, refund>>
              /\ reason' = [kind |-> dialog.kind, conversion |-> dialog.conversion]
           \/ /\ dialog' = NULL /\ UNCHANGED <<reason, refund>>
           \/ /\ dialog # NULL /\ UNCHANGED <<dialog, reason>>
              /\ \E n \in Typed : refund' = [of |-> dialog.conversion, amount |-> n]
    BY DEF Desk!OpenReject, Desk!OpenReverse, Desk!Open, Desk!TypeReason,
           Desk!Cancel, Desk!TypeRefund, Desk!Emptied
  <1>2. Desk!DialogInv /\ Desk!TypeOK
    BY DEF Desk!DeskInv
  <1>3. Desk!DialogInv' /\ (reason' \in Desk!FilledReason \cup {NULL})
            /\ (refund' \in Desk!FilledRefund \cup {NULL})
    BY <1>1, <1>2 DEF Desk!DialogInv, Desk!TypeOK, Desk!FilledReason, Desk!FilledRefund
  <1>4. Desk!TypeOK'
    BY <1>1, <1>2, <1>3 DEF Desk!TypeOK, Desk!FilledReason, Desk!FilledRefund
  <1>5. Desk!CallInv' /\ Desk!SentAsTyped' /\ (Desk!TakenOnce => Desk!TakenOnce')
    BY <1>1 DEF Desk!DeskInv, Desk!CallInv, Desk!SentAsTyped, Desk!TakenOnce
  <1>6. ASSUME Desk!RoomInv PROVE Desk!RoomInv'
    <2>1. dialog' # NULL /\ dialog'.pressed # NULL => dialog' = dialog
      BY <1>1
    <2>2. QED
      BY <1>1, <1>6, <2>1 DEF Desk!RoomInv
  <1>7. QED
    BY <1>1, <1>3, <1>4, <1>5, <1>6 DEF Desk!DeskInv

\* A request changes in one step, and the others stay as they are.
LEMMA OneMutation ==
    ASSUME Desk!DeskInv, NEW m \in Mutation, NEW x \in Sendable,
           mutation' = [mutation EXCEPT ![m] = x]
    PROVE  /\ Desk!CallInv' /\ Desk!SentAsTyped'
           /\ mutation'[m] = x
           /\ \A n \in Mutation \ {m} : mutation'[n] = mutation[n]
  <1>1. mutation \in [Mutation -> Sendable]
    BY AllSendable DEF Desk!DeskInv
  <1>2. mutation' \in [Mutation -> Sendable]
    BY <1>1
  <1>3. (mutation \in [Mutation -> Sendable])' => Desk!CallInv' /\ Desk!SentAsTyped'
    BY AllSendable, PTL
  <1>4. Sendable' = Sendable
    BY DEF Sendable, Desk!FilledReason, Desk!FilledRefund
  <1>5. QED
    BY <1>1, <1>2, <1>3, <1>4

\* What DeskInv says of the types, in one place.
LEMMA DeskFacts ==
    ASSUME Desk!DeskInv
    PROVE  /\ mutation \in [Mutation -> Sendable]
           /\ status \in [Listed -> {"PENDING", "APPROVED", "REJECTED"}]
           /\ refunded \in [Listed -> 0 .. Price]
           /\ asked \in [Listed -> Nat]
           /\ pending \in [Desk!Hooks -> Mutation \cup {NULL}]
           /\ reason \in Desk!FilledReason \cup {NULL}
           /\ refund \in Desk!FilledRefund \cup {NULL}
  BY AllSendable DEF Desk!DeskInv, Desk!TypeOK, Desk!FilledReason, Desk!FilledRefund

\* mutate of a review: no reversal comes or goes.
LEMMA DeskReview ==
    ASSUME Desk!DeskInv, NEW m \in Mutation,
           (\E c \in Listed : Desk!Approve(m, c)) \/ Desk!Reject(m)
    PROVE  Desk!DeskInv'
  <1>1. PICK kind \in {"approve", "reject"}, c \in Listed,
             typed \in Desk!FilledReason \cup {NULL} :
            /\ kind = "reject" => typed = [kind |-> kind, conversion |-> c]
            /\ mutation[m] = Desk!Idle
            /\ mutation' = [mutation EXCEPT
                   ![m] = [pc |-> "sent", kind |-> kind, conversion |-> c,
                           reason |-> typed, refund |-> NULL]]
            /\ pending' = [pending EXCEPT !["review"] = m]
            /\ UNCHANGED <<status, refunded, listed, dialog, reason, refund, asked,
                           presses, unanswered>>
    <2>1. CASE \E c \in Listed : Desk!Approve(m, c)
      BY <2>1 DEF Desk!Approve, Desk!Mutate
    <2>2. CASE Desk!Reject(m)
      <3>1. /\ dialog # NULL /\ dialog.kind = "reject" /\ reason # NULL
            /\ Desk!Mutate(m, "review", "reject", dialog.conversion, reason, NULL)
            /\ UNCHANGED <<status, refunded, listed, dialog, reason, refund, asked,
                           presses, unanswered>>
        BY <2>2 DEF Desk!Reject
      <3>2. /\ dialog.conversion \in Listed
            /\ reason = [kind |-> "reject", conversion |-> dialog.conversion]
        BY <3>1 DEF Desk!DeskInv, Desk!DialogInv
      <3>3. QED
        BY <3>1, <3>2, DeskFacts DEF Desk!Mutate
    <2>3. QED
      BY <2>1, <2>2
  <1> DEFINE x == [pc |-> "sent", kind |-> kind, conversion |-> c,
                   reason |-> typed, refund |-> NULL]
  <1>2. x \in Sendable /\ x.kind = kind /\ x.pc = "sent"
    <2>1. /\ x.pc = "sent" /\ x.kind = kind /\ x.conversion = c
          /\ x.reason = typed /\ x.refund = NULL
      OBVIOUS
    <2>2. x \in [pc : {"idle", "sent", "done", "refused", "late"},
                kind : {"approve", "reject", "reverse", NULL},
                conversion : Listed \cup {NULL},
                reason : Desk!FilledReason \cup {NULL},
                refund : Desk!FilledRefund \cup {NULL}]
      OBVIOUS
    <2> HIDE DEF x
    <2>3. /\ x.kind # NULL /\ x.conversion \in Listed
          /\ x.kind \in {"reject", "reverse"} =>
                 /\ x.reason = [kind |-> x.kind, conversion |-> x.conversion]
                 /\ x.refund # NULL => x.refund.of = x.conversion
      BY <1>1, <2>1, DeskParameters
    <2>4. QED
      BY <2>1, <2>2, <2>3 DEF Sendable
  <1>3. mutation' = [mutation EXCEPT ![m] = x]
    BY <1>1
  <1> HIDE DEF x
  <1>4. /\ Desk!CallInv' /\ Desk!SentAsTyped'
        /\ mutation'[m] = x
        /\ \A n \in Mutation \ {m} : mutation'[n] = mutation[n]
    BY <1>2, <1>3, OneMutation
  <1>5. /\ pending' \in [Desk!Hooks -> Mutation \cup {NULL}]
        /\ pending'["reverse"] = pending["reverse"]
    BY <1>1, DeskFacts DEF Desk!Hooks
  <1>6. Desk!TypeOK'
    BY <1>1, <1>4, <1>5 DEF Desk!DeskInv, Desk!TypeOK, Desk!CallInv
  <1>7. mutation[m].kind = NULL /\ x.kind # "reverse"
    BY <1>1, <1>2, IdleIsSendable
  <1>8. ASSUME Desk!RoomInv PROVE Desk!RoomInv'
    <2>1. \A n \in Mutation : /\ mutation'[n].pc # "late"
                              /\ mutation'[n].kind = "reverse" =>
                                     mutation'[n] = mutation[n]
                              /\ mutation[n].kind = "reverse" =>
                                     mutation'[n] = mutation[n]
      BY <1>2, <1>4, <1>7, <1>8, DeskParameters DEF Desk!RoomInv
    <2>2. QED
      BY <1>1, <1>5, <1>8, <2>1 DEF Desk!RoomInv, Desk!Amount
  <1>9. QED
    BY <1>1, <1>4, <1>6, <1>8 DEF Desk!DeskInv, Desk!DialogInv, Desk!TakenOnce

\* mutate of a reversal: no other is outstanding, and what it may take has been
\* asked for, now or by an earlier press that took nothing.
LEMMA DeskReverse ==
    ASSUME Desk!DeskInv, NEW m \in Mutation, Desk!Reverse(m)
    PROVE  Desk!DeskInv'
  <1> DEFINE c == dialog.conversion
             n == Desk!Amount(refund)
             x == [pc |-> "sent", kind |-> "reverse", conversion |-> c,
                   reason |-> reason, refund |-> refund]
  <1>1. /\ dialog # NULL /\ dialog.kind = "reverse" /\ reason # NULL
        /\ \A hook \in Desk!Hooks : pending[hook] = NULL
        /\ mutation[m] = Desk!Idle
        /\ mutation' = [mutation EXCEPT ![m] = x]
        /\ pending' = [pending EXCEPT !["reverse"] = m]
        /\ asked' = [asked EXCEPT ![c] = IF dialog.pressed = n THEN asked[c]
                                         ELSE asked[c] + n]
        /\ dialog' = [dialog EXCEPT !.pressed = n]
        /\ UNCHANGED <<status, refunded, listed, reason, refund, unanswered>>
    BY Zenon DEF Desk!Reverse, Desk!Enabled, Desk!Mutate
  <1>2. /\ c \in Listed
        /\ reason = [kind |-> "reverse", conversion |-> c]
        /\ refund # NULL => refund.of = c
    BY <1>1 DEF Desk!DeskInv, Desk!DialogInv
  <1>3. n \in Typed \cup {Price} /\ n \in Nat
    BY DeskFacts, DeskParameters DEF Desk!Amount, Desk!FilledRefund
  <1>4. x \in Sendable /\ x.kind = "reverse" /\ x.pc = "sent"
            /\ x.conversion = c /\ x.refund = refund
    <2>1. /\ x.pc = "sent" /\ x.kind = "reverse" /\ x.conversion = c
          /\ x.reason = reason /\ x.refund = refund
      OBVIOUS
    <2>2. x \in [pc : {"idle", "sent", "done", "refused", "late"},
                kind : {"approve", "reject", "reverse", NULL},
                conversion : Listed \cup {NULL},
                reason : Desk!FilledReason \cup {NULL},
                refund : Desk!FilledRefund \cup {NULL}]
      BY <1>2, DeskFacts
    <2> HIDE DEF x
    <2>3. /\ x.kind # NULL /\ x.conversion \in Listed
          /\ x.kind \in {"reject", "reverse"} =>
                 /\ x.reason = [kind |-> x.kind, conversion |-> x.conversion]
                 /\ x.refund # NULL => x.refund.of = x.conversion
      BY <1>2, <2>1, DeskParameters
    <2>4. QED
      BY <2>1, <2>2, <2>3 DEF Sendable
  <1>5. /\ dialog' \in [kind : {"reject", "reverse"}, conversion : Listed,
                        pressed : Typed \cup {Price, NULL}]
        /\ dialog'.kind = dialog.kind /\ dialog'.conversion = c
        /\ dialog'.pressed = n
    BY <1>1, <1>3 DEF Desk!DeskInv, Desk!DialogInv
  <1> HIDE DEF x
  <1>6. /\ Desk!CallInv' /\ Desk!SentAsTyped'
        /\ mutation'[m] = x
        /\ \A k \in Mutation \ {m} : mutation'[k] = mutation[k]
    BY <1>1, <1>4, OneMutation
  <1>7. /\ pending' \in [Desk!Hooks -> Mutation \cup {NULL}]
        /\ pending'["reverse"] = m /\ pending["reverse"] = NULL
    BY <1>1, DeskFacts DEF Desk!Hooks
  <1>8. Desk!TypeOK'
    BY <1>1, <1>6, <1>7 DEF Desk!DeskInv, Desk!TypeOK, Desk!CallInv
  <1>9. Desk!DialogInv'
    BY <1>1, <1>2, <1>5 DEF Desk!DialogInv
  <1> HIDE DEF n, c
  <1>10. /\ asked' \in [Listed -> Nat]
         /\ \A d \in Listed : asked[d] <= asked'[d]
         /\ dialog.pressed # n => asked'[c] = asked[c] + n
    BY <1>1, <1>2, <1>3, DeskFacts
  <1>11. ASSUME Desk!TakenOnce, Desk!RoomInv
         PROVE  Desk!TakenOnce' /\ Desk!RoomInv'
    <2>1. Desk!TakenOnce'
      BY <1>1, <1>10, <1>11, DeskFacts DEF Desk!TakenOnce
    <2>2. \A k \in Mutation : mutation[k].kind # "reverse"
      BY <1>7, <1>11, DeskParameters DEF Desk!RoomInv
    <2>3. refunded[c] + n <= asked'[c]
      <3>1. CASE dialog.pressed = n
        <4>1. dialog.pressed # NULL
          BY <1>3, <3>1, DeskParameters
        <4>2. refunded[c] + n <= asked[c]
          BY <1>1, <1>11, <2>2, <3>1, <4>1 DEF Desk!RoomInv, c
        <4>3. QED
          BY <1>2, <1>3, <1>10, <4>2, DeskFacts
      <3>2. CASE dialog.pressed # n
        <4>1. refunded[c] <= asked[c]
          BY <1>2, <1>11 DEF Desk!TakenOnce
        <4>2. QED
          BY <1>2, <1>3, <1>10, <3>2, <4>1, DeskFacts
      <3>3. QED
        BY <3>1, <3>2
    <2>4. ASSUME NEW k \in Mutation
          PROVE  /\ mutation'[k].pc # "late"
                 /\ mutation'[k].kind = "reverse" => k = m
      BY <1>4, <1>6, <1>11, <2>2 DEF Desk!RoomInv
    <2>5. QED
      BY <1>1, <1>4, <1>5, <1>6, <1>7, <2>1, <2>3, <2>4 DEF Desk!RoomInv, Desk!Amount, n
  <1>12. QED
    BY <1>1, <1>6, <1>8, <1>9, <1>10, <1>11 DEF Desk!DeskInv

\* What a write takes is left, and no more than was asked for.
LEMMA DeskWrites ==
    ASSUME Desk!DeskInv, NEW m \in Mutation, mutation[m].pc \in {"sent", "late"},
           Desk!Allowed(m), Desk!Write(m)
    PROVE  LET c == mutation[m].conversion IN
           /\ c \in Listed
           /\ status' \in [Listed -> {"PENDING", "APPROVED", "REJECTED"}]
           /\ refunded' \in [Listed -> 0 .. Price]
           /\ mutation[m].kind # "reverse" => refunded' = refunded
           /\ \A d \in Listed \ {c} : refunded'[d] = refunded[d]
           /\ refunded'[c] <= refunded[c] + Desk!Amount(mutation[m].refund)
           /\ Desk!Amount(mutation[m].refund) \in Nat
  <1> DEFINE c == mutation[m].conversion
             f == mutation[m].refund
             n == Desk!Taken(m)
  <1>1. /\ mutation[m].kind \in {"approve", "reject", "reverse"}
        /\ c \in Listed
        /\ f \in Desk!FilledRefund \cup {NULL}
    BY DeskFacts DEF Sendable
  <1>2. refunded[c] \in 0 .. Price
    BY <1>1, DeskFacts
  <1>3. /\ Desk!Amount(f) \in 0 .. Price
        /\ n \in Int /\ 0 <= n /\ n <= Desk!Amount(f)
    <2>1. CASE f = NULL
      <3>1. n = Price - refunded[c] /\ Desk!Amount(f) = Price
        BY <2>1 DEF Desk!Taken, Desk!Amount, Desk!Left
      <3>2. QED
        BY <1>2, <3>1, DeskParameters
    <2>2. CASE f # NULL
      <3>1. n = f.amount /\ Desk!Amount(f) = f.amount /\ f.amount \in Typed
        BY <1>1, <2>2 DEF Desk!Taken, Desk!Amount, Desk!FilledRefund
      <3>2. f.amount \in 1 .. Price
        BY <3>1, DeskParameters, Zenon
      <3> HIDE DEF f, n
      <3>3. QED
        BY <3>1, <3>2, DeskParameters
    <2>3. QED
      BY <2>1, <2>2
  <1>4. CASE mutation[m].kind # "reverse"
    <2>1. /\ refunded' = refunded
          /\ \E s \in {"APPROVED", "REJECTED"} : status' = [status EXCEPT ![c] = s]
      BY <1>1, <1>4 DEF Desk!Write
    <2>2. QED
      BY <1>1, <1>2, <1>3, <2>1, DeskFacts
  <1>5. CASE mutation[m].kind = "reverse"
    <2>1. /\ refunded' = [refunded EXCEPT ![c] = @ + n]
          /\ status' = IF n = Desk!Left(c)
                       THEN [status EXCEPT ![c] = "REJECTED"] ELSE status
          /\ n <= Price - refunded[c]
      BY <1>5 DEF Desk!Write, Desk!Allowed, Desk!Left
    <2> HIDE DEF n, c, f
    <2>2. status' \in [Listed -> {"PENDING", "APPROVED", "REJECTED"}]
      BY <1>1, <2>1, DeskFacts
    <2>3. refunded[c] + n \in 0 .. Price
      BY <1>2, <1>3, <2>1, DeskParameters
    <2>4. /\ refunded' \in [Listed -> 0 .. Price]
          /\ refunded'[c] = refunded[c] + n
          /\ \A d \in Listed \ {c} : refunded'[d] = refunded[d]
      BY <1>1, <2>1, <2>3, DeskFacts
    <2>5. QED
      BY <1>1, <1>2, <1>3, <1>5, <2>2, <2>4 DEF c, f
  <1>6. QED
    BY <1>4, <1>5

LEMMA DeskServe ==
    ASSUME Desk!DeskInv, NEW m \in Mutation, Desk!Serve(m) \/ Desk!Refuse(m)
    PROVE  Desk!DeskInv'
  <1>1. PICK pc \in {"done", "refused"} :
            /\ mutation[m].pc = "sent"
            /\ mutation' = [mutation EXCEPT ![m] = [mutation[m] EXCEPT !.pc = pc]]
            /\ UNCHANGED <<listed, dialog, reason, refund, pending, asked, presses,
                           unanswered>>
            /\ \/ pc = "refused" /\ UNCHANGED <<status, refunded>>
               \/ pc = "done" /\ Desk!Allowed(m) /\ Desk!Write(m)
    BY Zenon DEF Desk!Serve, Desk!Refuse
  <1> DEFINE x == [mutation[m] EXCEPT !.pc = pc]
             c == mutation[m].conversion
             n == Desk!Amount(mutation[m].refund)
  <1>2. mutation[m] \in Sendable /\ mutation[m].pc # "idle"
    BY <1>1, DeskFacts
  <1>3. /\ x \in Sendable /\ x.pc = pc /\ x.kind = mutation[m].kind
        /\ x.conversion = c /\ x.refund = mutation[m].refund
    <2>1. pc \in {"done", "refused", "late"}
      OBVIOUS
    <2>2. QED
      BY <1>2, <2>1, Advances, Zenon
  <1> HIDE DEF x
  <1>4. /\ Desk!CallInv' /\ Desk!SentAsTyped'
        /\ mutation'[m] = x
        /\ \A k \in Mutation \ {m} : mutation'[k] = mutation[k]
    BY <1>1, <1>3, OneMutation DEF x
  <1>5. /\ c \in Listed
        /\ status' \in [Listed -> {"PENDING", "APPROVED", "REJECTED"}]
        /\ refunded' \in [Listed -> 0 .. Price]
        /\ pc = "refused" \/ mutation[m].kind # "reverse" => refunded' = refunded
        /\ \A d \in Listed \ {c} : refunded'[d] = refunded[d]
        /\ pc = "done" => refunded'[c] <= refunded[c] + n
        /\ n \in Nat
    <2>1. CASE pc = "refused"
      <3>1. UNCHANGED <<status, refunded>>
        BY <1>1, <2>1
      <3>2. c \in Listed /\ n \in Nat
        BY <1>2, DeskParameters DEF Sendable, Desk!Amount, Desk!FilledRefund
      <3>3. QED
        BY <2>1, <3>1, <3>2, DeskFacts
    <2>2. CASE pc = "done"
      <3>1. Desk!Allowed(m) /\ Desk!Write(m)
        BY <1>1, <2>2
      <3>2. QED
        BY <1>1, <2>2, <3>1, DeskWrites
    <2>3. QED
      BY <2>1, <2>2
  <1>6. Desk!TypeOK'
    BY <1>1, <1>4, <1>5 DEF Desk!DeskInv, Desk!TypeOK, Desk!CallInv
  <1> HIDE DEF n, c
  <1>7. ASSUME Desk!TakenOnce, Desk!RoomInv
        PROVE  Desk!TakenOnce' /\ Desk!RoomInv'
    <2>1. CASE mutation[m].kind = "reverse" /\ pc = "done"
      <3>1. refunded[c] + n <= asked[c]
        BY <1>1, <1>7, <2>1 DEF Desk!RoomInv, c, n
      <3>2. refunded'[c] <= asked[c]
        BY <1>5, <3>1, DeskFacts
      <3>3. Desk!TakenOnce'
        BY <1>1, <1>5, <1>7, <3>2 DEF Desk!TakenOnce
      <3>4. mutation'[m].kind = "reverse" /\ mutation'[m].pc = "done"
        BY <1>3, <1>4, <2>1
      <3>5. \A k \in Mutation \ {m} : mutation[k].kind # "reverse"
        BY <1>7, <2>1 DEF Desk!RoomInv
      <3>6. QED
        BY <1>1, <1>4, <1>7, <2>1, <3>3, <3>4, <3>5 DEF Desk!RoomInv
    <2>2. CASE ~(mutation[m].kind = "reverse" /\ pc = "done")
      <3>1. refunded' = refunded
        BY <1>1, <1>5, <2>2
      <3>2. \A k \in Mutation :
                /\ mutation'[k].pc # "late"
                /\ mutation'[k].kind = mutation[k].kind
                /\ mutation'[k].conversion = mutation[k].conversion
                /\ mutation'[k].refund = mutation[k].refund
                /\ mutation[k].pc = "done" => mutation'[k].pc = "done"
                /\ mutation'[k].kind = "reverse" /\ mutation'[k].pc \in {"sent", "refused"}
                       => mutation[k].pc \in {"sent", "refused"}
        BY <1>1, <1>3, <1>4, <1>7 DEF Desk!RoomInv, c
      <3>3. QED
        BY <1>1, <1>7, <3>1, <3>2 DEF Desk!RoomInv, Desk!TakenOnce
    <2>3. QED
      BY <2>1, <2>2
  <1>8. QED
    BY <1>1, <1>4, <1>6, <1>7 DEF Desk!DeskInv, Desk!DialogInv

\* What a hook no longer waits for is of no other request.
LEMMA DeskSettles ==
    ASSUME Desk!DeskInv, NEW m \in Mutation, Desk!NoLongerWaited(m)
    PROVE  /\ pending' \in [Desk!Hooks -> Mutation \cup {NULL}]
           /\ \A k \in Mutation \ {m} :
                  pending["reverse"] = k => pending'["reverse"] = k
  BY DeskFacts DEF Desk!NoLongerWaited, Desk!Hooks

LEMMA DeskAnswered ==
    ASSUME Desk!DeskInv, NEW m \in Mutation,
           Desk!Success(m) \/ Desk!Error(m) \/ Desk!Lose(m)
    PROVE  Desk!DeskInv'
  <1>1. /\ mutation[m].pc # "idle"
        /\ \/ mutation' = [mutation EXCEPT ![m] = Desk!Idle]
           \/ /\ mutation' = [mutation EXCEPT ![m] = [mutation[m] EXCEPT !.pc = "late"]]
              /\ unanswered'
        /\ Desk!NoLongerWaited(m)
        /\ UNCHANGED <<status, refunded, listed, reason, refund, asked, presses>>
        /\ \/ dialog' = NULL /\ UNCHANGED unanswered
           \/ mutation[m].pc = "refused" /\ UNCHANGED <<dialog, unanswered>>
           \/ unanswered' /\ UNCHANGED dialog
    BY Zenon DEF Desk!Success, Desk!Error, Desk!Lose
  <1>2. PICK x \in Sendable :
            /\ mutation' = [mutation EXCEPT ![m] = x]
            /\ x = Desk!Idle \/ unanswered'
    <2>1. [mutation[m] EXCEPT !.pc = "late"] \in Sendable
      BY <1>1, DeskFacts, Advances
    <2>2. QED
      BY <1>1, <2>1, IdleIsSendable
  <1>3. /\ Desk!CallInv' /\ Desk!SentAsTyped'
        /\ mutation'[m] = x
        /\ \A k \in Mutation \ {m} : mutation'[k] = mutation[k]
    BY <1>2, OneMutation
  <1>4. /\ pending' \in [Desk!Hooks -> Mutation \cup {NULL}]
        /\ \A k \in Mutation \ {m} :
               pending["reverse"] = k => pending'["reverse"] = k
    BY <1>1, DeskSettles
  <1>5. Desk!TypeOK'
    BY <1>1, <1>3, <1>4 DEF Desk!DeskInv, Desk!TypeOK, Desk!CallInv
  <1>6. Desk!DialogInv' /\ (Desk!TakenOnce => Desk!TakenOnce')
    BY <1>1 DEF Desk!DeskInv, Desk!DialogInv, Desk!TakenOnce
  <1>7. ASSUME ~unanswered', Desk!RoomInv PROVE Desk!RoomInv'
    <2>1. mutation'[m].kind = NULL /\ mutation'[m].pc = "idle" /\ NULL # "reverse"
      BY <1>2, <1>3, <1>7, DeskParameters DEF Desk!Idle
    <2>2. \A k \in Mutation :
              /\ mutation'[k].pc # "late"
              /\ mutation'[k].kind = "reverse" =>
                     k # m /\ mutation'[k] = mutation[k]
              /\ mutation[k].pc = "done" /\ mutation[m].pc = "refused" =>
                     mutation'[k] = mutation[k]
      BY <1>3, <1>7, <2>1 DEF Desk!RoomInv
    <2>3. dialog' # NULL => dialog' = dialog /\ mutation[m].pc = "refused"
      BY <1>1, <1>7
    <2>4. QED
      BY <1>1, <1>4, <1>7, <2>2, <2>3 DEF Desk!RoomInv
  <1>8. ~unanswered' => ~unanswered
    BY <1>1
  <1>9. QED
    BY <1>1, <1>3, <1>5, <1>6, <1>7, <1>8 DEF Desk!DeskInv

\* A request that was given up is only done where an answer was lost.
LEMMA DeskLate ==
    ASSUME Desk!DeskInv, NEW m \in Mutation, Desk!ServeLate(m)
    PROVE  Desk!DeskInv'
  <1>1. /\ mutation[m].pc = "late"
        /\ mutation' = [mutation EXCEPT ![m] = Desk!Idle]
        /\ UNCHANGED <<listed, dialog, reason, refund, pending, asked, presses,
                       unanswered>>
        /\ \/ Desk!Allowed(m) /\ Desk!Write(m)
           \/ UNCHANGED <<status, refunded>>
    BY Zenon DEF Desk!ServeLate
  <1>2. unanswered
    BY <1>1 DEF Desk!DeskInv, Desk!RoomInv
  <1>3. Desk!CallInv' /\ Desk!SentAsTyped'
    BY <1>1, IdleIsSendable, OneMutation
  <1>4. /\ status' \in [Listed -> {"PENDING", "APPROVED", "REJECTED"}]
        /\ refunded' \in [Listed -> 0 .. Price]
    BY <1>1, DeskFacts, DeskWrites
  <1>5. Desk!TypeOK'
    BY <1>1, <1>3, <1>4 DEF Desk!DeskInv, Desk!TypeOK, Desk!CallInv
  <1>6. QED
    BY <1>1, <1>2, <1>3, <1>5 DEF Desk!DeskInv, Desk!DialogInv

LEMMA DeskList ==
    ASSUME Desk!DeskInv, Desk!List
    PROVE  Desk!DeskInv'
  <1>1. /\ listed' = status
        /\ UNCHANGED <<status, refunded, dialog, reason, refund, mutation, pending,
                       asked, presses, unanswered>>
    BY DEF Desk!List
  <1>2. Desk!TypeOK'
    BY <1>1 DEF Desk!DeskInv, Desk!TypeOK
  <1>3. QED
    BY <1>1, <1>2
    DEF Desk!DeskInv, Desk!DialogInv, Desk!CallInv, Desk!SentAsTyped, Desk!TakenOnce,
        Desk!RoomInv

LEMMA DeskNext ==
    ASSUME Desk!DeskInv, Desk!Next PROVE Desk!DeskInv'
  BY DeskDialog, DeskReview, DeskReverse, DeskServe, DeskAnswered, DeskLate, DeskList,
     Zenon DEF Desk!Next

LEMMA DeskAlone ==
    [MarketplaceNext]_marketVars => Desk!Next \/ UNCHANGED deskVars
  BY Zenon DEF MarketplaceNext, marketVars, servedVars

LEMMA DeskStep ==
    ASSUME Desk!DeskInv, [MarketplaceNext]_marketVars
    PROVE  Desk!DeskInv'
  <1>1. CASE Desk!Next
    BY <1>1, DeskNext
  <1>2. CASE UNCHANGED deskVars
    BY <1>2
    DEF deskVars, Desk!DeskInv, Desk!TypeOK, Desk!DialogInv, Desk!CallInv,
        Desk!SentAsTyped, Desk!TakenOnce, Desk!RoomInv
  <1>3. QED
    BY <1>1, <1>2, DeskAlone

LEMMA DeskKeeps == Desk!DeskInv => Desk!SentAsTyped /\ Desk!TakenAsAsked
  BY DEF Desk!DeskInv, Desk!TakenAsAsked

-----------------------------------------------------------------------------
\* Whatever overlaps: a login finds the one account of its mailbox, payout
\* details are those of their method, a links page at rest shows what the rows
\* say, and a brand's reversals say what was typed for them and take what was
\* asked for once, unless an answer was lost (profile.service.ts,
\* auth.service.ts, SettingsForm.tsx, affiliate/links/page.tsx,
\* brand/conversions/page.tsx).
THEOREM WhatPeopleKeep == MarketplaceSpec => []AccountsAreKept
  <1> DEFINE Kept == /\ Accounts_!AccountInv
                     /\ Settings_!SettingsInv
                     /\ Toggles!ToggleInv
                     /\ Desk!DeskInv
  <1>1. MarketplaceInit => Kept
    BY AccountInit, SettingsInit, ToggleInit, DeskInit DEF MarketplaceInit
  <1>2. Kept /\ [MarketplaceNext]_marketVars => Kept'
    BY AccountStep, SettingsStep, ToggleStep, DeskStep
  <1>3. Kept => AccountsAreKept
    <2>1. Settings_!SettingsInv => Settings_!DetailsOfTheirMethod
      BY DEF Settings_!SettingsInv, Settings_!RowsInv, Settings_!PayoutInv,
             Settings_!OfItsMethod, Settings_!DetailsOfTheirMethod
    <2>2. QED
      BY <2>1, OneAccountPerMailbox, PageIsTrue, DeskKeeps DEF AccountsAreKept
  <1>4. QED
    BY <1>1, <1>2, <1>3, PTL DEF MarketplaceSpec, marketVars

-----------------------------------------------------------------------------
(* Campaigns, partners and links. *)

LEMMA ProgramInit == Programs!Init => Programs!ProgramInv
  <1> SUFFICES ASSUME Programs!Init PROVE Programs!ProgramInv
    OBVIOUS
  <1>1. /\ campaign \in [status : {"DRAFT"}, terms : {0}, past : {FALSE},
                         open : BOOLEAN]
        /\ custom = [a \in Affiliate |-> NULL]
        /\ history = [a \in Affiliate |-> <<>>]
        /\ links = [a \in Affiliate |-> <<>>]
        /\ late = FALSE
        /\ op = [q \in Request |-> Programs!Idle]
    BY DEF Programs!Init
  <1>2. Programs!CampaignInv
    <2>1. /\ campaign = [status |-> campaign.status, terms |-> campaign.terms,
                         past |-> campaign.past, open |-> campaign.open]
          /\ campaign.status = "DRAFT" /\ campaign.terms = 0
      BY <1>1
    <2>2. \A a \in Affiliate : links[a] = <<>>
      BY <1>1
    <2>3. QED
      BY <1>1, <2>1, <2>2 DEF Programs!CampaignInv, Programs!Statuses
  <1>3. Programs!OpInv
    <2>1. op = [q \in Request |-> [pc |-> op[q].pc, who |-> op[q].who,
                                  seen |-> op[q].seen]]
      BY <1>1 DEF Programs!Idle
    <2>2. \A q \in Request : op[q].pc = "idle"
      BY <1>1 DEF Programs!Idle
    <2>3. QED
      BY <2>1, <2>2 DEF Programs!OpInv
  <1>4. QED
    BY <1>1, <1>2, <1>3
    DEF Programs!ProgramInv, Programs!LinksKeepTheirTerms, Programs!RateIsOnRecord

\* What a request that is under way has read.
HasRead(o) ==
    /\ o.pc \in {"rating", "linking"} => o.who \in Affiliate
    /\ o.pc = "editing" => o.seen = "DRAFT"
    /\ o.pc = "moving" => o.seen \in Programs!Statuses \ {"DRAFT"}
    /\ o.pc = "rating" => o.seen \in Programs!Changes
    /\ o.pc = "linking" => campaign.status # "DRAFT"

\* A step of one request, which leaves no link to a DRAFT.
LEMMA OpMoves ==
    ASSUME Programs!OpInv, NEW q \in Request, NEW pc, NEW who, NEW seen,
           HasRead([pc |-> pc, who |-> who, seen |-> seen]),
           op' = [op EXCEPT ![q] = [pc |-> pc, who |-> who, seen |-> seen]],
           campaign'.status = campaign.status
    PROVE  Programs!OpInv'
  <1> DEFINE o == [pc |-> pc, who |-> who, seen |-> seen]
  <1>1. /\ op = [r \in Request |-> [pc |-> op[r].pc, who |-> op[r].who,
                                    seen |-> op[r].seen]]
        /\ \A r \in Request : HasRead(op[r])
    BY DEF Programs!OpInv, HasRead
  <1>2. o = [pc |-> o.pc, who |-> o.who, seen |-> o.seen]
    OBVIOUS
  <1> HIDE DEF o
  <1>3. \A r \in Request : op'[r] = IF r = q THEN o ELSE op[r]
    BY <1>1 DEF o
  <1>4. ASSUME NEW r \in Request
        PROVE  op'[r] = [pc |-> op'[r].pc, who |-> op'[r].who, seen |-> op'[r].seen]
    <2>1. CASE r = q
      BY <1>2, <1>3, <2>1
    <2>2. CASE r # q
      <3>1. op[r] = [pc |-> op[r].pc, who |-> op[r].who, seen |-> op[r].seen]
        BY <1>1
      <3>2. QED
        BY <1>3, <2>2, <3>1
    <2>3. QED
      BY <2>1, <2>2
  <1>5. op' = [r \in Request |-> [pc |-> op'[r].pc, who |-> op'[r].who,
                                  seen |-> op'[r].seen]]
    <2>1. op' = [r \in Request |-> op'[r]]
      BY <1>1 DEF o
    <2>2. QED
      BY <1>4, <2>1
  <1>6. \A r \in Request : HasRead(op'[r])
    BY <1>1, <1>3 DEF o
  <1>7. QED
    BY <1>5, <1>6 DEF Programs!OpInv, HasRead

LEMMA ProgramTail ==
    ASSUME Programs!ProgramInv, Programs!OpInv',
           UNCHANGED <<campaign, custom, history, links, late>>
    PROVE  Programs!ProgramInv'
  BY DEF Programs!ProgramInv, Programs!CampaignInv, Programs!LinksKeepTheirTerms,
         Programs!RateIsOnRecord

\* A request begins with what it read, a draft as it is for one that edits.
LEMMA ProgramBegins ==
    ASSUME Programs!ProgramInv, NEW q \in Request,
           \/ Programs!EditTerms(q) \/ Programs!Transition(q)
           \/ \E a \in Affiliate : Programs!Apply(q, a) \/ Programs!SetRate(q, a)
                                       \/ Programs!CreateLink(q, a)
    PROVE  Programs!ProgramInv'
  <1>1. Programs!OpInv /\ Programs!CampaignInv
    BY DEF Programs!ProgramInv
  <1>2. UNCHANGED <<campaign, custom, history, links, late>>
    BY DEF Programs!EditTerms, Programs!Transition, Programs!Apply,
           Programs!SetRate, Programs!CreateLink
  <1>3. CASE Programs!EditTerms(q)
    <2>1. /\ campaign.status = "DRAFT"
          /\ op' = [op EXCEPT ![q] = [pc |-> "editing", who |-> NULL,
                                      seen |-> campaign.status]]
      BY <1>3 DEF Programs!EditTerms, Programs!Begin
    <2>2. HasRead([pc |-> "editing", who |-> NULL, seen |-> campaign.status])
      BY <2>1 DEF HasRead
    <2>3. QED
      BY <1>1, <1>2, <2>1, <2>2, OpMoves, ProgramTail
  <1>4. CASE Programs!Transition(q)
    <2>1. PICK to \in Programs!Statuses :
              /\ Programs!CanTransition(campaign.status, to)
              /\ op' = [op EXCEPT ![q] = [pc |-> "moving", who |-> NULL, seen |-> to]]
      BY <1>4, Zenon DEF Programs!Transition, Programs!Begin
    <2>2. campaign.status \in Programs!Statuses
      BY <1>1 DEF Programs!CampaignInv
    <2>3. to # "DRAFT"
      BY <2>1, <2>2
      DEF Programs!CanTransition, Programs!Transitions, Programs!Statuses
    <2>4. HasRead([pc |-> "moving", who |-> NULL, seen |-> to])
      BY <2>3 DEF HasRead
    <2>5. QED
      BY <1>1, <1>2, <2>1, <2>4, OpMoves, ProgramTail
  <1>5. ASSUME NEW a \in Affiliate, Programs!Apply(q, a)
        PROVE  Programs!ProgramInv'
    <2>1. op' = [op EXCEPT ![q] = [pc |-> "applying", who |-> a,
                                   seen |-> campaign.open]]
      BY <1>5 DEF Programs!Apply, Programs!Begin
    <2>2. HasRead([pc |-> "applying", who |-> a, seen |-> campaign.open])
      BY DEF HasRead
    <2>3. QED
      BY <1>1, <1>2, <2>1, <2>2, OpMoves, ProgramTail
  <1>6. ASSUME NEW a \in Affiliate, Programs!SetRate(q, a)
        PROVE  Programs!ProgramInv'
    <2>1. PICK r \in Rate \cup {NULL} :
              op' = [op EXCEPT ![q] = [pc |-> "rating", who |-> a,
                                       seen |-> [was |-> custom[a], now |-> r]]]
      BY <1>6, Zenon DEF Programs!SetRate, Programs!Begin
    <2>2. [was |-> custom[a], now |-> r] \in Programs!Changes
      BY DEF Programs!ProgramInv, Programs!Changes
    <2>3. HasRead([pc |-> "rating", who |-> a, seen |-> [was |-> custom[a], now |-> r]])
      BY <2>2 DEF HasRead
    <2>4. QED
      BY <1>1, <1>2, <2>1, <2>3, OpMoves, ProgramTail
  <1>7. ASSUME NEW a \in Affiliate, Programs!CreateLink(q, a)
        PROVE  Programs!ProgramInv'
    <2>1. /\ campaign.status = "ACTIVE"
          /\ op' = [op EXCEPT ![q] = [pc |-> "linking", who |-> a, seen |-> NULL]]
      BY <1>7 DEF Programs!CreateLink, Programs!Begin, Programs!AcceptsNewAffiliates
    <2>2. HasRead([pc |-> "linking", who |-> a, seen |-> NULL])
      BY <2>1 DEF HasRead
    <2>3. QED
      BY <1>1, <1>2, <2>1, <2>2, OpMoves, ProgramTail
  <1>8. QED
    BY <1>3, <1>4, <1>5, <1>6, <1>7

\* A request that is over has read nothing.
LEMMA Ends ==
    ASSUME Programs!OpInv, NEW q \in Request, Programs!Finish(q),
           campaign'.status = campaign.status
    PROVE  Programs!OpInv'
  <1>1. op' = [op EXCEPT ![q] = [pc |-> "idle", who |-> NULL, seen |-> NULL]]
    BY DEF Programs!Finish, Programs!Idle
  <1>2. HasRead([pc |-> "idle", who |-> NULL, seen |-> NULL])
    BY DEF HasRead
  <1>3. QED
    BY <1>1, <1>2, OpMoves

\* Terms are written of a draft, which has no links; or by an edit that found
\* one when there was none any more, which is told.
LEMMA ProgramTerms ==
    ASSUME Programs!ProgramInv, NEW q \in Request, Programs!TermsWritten(q)
    PROVE  Programs!ProgramInv'
  <1>1. /\ op[q].pc = "editing"
        /\ campaign' = [campaign EXCEPT !.terms = campaign.terms + 1]
        /\ late' = (late \/ (op[q].seen = "DRAFT" /\ campaign.status # "DRAFT"))
        /\ Programs!Finish(q)
        /\ UNCHANGED <<relation, custom, history, links, told>>
    BY DEF Programs!TermsWritten
  <1>2. Programs!OpInv /\ Programs!CampaignInv
    BY DEF Programs!ProgramInv
  <1>3. op[q].seen = "DRAFT"
    BY <1>1, <1>2 DEF Programs!OpInv
  <1>4. campaign'.status = campaign.status
    BY <1>1, <1>2 DEF Programs!CampaignInv
  <1>5. Programs!OpInv'
    BY <1>1, <1>2, <1>4, Ends
  <1>6. Programs!CampaignInv'
    BY <1>1, <1>2, <1>4 DEF Programs!CampaignInv
  <1>7. Programs!LinksKeepTheirTerms'
    <2>1. CASE campaign.status = "DRAFT"
      BY <1>1, <1>2, <2>1 DEF Programs!LinksKeepTheirTerms, Programs!CampaignInv
    <2>2. CASE campaign.status # "DRAFT"
      <3>1. late'
        BY <1>1, <1>3, <2>2
      <3>2. QED
        BY <3>1 DEF Programs!LinksKeepTheirTerms
    <2>3. QED
      BY <2>1, <2>2
  <1>8. QED
    BY <1>1, <1>5, <1>6, <1>7 DEF Programs!ProgramInv, Programs!RateIsOnRecord

LEMMA ProgramStatus ==
    ASSUME Programs!ProgramInv, NEW q \in Request, Programs!StatusWritten(q)
    PROVE  Programs!ProgramInv'
  <1>1. /\ op[q].pc = "moving"
        /\ campaign' = [campaign EXCEPT !.status = op[q].seen]
        /\ op' = [op EXCEPT ![q] = Programs!Idle]
        /\ UNCHANGED <<relation, custom, history, links, told, late>>
    BY DEF Programs!StatusWritten, Programs!Finish
  <1>2. Programs!OpInv /\ Programs!CampaignInv
    BY DEF Programs!ProgramInv
  <1>3. op[q].seen \in Programs!Statuses \ {"DRAFT"}
    BY <1>1, <1>2 DEF Programs!OpInv
  <1>4. campaign'.status # "DRAFT" /\ campaign'.terms = campaign.terms
    BY <1>1, <1>2, <1>3 DEF Programs!CampaignInv
  <1>5. Programs!CampaignInv'
    BY <1>1, <1>2, <1>3, <1>4 DEF Programs!CampaignInv
  <1>6. Programs!OpInv'
    <2>1. op = [r \in Request |-> [pc |-> op[r].pc, who |-> op[r].who,
                                  seen |-> op[r].seen]]
      BY <1>2 DEF Programs!OpInv
    <2>2. \A r \in Request : op'[r] = IF r = q THEN Programs!Idle ELSE op[r]
      BY <1>1, <2>1
    <2>3. op' = [r \in Request |-> op'[r]]
      BY <1>1, <2>1
    <2>4. ASSUME NEW r \in Request
          PROVE  op'[r] = [pc |-> op'[r].pc, who |-> op'[r].who, seen |-> op'[r].seen]
      <3>1. CASE r = q
        BY <2>2, <3>1 DEF Programs!Idle
      <3>2. CASE r # q
        <4>1. op[r] = [pc |-> op[r].pc, who |-> op[r].who, seen |-> op[r].seen]
          BY <2>1
        <4>2. QED
          BY <2>2, <3>2, <4>1
      <3>3. QED
        BY <3>1, <3>2
    <2>5. op' = [r \in Request |-> [pc |-> op'[r].pc, who |-> op'[r].who,
                                    seen |-> op'[r].seen]]
      BY <2>3, <2>4
    <2>6. QED
      BY <1>2, <1>4, <2>2, <2>5 DEF Programs!OpInv, Programs!Idle
  <1>7. QED
    BY <1>1, <1>4, <1>5, <1>6
    DEF Programs!ProgramInv, Programs!LinksKeepTheirTerms, Programs!RateIsOnRecord

LEMMA ProgramApplied ==
    ASSUME Programs!ProgramInv, NEW q \in Request,
           Programs!Applied(q) \/ Programs!AutoApproved(q)
    PROVE  Programs!ProgramInv'
  <1>1. Programs!OpInv
    BY DEF Programs!ProgramInv
  <1>2. UNCHANGED <<campaign, custom, history, links, late>>
    BY Zenon DEF Programs!Applied, Programs!AutoApproved
  <1>3. CASE Programs!Finish(q)
    BY <1>1, <1>2, <1>3, Ends, ProgramTail
  <1>4. CASE op' = [op EXCEPT ![q].pc = "approving"]
    <2>1. op[q] = [pc |-> op[q].pc, who |-> op[q].who, seen |-> op[q].seen]
      BY <1>1 DEF Programs!OpInv
    <2>2. [op[q] EXCEPT !.pc = "approving"] =
              [pc |-> "approving", who |-> op[q].who, seen |-> op[q].seen]
      BY <2>1
    <2>3. op' = [op EXCEPT ![q] = [pc |-> "approving", who |-> op[q].who,
                                   seen |-> op[q].seen]]
      BY <1>4, <2>2
    <2>4. HasRead([pc |-> "approving", who |-> op[q].who, seen |-> op[q].seen])
      BY DEF HasRead
    <2>5. QED
      BY <1>1, <1>2, <2>3, <2>4, OpMoves, ProgramTail
  <1>5. QED
    BY <1>3, <1>4, Zenon DEF Programs!Applied, Programs!AutoApproved

\* The rate in force is that of the newest event, for both are of one write.
LEMMA ProgramRate ==
    ASSUME Programs!ProgramInv, NEW q \in Request, Programs!RateWritten(q)
    PROVE  Programs!ProgramInv'
  <1> DEFINE a == op[q].who
             change == op[q].seen
  <1>1. /\ op[q].pc = "rating"
        /\ custom' = [custom EXCEPT ![a] = change.now]
        /\ history' = [history EXCEPT ![a] = Append(history[a], change)]
        /\ Programs!Finish(q)
        /\ UNCHANGED <<campaign, relation, links, told, late>>
    BY DEF Programs!RateWritten, Programs!Recorded
  <1>2. Programs!OpInv
    BY DEF Programs!ProgramInv
  <1>3. a \in Affiliate /\ change \in Programs!Changes
    BY <1>1, <1>2 DEF Programs!OpInv
  <1>4. Programs!OpInv'
    BY <1>1, <1>2, Ends
  <1> HIDE DEF a, change
  <1>5. change.now \in Rate \cup {NULL}
    BY <1>3 DEF Programs!Changes
  <1>6. /\ custom \in [Affiliate -> Rate \cup {NULL}]
        /\ history \in [Affiliate -> Seq(Programs!Changes)]
    BY DEF Programs!ProgramInv
  <1>7. /\ custom' \in [Affiliate -> Rate \cup {NULL}]
        /\ history' \in [Affiliate -> Seq(Programs!Changes)]
    BY <1>1, <1>3, <1>5, <1>6
  <1>8. Programs!RateIsOnRecord'
    <2> SUFFICES ASSUME NEW b \in Affiliate
                 PROVE  custom'[b] = IF history'[b] = <<>> THEN NULL
                                     ELSE history'[b][Len(history'[b])].now
      BY DEF Programs!RateIsOnRecord
    <2>1. CASE b = a
      <3>1. /\ history'[b] = Append(history[a], change)
            /\ custom'[b] = change.now
        BY <1>1, <1>3, <1>6, <2>1
      <3>2. history[a] \in Seq(Programs!Changes)
        BY <1>3, <1>6
      <3>3. /\ history'[b] # <<>>
            /\ history'[b][Len(history'[b])] = change
        BY <1>3, <3>1, <3>2
      <3>4. QED
        BY <3>1, <3>3
    <2>2. CASE b # a
      <3>1. history'[b] = history[b] /\ custom'[b] = custom[b]
        BY <1>1, <1>6, <2>2
      <3>2. QED
        BY <3>1 DEF Programs!ProgramInv, Programs!RateIsOnRecord
    <2>3. QED
      BY <2>1, <2>2
  <1>9. QED
    BY <1>1, <1>4, <1>7, <1>8
    DEF Programs!ProgramInv, Programs!CampaignInv, Programs!LinksKeepTheirTerms

\* A link is made under the terms of a campaign that is none of the drafts.
LEMMA ProgramLink ==
    ASSUME Programs!ProgramInv, NEW q \in Request, Programs!LinkCreated(q)
    PROVE  Programs!ProgramInv'
  <1> DEFINE a == op[q].who
  <1>1. /\ op[q].pc = "linking"
        /\ links' = [links EXCEPT ![a] = Append(links[a], campaign.terms)]
        /\ Programs!Finish(q)
        /\ UNCHANGED <<campaign, relation, custom, history, told, late>>
    BY DEF Programs!LinkCreated
  <1>2. Programs!OpInv /\ Programs!CampaignInv
        /\ links \in [Affiliate -> Seq(Nat)]
    BY DEF Programs!ProgramInv
  <1>3. a \in Affiliate /\ campaign.status # "DRAFT"
    BY <1>1, <1>2 DEF Programs!OpInv
  <1>4. Programs!OpInv'
    BY <1>1, <1>2, Ends
  <1> HIDE DEF a
  <1>5. campaign.terms \in Nat
    BY <1>2 DEF Programs!CampaignInv
  <1>6. links' \in [Affiliate -> Seq(Nat)]
    BY <1>1, <1>2, <1>3, <1>5
  <1>7. Programs!CampaignInv'
    BY <1>1, <1>2, <1>3 DEF Programs!CampaignInv
  <1>8. Programs!LinksKeepTheirTerms'
    <2> SUFFICES ASSUME NEW b \in Affiliate, NEW k \in DOMAIN links'[b]
                 PROVE  links'[b][k] = campaign.terms \/ late
      BY <1>1 DEF Programs!LinksKeepTheirTerms
    <2>1. CASE b = a
      <3>1. links'[b] = Append(links[a], campaign.terms) /\ links[a] \in Seq(Nat)
        BY <1>1, <1>2, <1>3, <2>1
      <3>2. \/ k = Len(links[a]) + 1 /\ links'[b][k] = campaign.terms
            \/ k \in DOMAIN links[a] /\ links'[b][k] = links[a][k]
        BY <1>5, <3>1
      <3>3. QED
        BY <1>3, <3>2 DEF Programs!ProgramInv, Programs!LinksKeepTheirTerms
    <2>2. CASE b # a
      <3>1. links'[b] = links[b]
        BY <1>1, <1>2, <2>2
      <3>2. QED
        BY <3>1 DEF Programs!ProgramInv, Programs!LinksKeepTheirTerms
    <2>3. QED
      BY <2>1, <2>2
  <1>9. QED
    BY <1>1, <1>4, <1>6, <1>7, <1>8 DEF Programs!ProgramInv, Programs!RateIsOnRecord

LEMMA ProgramFreely ==
    ASSUME Programs!ProgramInv,
           Programs!EditFreely \/ \E a \in Affiliate : Programs!Review(a)
    PROVE  Programs!ProgramInv'
  <1>1. UNCHANGED <<custom, history, links, late, op>>
    BY DEF Programs!EditFreely, Programs!Review
  <1>2. Programs!CampaignInv
    BY DEF Programs!ProgramInv
  <1>3. CASE Programs!EditFreely
    <2>1. \/ campaign' = [campaign EXCEPT !.past = ~campaign.past]
          \/ campaign' = [campaign EXCEPT !.open = ~campaign.open]
      BY <1>3 DEF Programs!EditFreely
    <2>2. campaign'.status = campaign.status /\ campaign'.terms = campaign.terms
      BY <1>2, <2>1 DEF Programs!CampaignInv
    <2>3. campaign' = [status |-> campaign'.status, terms |-> campaign'.terms,
                       past |-> campaign'.past, open |-> campaign'.open]
      BY <1>2, <2>1 DEF Programs!CampaignInv
    <2>4. QED
      BY <1>1, <2>2, <2>3
      DEF Programs!ProgramInv, Programs!CampaignInv, Programs!OpInv,
          Programs!LinksKeepTheirTerms, Programs!RateIsOnRecord
  <1>4. CASE UNCHANGED campaign
    BY <1>1, <1>4
    DEF Programs!ProgramInv, Programs!CampaignInv, Programs!OpInv,
        Programs!LinksKeepTheirTerms, Programs!RateIsOnRecord
  <1>5. QED
    BY <1>3, <1>4 DEF Programs!Review

LEMMA ProgramNext ==
    ASSUME Programs!ProgramInv, Programs!Next PROVE Programs!ProgramInv'
  BY ProgramBegins, ProgramTerms, ProgramStatus, ProgramApplied, ProgramRate,
     ProgramLink, ProgramFreely, Zenon
  DEF Programs!Next

LEMMA ProgramsAlone ==
    [MarketplaceNext]_marketVars => Programs!Next \/ UNCHANGED programVars
  BY Zenon DEF MarketplaceNext, marketVars, peopleVars

\* However edits, activations, applications, reviews, rates and links overlap:
\* a link keeps the terms it was made under, but for an edit that found a draft
\* and came late; and the rate in force is that of the newest event on record
\* (campaign.service.ts, relationship.service.ts, tracking.service.ts).
THEOREM PromisesKept == MarketplaceSpec => []PromisesAreKept
  <1>1. MarketplaceInit => Programs!ProgramInv
    BY ProgramInit DEF MarketplaceInit
  <1>2. ASSUME Programs!ProgramInv, [MarketplaceNext]_marketVars
        PROVE  Programs!ProgramInv'
    <2>1. CASE UNCHANGED programVars
      BY <1>2, <2>1
      DEF programVars, Programs!ProgramInv, Programs!CampaignInv, Programs!OpInv,
          Programs!LinksKeepTheirTerms, Programs!RateIsOnRecord
    <2>2. QED
      BY <1>2, <2>1, ProgramNext, ProgramsAlone
  <1>3. Programs!ProgramInv => PromisesAreKept
    BY DEF Programs!ProgramInv, PromisesAreKept
  <1>4. QED
    BY <1>1, <1>2, <1>3, PTL DEF MarketplaceSpec, marketVars

-----------------------------------------------------------------------------
(* Banners. *)

LEMMA BannerParameters ==
    NULL \notin BannerKey \cup Banners!Asset \cup Banners!SniffedImage \cup {"part"}
  <1>1. Banners!CreativesAssumption
    BY MarketplaceAssumption DEF MarketplaceAssumption
  <1>2. QED
    BY <1>1 DEF Banners!CreativesAssumption

LEMMA BannerInit == Banners!Init => Banners!BannerInv
  <1> SUFFICES ASSUME Banners!Init PROVE Banners!BannerInv
    OBVIOUS
  <1>1. /\ asset = [k \in BannerKey |-> NULL] /\ file = [k \in BannerKey |-> NULL]
        /\ lost = {} /\ served = NULL
        /\ transfer = [r \in Request |-> Banners!Idle]
    BY DEF Banners!Init
  <1>2. \A r \in Request : transfer[r].pc = "idle" /\ transfer[r].key = NULL
    BY <1>1 DEF Banners!Idle
  <1>3. Banners!FilesInv /\ Banners!CallsInv
    BY <1>1, <1>2 DEF Banners!FilesInv, Banners!CallsInv, Banners!Idle
  <1>4. \A r \in Request : Banners!Handled(r)
    BY <1>2 DEF Banners!Handled
  <1>5. QED
    BY <1>1, <1>3, <1>4
    DEF Banners!BannerInv, Banners!LostInv, Banners!FilesAccountedFor,
        Banners!ServedAsSniffed

\* A request moves, the others do not.
LEMMA BannerMoves ==
    ASSUME Banners!CallsInv, NEW r \in Request, NEW c,
           c = [pc |-> c.pc, key |-> c.key, bytes |-> c.bytes],
           c.pc \in {"idle", "put", "create", "delete", "erase", "get"},
           transfer' = [transfer EXCEPT ![r] = c]
    PROVE  /\ Banners!CallsInv'
           /\ transfer'[r] = c
           /\ \A s \in Request \ {r} : transfer'[s] = transfer[s]
  <1>1. transfer = [s \in Request |-> [pc |-> transfer[s].pc,
                        key |-> transfer[s].key, bytes |-> transfer[s].bytes]]
    BY DEF Banners!CallsInv
  <1>2. \A s \in Request : transfer'[s] = IF s = r THEN c ELSE transfer[s]
    BY <1>1
  <1>3. ASSUME NEW s \in Request
        PROVE  transfer'[s] = [pc |-> transfer'[s].pc, key |-> transfer'[s].key,
                               bytes |-> transfer'[s].bytes]
    <2>1. CASE s = r
      BY <1>2, <2>1
    <2>2. CASE s # r
      <3>1. transfer[s] = [pc |-> transfer[s].pc, key |-> transfer[s].key,
                           bytes |-> transfer[s].bytes]
        BY <1>1
      <3>2. QED
        BY <1>2, <2>2, <3>1
    <2>3. QED
      BY <2>1, <2>2
  <1>4. transfer' = [s \in Request |-> transfer'[s]]
    BY <1>1
  <1>5. transfer' = [s \in Request |-> [pc |-> transfer'[s].pc,
                        key |-> transfer'[s].key, bytes |-> transfer'[s].bytes]]
    BY <1>3, <1>4
  <1>6. \A s \in Request : transfer'[s].pc \in
            {"idle", "put", "create", "delete", "erase", "get"}
    BY <1>2 DEF Banners!CallsInv
  <1>7. QED
    BY <1>2, <1>5, <1>6 DEF Banners!CallsInv

\* The next step of a request, with what it holds on to.
LEMMA BannerGoes ==
    ASSUME Banners!CallsInv, NEW r \in Request,
           NEW pc \in {"create", "erase"}, Banners!Goto(r, pc)
    PROVE  /\ Banners!CallsInv'
           /\ transfer'[r].pc = pc
           /\ transfer'[r].key = transfer[r].key
           /\ transfer'[r].bytes = transfer[r].bytes
           /\ \A s \in Request \ {r} : transfer'[s] = transfer[s]
  <1> DEFINE c == [pc |-> pc, key |-> transfer[r].key, bytes |-> transfer[r].bytes]
  <1>1. transfer[r] = [pc |-> transfer[r].pc, key |-> transfer[r].key,
                       bytes |-> transfer[r].bytes]
    BY DEF Banners!CallsInv
  <1>2. [transfer[r] EXCEPT !.pc = pc] = c
    BY <1>1
  <1>3. transfer' = [transfer EXCEPT ![r] = c]
    BY <1>2 DEF Banners!Goto
  <1>4. /\ c = [pc |-> c.pc, key |-> c.key, bytes |-> c.bytes]
        /\ c.pc = pc /\ c.key = transfer[r].key /\ c.bytes = transfer[r].bytes
    OBVIOUS
  <1> HIDE DEF c
  <1>5. c.pc \in {"idle", "put", "create", "delete", "erase", "get"}
    BY <1>4
  <1>6. QED
    BY <1>3, <1>4, <1>5, BannerMoves

\* A request begins with a key that is nobody's, or that has a row.
LEMMA BannerBegins ==
    ASSUME Banners!BannerInv, NEW r \in Request, NEW k \in BannerKey, NEW bytes,
           NEW pc \in {"put", "delete", "get"},
           Banners!Begin(r, pc, k, bytes),
           UNCHANGED <<asset, file, lost, served>>,
           pc = "put" => bytes \in Banners!SniffedImage /\ ~Banners!Drawn(k),
           pc # "put" => asset[k] # NULL,
           pc = "get" => bytes = asset[k]
    PROVE  Banners!BannerInv'
  <1>1. Banners!FilesInv /\ Banners!CallsInv
    BY DEF Banners!BannerInv
  <1>2. /\ transfer[r] = Banners!Idle
        /\ transfer' = [transfer EXCEPT ![r] =
                            [pc |-> pc, key |-> k, bytes |-> bytes]]
    BY DEF Banners!Begin
  <1>3. /\ Banners!FilesInv' /\ Banners!CallsInv'
        /\ transfer'[r] = [pc |-> pc, key |-> k, bytes |-> bytes]
        /\ \A s \in Request \ {r} : transfer'[s] = transfer[s]
    <2> DEFINE c == [pc |-> pc, key |-> k, bytes |-> bytes]
    <2>1. c = [pc |-> c.pc, key |-> c.key, bytes |-> c.bytes] /\ c.pc = pc
      OBVIOUS
    <2>2. transfer' = [transfer EXCEPT ![r] = c]
      BY <1>2
    <2> HIDE DEF c
    <2>3. /\ Banners!CallsInv' /\ transfer'[r] = c
          /\ \A s \in Request \ {r} : transfer'[s] = transfer[s]
      BY <1>1, <2>1, <2>2, BannerMoves
    <2>4. QED
      BY <1>1, <2>3 DEF c, Banners!FilesInv
  <1>4. transfer[r].pc = "idle" /\ transfer[r].key = NULL
    BY <1>2 DEF Banners!Idle
  <1>5. transfer'[r].pc = pc /\ transfer'[r].key = k /\ transfer'[r].bytes = bytes
    BY <1>3
  <1>6. ASSUME NEW s \in Request \ {r}, transfer[s].key = k
        PROVE  transfer[s].pc \in {"delete", "get", "erase"}
               /\ (transfer[s].pc = "erase" => pc # "put" /\ asset[k] = NULL)
    <2>1. Banners!Handled(s) /\ transfer[s].pc \in
              {"idle", "put", "create", "delete", "erase", "get"}
      BY <1>1 DEF Banners!BannerInv, Banners!CallsInv
    <2>2. pc # "put" /\ asset[k] # NULL
      BY <1>6 DEF Banners!Drawn
    <2>3. QED
      BY <1>6, <2>1, <2>2, BannerParameters DEF Banners!Handled
  <1>7. pc = "get" => /\ bytes \in Banners!Asset
                      /\ file[k] = bytes.extension
    BY <1>1 DEF Banners!BannerInv, Banners!FilesInv, Banners!FilesAccountedFor
  <1>8. ASSUME pc = "put", NEW s \in Request \ {r} PROVE transfer[s].key # k
    BY <1>8 DEF Banners!Drawn
  <1>9. pc = "put" => asset[k] = NULL /\ file[k] = NULL
    BY DEF Banners!Drawn
  <1>10. Banners!Handled(r)'
    BY <1>3, <1>5, <1>7, <1>8, <1>9 DEF Banners!Handled, Banners!Alone
  <1>11. ASSUME NEW s \in Request \ {r} PROVE Banners!Handled(s)'
    <2>1. transfer'[s] = transfer[s] /\ Banners!Handled(s)
      BY <1>3 DEF Banners!BannerInv
    <2>2. transfer[s].pc \in {"put", "create", "erase"} => transfer[s].key # k
      BY <1>6, <2>1 DEF Banners!Handled
    <2>3. QED
      BY <1>3, <1>5, <2>1, <2>2 DEF Banners!Handled, Banners!Alone
  <1>12. Banners!FilesAccountedFor'
    <2>1. \A s \in Request : transfer[s].pc \in {"create", "erase"} =>
              transfer'[s] = transfer[s]
      BY <1>3, <1>4
    <2>2. QED
      BY <2>1 DEF Banners!BannerInv, Banners!FilesAccountedFor
  <1>13. QED
    BY <1>3, <1>10, <1>11, <1>12
    DEF Banners!BannerInv, Banners!LostInv, Banners!ServedAsSniffed

\* A request ends; a file it alone knew of, and leaves, is counted as lost.
LEMMA BannerEnds ==
    ASSUME Banners!BannerInv, NEW r \in Request, Banners!Finish(r),
           UNCHANGED <<asset, file>>, Banners!ServedAsSniffed',
           \/ /\ lost' = lost
              /\ transfer[r].pc \notin {"create", "erase"}
           \/ /\ lost' = lost \cup {transfer[r].key}
              /\ transfer[r].pc \in {"create", "erase"}
    PROVE  Banners!BannerInv'
  <1>1. Banners!FilesInv /\ Banners!CallsInv /\ Banners!Handled(r)
    BY DEF Banners!BannerInv
  <1>2. transfer' = [transfer EXCEPT ![r] = Banners!Idle]
    BY DEF Banners!Finish
  <1>3. /\ Banners!FilesInv' /\ Banners!CallsInv'
        /\ transfer'[r] = Banners!Idle
        /\ \A s \in Request \ {r} : transfer'[s] = transfer[s]
    <2>1. /\ Banners!Idle = [pc |-> Banners!Idle.pc, key |-> Banners!Idle.key,
                             bytes |-> Banners!Idle.bytes]
          /\ Banners!Idle.pc = "idle"
      BY DEF Banners!Idle
    <2>2. QED
      BY <1>1, <1>2, <2>1, BannerMoves DEF Banners!FilesInv
  <1>4. transfer'[r].pc = "idle" /\ transfer'[r].key = NULL
    BY <1>3 DEF Banners!Idle
  <1>5. transfer[r].pc \in {"create", "erase"} =>
            /\ transfer[r].key \in BannerKey
            /\ asset[transfer[r].key] = NULL /\ file[transfer[r].key] # NULL
    BY <1>1, BannerParameters DEF Banners!Handled
  <1>6. Banners!LostInv'
    BY <1>5 DEF Banners!BannerInv, Banners!LostInv
  <1>7. Banners!Handled(r)'
    BY <1>4 DEF Banners!Handled
  <1>8. ASSUME NEW s \in Request \ {r} PROVE Banners!Handled(s)'
    <2>1. transfer'[s] = transfer[s] /\ Banners!Handled(s)
      BY <1>3 DEF Banners!BannerInv
    <2>2. transfer[s].pc \in {"create", "erase"} /\ lost' # lost
              => transfer[s].key # transfer[r].key
      BY <1>1, <2>1 DEF Banners!Handled, Banners!Alone
    <2>3. transfer[s].pc \in {"create", "erase"} => transfer[s].key \notin lost'
      BY <2>1, <2>2 DEF Banners!Handled
    <2>4. transfer[s].pc \in {"put", "create", "erase"} => transfer[s].key # NULL
      BY <2>1, BannerParameters DEF Banners!Handled
    <2>5. QED
      BY <1>3, <1>4, <2>1, <2>3, <2>4 DEF Banners!Handled, Banners!Alone
  <1>9. Banners!FilesAccountedFor'
    <2> SUFFICES ASSUME NEW k \in BannerKey
                 PROVE  /\ asset[k] # NULL =>
                               file[k] = asset[k].extension /\ k \notin lost'
                        /\ file[k] # NULL /\ asset[k] = NULL =>
                               \/ k \in lost'
                               \/ \E s \in Request :
                                      /\ transfer'[s].key = k
                                      /\ transfer'[s].pc \in {"create", "erase"}
      BY DEF Banners!FilesAccountedFor
    <2>1. asset[k] # NULL => file[k] = asset[k].extension /\ k \notin lost'
      BY <1>6 DEF Banners!BannerInv, Banners!FilesAccountedFor, Banners!LostInv
    <2>2. ASSUME file[k] # NULL, asset[k] = NULL, k \notin lost'
          PROVE  \E s \in Request : transfer'[s].key = k
                                    /\ transfer'[s].pc \in {"create", "erase"}
      <3>1. PICK s \in Request : transfer[s].key = k
                                 /\ transfer[s].pc \in {"create", "erase"}
        BY <2>2 DEF Banners!BannerInv, Banners!FilesAccountedFor
      <3>2. s # r
        BY <2>2, <3>1
      <3>3. QED
        BY <1>3, <3>1, <3>2
    <2>3. QED
      BY <2>1, <2>2
  <1>10. QED
    BY <1>3, <1>6, <1>7, <1>8, <1>9 DEF Banners!BannerInv

LEMMA BannerAsks ==
    ASSUME Banners!BannerInv, NEW r \in Request,
           Banners!Upload(r) \/ Banners!Remove(r) \/ Banners!Download(r)
    PROVE  Banners!BannerInv'
  <1>1. UNCHANGED <<asset, file, lost, served>>
    BY DEF Banners!Upload, Banners!Remove, Banners!Download
  <1>2. CASE Banners!Upload(r)
    <2>1. PICK bytes \in Banners!SniffedImage, k \in BannerKey :
              ~Banners!Drawn(k) /\ Banners!Begin(r, "put", k, bytes)
      BY <1>2 DEF Banners!Upload, Banners!sniffImage
    <2>2. QED
      BY <1>1, <2>1, BannerBegins
  <1>3. CASE Banners!Remove(r)
    <2>1. PICK k \in BannerKey :
              asset[k] # NULL /\ Banners!Begin(r, "delete", k, NULL)
      BY <1>3 DEF Banners!Remove, Banners!Removal
    <2>2. QED
      BY <1>1, <2>1, BannerBegins
  <1>4. CASE Banners!Download(r)
    <2>1. PICK k \in BannerKey :
              asset[k] # NULL /\ Banners!Begin(r, "get", k, asset[k])
      BY <1>4 DEF Banners!Download
    <2>2. QED
      BY <1>1, <2>1, BannerBegins
  <1>5. QED
    BY <1>2, <1>3, <1>4

\* What a download claims is what the row says, and that is what the file is.
LEMMA BannerGets ==
    ASSUME Banners!BannerInv, NEW r \in Request, Banners!Get(r)
    PROVE  Banners!BannerInv'
  <1>1. /\ transfer[r].pc = "get"
        /\ served' = IF file[transfer[r].key] = NULL THEN served
                     ELSE [type |-> Banners!mimeFor(transfer[r].bytes),
                           bytes |-> file[transfer[r].key]]
        /\ Banners!Finish(r)
        /\ UNCHANGED <<asset, file, lost>>
    BY DEF Banners!Get
  <1>2. file[transfer[r].key] \in {transfer[r].bytes.extension, NULL}
    BY <1>1 DEF Banners!BannerInv, Banners!Handled
  <1>3. Banners!ServedAsSniffed'
    BY <1>1, <1>2 DEF Banners!BannerInv, Banners!ServedAsSniffed, Banners!mimeFor
  <1>4. QED
    BY <1>1, <1>3, BannerEnds

LEMMA BannerFails ==
    ASSUME Banners!BannerInv, NEW r \in Request,
           \/ Banners!CreateFails(r) \/ Banners!DeleteFails(r)
           \/ Banners!DeleteFileFails(r)
    PROVE  Banners!BannerInv'
  <1>1. /\ Banners!Finish(r)
        /\ UNCHANGED <<asset, file, served>>
        /\ \/ lost' = lost /\ transfer[r].pc \notin {"create", "erase"}
           \/ /\ lost' = lost \cup {transfer[r].key}
              /\ transfer[r].pc \in {"create", "erase"}
    BY DEF Banners!CreateFails, Banners!DeleteFails, Banners!DeleteFileFails
  <1>2. Banners!ServedAsSniffed'
    BY <1>1 DEF Banners!BannerInv, Banners!ServedAsSniffed
  <1>3. QED
    BY <1>1, <1>2, BannerEnds

\* The file of a key that only this request knows of.
LEMMA BannerPuts ==
    ASSUME Banners!BannerInv, NEW r \in Request, Banners!Put(r)
    PROVE  Banners!BannerInv'
  <1> DEFINE k == transfer[r].key
             bytes == transfer[r].bytes
  <1>1. /\ transfer[r].pc = "put"
        /\ file' = [file EXCEPT ![k] = bytes]
        /\ Banners!Goto(r, "create")
        /\ UNCHANGED <<asset, lost, served>>
    BY DEF Banners!Put
  <1>2. /\ Banners!FilesInv /\ Banners!CallsInv /\ Banners!LostInv
        /\ Banners!FilesAccountedFor /\ Banners!ServedAsSniffed
    BY DEF Banners!BannerInv
  <1>3. /\ k \in BannerKey /\ bytes \in Banners!SniffedImage
        /\ asset[k] = NULL /\ file[k] = NULL
        /\ \A s \in Request \ {r} : transfer[s].key # k
    BY <1>1 DEF Banners!BannerInv, Banners!Handled, Banners!Alone
  <1>4. /\ Banners!CallsInv'
        /\ transfer'[r].pc = "create" /\ transfer'[r].key = k
        /\ transfer'[r].bytes = bytes
        /\ \A s \in Request \ {r} : transfer'[s] = transfer[s]
    BY <1>1, <1>2, BannerGoes
  <1> HIDE DEF k, bytes
  <1>5. /\ Banners!FilesInv'
        /\ file'[k] = bytes
        /\ \A j \in BannerKey \ {k} : file'[j] = file[j]
    BY <1>1, <1>2, <1>3 DEF Banners!FilesInv
  <1>6. k \notin lost
    BY <1>2, <1>3 DEF Banners!LostInv
  <1>7. bytes # NULL
    BY <1>3, BannerParameters
  <1>8. Banners!Handled(r)'
    BY <1>1, <1>3, <1>4, <1>5, <1>6 DEF Banners!Handled, Banners!Alone
  <1>9. ASSUME NEW s \in Request \ {r} PROVE Banners!Handled(s)'
    <2>1. transfer'[s] = transfer[s] /\ Banners!Handled(s)
      BY <1>4 DEF Banners!BannerInv
    <2>2. transfer[s].key # k
      BY <1>3
    <2>3. \A q \in Request \ {r} : transfer'[q] = transfer[q]
      BY <1>4
    <2>4. transfer[s].pc # "idle" => file'[transfer[s].key] = file[transfer[s].key]
      BY <1>5, <2>1, <2>2 DEF Banners!Handled
    <2>5. QED
      BY <1>1, <1>4, <2>1, <2>2, <2>3, <2>4 DEF Banners!Handled, Banners!Alone
  <1>10. Banners!LostInv'
    BY <1>1, <1>2, <1>5, <1>6, <1>3 DEF Banners!LostInv
  <1>11. Banners!FilesAccountedFor'
    <2> SUFFICES ASSUME NEW j \in BannerKey
                 PROVE  /\ asset'[j] # NULL =>
                               file'[j] = asset'[j].extension /\ j \notin lost'
                        /\ file'[j] # NULL /\ asset'[j] = NULL =>
                               \/ j \in lost'
                               \/ \E s \in Request :
                                      /\ transfer'[s].key = j
                                      /\ transfer'[s].pc \in {"create", "erase"}
      BY DEF Banners!FilesAccountedFor
    <2>1. CASE j = k
      BY <1>1, <1>3, <1>4, <2>1
    <2>2. CASE j # k
      <3>1. file'[j] = file[j]
        BY <1>5, <2>2
      <3>2. \A s \in Request : transfer[s].key = j => transfer'[s] = transfer[s]
        BY <1>4, <2>2 DEF k
      <3>3. QED
        BY <1>1, <1>2, <3>1, <3>2 DEF Banners!FilesAccountedFor
    <2>3. QED
      BY <2>1, <2>2
  <1>12. QED
    BY <1>1, <1>2, <1>4, <1>5, <1>8, <1>9, <1>10, <1>11
    DEF Banners!BannerInv, Banners!ServedAsSniffed

LEMMA BannerCreates ==
    ASSUME Banners!BannerInv, NEW r \in Request, Banners!Create(r)
    PROVE  Banners!BannerInv'
  <1> DEFINE k == transfer[r].key
             bytes == transfer[r].bytes
             row_ == Banners!put(k, bytes)
  <1>1. /\ transfer[r].pc = "create"
        /\ asset' = [asset EXCEPT ![k] = Banners!put(k, Banners!sniffImage(bytes))]
        /\ Banners!Finish(r)
        /\ UNCHANGED <<file, lost, served>>
    BY DEF Banners!Create
  <1>2. /\ Banners!FilesInv /\ Banners!CallsInv /\ Banners!LostInv
        /\ Banners!FilesAccountedFor /\ Banners!ServedAsSniffed
    BY DEF Banners!BannerInv
  <1>3. /\ k \in BannerKey /\ bytes \in Banners!SniffedImage
        /\ asset[k] = NULL /\ file[k] = bytes /\ k \notin lost
        /\ \A s \in Request \ {r} : transfer[s].key # k
    BY <1>1 DEF Banners!BannerInv, Banners!Handled, Banners!Alone
  <1>4. transfer' = [transfer EXCEPT ![r] = Banners!Idle]
    BY <1>1 DEF Banners!Finish
  <1>5. /\ Banners!CallsInv'
        /\ transfer'[r].pc = "idle" /\ transfer'[r].key = NULL
        /\ \A s \in Request \ {r} : transfer'[s] = transfer[s]
    <2>1. /\ Banners!Idle = [pc |-> Banners!Idle.pc, key |-> Banners!Idle.key,
                             bytes |-> Banners!Idle.bytes]
          /\ Banners!Idle.pc = "idle" /\ Banners!Idle.key = NULL
      BY DEF Banners!Idle
    <2>2. QED
      BY <1>2, <1>4, <2>1, BannerMoves
  <1>6. asset' = [asset EXCEPT ![k] = row_]
    BY <1>1, <1>3 DEF Banners!sniffImage
  <1>7. row_ \in Banners!Asset /\ row_.extension = bytes
    BY <1>3 DEF Banners!Asset, Banners!put
  <1> HIDE DEF k, bytes, row_
  <1>8. /\ Banners!FilesInv'
        /\ asset'[k] = row_
        /\ \A j \in BannerKey \ {k} : asset'[j] = asset[j]
    BY <1>1, <1>2, <1>3, <1>6, <1>7 DEF Banners!FilesInv
  <1>9. Banners!Handled(r)'
    BY <1>5 DEF Banners!Handled
  <1>10. ASSUME NEW s \in Request \ {r} PROVE Banners!Handled(s)'
    <2>1. transfer'[s] = transfer[s] /\ Banners!Handled(s)
      BY <1>5 DEF Banners!BannerInv
    <2>2. transfer[s].key # k
      BY <1>3
    <2>3. transfer[s].pc # "idle" => asset'[transfer[s].key] = asset[transfer[s].key]
      BY <1>8, <2>1, <2>2 DEF Banners!Handled
    <2>4. transfer[s].pc \in {"put", "create", "erase"} => transfer[s].key # NULL
      BY <2>1, BannerParameters DEF Banners!Handled
    <2>5. QED
      BY <1>1, <1>5, <2>1, <2>3, <2>4 DEF Banners!Handled, Banners!Alone
  <1>11. Banners!LostInv'
    BY <1>1, <1>2, <1>3, <1>6 DEF Banners!LostInv, Banners!FilesInv
  <1>12. Banners!FilesAccountedFor'
    <2> SUFFICES ASSUME NEW j \in BannerKey
                 PROVE  /\ asset'[j] # NULL =>
                               file'[j] = asset'[j].extension /\ j \notin lost'
                        /\ file'[j] # NULL /\ asset'[j] = NULL =>
                               \/ j \in lost'
                               \/ \E s \in Request :
                                      /\ transfer'[s].key = j
                                      /\ transfer'[s].pc \in {"create", "erase"}
      BY DEF Banners!FilesAccountedFor
    <2>1. CASE j = k
      BY <1>1, <1>3, <1>7, <1>8, <2>1, BannerParameters
    <2>2. CASE j # k
      <3>1. asset'[j] = asset[j]
        BY <1>8, <2>2
      <3>2. \A s \in Request : transfer[s].key = j => transfer'[s] = transfer[s]
        BY <1>5, <2>2 DEF k
      <3>3. QED
        BY <1>1, <1>2, <3>1, <3>2 DEF Banners!FilesAccountedFor
    <2>3. QED
      BY <2>1, <2>2
  <1>13. QED
    BY <1>1, <1>2, <1>5, <1>8, <1>9, <1>10, <1>11, <1>12
    DEF Banners!BannerInv, Banners!ServedAsSniffed

\* What Finish leaves of a request, and of the others.
LEMMA BannerIdles ==
    ASSUME Banners!CallsInv, NEW r \in Request, Banners!Finish(r)
    PROVE  /\ Banners!CallsInv'
           /\ Banners!Handled(r)'
           /\ transfer'[r].pc = "idle" /\ transfer'[r].key = NULL
           /\ \A s \in Request \ {r} : transfer'[s] = transfer[s]
  <1>1. /\ Banners!Idle = [pc |-> Banners!Idle.pc, key |-> Banners!Idle.key,
                           bytes |-> Banners!Idle.bytes]
        /\ Banners!Idle.pc = "idle" /\ Banners!Idle.key = NULL
    BY DEF Banners!Idle
  <1>2. /\ Banners!CallsInv'
        /\ transfer'[r] = Banners!Idle
        /\ \A s \in Request \ {r} : transfer'[s] = transfer[s]
    BY <1>1, BannerMoves DEF Banners!Finish
  <1>3. QED
    BY <1>1, <1>2 DEF Banners!Handled

LEMMA BannerPutFails ==
    ASSUME Banners!BannerInv, NEW r \in Request, Banners!PutFails(r)
    PROVE  Banners!BannerInv'
  <1> DEFINE k == transfer[r].key
  <1>1. /\ transfer[r].pc = "put"
        /\ file' = [file EXCEPT ![k] = "part"]
        /\ lost' = lost \cup {k}
        /\ Banners!Finish(r)
        /\ UNCHANGED <<asset, served>>
    BY DEF Banners!PutFails
  <1>2. /\ Banners!FilesInv /\ Banners!CallsInv /\ Banners!LostInv
        /\ Banners!FilesAccountedFor /\ Banners!ServedAsSniffed
    BY DEF Banners!BannerInv
  <1>3. /\ k \in BannerKey /\ asset[k] = NULL
        /\ \A s \in Request \ {r} : transfer[s].key # k
    BY <1>1 DEF Banners!BannerInv, Banners!Handled, Banners!Alone
  <1>4. /\ Banners!CallsInv' /\ Banners!Handled(r)'
        /\ transfer'[r].key = NULL
        /\ \A s \in Request \ {r} : transfer'[s] = transfer[s]
    BY <1>1, <1>2, BannerIdles
  <1> HIDE DEF k
  <1>5. /\ Banners!FilesInv'
        /\ file'[k] = "part"
        /\ \A j \in BannerKey \ {k} : file'[j] = file[j]
    BY <1>1, <1>2, <1>3 DEF Banners!FilesInv
  <1>6. ASSUME NEW s \in Request \ {r} PROVE Banners!Handled(s)'
    <2>1. transfer'[s] = transfer[s] /\ Banners!Handled(s)
      BY <1>4 DEF Banners!BannerInv
    <2>2. transfer[s].key # k
      BY <1>3
    <2>3. transfer[s].pc # "idle" => file'[transfer[s].key] = file[transfer[s].key]
      BY <1>5, <2>1, <2>2 DEF Banners!Handled
    <2>4. transfer[s].pc \in {"put", "create", "erase"} => transfer[s].key # NULL
      BY <2>1, BannerParameters DEF Banners!Handled
    <2>5. QED
      BY <1>1, <1>4, <2>1, <2>2, <2>3, <2>4 DEF Banners!Handled, Banners!Alone
  <1>7. Banners!LostInv'
    BY <1>1, <1>2, <1>3, <1>5, BannerParameters DEF Banners!LostInv, Banners!FilesInv
  <1>8. Banners!FilesAccountedFor'
    <2> SUFFICES ASSUME NEW j \in BannerKey
                 PROVE  /\ asset'[j] # NULL =>
                               file'[j] = asset'[j].extension /\ j \notin lost'
                        /\ file'[j] # NULL /\ asset'[j] = NULL =>
                               \/ j \in lost'
                               \/ \E s \in Request :
                                      /\ transfer'[s].key = j
                                      /\ transfer'[s].pc \in {"create", "erase"}
      BY DEF Banners!FilesAccountedFor
    <2>1. CASE j = k
      BY <1>1, <1>3, <2>1
    <2>2. CASE j # k
      <3>1. file'[j] = file[j]
        BY <1>5, <2>2
      <3>2. \A s \in Request : transfer[s].key = j => transfer'[s] = transfer[s]
        BY <1>4, <2>2 DEF k
      <3>3. QED
        BY <1>1, <1>2, <2>2, <3>1, <3>2 DEF Banners!FilesAccountedFor
    <2>3. QED
      BY <2>1, <2>2
  <1>9. QED
    BY <1>1, <1>2, <1>4, <1>5, <1>6, <1>7, <1>8
    DEF Banners!BannerInv, Banners!ServedAsSniffed

\* The first of two removals deletes the row and goes for the file; the second
\* ends.
LEMMA BannerDeletes ==
    ASSUME Banners!BannerInv, NEW r \in Request, Banners!DeleteRow(r)
    PROVE  Banners!BannerInv'
  <1> DEFINE k == transfer[r].key
  <1>1. /\ transfer[r].pc = "delete"
        /\ asset' = [asset EXCEPT ![k] = NULL]
        /\ IF asset[k] = NULL THEN Banners!Finish(r) ELSE Banners!Goto(r, "erase")
        /\ UNCHANGED <<file, lost, served>>
    BY DEF Banners!DeleteRow, Banners!Advance, Banners!Removal
  <1>2. /\ Banners!FilesInv /\ Banners!CallsInv /\ Banners!LostInv
        /\ Banners!FilesAccountedFor /\ Banners!ServedAsSniffed
    BY DEF Banners!BannerInv
  <1>3. k \in BannerKey
    BY <1>1 DEF Banners!BannerInv, Banners!Handled
  <1>4. CASE asset[k] = NULL
    <2>1. asset' = asset
      BY <1>1, <1>2, <1>3, <1>4 DEF Banners!FilesInv
    <2>2. Banners!Finish(r) /\ transfer[r].pc \notin {"create", "erase"}
      BY <1>1, <1>4
    <2>3. Banners!ServedAsSniffed'
      BY <1>1, <1>2 DEF Banners!ServedAsSniffed
    <2>4. QED
      BY <1>1, <2>1, <2>2, <2>3, BannerEnds
  <1>5. CASE asset[k] # NULL
    <2>1. /\ Banners!CallsInv'
          /\ transfer'[r].pc = "erase" /\ transfer'[r].key = k
          /\ \A s \in Request \ {r} : transfer'[s] = transfer[s]
      BY <1>1, <1>2, <1>5, BannerGoes
    <2>2. file[k] # NULL /\ k \notin lost
      <3>1. asset[k] \in Banners!Asset
        BY <1>2, <1>3, <1>5 DEF Banners!FilesInv
      <3>2. asset[k].extension \in Banners!SniffedImage
        BY <3>1 DEF Banners!Asset
      <3>3. QED
        BY <1>2, <1>3, <1>5, <3>2, BannerParameters DEF Banners!FilesAccountedFor
    <2>3. ASSUME NEW s \in Request \ {r}
          PROVE  /\ Banners!Handled(s) /\ transfer'[s] = transfer[s]
                 /\ transfer[s].key = k => transfer[s].pc \in {"delete", "get"}
      <3>1. Banners!Handled(s) /\ transfer'[s] = transfer[s]
        BY <2>1 DEF Banners!BannerInv
      <3>2. transfer[s].pc \in {"idle", "put", "create", "delete", "erase", "get"}
        BY <1>2 DEF Banners!CallsInv
      <3>3. QED
        BY <1>3, <1>5, <3>1, <3>2, BannerParameters DEF Banners!Handled
    <2> HIDE DEF k
    <2>4. /\ Banners!FilesInv'
          /\ asset'[k] = NULL
          /\ \A j \in BannerKey \ {k} : asset'[j] = asset[j]
      BY <1>1, <1>2, <1>3 DEF Banners!FilesInv
    <2>5. Banners!Handled(r)'
      BY <1>1, <1>3, <2>1, <2>2, <2>3, <2>4 DEF Banners!Handled
    <2>6. ASSUME NEW s \in Request \ {r} PROVE Banners!Handled(s)'
      <3>1. transfer'[s] = transfer[s] /\ Banners!Handled(s)
            /\ (transfer[s].key = k => transfer[s].pc \in {"delete", "get"})
        BY <2>3
      <3>2. \/ asset'[transfer[s].key] = asset[transfer[s].key]
            \/ transfer[s].pc = "idle"
            \/ transfer[s].key = k
        BY <2>4, <3>1 DEF Banners!Handled
      <3>3. \A q \in Request : transfer'[q].key = transfer[q].key
        BY <2>1 DEF k
      <3>4. \A q \in Request : transfer[q].pc \in {"delete", "get"} =>
                transfer'[q].pc \in {"delete", "get"} \/ transfer'[q].key = k
        BY <2>1
      <3>5. transfer[s].key = k => asset'[transfer[s].key] = NULL
        BY <2>4
      <3>6. QED
        BY <1>1, <3>1, <3>2, <3>3, <3>4, <3>5 DEF Banners!Handled, Banners!Alone
    <2>7. Banners!LostInv'
      BY <1>1, <1>2, <2>2, <2>4 DEF Banners!LostInv, Banners!FilesInv
    <2>8. Banners!FilesAccountedFor'
      <3> SUFFICES ASSUME NEW j \in BannerKey
                   PROVE  /\ asset'[j] # NULL =>
                                 file'[j] = asset'[j].extension /\ j \notin lost'
                          /\ file'[j] # NULL /\ asset'[j] = NULL =>
                                 \/ j \in lost'
                                 \/ \E s \in Request :
                                        /\ transfer'[s].key = j
                                        /\ transfer'[s].pc \in {"create", "erase"}
        BY DEF Banners!FilesAccountedFor
      <3>1. CASE j = k
        BY <2>1, <2>4, <3>1
      <3>2. CASE j # k
        <4>1. asset'[j] = asset[j]
          BY <2>4, <3>2
        <4>2. \A s \in Request : transfer[s].key = j => transfer'[s] = transfer[s]
          BY <2>1, <3>2 DEF k
        <4>3. QED
          BY <1>1, <1>2, <4>1, <4>2 DEF Banners!FilesAccountedFor
      <3>3. QED
        BY <3>1, <3>2
    <2>9. QED
      BY <1>1, <1>2, <2>1, <2>4, <2>5, <2>6, <2>7, <2>8
      DEF Banners!BannerInv, Banners!ServedAsSniffed
  <1>6. QED
    BY <1>4, <1>5

LEMMA BannerErases ==
    ASSUME Banners!BannerInv, NEW r \in Request, Banners!DeleteFile(r)
    PROVE  Banners!BannerInv'
  <1> DEFINE k == transfer[r].key
  <1>1. /\ transfer[r].pc = "erase"
        /\ file' = [file EXCEPT ![k] = NULL]
        /\ Banners!Finish(r)
        /\ UNCHANGED <<asset, lost, served>>
    BY DEF Banners!DeleteFile, Banners!Advance, Banners!Removal
  <1>2. /\ Banners!FilesInv /\ Banners!CallsInv /\ Banners!LostInv
        /\ Banners!FilesAccountedFor /\ Banners!ServedAsSniffed
    BY DEF Banners!BannerInv
  <1>3. /\ k \in BannerKey /\ asset[k] = NULL /\ k \notin lost
        /\ \A s \in Request \ {r} :
               transfer[s].key = k => transfer[s].pc \in {"delete", "get"}
    BY <1>1 DEF Banners!BannerInv, Banners!Handled
  <1>4. /\ Banners!CallsInv' /\ Banners!Handled(r)'
        /\ transfer'[r].pc = "idle" /\ transfer'[r].key = NULL
        /\ \A s \in Request \ {r} : transfer'[s] = transfer[s]
    BY <1>1, <1>2, BannerIdles
  <1> HIDE DEF k
  <1>5. /\ Banners!FilesInv'
        /\ file'[k] = NULL
        /\ \A j \in BannerKey \ {k} : file'[j] = file[j]
    BY <1>1, <1>2, <1>3 DEF Banners!FilesInv
  <1>6. ASSUME NEW s \in Request \ {r} PROVE Banners!Handled(s)'
    <2>1. transfer'[s] = transfer[s] /\ Banners!Handled(s)
          /\ (transfer[s].key = k => transfer[s].pc \in {"delete", "get"})
      BY <1>3, <1>4 DEF Banners!BannerInv
    <2>2. \/ file'[transfer[s].key] = file[transfer[s].key]
          \/ transfer[s].pc = "idle"
          \/ transfer[s].key = k
      BY <1>5, <2>1 DEF Banners!Handled
    <2>3. transfer[s].pc \in {"put", "create", "erase"} => transfer[s].key # NULL
      BY <2>1, BannerParameters DEF Banners!Handled
    <2>4. QED
      BY <1>1, <1>4, <1>5, <2>1, <2>2, <2>3 DEF Banners!Handled, Banners!Alone
  <1>7. Banners!LostInv'
    BY <1>1, <1>2, <1>3, <1>5 DEF Banners!LostInv, Banners!FilesInv
  <1>8. Banners!FilesAccountedFor'
    <2> SUFFICES ASSUME NEW j \in BannerKey
                 PROVE  /\ asset'[j] # NULL =>
                               file'[j] = asset'[j].extension /\ j \notin lost'
                        /\ file'[j] # NULL /\ asset'[j] = NULL =>
                               \/ j \in lost'
                               \/ \E s \in Request :
                                      /\ transfer'[s].key = j
                                      /\ transfer'[s].pc \in {"create", "erase"}
      BY DEF Banners!FilesAccountedFor
    <2>1. CASE j = k
      BY <1>1, <1>3, <1>5, <2>1
    <2>2. CASE j # k
      <3>1. file'[j] = file[j]
        BY <1>5, <2>2
      <3>2. \A s \in Request : transfer[s].key = j => transfer'[s] = transfer[s]
        BY <1>4, <2>2 DEF k
      <3>3. QED
        BY <1>1, <1>2, <3>1, <3>2 DEF Banners!FilesAccountedFor
    <2>3. QED
      BY <2>1, <2>2
  <1>9. QED
    BY <1>1, <1>2, <1>4, <1>5, <1>6, <1>7, <1>8
    DEF Banners!BannerInv, Banners!ServedAsSniffed

\* Every request stops where it is; the files in their hands are lost.
LEMMA BannerCrash ==
    ASSUME Banners!BannerInv, Banners!Crash
    PROVE  Banners!BannerInv'
  <1> DEFINE held == {k \in BannerKey : \E r \in Request :
                          /\ transfer[r].key = k
                          /\ transfer[r].pc \in {"create", "erase"}}
  <1>1. /\ lost' = lost \cup held
        /\ transfer' = [r \in Request |-> Banners!Idle]
        /\ UNCHANGED <<asset, file, served>>
    BY DEF Banners!Crash
  <1>2. \A r \in Request : transfer'[r].pc = "idle" /\ transfer'[r].key = NULL
    BY <1>1 DEF Banners!Idle
  <1>3. Banners!CallsInv'
    BY <1>1, <1>2 DEF Banners!CallsInv, Banners!Idle
  <1>4. \A r \in Request : Banners!Handled(r)'
    BY <1>2 DEF Banners!Handled
  <1>5. \A k \in held : asset[k] = NULL /\ file[k] # NULL
    BY BannerParameters DEF Banners!BannerInv, Banners!Handled
  <1>6. \A k \in BannerKey : (\E r \in Request : transfer[r].key = k
              /\ transfer[r].pc \in {"create", "erase"}) => k \in held
    OBVIOUS
  <1> HIDE DEF held
  <1>7. Banners!LostInv' /\ Banners!FilesInv'
    BY <1>1, <1>5 DEF Banners!BannerInv, Banners!LostInv, Banners!FilesInv
  <1>8. Banners!FilesAccountedFor'
    BY <1>1, <1>5, <1>6 DEF Banners!BannerInv, Banners!FilesAccountedFor
  <1>9. QED
    BY <1>1, <1>3, <1>4, <1>7, <1>8 DEF Banners!BannerInv, Banners!ServedAsSniffed

LEMMA BannerStutters ==
    ASSUME Banners!BannerInv, UNCHANGED <<asset, file, lost, served, transfer>>
    PROVE  Banners!BannerInv'
  <1>1. \A r \in Request : Banners!Handled(r)'
    BY DEF Banners!BannerInv, Banners!Handled, Banners!Alone
  <1>2. Banners!FilesInv' /\ Banners!CallsInv' /\ Banners!LostInv'
    BY DEF Banners!BannerInv, Banners!FilesInv, Banners!CallsInv, Banners!LostInv
  <1>3. Banners!FilesAccountedFor' /\ Banners!ServedAsSniffed'
    BY DEF Banners!BannerInv, Banners!FilesAccountedFor, Banners!ServedAsSniffed
  <1>4. QED
    BY <1>1, <1>2, <1>3 DEF Banners!BannerInv

LEMMA BannerNext ==
    ASSUME Banners!BannerInv, Banners!Next PROVE Banners!BannerInv'
  <1>1. Banners!Reviewed => UNCHANGED <<asset, file, lost, served, transfer>>
    BY DEF Banners!Reviewed
  <1>2. QED
    BY <1>1, BannerAsks, BannerGets, BannerFails, BannerPuts, BannerPutFails,
       BannerCreates, BannerDeletes, BannerErases, BannerCrash, BannerStutters, Zenon
    DEF Banners!Next

LEMMA BannersAlone ==
    [MarketplaceNext]_marketVars => Banners!Next \/ UNCHANGED bannerVars
  BY Zenon DEF MarketplaceNext, marketVars, servedVars

\* Whatever fails and whoever overlaps: a banner's row has its whole file, a
\* file without a row is in the hands of a request or counted as lost, and a
\* download claims what the bytes were found to be (creative.service.ts).
THEOREM BannersHaveTheirFiles == MarketplaceSpec => []BannersAccountedFor
  <1>1. MarketplaceInit => Banners!BannerInv
    BY BannerInit DEF MarketplaceInit
  <1>2. ASSUME Banners!BannerInv, [MarketplaceNext]_marketVars
        PROVE  Banners!BannerInv'
    <2>1. UNCHANGED bannerVars => UNCHANGED <<asset, file, lost, served, transfer>>
      BY DEF bannerVars
    <2>2. QED
      BY <1>2, <2>1, BannerNext, BannersAlone, BannerStutters
  <1>3. Banners!BannerInv => BannersAccountedFor
    BY DEF Banners!BannerInv, BannersAccountedFor
  <1>4. QED
    BY <1>1, <1>2, <1>3, PTL DEF MarketplaceSpec, marketVars

-----------------------------------------------------------------------------
(* Sessions. *)

Pair == [family : Nat, version : Nat, rotated : Nat, revoked : BOOLEAN,
         swept : BOOLEAN, stale : BOOLEAN, expired : BOOLEAN]

Hand == [pc : Steps, pair : Nat, family : Nat, version : Nat]

\* The steps at which a family is about to get a token.
Awaiting == {"claimed", "entering", "continuing"}

\* A step that moves no token to another family and rotates none.
SameTokens ==
    /\ token' \in Seq(Pair)
    /\ Len(token') = Len(token)
    /\ \A t \in Token : /\ token'[t].family = token[t].family
                        /\ token'[t].rotated = token[t].rotated

\* A step after which tab i is about to give no family a token.
Rests(i) ==
    \E hand \in Hand : /\ hand.pc \notin Awaiting
                       /\ call' = [call EXCEPT ![i] = hand]

LEMMA SessionStarts == Init => SessionInv
  <1> SUFFICES ASSUME Init PROVE SessionInv
    OBVIOUS
  <1>1. /\ token = <<>> /\ logins = 0 /\ version = 0 /\ rotations = 0
        /\ stored = 0 /\ memory = [i \in Tab |-> 0]
        /\ call = [i \in Tab |-> Page("closed")]
    BY DEF Init
  <1>2. Len(token) = 0 /\ Token = {} /\ token \in Seq(Pair)
    BY <1>1 DEF Token
  <1>3. Page("closed") \in Hand /\ Page("closed").pc = "closed"
    BY DEF Page, Hand, Steps, Pages
  <1>4. TokensInv
    BY <1>1, <1>2 DEF TokensInv, Pair
  <1>5. HandsInv
    BY <1>1, <1>3 DEF HandsInv, Hand, At
  <1>6. \A f \in Nat : OneOf(f)
    BY <1>1, <1>2, <1>3 DEF OneOf, Continues, At
  <1>7. QED
    BY <1>4, <1>5, <1>6 DEF SessionInv

LEMMA GoRests ==
    ASSUME HandsInv, NEW i \in Tab, NEW pc \in Steps \ Awaiting, Go(i, pc)
    PROVE  Rests(i)
  <1>1. call[i] \in Hand
    BY DEF HandsInv, Hand
  <1> DEFINE hand == [call[i] EXCEPT !.pc = pc]
  <1>2. hand \in Hand /\ hand.pc \notin Awaiting
    BY <1>1 DEF Hand
  <1>3. call' = [call EXCEPT ![i] = hand]
    BY DEF Go
  <1> HIDE DEF hand
  <1>4. QED
    BY <1>2, <1>3 DEF Rests

LEMMA ShowRests ==
    ASSUME NEW i \in Tab, NEW pc \in Steps \ Awaiting, Show(i, pc)
    PROVE  Rests(i)
  <1>1. Page(pc) \in Hand /\ Page(pc).pc \notin Awaiting
    BY DEF Page, Hand
  <1>2. QED
    BY <1>1 DEF Rests, Show

LEMMA RevokedSame ==
    ASSUME TokensInv, NEW S, token' = Revoked(S)
    PROVE  SameTokens
  <1>1. token \in Seq(Pair) /\ Token = DOMAIN token /\ DOMAIN token = 1 .. Len(token)
        /\ Len(token) \in Nat
    BY DEF TokensInv, Pair, Token
  <1> DEFINE new(t) == IF t \in S THEN [token[t] EXCEPT !.revoked = TRUE] ELSE token[t]
  <1>2. \A t \in Token : /\ new(t) \in Pair
                         /\ new(t).family = token[t].family
                         /\ new(t).rotated = token[t].rotated
    <2> SUFFICES ASSUME NEW t \in Token
                 PROVE  /\ new(t) \in Pair
                        /\ new(t).family = token[t].family
                        /\ new(t).rotated = token[t].rotated
      OBVIOUS
    <2>1. token[t] \in Pair
      BY <1>1
    <2>2. QED
      BY <2>1 DEF Pair
  <1>3. token' = [t \in 1 .. Len(token) |-> new(t)]
    BY <1>1 DEF Revoked, Token
  <1> HIDE DEF new
  <1>4. token' \in Seq(Pair) /\ Len(token') = Len(token)
    BY <1>1, <1>2, <1>3
  <1>5. QED
    BY <1>1, <1>2, <1>3, <1>4 DEF SameTokens

LEMMA UnchangedSame == ASSUME TokensInv, token' = token PROVE SameTokens
  BY DEF TokensInv, SameTokens, Pair

\* A token is marked, and stays where it is.
LEMMA MarkedSame ==
    ASSUME TokensInv, NEW t \in Token, NEW pair \in Pair,
           pair.family = token[t].family, pair.rotated = token[t].rotated,
           token' = [token EXCEPT ![t] = pair]
    PROVE  SameTokens
  <1>1. token \in Seq(Pair) /\ Len(token) \in Nat
    BY DEF TokensInv, Pair
  <1>2. token' \in Seq(Pair) /\ Len(token') = Len(token)
    BY <1>1 DEF Token
  <1>3. \A u \in Token : token'[u] = IF u = t THEN pair ELSE token[u]
    BY <1>1 DEF Token
  <1>4. QED
    BY <1>2, <1>3 DEF SameTokens

\* Whoever rests leaves the family it would have continued.
LEMMA SessionRests ==
    ASSUME SessionInv, SameTokens,
           (\E i \in Tab : Rests(i)) \/ call' = call,
           logins' = logins, rotations' \in Nat, version' \in Nat,
           stored' \in Nat, memory' \in [Tab -> Nat]
    PROVE  SessionInv'
  <1>1. TokensInv /\ HandsInv /\ Token' = Token
    BY DEF SessionInv, SameTokens, Token
  <1>2. TokensInv'
    BY <1>1 DEF TokensInv, SameTokens, Pair
  <1>3. /\ call' \in [Tab -> Hand]
        /\ \A i \in Tab : call'[i] = call[i] \/ call'[i].pc \notin Awaiting
    BY <1>1 DEF HandsInv, Hand, Rests
  <1>4. HandsInv'
    BY <1>1, <1>3 DEF HandsInv, At, Hand, Awaiting
  <1>5. \A i \in Tab, f \in Nat : Continues(i, f)' => Continues(i, f)
    BY <1>1, <1>3 DEF Continues, At, Awaiting, HandsInv, SameTokens
  <1>6. \A t \in Token : /\ Unrotated(t)' <=> Unrotated(t)
                         /\ token'[t].family = token[t].family
    BY DEF Unrotated, SameTokens
  <1>7. ASSUME NEW f \in Nat PROVE OneOf(f)'
    <2>1. OneOf(f)
      BY DEF SessionInv
    <2>2. QED
      BY <1>1, <1>5, <1>6, <2>1 DEF OneOf
  <1>8. QED
    BY <1>2, <1>4, <1>7 DEF SessionInv

\* The types the cases below need of a session's state.
LEMMA SessionTypes ==
    ASSUME SessionInv
    PROVE  /\ HandsInv /\ TokensInv
           /\ stored \in Nat /\ memory \in [Tab -> Nat] /\ logins \in Nat
           /\ rotations \in Nat /\ version \in Nat
           /\ call \in [Tab -> Hand]
           /\ token \in Seq(Pair) /\ Token = 1 .. Len(token) /\ Len(token) \in Nat
           /\ \A t \in Token : token[t].family \in 1 .. logins
           /\ \A i \in Tab : At(i, "claimed") => call[i].pair \in Token
  BY DEF SessionInv, HandsInv, TokensInv, Pair, Hand, Token

\* The next hand of a tab, with the others as they were.
LEMMA HandMoves ==
    ASSUME SessionInv, NEW i \in Tab, NEW hand \in Hand,
           call' = [call EXCEPT ![i] = hand]
    PROVE  /\ call' \in [Tab -> Hand]
           /\ call'[i] = hand
           /\ \A j \in Tab \ {i} : call'[j] = call[j]
  <1>1. call \in [Tab -> Hand]
    BY SessionTypes
  <1>2. QED
    BY <1>1

LEMMA TokensNext ==
    ASSUME token' \in Seq(Pair), rotations' \in Nat, version' \in Nat,
           \A t \in Token' : token'[t].family \in 1 .. logins'
    PROVE  TokensInv'
  BY DEF TokensInv, Pair

\* A login begins a family that has no token, and that nobody continues.
LEMMA SessionLogin ==
    ASSUME SessionInv, NEW i \in Tab, Login(i) PROVE SessionInv'
  <1> DEFINE hand == [pc |-> "entering", pair |-> 0, family |-> logins + 1,
                      version |-> version]
  <1>1. /\ logins' = logins + 1
        /\ call' = [call EXCEPT ![i] = hand]
        /\ UNCHANGED <<token, version, rotations, stored, memory>>
        /\ call[i].pc = "login"
    BY DEF Login, Issue, At
  <1>2. hand \in Hand
    BY SessionTypes DEF Hand, Steps
  <1>3. hand.pc = "entering" /\ hand.family = logins + 1
    OBVIOUS
  <1> HIDE DEF hand
  <1>4. /\ call' \in [Tab -> Hand]
        /\ call'[i] = hand
        /\ \A j \in Tab \ {i} : call'[j] = call[j]
    BY <1>1, <1>2, HandMoves
  <1>5. Token' = Token /\ TokensInv'
    <2>1. Token' = Token
      BY <1>1 DEF Token
    <2>2. 1 .. logins \subseteq 1 .. logins'
      BY <1>1, SessionTypes
    <2>3. QED
      BY <1>1, <2>1, <2>2, SessionTypes, TokensNext
  <1>6. HandsInv'
    <2>1. logins' \in Nat /\ hand.family \in 1 .. logins'
              /\ \A n \in 1 .. logins : n \in 1 .. logins'
      BY <1>1, <1>3, SessionTypes
    <2>2. stored' \in Nat /\ memory' \in [Tab -> Nat]
      BY <1>1, SessionTypes
    <2>3. \A j \in Tab \ {i} :
              /\ call'[j].pc = "claimed" => call'[j].pair \in Token'
              /\ call'[j].pc \in {"entering", "continuing"} =>
                     call'[j].family \in 1 .. logins'
      BY <1>4, <1>5, <2>1, SessionTypes DEF HandsInv, At
    <2>4. QED
      BY <1>3, <1>4, <2>1, <2>2, <2>3 DEF HandsInv, At, Hand
  <1>7. ASSUME NEW f \in Nat PROVE OneOf(f)'
    <2>1. \A j \in Tab \ {i} : Continues(j, f)' <=> Continues(j, f)
      BY <1>1, <1>4 DEF Continues, At
    <2>2. Continues(i, f)' <=> f = logins + 1
      BY <1>3, <1>4 DEF Continues, At
    <2>3. \A j \in Tab : Continues(j, logins + 1) => FALSE
      <3>1. \A t \in Token : token[t].family # logins + 1
        BY SessionTypes
      <3>2. \A j \in Tab : call[j].pc \in {"entering", "continuing"} =>
                call[j].family # logins + 1
        BY SessionTypes DEF HandsInv
      <3>3. QED
        BY <3>1, <3>2, SessionTypes DEF Continues
    <2>4. \A t \in Token : token[t].family # logins + 1
      BY SessionTypes
    <2>5. \A t \in Token : Unrotated(t)' <=> Unrotated(t)
      BY <1>1 DEF Unrotated
    <2>6. OneOf(f)
      BY DEF SessionInv
    <2>7. QED
      BY <1>1, <1>5, <2>1, <2>2, <2>3, <2>4, <2>5, <2>6 DEF OneOf
  <1>8. QED
    BY <1>5, <1>6, <1>7 DEF SessionInv

\* Who rotates the one token of a family is the one to continue it.
LEMMA SessionClaims ==
    ASSUME SessionInv, NEW i \in Tab, At(i, "claiming"), Claimable(call[i].pair),
           token' = [token EXCEPT ![call[i].pair].rotated = rotations + 1],
           rotations' = rotations + 1,
           Go(i, "claimed"),
           UNCHANGED <<logins, version, stored, memory>>
    PROVE  SessionInv'
  <1> DEFINE t == call[i].pair
             pair == [token[t] EXCEPT !.rotated = rotations + 1]
             hand == [call[i] EXCEPT !.pc = "claimed"]
  <1>1. t \in Token /\ Unrotated(t)
    BY DEF Claimable, Rows, Unrotated
  <1>2. call[i] \in Hand /\ token[t] \in Pair
    BY <1>1, SessionTypes
  <1>3. /\ hand \in Hand /\ hand.pc = "claimed" /\ hand.pair = t
        /\ call' = [call EXCEPT ![i] = hand]
    BY <1>2 DEF Hand, Steps, Go
  <1>4. /\ pair \in Pair /\ pair.family = token[t].family /\ pair.rotated # 0
        /\ token' = [token EXCEPT ![t] = pair]
    <2>1. rotations + 1 \in Nat /\ rotations + 1 # 0
      BY SessionTypes
    <2>2. pair \in Pair /\ pair.family = token[t].family /\ pair.rotated # 0
      BY <1>2, <2>1 DEF Pair
    <2>3. QED
      BY <2>2
  <1> HIDE DEF hand, pair
  <1>5. /\ call' \in [Tab -> Hand]
        /\ call'[i] = hand
        /\ \A j \in Tab \ {i} : call'[j] = call[j]
    BY <1>3, HandMoves
  <1>6. /\ token' \in Seq(Pair) /\ Len(token') = Len(token) /\ Token' = Token
        /\ token'[t] = pair
        /\ \A u \in Token \ {t} : token'[u] = token[u]
    BY <1>1, <1>4, SessionTypes DEF Token
  <1> HIDE DEF t
  <1>7. \A u \in Token : token'[u].family = token[u].family
    BY <1>4, <1>6
  <1>8. \A u \in Token : Unrotated(u)' <=> Unrotated(u) /\ u # t
    BY <1>4, <1>6 DEF Unrotated
  <1>9. TokensInv'
    <2>1. rotations' \in Nat /\ version' \in Nat
      BY SessionTypes
    <2>2. \A u \in Token' : token'[u].family \in 1 .. logins'
      BY <1>6, <1>7, SessionTypes
    <2>3. QED
      BY <1>6, <2>1, <2>2, TokensNext
  <1>10. HandsInv'
    BY <1>1, <1>3, <1>5, <1>6, SessionTypes DEF HandsInv, At, Hand
  <1>11. ASSUME NEW f \in Nat PROVE OneOf(f)'
    <2>1. \A j \in Tab \ {i} : Continues(j, f)' <=> Continues(j, f)
      BY <1>5, <1>7, SessionTypes DEF Continues, At, HandsInv
    <2>2. Continues(i, f)' => f = token[t].family
      BY <1>1, <1>3, <1>5, <1>7 DEF Continues, At
    <2>3. OneOf(f)
      BY DEF SessionInv
    <2>4. \A j \in Tab : Continues(j, f) => f # token[t].family
      BY <1>1, <2>3 DEF OneOf
    <2>5. QED
      BY <1>1, <1>6, <1>7, <1>8, <2>1, <2>2, <2>3, <2>4 DEF OneOf
  <1>12. QED
    BY <1>9, <1>10, <1>11 DEF SessionInv

\* The user is read again: the family is still this tab's to continue.
LEMMA SessionChecks ==
    ASSUME SessionInv, NEW i \in Tab, At(i, "claimed"),
           Issue(i, token[call[i].pair].family, "continuing"),
           UNCHANGED <<logins, token, version, rotations, stored, memory>>
    PROVE  SessionInv'
  <1> DEFINE g == token[call[i].pair].family
             hand == [pc |-> "continuing", pair |-> 0, family |-> g,
                      version |-> version]
  <1>1. call[i].pair \in Token
    BY SessionTypes
  <1>2. g \in 1 .. logins /\ g \in Nat
    BY <1>1, SessionTypes
  <1>3. Continues(i, g)
    BY DEF Continues
  <1> HIDE DEF g
  <1>4. /\ hand \in Hand /\ hand.pc = "continuing" /\ hand.family = g
        /\ call' = [call EXCEPT ![i] = hand]
    BY <1>2, SessionTypes DEF Hand, Steps, Issue, g
  <1> HIDE DEF hand
  <1>5. /\ call' \in [Tab -> Hand]
        /\ call'[i] = hand
        /\ \A j \in Tab \ {i} : call'[j] = call[j]
    BY <1>4, HandMoves
  <1>6. Token' = Token /\ TokensInv'
    BY SessionTypes DEF Token, TokensInv
  <1>7. HandsInv'
    BY <1>2, <1>4, <1>5, <1>6, SessionTypes DEF HandsInv, At, Hand
  <1>8. ASSUME NEW f \in Nat PROVE OneOf(f)'
    <2>1. \A j \in Tab : Continues(j, f)' => Continues(j, f)
      BY <1>3, <1>4, <1>5 DEF Continues, At
    <2>2. \A t \in Token : Unrotated(t)' <=> Unrotated(t)
      BY DEF Unrotated
    <2>3. OneOf(f)
      BY DEF SessionInv
    <2>4. QED
      BY <1>6, <2>1, <2>2, <2>3 DEF OneOf
  <1>9. QED
    BY <1>6, <1>7, <1>8 DEF SessionInv

\* The family gets its token from the one tab that continued it.
LEMMA SessionMints ==
    ASSUME SessionInv, NEW i \in Tab, Mint(i) PROVE SessionInv'
  <1> DEFINE g == call[i].family
             pair == [family |-> g, version |-> call[i].version,
                      rotated |-> 0, revoked |-> FALSE, swept |-> FALSE,
                      stale |-> FALSE, expired |-> FALSE]
             pc == IF At(i, "entering") THEN "entered" ELSE "continued"
             hand == [Page(pc) EXCEPT !.pair = Len(token) + 1]
  <1>1. /\ call[i].pc \in {"entering", "continuing"}
        /\ token' = Append(token, pair)
        /\ call' = [call EXCEPT ![i] = hand]
        /\ UNCHANGED <<logins, version, rotations, stored, memory>>
    BY DEF Mint, At
  <1>2. call[i] \in Hand
    BY SessionTypes
  <1>3. g \in 1 .. logins /\ g \in Nat
    BY <1>1, SessionTypes DEF HandsInv
  <1>4. Continues(i, g)
    BY <1>1 DEF Continues
  <1>5. pair \in Pair /\ pair.family = g /\ pair.rotated = 0
    BY <1>2 DEF Pair, Hand
  <1>6. hand \in Hand /\ hand.pc \notin Awaiting
    BY SessionTypes DEF Page, Hand, Steps, Awaiting
  <1> HIDE DEF hand, pair, g
  <1>7. /\ call' \in [Tab -> Hand]
        /\ call'[i] = hand
        /\ \A j \in Tab \ {i} : call'[j] = call[j]
    BY <1>1, <1>6, HandMoves
  <1> DEFINE n == Len(token) + 1
  <1>8. /\ token' \in Seq(Pair) /\ Token' = Token \cup {n} /\ n \notin Token
        /\ token'[n] = pair
        /\ \A u \in Token : token'[u] = token[u]
    BY <1>1, <1>5, SessionTypes DEF Token
  <1> HIDE DEF n
  <1>9. TokensInv'
    <2>1. rotations' \in Nat /\ version' \in Nat
      BY <1>1, SessionTypes
    <2>2. \A u \in Token' : token'[u].family \in 1 .. logins'
      BY <1>1, <1>3, <1>5, <1>8, SessionTypes
    <2>3. QED
      BY <1>8, <2>1, <2>2, TokensNext
  <1>10. HandsInv'
    BY <1>1, <1>6, <1>7, <1>8, SessionTypes DEF HandsInv, At, Hand, Awaiting
  <1>11. ASSUME NEW f \in Nat PROVE OneOf(f)'
    <2>1. \A j \in Tab \ {i} : Continues(j, f)' <=> Continues(j, f)
      BY <1>7, <1>8, SessionTypes DEF Continues, At, HandsInv
    <2>2. ~Continues(i, f)'
      BY <1>6, <1>7 DEF Continues, At, Awaiting
    <2>3. OneOf(f)
      BY DEF SessionInv
    <2>4. \A t \in Token : Unrotated(t)' <=> Unrotated(t)
      BY <1>8 DEF Unrotated
    <2>5. f = g => /\ \A t \in Token : Unrotated(t) => token[t].family # f
                   /\ \A j \in Tab \ {i} : ~Continues(j, f)
      BY <1>4, <2>3 DEF OneOf
    <2>6. QED
      BY <1>5, <1>8, <2>1, <2>2, <2>3, <2>4, <2>5 DEF OneOf
  <1>12. QED
    BY <1>9, <1>10, <1>11 DEF SessionInv

\* The calls, pages and answers after which a tab continues no family.
LEMMA SessionCalls ==
    ASSUME SessionInv, NEW i \in Tab,
           \/ Load(i) \/ Call(i) \/ Answered(i) \/ StartRefresh(i) \/ Find(i)
           \/ Judge(i) \/ Store(i) \/ AnsweredAgain(i) \/ Redirect(i) \/ Lose(i)
           \/ LoggedOut(i)
    PROVE  SessionInv'
  <1>1. call[i] \in Hand /\ HandsInv /\ Held(i) \in Nat
    BY SessionTypes DEF Held
  <1>2. UNCHANGED <<logins, token, version, rotations>>
    BY DEF Load, Call, Answered, StartRefresh, Find, Judge, Store, AnsweredAgain,
           Redirect, Lose, LoggedOut
  <1>3. stored' \in Nat /\ memory' \in [Tab -> Nat]
    <2>1. \/ UNCHANGED <<stored, memory>>
          \/ /\ stored' \in {0, stored, call[i].pair}
             /\ \E m \in {0, call[i].pair} : memory' = [memory EXCEPT ![i] = m]
      BY Zenon
      DEF Load, Call, Answered, StartRefresh, Find, Judge, Store, AnsweredAgain,
          Redirect, Lose, LoggedOut
    <2>2. call[i].pair \in Nat
      BY <1>1 DEF Hand
    <2>3. stored \in Nat /\ memory \in [Tab -> Nat]
      BY SessionTypes
    <2>4. QED
      BY <2>1, <2>2, <2>3
  <1>4. Rests(i)
    <2>1. CASE Call(i)
      <3> DEFINE hand == [call[i] EXCEPT !.pc = "sent", !.pair = Held(i)]
      <3>1. hand \in Hand /\ hand.pc \notin Awaiting
        BY <1>1 DEF Hand, Steps, Awaiting
      <3>2. call' = [call EXCEPT ![i] = hand]
        BY <2>1, SessionTypes DEF Call
      <3> HIDE DEF hand
      <3>3. QED
        BY <3>1, <3>2 DEF Rests
    <2>2. CASE StartRefresh(i)
      <3> DEFINE hand == [call[i] EXCEPT !.pc = IF stored = 0 THEN "over" ELSE "found",
                                         !.pair = stored]
      <3>1. hand \in Hand /\ hand.pc \notin Awaiting
        BY <1>1, SessionTypes DEF Hand, Steps, Awaiting
      <3>2. call' = [call EXCEPT ![i] = hand]
        BY <2>2, SessionTypes DEF StartRefresh
      <3> HIDE DEF hand
      <3>3. QED
        BY <3>1, <3>2 DEF Rests
    <2>3. CASE ~(Call(i) \/ StartRefresh(i))
      <3>1. \/ \E pc \in {"idle", "login"} : Show(i, pc)
            \/ \E pc \in {"refused", "over", "replayed", "claiming", "reused",
                           "again"} : Go(i, pc)
        BY <2>3, Zenon
        DEF Load, Answered, Find, Judge, Store, AnsweredAgain, Redirect, Lose,
            LoggedOut
      <3>2. /\ {"idle", "login"} \subseteq Steps \ Awaiting
            /\ {"refused", "over", "replayed", "claiming", "reused", "again"}
                   \subseteq Steps \ Awaiting
        BY DEF Steps, Pages, Awaiting
      <3>3. QED
        BY <1>1, <3>1, <3>2, GoRests, ShowRests
    <2>4. QED
      BY <2>1, <2>2, <2>3
  <1>5. SameTokens
    BY <1>2, SessionTypes, UnchangedSame
  <1>6. QED
    BY <1>2, <1>3, <1>4, <1>5, SessionTypes, SessionRests

\* What ends sessions marks rows, or moves the version on.
LEMMA SessionEnds ==
    ASSUME SessionInv, NEW i \in Tab,
           \/ PunishReuse(i) \/ LogOut(i) \/ RevokeSession(i) \/ LogOutAll(i)
           \/ BumpVersion(i) \/ ChangePassword(i)
    PROVE  SessionInv'
  <1>1. /\ UNCHANGED <<logins, rotations, stored, memory>>
        /\ version' \in {version, version + 1}
    BY DEF PunishReuse, LogOut, RevokeSession, LogOutAll, BumpVersion, ChangePassword
  <1>2. token' = token \/ \E S \in SUBSET Token : token' = Revoked(S)
    BY DEF PunishReuse, LogOut, RevokeSession, LogOutAll, BumpVersion,
           ChangePassword, RowsOf, Rows
  <1>3. SameTokens
    BY <1>2, SessionTypes, UnchangedSame, RevokedSame
  <1>4. \/ call' = call
        \/ Show(i, "idle")
        \/ \E pc \in {"over", "leaving", "bumping"} : Go(i, pc)
    BY DEF PunishReuse, LogOut, RevokeSession, LogOutAll, BumpVersion, ChangePassword
  <1>5. {"over", "leaving", "bumping", "idle"} \subseteq Steps \ Awaiting
    BY DEF Steps, Pages, Awaiting
  <1>6. call' = call \/ Rests(i)
    BY <1>4, <1>5, SessionTypes, GoRests, ShowRests
  <1>7. QED
    BY <1>1, <1>3, <1>6, SessionTypes, SessionRests

LEMMA SessionRefresh ==
    ASSUME SessionInv, NEW i \in Tab, Claim(i) \/ CheckUser(i)
    PROVE  SessionInv'
  <1>1. CASE Go(i, "over") /\ UNCHANGED <<logins, token, version, rotations,
                                          stored, memory>>
    <2>1. "over" \in Steps \ Awaiting
      BY DEF Steps, Awaiting
    <2>2. Rests(i) /\ SameTokens
      BY <1>1, <2>1, SessionTypes, GoRests, UnchangedSame
    <2>3. QED
      BY <1>1, <2>2, SessionTypes, SessionRests
  <1>2. CASE Claim(i) /\ ~Go(i, "over")
    BY <1>2, SessionClaims DEF Claim
  <1>3. CASE CheckUser(i) /\ ~Go(i, "over")
    BY <1>3, SessionChecks DEF CheckUser
  <1>4. Claim(i) /\ Go(i, "over") => \/ SessionInv'
                                     \/ UNCHANGED <<logins, token, version, rotations,
                                                    stored, memory>>
    BY SessionClaims DEF Claim
  <1>5. CheckUser(i) => UNCHANGED <<logins, token, version, rotations, stored, memory>>
    BY DEF CheckUser
  <1>6. QED
    BY <1>1, <1>2, <1>3, <1>4, <1>5

\* Time passes over a token.
LEMMA SessionTime ==
    ASSUME SessionInv, NEW t \in Token,
           AccessExpires(t) \/ RefreshExpires(t) \/ Sweep(t)
    PROVE  SessionInv'
  <1>1. token[t] \in Pair
    BY SessionTypes
  <1>2. /\ UNCHANGED <<logins, version, rotations, stored, memory, call>>
        /\ \/ token' = [token EXCEPT ![t] = [token[t] EXCEPT !.stale = TRUE]]
           \/ token' = [token EXCEPT ![t] = [token[t] EXCEPT !.expired = TRUE]]
           \/ token' = [token EXCEPT ![t] = [token[t] EXCEPT !.swept = TRUE]]
    BY DEF AccessExpires, RefreshExpires, Sweep
  <1>3. PICK pair \in Pair : /\ pair.family = token[t].family
                             /\ pair.rotated = token[t].rotated
                             /\ token' = [token EXCEPT ![t] = pair]
    BY <1>1, <1>2 DEF Pair
  <1>4. SameTokens
    BY <1>3, SessionTypes, MarkedSame
  <1>5. QED
    BY <1>2, <1>4, SessionTypes, SessionRests

LEMMA SessionNext ==
    ASSUME SessionInv, Next PROVE SessionInv'
  BY SessionLogin, SessionMints, SessionCalls, SessionEnds, SessionRefresh,
     SessionTime, Zenon
  DEF Next, Refresh

LEMMA SessionsAlone ==
    [MarketplaceNext]_marketVars => Next \/ UNCHANGED sessionVars
  BY Zenon DEF MarketplaceNext, marketVars, peopleVars

\* From one login there is never more than one token to refresh with, however
\* many tabs refresh at once, at any interleaving of the conditional update
\* with the reads around it, revocations and expiries (claimForRotation).
THEOREM OneSuccessor == MarketplaceSpec => []OneTokenPerFamily
  <1>1. MarketplaceInit => SessionInv
    BY SessionStarts DEF MarketplaceInit
  <1>2. ASSUME SessionInv, [MarketplaceNext]_marketVars
        PROVE  SessionInv'
    <2>1. CASE UNCHANGED sessionVars
      <3>1. SameTokens
        BY <1>2, <2>1, SessionTypes, UnchangedSame DEF sessionVars
      <3>2. QED
        BY <1>2, <2>1, <3>1, SessionTypes, SessionRests DEF sessionVars
    <2>2. QED
      BY <1>2, <2>1, SessionNext, SessionsAlone
  <1>3. SessionInv => OneTokenPerFamily
    <2>1. MaxLogins \in Nat
      BY SessionAssumption DEF SessionAssumption
    <2>2. Family \subseteq Nat
      BY <2>1 DEF Family
    <2>3. QED
      BY <2>2 DEF SessionInv, OneTokenPerFamily
  <1>4. QED
    BY <1>1, <1>2, <1>3, PTL DEF MarketplaceSpec, marketVars

-----------------------------------------------------------------------------
(* Fraud scores. *)

LEMMA FraudParameters ==
    /\ DayLength \in Nat
    /\ NULL \notin Nat /\ NULL \notin Fraud!Committed /\ NULL \notin Fraud!Reviews
    /\ HIGH_RISK_THRESHOLD \in Nat
  <1>1. Fraud!FraudAssumption
    BY MarketplaceAssumption DEF MarketplaceAssumption
  <1>2. QED
    BY <1>1 DEF Fraud!FraudAssumption

LEMMA FraudSum ==
    ASSUME NEW f, NEW S
    PROVE  Fraud!SumFunctionOnSet(f, S) = SumFunctionOnSet(f, S)
  BY DEF Fraud!SumFunctionOnSet, Fraud!FoldFunctionOnSet, Fraud!MapThenFoldSet,
         SumFunctionOnSet, FoldFunctionOnSet, MapThenFoldSet

\* A score is capped, and no less than that of any rule that spoke.
LEMMA ScoreOfRules ==
    ASSUME NEW found \in SUBSET Fraud!Signals
    PROVE  /\ Fraud!riskScore(found) \in Nat
           /\ \A s \in found : s.score <= Fraud!riskScore(found)
  <1> DEFINE f == [s \in found |-> s.score]
             total == SumFunctionOnSet(f, found)
  <1>1. \A s \in Fraud!Signals : s.score \in Nat /\ s.score <= 100
    BY DEF Fraud!Signals, Fraud!Signal
  <1>2. \A s \in found : f[s] \in Nat /\ f[s] = s.score /\ s.score <= 100
    BY <1>1
  <1>3. IsFiniteSet(found)
    <2>1. IsFiniteSet(Fraud!Signals)
      <3>1. /\ IsFiniteSet({})
            /\ \A S, x : IsFiniteSet(S) => IsFiniteSet(S \cup {x})
        BY FS_EmptySet, FS_AddElement
      <3> DEFINE a == Fraud!Signal("low_latency", 40)
                 b == Fraud!Signal("low_latency", 20)
                 c == Fraud!Signal("cookie_ip_concentration", 30)
                 d == Fraud!Signal("duplicate_cookie", 30)
      <3> HIDE DEF a, b, c, d
      <3>2. IsFiniteSet(((({} \cup {a}) \cup {b}) \cup {c}) \cup {d})
        BY <3>1, Zenon
      <3>3. Fraud!Signals = ((({} \cup {a}) \cup {b}) \cup {c}) \cup {d}
        BY DEF Fraud!Signals, a, b, c, d
      <3>4. QED
        BY <3>2, <3>3
    <2>2. QED
      BY <2>1, FS_Subset
  <1>4. Fraud!riskScore(found) = IF total > 100 THEN 100 ELSE total
    BY FraudSum DEF Fraud!riskScore
  <1> HIDE DEF f
  <1>5. total \in Nat
    BY <1>2, <1>3, SumType, Zenon
  <1>6. ASSUME NEW s \in found PROVE s.score <= total
    <2>1. total = f[s] + SumFunctionOnSet(f, found \ {s})
      <3>1. \A x \in found : f[x] \in Nat
        BY <1>2, Zenon
      <3>2. QED
        BY ONLY <1>3, <3>1, s \in found, SumAdd
    <2>2. SumFunctionOnSet(f, found \ {s}) \in Nat
      <3>1. IsFiniteSet(found \ {s})
        BY <1>3, FS_Subset
      <3>2. QED
        BY <1>2, <3>1, SumType
    <2> HIDE DEF total
    <2>3. QED
      BY <1>2, <2>1, <2>2
  <1> HIDE DEF total
  <1>7. QED
    BY <1>2, <1>4, <1>5, <1>6

LEMMA FraudInit == Fraud!Init => Fraud!FraudInv
  BY FraudParameters
  DEF Fraud!Init, Fraud!FraudInv, Fraud!ScoringInv, Fraud!CountedInv, Fraud!ReviewInv

\* A sale that is committed has not been counted, and is not scored.
LEMMA FraudReport ==
    ASSUME Fraud!FraudInv, NEW sale_ \in Sale, Fraud!Report(sale_)
    PROVE  Fraud!FraudInv'
  <1>1. PICK made \in SUBSET Fraud!Conversion, cookie \in Browser :
            /\ \A c \in made : row[c] = NULL
            /\ row' = [c \in Fraud!Conversion |->
                          IF c \in made THEN [cookie |-> cookie, at |-> now]
                          ELSE row[c]]
            /\ scoring' = [c \in Fraud!Conversion |->
                              IF c \in made THEN "latency" ELSE scoring[c]]
            /\ UNCHANGED <<now, counted, signals, review>>
    <2>1. PICK cookie \in Browser, shares \in SUBSET Sharer \ {{}} :
              LET made == {<<sale_, a>> : a \in shares} IN
              /\ row' = [c \in Fraud!Conversion |->
                            IF c \in made THEN [cookie |-> cookie, at |-> now]
                            ELSE row[c]]
              /\ scoring' = [c \in Fraud!Conversion |->
                                IF c \in made THEN "latency" ELSE scoring[c]]
      BY Zenon DEF Fraud!Report
    <2> DEFINE made == {<<sale_, a>> : a \in shares}
    <2>2. /\ \A a \in Sharer : row[<<sale_, a>>] = NULL
          /\ UNCHANGED <<now, counted, signals, review>>
      BY Zenon DEF Fraud!Report
    <2>3. made \in SUBSET Fraud!Conversion /\ \A c \in made : row[c] = NULL
      BY <2>2 DEF Fraud!Conversion
    <2> HIDE DEF made
    <2>4. QED
      BY <2>1, <2>2, <2>3, Zenon DEF made
  <1>2. /\ Fraud!ScoringInv /\ Fraud!CountedInv /\ Fraud!ReviewInv
    BY DEF Fraud!FraudInv
  <1>3. [cookie |-> cookie, at |-> now] \in Fraud!Committed
    BY <1>2 DEF Fraud!ScoringInv, Fraud!Committed
  <1>4. \A c \in Fraud!Conversion :
            /\ c \notin made => row'[c] = row[c] /\ scoring'[c] = scoring[c]
            /\ c \in made => /\ row'[c] \in Fraud!Committed
                             /\ scoring[c] = "none" /\ scoring'[c] = "latency"
    BY <1>1, <1>2, <1>3 DEF Fraud!ScoringInv
  <1>5. \A c \in Fraud!Conversion : counted[c] # NULL => c \notin made
    BY <1>2, <1>4 DEF Fraud!ScoringInv
  <1>6. Fraud!ScoringInv'
    <2>1. /\ row' \in [Fraud!Conversion -> Fraud!Committed \cup {NULL}]
          /\ scoring' \in [Fraud!Conversion -> {"none", "latency", "clicks",
                               "duplicates", "write", "done", "died"}]
      BY <1>1, <1>2, <1>3 DEF Fraud!ScoringInv
    <2>2. QED
      BY <1>1, <1>2, <1>4, <1>5, <2>1, FraudParameters DEF Fraud!ScoringInv
  <1>7. Fraud!CountedInv'
    BY <1>1, <1>2, <1>4, <1>5 DEF Fraud!CountedInv
  <1>8. Fraud!ReviewInv'
    BY <1>1, <1>2, <1>4 DEF Fraud!ReviewInv
  <1>9. QED
    BY <1>6, <1>7, <1>8 DEF Fraud!FraudInv

\* A rule of the first two speaks, or the scoring dies.
LEMMA FraudSpeaks ==
    ASSUME Fraud!FraudInv, NEW c \in Fraud!Conversion,
           Fraud!ScoreLatency(c) \/ Fraud!ScoreClicks(c) \/ Fraud!Dies(c)
    PROVE  Fraud!FraudInv'
  <1>1. PICK found \in SUBSET Fraud!Signals, next \in {"clicks", "duplicates", "died"} :
            /\ scoring[c] \notin {"none", "done", "died"}
            /\ next # "died" => scoring[c] \in {"latency", "clicks"}
            /\ signals' = [signals EXCEPT ![c] = @ \cup found]
            /\ scoring' = [scoring EXCEPT ![c] = next]
            /\ UNCHANGED <<now, row, counted, review>>
    <2>1. CASE Fraud!ScoreLatency(c)
      <3>1. PICK latency \in Latency :
                Fraud!Speak(c, Fraud!lowLatency(latency), "clicks")
        BY <2>1 DEF Fraud!ScoreLatency
      <3>2. Fraud!lowLatency(latency) \in SUBSET Fraud!Signals
        BY DEF Fraud!lowLatency, Fraud!Signals
      <3>3. QED
        BY <2>1, <3>1, <3>2 DEF Fraud!ScoreLatency, Fraud!Speak
    <2>2. CASE Fraud!ScoreClicks(c)
      <3>1. PICK clicks \in {5, 6}, ips \in {1, 2} :
                Fraud!Speak(c, Fraud!concentration(clicks, ips), "duplicates")
        BY <2>2 DEF Fraud!ScoreClicks
      <3>2. Fraud!concentration(clicks, ips) \in SUBSET Fraud!Signals
        BY DEF Fraud!concentration, Fraud!Signals
      <3>3. QED
        BY <2>2, <3>1, <3>2 DEF Fraud!ScoreClicks, Fraud!Speak
    <2>3. CASE Fraud!Dies(c)
      <3>1. signals' = [signals EXCEPT ![c] = @ \cup {}]
        BY <2>3 DEF Fraud!Dies, Fraud!FraudInv, Fraud!ScoringInv
      <3>2. QED
        BY <2>3, <3>1, Zenon DEF Fraud!Dies
    <2>4. QED
      BY <2>1, <2>2, <2>3
  <1>2. Fraud!ScoringInv /\ Fraud!CountedInv /\ Fraud!ReviewInv
    BY DEF Fraud!FraudInv
  <1>3. /\ signals' \in [Fraud!Conversion -> SUBSET Fraud!Signals]
        /\ scoring' \in [Fraud!Conversion -> {"none", "latency", "clicks",
                               "duplicates", "write", "done", "died"}]
        /\ \A d \in Fraud!Conversion \ {c} : signals'[d] = signals[d]
                                             /\ scoring'[d] = scoring[d]
        /\ scoring'[c] = next /\ signals[c] \subseteq signals'[c]
    BY <1>1, <1>2 DEF Fraud!ScoringInv
  <1>4. Fraud!ScoringInv'
    BY <1>1, <1>2, <1>3 DEF Fraud!ScoringInv
  <1>5. Fraud!CountedInv'
    <2>1. \A d \in Fraud!Conversion : signals[d] \subseteq signals'[d]
      BY <1>3
    <2>2. QED
      BY <1>1, <1>2, <2>1 DEF Fraud!CountedInv
  <1>6. Fraud!ReviewInv'
    BY <1>1, <1>2, <1>3 DEF Fraud!ReviewInv
  <1>7. QED
    BY <1>4, <1>5, <1>6 DEF Fraud!FraudInv

\* Of two conversions the later one to count finds the other committed.
LEMMA FraudCounts ==
    ASSUME Fraud!FraudInv, NEW c \in Fraud!Conversion, Fraud!ScoreDuplicates(c)
    PROVE  Fraud!FraudInv'
  <1>1. /\ scoring[c] = "duplicates"
        /\ signals' = [signals EXCEPT ![c] = @ \cup Fraud!duplicates(c)]
        /\ scoring' = [scoring EXCEPT ![c] = "write"]
        /\ counted' = [counted EXCEPT ![c] = now]
        /\ UNCHANGED <<now, row, review>>
    BY DEF Fraud!ScoreDuplicates, Fraud!Speak
  <1>2. Fraud!ScoringInv /\ Fraud!CountedInv /\ Fraud!ReviewInv
    BY DEF Fraud!FraudInv
  <1>3. Fraud!duplicates(c) \in SUBSET Fraud!Signals
    BY DEF Fraud!duplicates, Fraud!Signals
  <1>4. /\ signals' \in [Fraud!Conversion -> SUBSET Fraud!Signals]
        /\ \A d \in Fraud!Conversion : signals[d] \subseteq signals'[d]
        /\ Fraud!duplicates(c) \subseteq signals'[c]
        /\ \A d \in Fraud!Conversion \ {c} : /\ signals'[d] = signals[d]
                                             /\ scoring'[d] = scoring[d]
                                             /\ counted'[d] = counted[d]
        /\ scoring'[c] = "write" /\ counted'[c] = now /\ counted[c] = NULL
    BY <1>1, <1>2, <1>3 DEF Fraud!ScoringInv
  <1>5. Fraud!ScoringInv'
    <2>1. /\ scoring' \in [Fraud!Conversion -> {"none", "latency", "clicks",
                               "duplicates", "write", "done", "died"}]
          /\ counted' \in [Fraud!Conversion -> Nat \cup {NULL}]
          /\ now \in Nat
      BY <1>1, <1>2 DEF Fraud!ScoringInv
    <2>2. QED
      BY <1>1, <1>2, <1>4, <2>1, FraudParameters DEF Fraud!ScoringInv
  <1>6. ASSUME NEW d \in Fraud!Conversion \ {c}, counted[d] # NULL,
               row[c].cookie = row[d].cookie, row[d].at + DayLength >= now
        PROVE  Fraud!Signal("duplicate_cookie", 30) \in signals'[c]
    <2>1. row[d] # NULL
      BY <1>2, <1>6 DEF Fraud!ScoringInv
    <2>2. d \in Fraud!Others(c)
      BY <1>6, <2>1 DEF Fraud!Others
    <2>3. QED
      BY <1>4, <2>2 DEF Fraud!duplicates
  <1>7. Fraud!CountedInv'
    <2> SUFFICES ASSUME NEW d \in Fraud!Conversion, NEW e \in Fraud!Conversion,
                        d # e, counted'[d] # NULL, counted'[e] # NULL,
                        row[d].cookie = row[e].cookie,
                        \A x, y \in {d, e} : row[x].at + DayLength >= counted'[y]
                 PROVE  \E x \in {d, e} :
                            Fraud!Signal("duplicate_cookie", 30) \in signals'[x]
      BY <1>1 DEF Fraud!CountedInv
    <2>1. CASE d = c
      BY <1>4, <1>6, <2>1
    <2>2. CASE e = c
      BY <1>4, <1>6, <2>2
    <2>3. CASE d # c /\ e # c
      <3>1. \E x \in {d, e} : Fraud!Signal("duplicate_cookie", 30) \in signals[x]
        BY <1>2, <1>4, <2>3 DEF Fraud!CountedInv
      <3>2. QED
        BY <1>4, <3>1
    <2>4. QED
      BY <2>1, <2>2, <2>3
  <1>8. Fraud!ReviewInv'
    BY <1>1, <1>2, <1>4 DEF Fraud!ReviewInv
  <1>9. QED
    BY <1>5, <1>7, <1>8 DEF Fraud!FraudInv

LEMMA FraudEvaluates ==
    ASSUME Fraud!FraudInv, NEW c \in Fraud!Conversion, Fraud!Evaluate(c)
    PROVE  Fraud!FraudInv'
  <1>1. /\ scoring[c] = "write"
        /\ scoring' = [scoring EXCEPT ![c] = "done"]
        /\ UNCHANGED <<now, row, counted, signals>>
    BY DEF Fraud!Evaluate
  <1>2. Fraud!ScoringInv /\ Fraud!CountedInv /\ Fraud!ReviewInv
    BY DEF Fraud!FraudInv
  <1>3. signals[c] \in SUBSET Fraud!Signals
    BY <1>2 DEF Fraud!ScoringInv
  <1>4. PICK decision \in {"PENDING", "FLAGGED"} :
            review' = IF signals[c] = {} THEN review
                      ELSE [review EXCEPT ![c] =
                               [riskScore |-> Fraud!riskScore(signals[c]),
                                decision |-> decision]]
    BY Zenon DEF Fraud!Evaluate
  <1> DEFINE written == [riskScore |-> Fraud!riskScore(signals[c]),
                         decision |-> decision]
  <1>5. /\ written \in Fraud!Reviews
        /\ written.riskScore = Fraud!riskScore(signals[c])
    BY <1>3, ScoreOfRules DEF Fraud!Reviews
  <1> HIDE DEF written
  <1>6. /\ review' \in [Fraud!Conversion -> Fraud!Reviews \cup {NULL}]
        /\ \A d \in Fraud!Conversion \ {c} : review'[d] = review[d]
        /\ signals[c] # {} => review'[c] = written
    <2>1. review' = IF signals[c] = {} THEN review
                    ELSE [review EXCEPT ![c] = written]
      BY <1>4 DEF written
    <2>2. QED
      BY <1>2, <1>5, <2>1 DEF Fraud!ScoringInv
  <1>7. Fraud!ScoringInv'
    BY <1>1, <1>2, <1>6 DEF Fraud!ScoringInv
  <1>8. Fraud!CountedInv'
    BY <1>1, <1>2 DEF Fraud!CountedInv
  <1>9. Fraud!ReviewInv'
    <2>1. \A d \in Fraud!Conversion \ {c} : scoring'[d] = scoring[d]
      BY <1>1, <1>2 DEF Fraud!ScoringInv
    <2>2. signals[c] # {} =>
              review'[c] # NULL /\ review'[c].riskScore = Fraud!riskScore(signals[c])
      BY <1>5, <1>6, FraudParameters
    <2>3. signals' = signals /\ Fraud!ReviewInv
      BY <1>1, <1>2
    <2>4. QED
      BY <1>6, <2>1, <2>2, <2>3 DEF Fraud!ReviewInv
  <1>10. QED
    BY <1>7, <1>8, <1>9 DEF Fraud!FraudInv

LEMMA FraudTick ==
    ASSUME Fraud!FraudInv, Fraud!Tick PROVE Fraud!FraudInv'
  BY DEF Fraud!Tick, Fraud!FraudInv, Fraud!ScoringInv, Fraud!CountedInv,
         Fraud!ReviewInv

LEMMA FraudNext ==
    ASSUME Fraud!FraudInv, Fraud!Next PROVE Fraud!FraudInv'
  BY FraudReport, FraudSpeaks, FraudCounts, FraudEvaluates, FraudTick, Zenon
  DEF Fraud!Next

LEMMA FraudAlone ==
    [MarketplaceNext]_marketVars => Fraud!Next \/ UNCHANGED fraudVars
  BY Zenon DEF MarketplaceNext, marketVars, servedVars

LEMMA FraudStep ==
    ASSUME Fraud!FraudInv, [MarketplaceNext]_marketVars
    PROVE  Fraud!FraudInv'
  <1>1. CASE Fraud!Next
    BY <1>1, FraudNext
  <1>2. CASE UNCHANGED fraudVars
    BY <1>2
    DEF fraudVars, Fraud!FraudInv, Fraud!ScoringInv, Fraud!CountedInv, Fraud!ReviewInv
  <1>3. QED
    BY <1>1, <1>2, FraudAlone

\* However the scoring of two conversions of one cookie is interleaved, one of
\* them has a review that counts the other, for any number of sales, sharers
\* and cookies, any window and any clock (fraud.service.ts rule 3).
THEOREM ASecondSaleIsSeen == MarketplaceSpec => []DuplicateIsSeen
  <1>1. MarketplaceInit => Fraud!FraudInv
    BY FraudInit DEF MarketplaceInit
  <1>2. Fraud!FraudInv /\ [MarketplaceNext]_marketVars => Fraud!FraudInv'
    BY FraudStep
  <1>3. Fraud!FraudInv => DuplicateIsSeen
    <2> SUFFICES ASSUME Fraud!FraudInv, NEW c \in Fraud!Conversion,
                        NEW d \in Fraud!Conversion, c # d,
                        scoring[c] = "done", scoring[d] = "done",
                        row[c].cookie = row[d].cookie,
                        \A e, f \in {c, d} : row[e].at + DayLength >= counted[f]
                 PROVE  \E e \in {c, d} :
                            /\ review[e] # NULL
                            /\ review[e].riskScore >= 30
                            /\ Fraud!Signal("duplicate_cookie", 30) \in signals[e]
      BY DEF DuplicateIsSeen, Fraud!DuplicateIsSeen
    <2>1. Fraud!ScoringInv /\ Fraud!CountedInv /\ Fraud!ReviewInv
      BY DEF Fraud!FraudInv
    <2>2. PICK e \in {c, d} : Fraud!Signal("duplicate_cookie", 30) \in signals[e]
      BY <2>1 DEF Fraud!ScoringInv, Fraud!CountedInv
    <2>3. signals[e] \in SUBSET Fraud!Signals /\ scoring[e] = "done"
      BY <2>1 DEF Fraud!ScoringInv
    <2>4. review[e] # NULL /\ review[e].riskScore = Fraud!riskScore(signals[e])
      BY <2>1, <2>2, <2>3 DEF Fraud!ReviewInv
    <2>5. Fraud!Signal("duplicate_cookie", 30).score = 30
      BY DEF Fraud!Signal
    <2>6. 30 <= Fraud!riskScore(signals[e]) /\ Fraud!riskScore(signals[e]) \in Nat
      BY <2>2, <2>3, <2>5, ScoreOfRules
    <2>7. QED
      BY <2>2, <2>4, <2>6
  <1>4. QED
    BY <1>1, <1>2, <1>3, PTL DEF MarketplaceSpec, marketVars

-----------------------------------------------------------------------------
(* Pages: readers of a list that grows (Paging.tla). *)

\* A row's place in a list is told by how many come before it: those who come
\* later have more before them, and every place is taken.
LEMMA EveryPlaceIsTaken ==
    ASSUME NEW S, IsFiniteSet(S), NEW L,
           \A i, j, k \in S : <<i, j>> \in L /\ <<j, k>> \in L => <<i, k>> \in L,
           \A i \in S : <<i, i>> \notin L,
           \A i, j \in S : i = j \/ <<i, j>> \in L \/ <<j, i>> \in L
    PROVE  /\ \A i \in S : Cardinality({j \in S : <<j, i>> \in L}) \in 0..(Cardinality(S) - 1)
           /\ \A i, j \in S :
                <<i, j>> \in L <=> Cardinality({k \in S : <<k, i>> \in L})
                                     < Cardinality({k \in S : <<k, j>> \in L})
           /\ \A n \in 1..Cardinality(S) :
                \E i \in S : Cardinality({j \in S : <<j, i>> \in L}) = n - 1
  <1> DEFINE Before(i) == {j \in S : <<j, i>> \in L}
             place == [i \in S |-> Cardinality(Before(i)) + 1]
             N == Cardinality(S)
  <1>1. N \in Nat
    BY FS_CardinalityType
  <1>2. ASSUME NEW i \in S
        PROVE  /\ IsFiniteSet(Before(i)) /\ Cardinality(Before(i)) \in Nat
               /\ Cardinality(Before(i)) < N
    <2>1. Before(i) \in SUBSET S /\ Before(i) # S
      OBVIOUS
    <2> HIDE DEF Before
    <2>2. /\ IsFiniteSet(Before(i)) /\ Cardinality(Before(i)) <= N
          /\ N # Cardinality(Before(i))
      BY <2>1, FS_Subset
    <2>3. Cardinality(Before(i)) \in Nat
      BY <2>2, FS_CardinalityType
    <2> QED BY <1>1, <2>2, <2>3
  <1>3. ASSUME NEW i \in S, NEW j \in S, <<i, j>> \in L
        PROVE  Cardinality(Before(i)) < Cardinality(Before(j))
    <2>1. Before(i) \in SUBSET Before(j) /\ Before(i) # Before(j)
      BY <1>3
    <2> HIDE DEF Before
    <2>2. /\ Cardinality(Before(i)) <= Cardinality(Before(j))
          /\ Cardinality(Before(j)) # Cardinality(Before(i))
      BY <1>2, <2>1, FS_Subset
    <2> QED BY <1>2, <2>2
  <1>4. \A i, j \in S : <<i, j>> \in L <=> Cardinality(Before(i)) < Cardinality(Before(j))
    <2> SUFFICES ASSUME NEW i \in S, NEW j \in S,
                        Cardinality(Before(i)) < Cardinality(Before(j))
                 PROVE  <<i, j>> \in L
      BY <1>3, Zenon
    <2>1. i = j \/ <<i, j>> \in L \/ <<j, i>> \in L
      OBVIOUS
    <2>2. CASE <<j, i>> \in L
      <3>1. Cardinality(Before(j)) < Cardinality(Before(i))
        BY <1>3, <2>2, Zenon
      <3> HIDE DEF Before
      <3> QED BY <1>2, <3>1
    <2>3. CASE i = j
      <3> HIDE DEF Before
      <3> QED BY <1>2, <2>3
    <2> QED BY <2>1, <2>2, <2>3, Zenon
  <1>5. place \in Injection(S, 1..N)
    <2>1. place \in [S -> 1..N]
      <3> HIDE DEF Before, N
      <3> QED BY <1>1, <1>2
    <2>2. ASSUME NEW i \in S, NEW j \in S, place[i] = place[j] PROVE i = j
      <3>1. Cardinality(Before(i)) = Cardinality(Before(j))
        <4> HIDE DEF Before
        <4> QED BY <1>2, <2>2
      <3>2. ~ (<<i, j>> \in L) /\ ~ (<<j, i>> \in L)
        <4> HIDE DEF Before
        <4> QED BY <1>2, <1>4, <3>1
      <3> QED BY <3>2
    <2> HIDE DEF place
    <2> QED BY <2>1, <2>2 DEF Injection, IsInjective
  <1>6. place \in Surjection(S, 1..N)
    <2>1. IsFiniteSet(1..N) /\ Cardinality(1..N) = N
      <3> HIDE DEF N
      <3> QED BY <1>1, FS_Interval
    <2> HIDE DEF place
    <2> QED BY <1>5, <2>1, FS_Injection
  <1>7. \A n \in 1..N : \E i \in S : Cardinality(Before(i)) = n - 1
    <2> SUFFICES ASSUME NEW n \in 1..N
                 PROVE  \E i \in S : Cardinality(Before(i)) = n - 1
      OBVIOUS
    <2>1. PICK i \in S : place[i] = n
      <3> HIDE DEF place
      <3> QED BY <1>6 DEF Surjection
    <2>2. Cardinality(Before(i)) = n - 1
      <3> HIDE DEF Before, N
      <3> QED BY <1>1, <1>2, <2>1
    <2> QED BY <2>2, Zenon
  <1>8. \A i \in S : Cardinality(Before(i)) \in 0..(N - 1)
    <2> HIDE DEF Before, N
    <2> QED BY <1>1, <1>2
  <1> QED BY <1>4, <1>7, <1>8, Zenon

LEMMA PageParameters ==
    /\ Id \subseteq Nat /\ IsFiniteSet(Id) /\ Moment \subseteq Nat
    /\ PageSize \in Nat \ {0} /\ MaxReviews \in Nat
    /\ NULL \notin Pages_!Statuses /\ NULL \notin Pages_!Cursor
    /\ NULL \notin Pages_!Row /\ NULL \notin Pages_!Seeker /\ NULL \notin Pages_!Exporter
  <1>1. Pages_!PagingAssumption
    BY MarketplaceAssumption DEF MarketplaceAssumption
  <1> QED
    BY <1>1, Zenon DEF Pages_!PagingAssumption, Pages_!IsFiniteSet, IsFiniteSet

\* An instance has operators of its own, also of the standard modules.
LEMMA PageLibrary ==
    /\ \A S : Pages_!Cardinality(S) = Cardinality(S)
    /\ \A S : Pages_!IsInjective(S) = IsInjective(S)
    /\ \A S : Pages_!Range(S) = Range(S)
    /\ \A S : Pages_!Last(S) = S[Len(S)]
  BY Zenon DEF Pages_!Cardinality, Cardinality, Pages_!IsInjective, IsInjective,
     Pages_!Range, Range, Pages_!Last

\* What a page knows of the table.
LEMMA PageKnown ==
    ASSUME Pages_!TypeOK
    PROVE  /\ \A i \in Id : table[i] # NULL => /\ table[i].occurredAt \in Moment
                                               /\ table[i].occurredAt \in Nat
                                               /\ table[i].status \in Pages_!Statuses
           /\ \A filter : /\ Pages_!Matching(filter) \subseteq Id
                          /\ \A i \in Pages_!Matching(filter) : table[i] # NULL
           /\ Pages_!Matching(NULL) = {i \in Id : table[i] # NULL}
           /\ \A S : S \subseteq Id => IsFiniteSet(S) /\ Cardinality(S) \in Nat
  <1>1. \A i \in Id : table[i] # NULL => /\ table[i].occurredAt \in Moment
                                         /\ table[i].occurredAt \in Nat
                                         /\ table[i].status \in Pages_!Statuses
    BY PageParameters DEF Pages_!TypeOK, Pages_!Row
  <1>2. \A filter : /\ Pages_!Matching(filter) \subseteq Id
                    /\ \A i \in Pages_!Matching(filter) : table[i] # NULL
    BY DEF Pages_!Matching
  <1>3. Pages_!Matching(NULL) = {i \in Id : table[i] # NULL}
    BY DEF Pages_!Matching
  <1>4. \A S : S \subseteq Id => IsFiniteSet(S) /\ Cardinality(S) \in Nat
    BY PageParameters, FS_Subset, FS_CardinalityType
  <1> QED BY <1>1, <1>2, <1>3, <1>4

\* The order of the list, and where a cursor is in it.
CursorOf(i) == [occurredAt |-> table[i].occurredAt, id |-> i]

LEMMA ListIsOrdered ==
    ASSUME Pages_!TypeOK
    PROVE  /\ \A i, j, k \in Pages_!Matching(NULL) :
                Pages_!Precedes(i, j) /\ Pages_!Precedes(j, k) => Pages_!Precedes(i, k)
           /\ \A i \in Pages_!Matching(NULL) : ~Pages_!Precedes(i, i)
           /\ \A i, j \in Pages_!Matching(NULL) :
                i = j \/ Pages_!Precedes(i, j) \/ Pages_!Precedes(j, i)
           /\ \A i, j \in Pages_!Matching(NULL) :
                /\ CursorOf(j) \in Pages_!Cursor /\ CursorOf(j) # NULL
                /\ Pages_!Beyond(i, CursorOf(j)) <=> Pages_!Precedes(j, i)
           /\ \A i, j \in Pages_!Matching(NULL), a \in Pages_!Cursor :
                Pages_!Beyond(j, a) /\ Pages_!Precedes(j, i) => Pages_!Beyond(i, a)
  <1> DEFINE M == Pages_!Matching(NULL)
             at == [i \in M |-> table[i].occurredAt]
  <1>1. /\ \A i \in M : i \in Nat /\ i \in Id /\ at[i] \in Nat /\ at[i] \in Moment
                        /\ at[i] = table[i].occurredAt
    BY PageKnown, PageParameters
  <1>2. \A i, j \in M : Pages_!Precedes(i, j) <=> at[i] > at[j] \/ (at[i] = at[j] /\ i > j)
    <2> HIDE DEF M
    <2> QED BY DEF Pages_!Precedes
  <1>3. \A a \in Pages_!Cursor : a # NULL /\ a.occurredAt \in Nat /\ a.id \in Nat
    <2>1. \A a \in Pages_!Cursor : a.occurredAt \in Moment /\ a.id \in Id
      BY DEF Pages_!Cursor
    <2> QED BY <2>1, PageParameters
  <1>4. \A i \in M, a \in Pages_!Cursor :
          Pages_!Beyond(i, a) <=> at[i] < a.occurredAt \/ (at[i] = a.occurredAt /\ i < a.id)
    <2> HIDE DEF M
    <2> QED BY <1>3 DEF Pages_!Beyond
  <1>5. \A j \in M : /\ CursorOf(j) \in Pages_!Cursor
                     /\ CursorOf(j).occurredAt = at[j] /\ CursorOf(j).id = j
    BY <1>1 DEF CursorOf, Pages_!Cursor
  <1> HIDE DEF M, at
  <1>6. \A i, j \in M : Pages_!Beyond(i, CursorOf(j)) <=> Pages_!Precedes(j, i)
    <2> SUFFICES ASSUME NEW i \in M, NEW j \in M
                 PROVE  Pages_!Beyond(i, CursorOf(j)) <=> Pages_!Precedes(j, i)
      OBVIOUS
    <2>1. Pages_!Beyond(i, CursorOf(j)) <=> at[i] < at[j] \/ (at[i] = at[j] /\ i < j)
      BY <1>4, <1>5
    <2> QED BY <1>1, <1>2, <2>1
  <1>7. \A i, j \in M, a \in Pages_!Cursor :
          Pages_!Beyond(j, a) /\ Pages_!Precedes(j, i) => Pages_!Beyond(i, a)
    BY <1>1, <1>2, <1>3, <1>4
  <1>8. \A i, j, k \in M :
          Pages_!Precedes(i, j) /\ Pages_!Precedes(j, k) => Pages_!Precedes(i, k)
    BY <1>1, <1>2
  <1>9. /\ \A i \in M : ~Pages_!Precedes(i, i)
        /\ \A i, j \in M : i = j \/ Pages_!Precedes(i, j) \/ Pages_!Precedes(j, i)
    BY <1>1, <1>2
  <1> QED BY <1>3, <1>5, <1>6, <1>7, <1>8, <1>9 DEF M

\* The rows that a page is cut from.
Found(filter, after) == {i \in Pages_!Matching(filter) : Pages_!Beyond(i, after)}

\* A sequence holds rows of S in the order of the list, and none of S comes
\* before one that is not in it.
IsHeadOf(taken, S) ==
    /\ taken \in Seq(S)
    /\ \A m, n \in 1..Len(taken) : m < n => Pages_!Precedes(taken[m], taken[n])
    /\ \A n \in 1..Len(taken), i \in S :
          (\A m \in 1..Len(taken) : taken[m] # i) => Pages_!Precedes(taken[n], i)

LEMMA RowsAreTheHead ==
    ASSUME Pages_!TypeOK, NEW filter, NEW after
    PROVE  /\ IsHeadOf(Pages_!Rows(filter, after), Found(filter, after))
           /\ Len(Pages_!Rows(filter, after)) <= PageSize
                => \A i \in Found(filter, after) :
                      \E n \in 1..Len(Pages_!Rows(filter, after)) :
                         Pages_!Rows(filter, after)[n] = i
  <1> DEFINE S == Found(filter, after)
             L == {p \in Id \X Id : Pages_!Precedes(p[1], p[2])}
             place(i) == Cardinality({j \in S : <<j, i>> \in L})
             N == Cardinality(S)
             len == IF N > PageSize THEN PageSize + 1 ELSE N
             taken == Pages_!Rows(filter, after)
  <1>1. /\ S \subseteq Id /\ S \subseteq Pages_!Matching(NULL)
        /\ IsFiniteSet(S) /\ N \in Nat
    <2>1. S \subseteq Id /\ \A i \in S : table[i] # NULL
      BY PageKnown DEF Found
    <2> HIDE DEF S
    <2> QED BY <2>1, PageKnown
  <1>2. \A i, j \in S : <<i, j>> \in L <=> Pages_!Precedes(i, j)
    <2> HIDE DEF S
    <2> QED BY <1>1
  <1>3. /\ \A i, j, k \in S : <<i, j>> \in L /\ <<j, k>> \in L => <<i, k>> \in L
        /\ \A i \in S : <<i, i>> \notin L
        /\ \A i, j \in S : i = j \/ <<i, j>> \in L \/ <<j, i>> \in L
    <2>1. \A i \in S : i \in Pages_!Matching(NULL)
      <3> HIDE DEF S
      <3> QED BY <1>1
    <2> HIDE DEF S, L
    <2>2. \A i, j, k \in S :
            Pages_!Precedes(i, j) /\ Pages_!Precedes(j, k) => Pages_!Precedes(i, k)
      BY <2>1, ListIsOrdered, Zenon
    <2>3. /\ \A i \in S : ~Pages_!Precedes(i, i)
          /\ \A i, j \in S : i = j \/ Pages_!Precedes(i, j) \/ Pages_!Precedes(j, i)
      BY <2>1, ListIsOrdered, Zenon
    <2> QED BY <1>2, <2>2, <2>3, Zenon
  <1> HIDE DEF S, L
  <1>4. /\ \A i \in S : place(i) \in 0..(N - 1)
        /\ \A i, j \in S : <<i, j>> \in L <=> place(i) < place(j)
        /\ \A n \in 1..N : \E i \in S : place(i) = n - 1
    BY ONLY <1>1, <1>3, EveryPlaceIsTaken
  <1>5. \A n \in 1..N : LET i == Pages_!Ordered(S, n)
                        IN  i \in S /\ place(i) = n - 1
    <2>1. \A i \in S : {j \in S : Pages_!Precedes(j, i)} = {j \in S : <<j, i>> \in L}
      BY <1>2
    <2>2. \A i \in S : Pages_!Cardinality({j \in S : Pages_!Precedes(j, i)}) = place(i)
      BY <2>1, PageLibrary, Zenon
    <2> SUFFICES ASSUME NEW n \in 1..N
                 PROVE  LET i == Pages_!Ordered(S, n)
                        IN  i \in S /\ place(i) = n - 1
      OBVIOUS
    <2>3. \E i \in S : place(i) = n - 1
      BY <1>4, Zenon
    <2> HIDE DEF place
    <2> QED BY <2>2, <2>3, Zenon DEF Pages_!Ordered
  <1>6. /\ len \in Nat /\ len <= N
        /\ taken = [n \in 1..len |-> Pages_!Ordered(S, n)]
    <2>1. len \in Nat /\ len <= N
      <3> HIDE DEF N
      <3> QED BY <1>1, PageParameters
    <2>2. Pages_!Cardinality(S) = N
      BY PageLibrary, Zenon
    <2>3. taken = [n \in 1..len |-> Pages_!Ordered(S, n)]
      BY <2>2, Zenon DEF Pages_!Rows, S, Found
    <2> QED BY <2>1, <2>3, Zenon
  <1> HIDE DEF taken, place, len
  <1>7. /\ taken \in Seq(S) /\ Len(taken) = len
        /\ \A n \in 1..len : taken[n] \in S /\ place(taken[n]) = n - 1
    <2>1. \A n \in 1..len : n \in 1..N
      <3> HIDE DEF N
      <3> QED BY <1>1, <1>6
    <2>2. \A n \in 1..len : taken[n] = Pages_!Ordered(S, n)
      BY <1>6
    <2>3. \A n \in 1..len : taken[n] \in S /\ place(taken[n]) = n - 1
      BY <1>5, <2>1, <2>2, Zenon
    <2>4. taken = [n \in 1..len |-> taken[n]]
      BY <1>6
    <2>5. taken \in Seq(S) /\ Len(taken) = len
      BY <1>6, <2>3, <2>4
    <2> QED BY <2>3, <2>5, Zenon
  <1>8. \A m, n \in 1..Len(taken) : m < n => Pages_!Precedes(taken[m], taken[n])
    <2> SUFFICES ASSUME NEW m \in 1..Len(taken), NEW n \in 1..Len(taken), m < n
                 PROVE  Pages_!Precedes(taken[m], taken[n])
      OBVIOUS
    <2>1. /\ taken[m] \in S /\ place(taken[m]) = m - 1
          /\ taken[n] \in S /\ place(taken[n]) = n - 1
      BY <1>7
    <2>2. m - 1 < n - 1
      BY <1>6, <1>7
    <2>3. place(taken[m]) < place(taken[n])
      BY <2>1, <2>2, Zenon
    <2> QED BY <1>2, <1>4, <2>1, <2>3, Zenon
  <1>9. \A i \in S : (\A m \in 1..Len(taken) : taken[m] # i) => place(i) >= len
    <2> SUFFICES ASSUME NEW i \in S, ~(place(i) >= len)
                 PROVE  \E m \in 1..Len(taken) : taken[m] = i
      OBVIOUS
    <2> DEFINE m == place(i) + 1
    <2>1. place(i) \in Nat
      <3> HIDE DEF N
      <3> QED BY <1>1, <1>4
    <2>2. m \in 1..len /\ place(i) = m - 1
      BY <1>6, <2>1
    <2> HIDE DEF m
    <2>3. taken[m] \in S /\ place(taken[m]) = place(i)
      BY <1>7, <2>2
    <2>4. ~ (<<taken[m], i>> \in L) /\ ~ (<<i, taken[m]>> \in L)
      BY <1>4, <2>1, <2>3
    <2>5. taken[m] = i
      BY <1>3, <2>3, <2>4
    <2> QED BY <1>7, <2>2, <2>5
  <1>10. \A n \in 1..Len(taken), i \in S :
           (\A m \in 1..Len(taken) : taken[m] # i) => Pages_!Precedes(taken[n], i)
    <2>1. \A i \in S : place(i) \in Nat
      <3> HIDE DEF N
      <3> QED BY <1>1, <1>4
    <2> SUFFICES ASSUME NEW n \in 1..Len(taken), NEW i \in S,
                        \A m \in 1..Len(taken) : taken[m] # i
                 PROVE  Pages_!Precedes(taken[n], i)
      OBVIOUS
    <2>2. taken[n] \in S /\ place(taken[n]) = n - 1 /\ n \in 1..len /\ place(i) >= len
      BY <1>7, <1>9, Zenon
    <2>3. n - 1 < place(i)
      BY <1>6, <2>1, <2>2
    <2>4. place(taken[n]) < place(i)
      BY <2>2, <2>3, Zenon
    <2> QED BY <1>2, <1>4, <2>2, <2>4, Zenon
  <1>11. Len(taken) <= PageSize => \A i \in S : \E n \in 1..Len(taken) : taken[n] = i
    <2> SUFFICES ASSUME Len(taken) <= PageSize, NEW i \in S,
                        \A n \in 1..Len(taken) : taken[n] # i
                 PROVE  FALSE
      OBVIOUS
    <2>1. len = N
      <3> HIDE DEF N
      <3> QED BY <1>1, <1>7, PageParameters DEF len
    <2>2. place(i) >= len /\ place(i) \in 0..(N - 1)
      BY <1>4, <1>9, Zenon
    <2> HIDE DEF N
    <2> QED BY <1>1, <2>1, <2>2
  <1> QED BY <1>7, <1>8, <1>10, <1>11, Zenon DEF IsHeadOf, taken, S

\* What a page is cut to.
IsPage(page, S) ==
    /\ page.data \in Seq(S)
    /\ \A m, n \in 1..Len(page.data) : page.data[m] = page.data[n] => m = n
    /\ page.hasMore \in BOOLEAN
    /\ ~page.hasMore => /\ page.nextCursor = NULL
                        /\ \A i \in S : \E n \in 1..Len(page.data) : page.data[n] = i
    /\ page.hasMore =>
          \E last \in S :
            /\ page.nextCursor = CursorOf(last)
            /\ \A n \in 1..Len(page.data) :
                  page.data[n] = last \/ Pages_!Precedes(page.data[n], last)
            /\ \A i \in S : (\A n \in 1..Len(page.data) : page.data[n] # i)
                               => Pages_!Precedes(last, i)

LEMMA PageIsCut ==
    ASSUME Pages_!TypeOK, NEW filter, NEW after
    PROVE  IsPage(Pages_!toCursorPage(Pages_!Rows(filter, after)), Found(filter, after))
  <1> DEFINE S == Found(filter, after)
             taken == Pages_!Rows(filter, after)
             page == Pages_!toCursorPage(taken)
             hasMore == Len(taken) > PageSize
             data == IF hasMore THEN SubSeq(taken, 1, PageSize) ELSE taken
             len == IF hasMore THEN PageSize ELSE Len(taken)
  <1>1. /\ IsHeadOf(taken, S)
        /\ Len(taken) <= PageSize => \A i \in S : \E n \in 1..Len(taken) : taken[n] = i
    BY RowsAreTheHead
  <1>2. \A i \in S : i \in Pages_!Matching(NULL)
    BY PageKnown DEF Found
  <1>3. page = [data |-> data, hasMore |-> hasMore,
                nextCursor |-> IF hasMore THEN CursorOf(data[Len(data)]) ELSE NULL]
    <2>1. Pages_!Last(data) = data[Len(data)]
      BY PageLibrary, Zenon
    <2> QED BY <2>1, Zenon DEF Pages_!toCursorPage, CursorOf
  <1> HIDE DEF S, taken, page
  <1>4. /\ taken \in Seq(S)
        /\ \A m, n \in 1..Len(taken) : m < n => Pages_!Precedes(taken[m], taken[n])
        /\ \A n \in 1..Len(taken), i \in S :
             (\A m \in 1..Len(taken) : taken[m] # i) => Pages_!Precedes(taken[n], i)
    BY <1>1 DEF IsHeadOf
  <1>5. /\ data \in Seq(S) /\ Len(data) = len
        /\ len \in 0..Len(taken) /\ Len(taken) \in Nat
        /\ \A n \in 1..len : data[n] = taken[n] /\ taken[n] \in S /\ n \in 1..Len(taken)
    BY <1>4, PageParameters
  <1>6. /\ page.data = data /\ page.hasMore = hasMore
        /\ hasMore => page.nextCursor = CursorOf(data[len])
        /\ ~hasMore => page.nextCursor = NULL
    BY <1>3, <1>5
  <1> HIDE DEF data, hasMore, len
  <1>7. \A i \in S : ~Pages_!Precedes(i, i)
    BY <1>2, ListIsOrdered, Zenon
  <1>8. \A m, n \in 1..len : data[m] = data[n] => m = n
    <2>1. \A m, n \in 1..len : m < n => data[m] # data[n]
      BY <1>4, <1>5, <1>7
    <2>2. \A m, n \in 1..len : m < n \/ n < m \/ m = n
      BY <1>5
    <2> QED BY <2>1, <2>2
  <1>9. ASSUME ~hasMore PROVE \A i \in S : \E n \in 1..len : data[n] = i
    <2>1. Len(taken) <= PageSize /\ len = Len(taken)
      BY <1>5, <1>9, PageParameters DEF hasMore, len
    <2> QED BY <1>1, <1>5, <2>1
  <1>10. ASSUME hasMore
         PROVE  /\ data[len] \in S
                /\ \A n \in 1..len : data[n] = data[len] \/ Pages_!Precedes(data[n], data[len])
                /\ \A i \in S : (\A n \in 1..len : data[n] # i) => Pages_!Precedes(data[len], i)
    <2>1. /\ len = PageSize /\ len \in 1..len
          /\ len + 1 \in 1..Len(taken) /\ len \in 1..Len(taken) /\ len < len + 1
      BY <1>5, <1>10, PageParameters DEF hasMore, len
    <2>2. data[len] \in S /\ data[len] = taken[len]
      BY <1>5, <2>1
    <2>3. \A n \in 1..len : data[n] = data[len] \/ Pages_!Precedes(data[n], data[len])
      <3> SUFFICES ASSUME NEW n \in 1..len
                   PROVE  data[n] = data[len] \/ Pages_!Precedes(data[n], data[len])
        OBVIOUS
      <3>1. n = len \/ n < len
        BY <1>5
      <3> QED BY <1>4, <1>5, <2>1, <2>2, <3>1
    <2>4. ASSUME NEW i \in S, \A n \in 1..len : data[n] # i
          PROVE  Pages_!Precedes(data[len], i)
      <3>1. CASE \E m \in 1..Len(taken) : taken[m] = i
        <4>1. PICK m \in 1..Len(taken) : taken[m] = i
          BY <3>1
        <4>2. ~ (m \in 1..len)
          BY <1>5, <2>4, <4>1
        <4>3. len < m
          BY <1>5, <4>2
        <4> QED BY <1>4, <2>1, <2>2, <4>1, <4>3
      <3>2. CASE \A m \in 1..Len(taken) : taken[m] # i
        BY <1>4, <2>1, <2>2, <3>2
      <3> QED BY <3>1, <3>2, Zenon
    <2> QED BY <2>2, <2>3, <2>4, Zenon
  <1>11. hasMore \in BOOLEAN
    BY DEF hasMore
  <1>12. IsPage(page, S)
    <2>1. Len(page.data) = len
      BY <1>5, <1>6
    <2>2. page.data \in Seq(S) /\ page.hasMore \in BOOLEAN
      BY <1>5, <1>6, <1>11, Zenon
    <2>3. \A m, n \in 1..Len(page.data) : page.data[m] = page.data[n] => m = n
      BY <1>6, <1>8, <2>1, Zenon
    <2>4. ~page.hasMore => /\ page.nextCursor = NULL
                           /\ \A i \in S : \E n \in 1..Len(page.data) : page.data[n] = i
      BY <1>6, <1>9, <2>1, Zenon
    <2>5. page.hasMore =>
            \E last \in S :
              /\ page.nextCursor = CursorOf(last)
              /\ \A n \in 1..Len(page.data) :
                    page.data[n] = last \/ Pages_!Precedes(page.data[n], last)
              /\ \A i \in S : (\A n \in 1..Len(page.data) : page.data[n] # i)
                                 => Pages_!Precedes(last, i)
      BY <1>6, <1>10, <2>1, Zenon
    <2> QED BY <2>2, <2>3, <2>4, <2>5, Zenon DEF IsPage
  <1> QED BY <1>12, Zenon DEF page, taken, S

\* What is read on is in what was read and what the page brings.
LEMMA ReadOn ==
    ASSUME NEW S, NEW s \in Seq(S), NEW t \in Seq(S)
    PROVE  /\ s \o t \in Seq(S)
           /\ Range(s \o t) = Range(s) \cup Range(t)
           /\ Range(s) = {i \in S : \E n \in 1..Len(s) : s[n] = i}
           /\ /\ IsInjective(s) /\ IsInjective(t)
              /\ \A i \in Range(s) : i \notin Range(t)
              => IsInjective(s \o t)
  <1>1. /\ Len(s \o t) = Len(s) + Len(t) /\ Len(s) \in Nat /\ Len(t) \in Nat
        /\ s \o t \in Seq(S)
        /\ \A n \in 1..Len(s) : (s \o t)[n] = s[n] /\ n \in 1..Len(s \o t)
        /\ \A n \in 1..Len(t) : (s \o t)[Len(s) + n] = t[n] /\ Len(s) + n \in 1..Len(s \o t)
    OBVIOUS
  <1> DEFINE w == s \o t
  <1>2. DOMAIN s = 1..Len(s) /\ DOMAIN t = 1..Len(t) /\ DOMAIN w = 1..Len(w)
    OBVIOUS
  <1> HIDE DEF w
  <1>3. \A n \in 1..Len(w) : n \in 1..Len(s) \/ (n - Len(s) \in 1..Len(t) /\ Len(s) + (n - Len(s)) = n)
    BY <1>1 DEF w
  <1>4. \A n \in 1..Len(w) : \/ n \in 1..Len(s) /\ w[n] = s[n]
                             \/ \E m \in 1..Len(t) : w[n] = t[m] /\ n = Len(s) + m
    BY <1>1, <1>3 DEF w
  <1>5. /\ Range(s) = {s[n] : n \in 1..Len(s)} /\ Range(t) = {t[n] : n \in 1..Len(t)}
        /\ Range(w) = {w[n] : n \in 1..Len(w)}
    BY <1>2, Zenon DEF Range
  <1>6. /\ \A n \in 1..Len(s) : w[n] = s[n] /\ n \in 1..Len(w)
        /\ \A n \in 1..Len(t) : w[Len(s) + n] = t[n] /\ Len(s) + n \in 1..Len(w)
    BY <1>1 DEF w
  <1>7. Range(w) = Range(s) \cup Range(t)
    <2>1. Range(w) \subseteq Range(s) \cup Range(t)
      BY <1>4, <1>5
    <2>2. Range(s) \subseteq Range(w) /\ Range(t) \subseteq Range(w)
      BY <1>5, <1>6
    <2> QED BY <2>1, <2>2
  <1>8. Range(s) = {i \in S : \E n \in 1..Len(s) : s[n] = i}
    BY <1>5
  <1>9. ASSUME IsInjective(s), IsInjective(t), \A i \in Range(s) : i \notin Range(t)
        PROVE  IsInjective(w)
    <2>1. /\ \A m, n \in 1..Len(s) : s[m] = s[n] => m = n
          /\ \A m, n \in 1..Len(t) : t[m] = t[n] => m = n
      BY <1>2, <1>9, Zenon DEF IsInjective
    <2>2. \A m \in 1..Len(s), n \in 1..Len(t) : s[m] # t[n]
      BY <1>5, <1>9
    <2>3. \A m, n \in 1..Len(w) : w[m] = w[n] => m = n
      BY <1>4, <2>1, <2>2
    <2> QED BY <1>2, <2>3, Zenon DEF IsInjective
  <1> QED BY <1>1, <1>7, <1>8, <1>9, Zenon DEF w

\* What a page without doubles is.
LEMMA PageSeen ==
    ASSUME NEW page, NEW S, IsPage(page, S)
    PROVE  /\ Range(page.data) \subseteq S
           /\ IsInjective(page.data)
           /\ ~page.hasMore => page.nextCursor = NULL /\ S \subseteq Range(page.data)
           /\ page.hasMore =>
                \E last \in S :
                  /\ page.nextCursor = CursorOf(last)
                  /\ \A i \in Range(page.data) : i = last \/ Pages_!Precedes(i, last)
                  /\ \A i \in S \ Range(page.data) : Pages_!Precedes(last, i)
  <1> DEFINE data == page.data
  <1>1. data \in Seq(S)
    BY DEF IsPage
  <1> HIDE DEF data
  <1>2. DOMAIN data = 1..Len(data) /\ \A n \in 1..Len(data) : data[n] \in S
    BY <1>1
  <1>3. Range(data) = {data[n] : n \in 1..Len(data)}
    BY <1>2, Zenon DEF Range
  <1>4. Range(data) \subseteq S
    BY <1>2, <1>3
  <1>5. IsInjective(data)
    BY <1>2, Zenon DEF IsPage, data, IsInjective
  <1>6. \A i : i \in Range(data) <=> \E n \in 1..Len(data) : data[n] = i
    BY <1>3
  <1>7. ~page.hasMore => page.nextCursor = NULL /\ S \subseteq Range(data)
    BY <1>6, Zenon DEF IsPage, data
  <1>8. ASSUME page.hasMore
        PROVE  \E last \in S :
                  /\ page.nextCursor = CursorOf(last)
                  /\ \A i \in Range(data) : i = last \/ Pages_!Precedes(i, last)
                  /\ \A i \in S \ Range(data) : Pages_!Precedes(last, i)
    <2>1. PICK last \in S :
            /\ page.nextCursor = CursorOf(last)
            /\ \A n \in 1..Len(data) : data[n] = last \/ Pages_!Precedes(data[n], last)
            /\ \A i \in S : (\A n \in 1..Len(data) : data[n] # i)
                               => Pages_!Precedes(last, i)
      BY <1>8, Zenon DEF IsPage, data
    <2>2. \A i \in Range(data) : i = last \/ Pages_!Precedes(i, last)
      BY <1>3, <2>1
    <2>3. \A i \in S \ Range(data) : Pages_!Precedes(last, i)
      BY <1>6, <2>1
    <2> QED BY <2>1, <2>2, <2>3
  <1> QED BY <1>4, <1>5, <1>7, <1>8, Zenon DEF data

\* What a reader by cursor is, with the operators of this module.
SeekSteady(s) ==
    /\ IsInjective(s.seen)
    /\ s.steady \subseteq Pages_!Matching(s.filter)
    /\ \A i \in Range(s.seen) : i \in Id /\ table[i] # NULL
    /\ ~s.hasMore => s.steady \subseteq Range(s.seen)
    /\ s.hasMore /\ s.after = NULL => s.seen = <<>>
    /\ s.hasMore /\ s.after # NULL =>
          /\ \A i \in Range(s.seen) : ~Pages_!Beyond(i, s.after)
          /\ \A i \in s.steady \ Range(s.seen) : Pages_!Beyond(i, s.after)

LEMMA SeekMeans ==
    ASSUME Pages_!TypeOK
    PROVE  Pages_!SeekInv <=> (seek # NULL => SeekSteady(seek))
  <1>1. /\ Pages_!IsInjective(seek.seen) = IsInjective(seek.seen)
        /\ Pages_!Range(seek.seen) = Range(seek.seen)
    BY PageLibrary, Zenon
  <1>2. seek # NULL => \A i \in Range(seek.seen) : i \in Id
    <2> SUFFICES ASSUME seek # NULL PROVE \A i \in Range(seek.seen) : i \in Id
      OBVIOUS
    <2>1. seek.seen \in Seq(Id)
      BY DEF Pages_!TypeOK, Pages_!Seeker
    <2> QED BY <2>1, ReadOn
  <1> QED BY <1>1, <1>2, Zenon DEF Pages_!SeekInv, SeekSteady

\* A page brings what the cursor is not past, and moves it past that.
LEMMA SeenGrows ==
    ASSUME Pages_!TypeOK, NEW s \in Pages_!Seeker, s.hasMore, SeekSteady(s),
           NEW page, IsPage(page, Found(s.filter, s.after)),
           NEW t, t.filter = s.filter, t.steady = s.steady,
           t.seen = s.seen \o page.data, t.after = page.nextCursor,
           t.hasMore = page.hasMore
    PROVE  /\ SeekSteady(t)
           /\ t.seen \in Seq(Id) /\ t.hasMore \in BOOLEAN
           /\ t.after \in Pages_!Cursor \cup {NULL}
  <1> DEFINE S == Found(s.filter, s.after)
             M == Pages_!Matching(NULL)
  <1>1. /\ S \subseteq M /\ S \subseteq Id /\ M \subseteq Id
        /\ \A i \in M : table[i] # NULL
        /\ \A i \in Pages_!Matching(s.filter) :
              Pages_!Beyond(i, s.after) => i \in S
        /\ \A i \in S : Pages_!Beyond(i, s.after)
        /\ M = {i \in Id : table[i] # NULL}
    BY PageKnown DEF Found
  <1>2. s.seen \in Seq(Id) /\ s.after \in Pages_!Cursor \cup {NULL}
    BY DEF Pages_!Seeker
  <1>3. /\ Range(page.data) \subseteq S
        /\ IsInjective(page.data)
        /\ ~page.hasMore => page.nextCursor = NULL /\ S \subseteq Range(page.data)
        /\ page.hasMore =>
             \E last \in S :
               /\ page.nextCursor = CursorOf(last)
               /\ \A i \in Range(page.data) : i = last \/ Pages_!Precedes(i, last)
               /\ \A i \in S \ Range(page.data) : Pages_!Precedes(last, i)
    BY PageSeen
  <1>4. page.data \in Seq(Id) /\ page.hasMore \in BOOLEAN
    <2>1. page.data \in Seq(S) /\ page.hasMore \in BOOLEAN
      BY DEF IsPage
    <2> HIDE DEF S
    <2> QED BY <1>1, <2>1
  <1> HIDE DEF S, M
  <1>5. /\ t.seen \in Seq(Id)
        /\ Range(t.seen) = Range(s.seen) \cup Range(page.data)
        /\ IsInjective(s.seen) /\ (\A i \in Range(s.seen) : i \notin Range(page.data))
             => IsInjective(t.seen)
    BY <1>2, <1>3, <1>4, ReadOn
  <1>6. \A i \in Range(s.seen) : ~Pages_!Beyond(i, s.after)
    <2>1. CASE s.after = NULL
      <3>1. s.seen = <<>>
        BY <2>1 DEF SeekSteady
      <3>2. Range(s.seen) = {}
        BY <3>1 DEF Range
      <3> QED BY <3>2
    <2>2. CASE s.after # NULL
      BY <2>2 DEF SeekSteady
    <2> QED BY <2>1, <2>2, Zenon
  <1>7. IsInjective(t.seen)
    BY <1>1, <1>3, <1>5, <1>6, Zenon DEF SeekSteady
  <1>8. t.steady \subseteq Pages_!Matching(t.filter)
    BY Zenon DEF SeekSteady
  <1>9. \A i \in Range(t.seen) : i \in Id /\ table[i] # NULL
    BY <1>1, <1>3, <1>5 DEF SeekSteady
  <1>10. \A i \in t.steady : i \in Range(s.seen) \/ i \in S
    <2>1. \A i \in s.steady \ Range(s.seen) : Pages_!Beyond(i, s.after)
      <3>1. CASE s.after = NULL
        BY <3>1 DEF Pages_!Beyond
      <3>2. CASE s.after # NULL
        BY <3>2 DEF SeekSteady
      <3> QED BY <3>1, <3>2, Zenon
    <2> QED BY <1>1, <1>8, <2>1
  <1>11. CASE ~t.hasMore
    <2>1. t.after = NULL /\ S \subseteq Range(page.data)
      BY <1>3, <1>11, Zenon
    <2>2. t.steady \subseteq Range(t.seen)
      BY <1>5, <1>10, <2>1
    <2> QED
      BY <1>4, <1>5, <1>7, <1>8, <1>9, <1>11, <2>1, <2>2 DEF SeekSteady
  <1>12. CASE t.hasMore
    <2>1. PICK last \in S :
            /\ page.nextCursor = CursorOf(last)
            /\ \A i \in Range(page.data) : i = last \/ Pages_!Precedes(i, last)
            /\ \A i \in S \ Range(page.data) : Pages_!Precedes(last, i)
      BY <1>3, <1>12, Zenon
    <2>2. /\ last \in M
          /\ CursorOf(last) \in Pages_!Cursor /\ CursorOf(last) # NULL
          /\ \A i \in M : Pages_!Beyond(i, CursorOf(last)) <=> Pages_!Precedes(last, i)
      <3>1. last \in M
        BY <1>1
      <3> QED BY <3>1, ListIsOrdered, Zenon DEF M
    <2>3. \A i \in Range(s.seen) : i \in M
      BY <1>1 DEF SeekSteady
    <2>4. \A i \in Range(s.seen) : ~Pages_!Beyond(i, t.after)
      <3> SUFFICES ASSUME NEW i \in Range(s.seen), Pages_!Precedes(last, i)
                   PROVE  Pages_!Beyond(i, s.after)
        BY <1>6, <2>1, <2>2, <2>3, Zenon
      <3>1. CASE s.after = NULL
        BY <3>1 DEF Pages_!Beyond
      <3>2. CASE s.after \in Pages_!Cursor
        BY <1>1, <2>2, <2>3, <3>2, ListIsOrdered, Zenon DEF M
      <3> QED BY <1>2, <3>1, <3>2
    <2>5. \A i, j \in M : Pages_!Precedes(i, j) => ~Pages_!Precedes(j, i) /\ i # j
      BY ListIsOrdered, Zenon DEF M
    <2>6. \A i \in Range(page.data) : ~Pages_!Beyond(i, t.after)
      BY <1>1, <1>3, <2>1, <2>2, <2>5
    <2>7. \A i \in t.steady \ Range(t.seen) : Pages_!Beyond(i, t.after)
      BY <1>1, <1>5, <1>10, <2>1, <2>2
    <2>8. \A i \in Range(t.seen) : ~Pages_!Beyond(i, t.after)
      BY <1>5, <2>4, <2>6
    <2>9. t.after # NULL /\ t.after \in Pages_!Cursor
      BY <2>1, <2>2
    <2> QED
      BY <1>4, <1>5, <1>7, <1>8, <1>9, <1>12, <2>7, <2>8, <2>9 DEF SeekSteady
  <1> QED BY <1>4, <1>11, <1>12, Zenon

\* A set is read in some order.
LEMMA ReadInOrder ==
    ASSUME NEW S, IsFiniteSet(S)
    PROVE  /\ Pages_!SetToSeq(S) \in Seq(S)
           /\ IsInjective(Pages_!SetToSeq(S))
           /\ Range(Pages_!SetToSeq(S)) = S
  <1> DEFINE n == Cardinality(S)
             s == Pages_!SetToSeq(S)
  <1>1. n \in Nat /\ ExistsBijection(1..n, S)
    BY FS_CardinalityType
  <1>2. PICK f \in Bijection(1..n, S) : TRUE
    BY <1>1 DEF ExistsBijection
  <1>3. f \in [1..n -> S] /\ IsInjective(f)
    <2> HIDE DEF n
    <2> QED BY <1>2 DEF Bijection, Injection, Surjection, IsInjective
  <1>4. s \in [1..n -> S] /\ IsInjective(s)
    <2>1. s = CHOOSE g \in [1..n -> S] : Pages_!IsInjective(g)
      BY PageLibrary, Zenon DEF Pages_!SetToSeq
    <2>2. Pages_!IsInjective(f)
      BY <1>3, PageLibrary, Zenon
    <2>3. s \in [1..n -> S] /\ Pages_!IsInjective(s)
      BY <1>3, <2>1, <2>2, Zenon
    <2> QED BY <2>3, PageLibrary, Zenon
  <1> HIDE DEF s
  <1>5. s \in Seq(S)
    <2> HIDE DEF n
    <2> QED BY <1>1, <1>4
  <1>6. IsFiniteSet(1..n) /\ Cardinality(1..n) = n
    <2> HIDE DEF n
    <2> QED BY <1>1, FS_Interval
  <1>7. s \in Injection(1..n, S)
    <2> HIDE DEF n
    <2> QED BY <1>4, Zenon DEF Injection
  <1>8. s \in Surjection(1..n, S)
    BY <1>6, <1>7, FS_Injection
  <1>9. Range(s) = S
    <2> HIDE DEF n
    <2> QED BY <1>4, <1>8 DEF Surjection, Range
  <1> QED BY <1>4, <1>5, <1>9, Zenon DEF s

\* Two sets of the newest rows that are as large are the same.
LEMMA NewestAreTheSame ==
    ASSUME Pages_!TypeOK, Pages_!TotallyOrdered,
           NEW R, NEW S, R \subseteq Pages_!Matching(NULL), S \subseteq Pages_!Matching(NULL),
           Cardinality(R) = Cardinality(S),
           Pages_!NotAfter(R, Pages_!Matching(NULL) \ R),
           Pages_!NotAfter(S, Pages_!Matching(NULL) \ S)
    PROVE  R = S
  <1> DEFINE M == Pages_!Matching(NULL)
  <1>1. /\ IsFiniteSet(R) /\ IsFiniteSet(S)
        /\ \A i \in M : table[i].occurredAt \in Nat
    BY PageKnown
  <1>2. \A i, j \in M : table[i].occurredAt = table[j].occurredAt => i = j
    BY Zenon DEF Pages_!TotallyOrdered
  <1>3. \A i \in R, j \in M \ R : table[i].occurredAt >= table[j].occurredAt
    BY DEF Pages_!NotAfter
  <1>4. \A i \in S, j \in M \ S : table[i].occurredAt >= table[j].occurredAt
    BY DEF Pages_!NotAfter
  <1>5. R \subseteq M /\ S \subseteq M
    OBVIOUS
  <1> HIDE DEF M
  <1>6. R \subseteq S \/ S \subseteq R
    BY <1>1, <1>2, <1>3, <1>4, <1>5
  <1>7. CASE R \subseteq S
    <2>1. R \in SUBSET S
      BY <1>7
    <2> QED BY <1>1, <2>1, FS_Subset
  <1>8. CASE S \subseteq R
    <2>1. S \in SUBSET R
      BY <1>8
    <2> QED BY <1>1, <2>1, FS_Subset
  <1> QED BY <1>6, <1>7, <1>8, Zenon

\* What an export is, with the operators of this module.
ExportWhole(e) ==
    /\ IsInjective(e.seen)
    /\ Range(e.seen) \subseteq Pages_!Matching(NULL)
    /\ Pages_!NotAfter(Range(e.seen), Pages_!Matching(NULL) \ Range(e.seen))
    /\ IF e.more THEN Cardinality(Range(e.seen)) = e.skip
       ELSE Range(e.seen) = Pages_!Matching(NULL)

LEMMA ExportMeans ==
    Pages_!ExportInv <=>
        (export # NULL /\ export.quiet /\ Pages_!TotallyOrdered => ExportWhole(export))
  <1>1. /\ Pages_!IsInjective(export.seen) = IsInjective(export.seen)
        /\ Pages_!Range(export.seen) = Range(export.seen)
        /\ Pages_!Cardinality(Range(export.seen)) = Cardinality(Range(export.seen))
    BY PageLibrary, Zenon
  <1> QED BY <1>1, Zenon DEF Pages_!ExportInv, ExportWhole

\* A page by offset, of a table with so many rows before it.
IsOffsetPage(page, skip, M) ==
    /\ page \subseteq M /\ IsFiniteSet(page)
    /\ Cardinality(page) <= PageSize /\ Cardinality(page) \in Nat
    /\ Cardinality(M) - skip < PageSize
         => Cardinality(page) = IF Cardinality(M) - skip < 0 THEN 0
                                ELSE Cardinality(M) - skip
    /\ Cardinality(M) - skip >= PageSize => Cardinality(page) = PageSize
    /\ Cardinality(page) > 0 =>
         \E skipped \in SUBSET (M \ page) :
            /\ Cardinality(skipped) = skip
            /\ Pages_!NotAfter(skipped, page)
            /\ Pages_!NotAfter(page, M \ (page \cup skipped))
            /\ Pages_!NotAfter(skipped, M \ skipped)

LEMMA PageOfExport ==
    ASSUME Pages_!TypeOK, NEW skip \in Nat, NEW page \in Pages_!OffsetPages(skip)
    PROVE  IsOffsetPage(page, skip, Pages_!Matching(NULL))
  <1> DEFINE M == Pages_!Matching(NULL)
             left == Cardinality(M) - skip
             size == IF left < 0 THEN 0 ELSE IF left < PageSize THEN left ELSE PageSize
  <1>1. /\ page \in SUBSET M /\ Cardinality(page) = size
        /\ size > 0 =>
             \E skipped \in SUBSET (M \ page) :
                /\ Cardinality(skipped) = skip
                /\ Pages_!NotAfter(skipped, page)
                /\ Pages_!NotAfter(page, M \ (page \cup skipped))
                /\ Pages_!NotAfter(skipped, M \ skipped)
    <2>1. \A S : Pages_!Cardinality(S) = Cardinality(S)
      BY PageLibrary, Zenon
    <2> QED BY <2>1 DEF Pages_!OffsetPages
  <1>2. M \subseteq Id /\ Cardinality(M) \in Nat /\ IsFiniteSet(page) /\ Cardinality(page) \in Nat
    <2>1. M \subseteq Id
      BY PageKnown, Zenon
    <2>2. page \subseteq Id
      BY <1>1, <2>1
    <2> QED BY <2>1, <2>2, PageKnown
  <1> HIDE DEF M
  <1>3. /\ size <= PageSize
        /\ left < PageSize => size = IF left < 0 THEN 0 ELSE left
        /\ left >= PageSize => size = PageSize
    BY <1>2, PageParameters
  <1>4. /\ Cardinality(page) <= PageSize
        /\ left < PageSize => Cardinality(page) = IF left < 0 THEN 0 ELSE left
        /\ left >= PageSize => Cardinality(page) = PageSize
    BY <1>1, <1>3, Zenon
  <1> HIDE DEF size, left
  <1>5. Cardinality(page) > 0 =>
          \E skipped \in SUBSET (M \ page) :
             /\ Cardinality(skipped) = skip
             /\ Pages_!NotAfter(skipped, page)
             /\ Pages_!NotAfter(page, M \ (page \cup skipped))
             /\ Pages_!NotAfter(skipped, M \ skipped)
    BY <1>1, Zenon
  <1>6. page \subseteq M
    BY <1>1, Zenon
  <1> QED BY <1>2, <1>4, <1>5, <1>6, Zenon DEF IsOffsetPage, M, left

\* A page of an export of a table at rest goes on where the last one ended.
LEMMA ReadGrows ==
    ASSUME Pages_!TypeOK, Pages_!TotallyOrdered,
           NEW e \in Pages_!Exporter, e.more, ExportWhole(e),
           NEW page \in Pages_!OffsetPages(e.skip),
           NEW f, f.seen = e.seen \o Pages_!SetToSeq(page),
           f.more = (Cardinality(page) = PageSize), f.skip = e.skip + PageSize
    PROVE  ExportWhole(f)
  <1> DEFINE M == Pages_!Matching(NULL)
             R == Range(e.seen)
             N == Cardinality(M)
             size == Cardinality(page)
  <1>1. e.skip \in Nat /\ e.seen \in Seq(Id)
    BY DEF Pages_!Exporter
  <1>2. /\ IsInjective(e.seen) /\ R \subseteq M
        /\ Pages_!NotAfter(R, M \ R) /\ Cardinality(R) = e.skip
    BY Zenon DEF ExportWhole
  <1>3. /\ M \subseteq Id /\ IsFiniteSet(M) /\ N \in Nat
        /\ \A i \in M : table[i].occurredAt \in Nat
    BY PageKnown
  <1>4. R \in SUBSET M /\ IsFiniteSet(R) /\ e.skip <= N
    BY <1>2, <1>3, FS_Subset
  <1>5. IsOffsetPage(page, e.skip, M)
    BY <1>1, PageOfExport
  <1> HIDE DEF M, R, N, size
  <1>6. /\ f.more => size = PageSize
        /\ ~f.more => size # PageSize
        /\ page \subseteq M /\ IsFiniteSet(page) /\ size <= PageSize /\ size \in Nat
        /\ N - e.skip < PageSize => size = IF N - e.skip < 0 THEN 0 ELSE N - e.skip
        /\ N - e.skip >= PageSize => size = PageSize
    BY <1>5 DEF size, N, IsOffsetPage
  <1>7. page \cap R = {} /\ Pages_!NotAfter(page, M \ (page \cup R))
    <2>1. CASE size = 0
      <3>1. page = {}
        BY <1>6, <2>1, FS_EmptySet DEF size
      <3> QED BY <3>1 DEF Pages_!NotAfter
    <2>2. CASE size > 0
      <3>1. PICK skipped \in SUBSET (M \ page) :
                /\ Cardinality(skipped) = e.skip
                /\ Pages_!NotAfter(skipped, page)
                /\ Pages_!NotAfter(page, M \ (page \cup skipped))
                /\ Pages_!NotAfter(skipped, M \ skipped)
        BY <1>5, <2>2, Zenon DEF IsOffsetPage, size
      <3>2. skipped \subseteq M /\ skipped \cap page = {}
        BY <3>1
      <3>3. skipped = R
        BY <1>2, <3>1, <3>2, NewestAreTheSame, Zenon DEF M
      <3> QED BY <3>1, <3>2, <3>3
    <2> QED BY <1>6, <2>1, <2>2
  <1>8. /\ Pages_!SetToSeq(page) \in Seq(page) /\ IsInjective(Pages_!SetToSeq(page))
        /\ Range(Pages_!SetToSeq(page)) = page
    BY <1>6, ReadInOrder, Zenon
  <1>9. Pages_!SetToSeq(page) \in Seq(Id)
    BY <1>3, <1>6, <1>8
  <1>10. Range(f.seen) = R \cup page /\ IsInjective(f.seen)
    BY <1>1, <1>2, <1>7, <1>8, <1>9, ReadOn DEF R
  <1>11. R \cup page \in SUBSET M
    BY <1>4, <1>6
  <1>12. Pages_!NotAfter(R \cup page, M \ (R \cup page))
    <2>1. \A i \in R, j \in M \ R : table[i].occurredAt >= table[j].occurredAt
      BY <1>2, Zenon DEF Pages_!NotAfter
    <2>2. \A i \in page, j \in M \ (page \cup R) : table[i].occurredAt >= table[j].occurredAt
      BY <1>7, Zenon DEF Pages_!NotAfter
    <2>3. \A i \in R \cup page, j \in M \ (R \cup page) :
            table[i].occurredAt >= table[j].occurredAt
      <3> SUFFICES ASSUME NEW i \in R \cup page, NEW j \in M \ (R \cup page)
                   PROVE  table[i].occurredAt >= table[j].occurredAt
        OBVIOUS
      <3>1. /\ i \in R \/ i \in page
            /\ j \in M \ R /\ j \in M \ (page \cup R)
        OBVIOUS
      <3> QED BY <2>1, <2>2, <3>1, Zenon
    <2> QED BY <2>3, Zenon DEF Pages_!NotAfter
  <1>13. Cardinality(R \cup page) = e.skip + size
    <2>1. Cardinality(R \cap page) = 0
      <3>1. R \cap page = {}
        BY <1>7
      <3> QED BY <3>1, FS_EmptySet
    <2>2. Cardinality(R \cup page) = Cardinality(R) + size - Cardinality(R \cap page)
      BY <1>4, <1>6, FS_Union DEF size
    <2> QED BY <1>1, <1>2, <1>6, <2>1, <2>2
  <1>14. CASE f.more
    <2>1. Cardinality(R \cup page) = f.skip
      BY <1>6, <1>13, <1>14
    <2> QED BY <1>10, <1>11, <1>12, <1>14, <2>1 DEF ExportWhole, M
  <1>15. CASE ~f.more
    <2>1. e.skip + size = N
      BY <1>1, <1>3, <1>4, <1>6, <1>15, PageParameters
    <2>2. R \cup page = M
      BY <1>3, <1>11, <1>13, <2>1, FS_Subset DEF N
    <2> QED BY <1>10, <1>11, <1>12, <1>15, <2>2 DEF ExportWhole, M
  <1> QED BY <1>14, <1>15

\* What a row of the table is after somebody else has written to it.
Written(k) ==
    /\ k \in Id
    /\ \A i \in Id \ {k} : table'[i] = table[i]
    /\ table'[k] # NULL
    /\ table[k] # NULL => table'[k].occurredAt = table[k].occurredAt

LEMMA SeekMeansNext ==
    ASSUME seek' # NULL => (SeekSteady(seek))' PROVE Pages_!SeekInv'
  <1>1. /\ (Pages_!IsInjective(seek.seen))' = (IsInjective(seek.seen))'
        /\ (Pages_!Range(seek.seen))' = (Range(seek.seen))'
    <2> DEFINE s == seek'.seen
    <2>1. Pages_!IsInjective(s) = IsInjective(s) /\ Pages_!Range(s) = Range(s)
      <3> HIDE DEF s
      <3> QED BY PageLibrary, Zenon
    <2> QED BY <2>1
  <1> QED BY <1>1, Zenon DEF Pages_!SeekInv, SeekSteady

LEMMA SeekDisturbed ==
    ASSUME Pages_!TypeOK, Pages_!SeekInv,
           NEW k, Written(k),
           seek' = IF seek = NULL THEN NULL ELSE [seek EXCEPT !.steady = @ \ {k}]
    PROVE  Pages_!SeekInv'
  <1> SUFFICES ASSUME seek # NULL PROVE (SeekSteady(seek))'
    BY SeekMeansNext, Zenon
  <1>1. /\ seek \in Pages_!Seeker /\ seek.seen \in Seq(Id)
        /\ seek.after \in Pages_!Cursor \cup {NULL}
    BY DEF Pages_!TypeOK, Pages_!Seeker
  <1>2. SeekSteady(seek)
    BY SeekMeans, Zenon
  <1>3. /\ seek'.filter = seek.filter /\ seek'.after = seek.after
        /\ seek'.seen = seek.seen /\ seek'.hasMore = seek.hasMore
        /\ seek'.steady = seek.steady \ {k}
    BY <1>1 DEF Pages_!Seeker
  <1>4. /\ \A i \in Id : table[i] # NULL => table'[i] # NULL
        /\ \A i \in Id : \A a : table[i] # NULL =>
              (Pages_!Beyond(i, a) <=> (Pages_!Beyond(i, a))')
    BY DEF Written, Pages_!Beyond
  <1>5. \A i \in Id \ {k} : \A filter :
          i \in Pages_!Matching(filter) => i \in (Pages_!Matching(filter))'
    BY DEF Written, Pages_!Matching
  <1>6. \A i \in Range(seek.seen) : i \in Id /\ table[i] # NULL
    BY <1>2 DEF SeekSteady
  <1>7. \A i \in seek.steady : i \in Id /\ table[i] # NULL
    BY <1>2, PageKnown DEF SeekSteady
  <1>8. (IsInjective(seek.seen))' /\ (Range(seek.seen))' = Range(seek.seen)
    BY <1>2, <1>3, Zenon DEF SeekSteady
  <1>9. (seek.steady \subseteq Pages_!Matching(seek.filter))'
    <2>1. \A i \in seek.steady : i \in Pages_!Matching(seek.filter)
      BY <1>2 DEF SeekSteady
    <2>2. \A i \in seek'.steady : i \in (Pages_!Matching(seek.filter))'
      BY <1>3, <1>5, <1>7, <2>1
    <2> QED BY <2>2
  <1>10. \A i \in Range(seek.seen) : i \in Id /\ table'[i] # NULL
    BY <1>4, <1>6
  <1>11. ~seek.hasMore => seek'.steady \subseteq Range(seek.seen)
    BY <1>2, <1>3 DEF SeekSteady
  <1>12. seek.hasMore /\ seek.after = NULL => seek.seen = <<>>
    BY <1>2 DEF SeekSteady
  <1>13. seek.hasMore /\ seek.after # NULL =>
          /\ \A i \in Range(seek.seen) : ~(Pages_!Beyond(i, seek.after))'
          /\ \A i \in seek'.steady \ Range(seek.seen) : (Pages_!Beyond(i, seek.after))'
    <2> SUFFICES ASSUME seek.hasMore, seek.after # NULL
                 PROVE  /\ \A i \in Range(seek.seen) : ~(Pages_!Beyond(i, seek.after))'
                        /\ \A i \in seek'.steady \ Range(seek.seen) :
                              (Pages_!Beyond(i, seek.after))'
      OBVIOUS
    <2>1. /\ \A i \in Range(seek.seen) : ~Pages_!Beyond(i, seek.after)
          /\ \A i \in seek.steady \ Range(seek.seen) : Pages_!Beyond(i, seek.after)
      BY <1>2 DEF SeekSteady
    <2>2. \A i \in Id : table[i] # NULL =>
              (Pages_!Beyond(i, seek.after) <=> (Pages_!Beyond(i, seek.after))')
      BY <1>3, <1>4 DEF Pages_!Beyond
    <2> QED BY <1>3, <1>6, <1>7, <2>1, <2>2
  <1> QED
    BY <1>3, <1>8, <1>9, <1>10, <1>11, <1>12, <1>13 DEF SeekSteady

LEMMA PageInit == Pages_!Init => Pages_!PageInv
  <1> SUFFICES ASSUME Pages_!Init PROVE Pages_!PageInv
    OBVIOUS
  <1>1. Pages_!TypeOK
    BY PageParameters DEF Pages_!Init, Pages_!TypeOK
  <1> QED
    BY <1>1, Zenon DEF Pages_!Init, Pages_!PageInv, Pages_!SeekInv, Pages_!ExportInv

\* What is set again after a write.
LEMMA Disturbs ==
    ASSUME Pages_!TypeOK, NEW k \in Id, Pages_!Disturbed(k)
    PROVE  /\ seek' = IF seek = NULL THEN NULL ELSE [seek EXCEPT !.steady = @ \ {k}]
           /\ seek' \in Pages_!Seeker \cup {NULL}
           /\ export' \in Pages_!Exporter \cup {NULL}
           /\ Pages_!ExportInv'
  <1>1. /\ seek' = IF seek = NULL THEN NULL ELSE [seek EXCEPT !.steady = @ \ {k}]
        /\ export' = IF export = NULL THEN NULL ELSE [export EXCEPT !.quiet = FALSE]
    BY Zenon DEF Pages_!Disturbed
  <1>2. /\ seek \in Pages_!Seeker \cup {NULL}
        /\ export \in Pages_!Exporter \cup {NULL}
    BY DEF Pages_!TypeOK
  <1>3. seek' \in Pages_!Seeker \cup {NULL}
    BY <1>1, <1>2 DEF Pages_!Seeker
  <1>4. /\ export' \in Pages_!Exporter \cup {NULL}
        /\ export' # NULL => ~export'.quiet
    BY <1>1, <1>2 DEF Pages_!Exporter
  <1>5. Pages_!ExportInv'
    BY <1>4, Zenon DEF Pages_!ExportInv
  <1> QED BY <1>1, <1>3, <1>4, <1>5, Zenon

LEMMA PageInsert ==
    ASSUME Pages_!PageInv, NEW i \in Id, NEW t \in Moment, Pages_!Insert(i, t)
    PROVE  Pages_!PageInv'
  <1>1. /\ table[i] = NULL /\ reviews' = reviews /\ Pages_!Disturbed(i)
        /\ table' = [table EXCEPT ![i] = [occurredAt |-> t, status |-> "PENDING"]]
    BY Zenon DEF Pages_!Insert
  <1>2. Pages_!TypeOK /\ Pages_!SeekInv
    BY Zenon DEF Pages_!PageInv
  <1>3. table \in [Id -> Pages_!Row \cup {NULL}] /\ reviews \in 0..MaxReviews
    BY <1>2 DEF Pages_!TypeOK
  <1>4. [occurredAt |-> t, status |-> "PENDING"] \in Pages_!Row
    BY DEF Pages_!Row, Pages_!Statuses
  <1>5. /\ table' \in [Id -> Pages_!Row \cup {NULL}]
        /\ \A j \in Id \ {i} : table'[j] = table[j]
        /\ table'[i] \in Pages_!Row
    BY <1>1, <1>3, <1>4
  <1>6. Written(i)
    BY <1>1, <1>5, PageParameters DEF Written
  <1>7. /\ seek' = IF seek = NULL THEN NULL ELSE [seek EXCEPT !.steady = @ \ {i}]
        /\ seek' \in Pages_!Seeker \cup {NULL}
        /\ export' \in Pages_!Exporter \cup {NULL}
        /\ Pages_!ExportInv'
    BY <1>1, <1>2, Disturbs
  <1>8. Pages_!SeekInv'
    BY <1>2, <1>6, <1>7, SeekDisturbed
  <1>9. Pages_!TypeOK'
    BY <1>1, <1>3, <1>5, <1>7 DEF Pages_!TypeOK
  <1> QED BY <1>7, <1>8, <1>9, Zenon DEF Pages_!PageInv

LEMMA PageReview ==
    ASSUME Pages_!PageInv, NEW i \in Id, Pages_!Review(i)
    PROVE  Pages_!PageInv'
  <1>1. /\ table[i] # NULL /\ reviews < MaxReviews /\ reviews' = reviews + 1
        /\ Pages_!Disturbed(i)
        /\ table' = [table EXCEPT ![i].status = "APPROVED"]
    BY Zenon DEF Pages_!Review
  <1>2. Pages_!TypeOK /\ Pages_!SeekInv
    BY Zenon DEF Pages_!PageInv
  <1>3. table \in [Id -> Pages_!Row \cup {NULL}] /\ reviews \in 0..MaxReviews
    BY <1>2 DEF Pages_!TypeOK
  <1>4. table[i] \in Pages_!Row
    BY <1>1, <1>3
  <1>5. /\ table' \in [Id -> Pages_!Row \cup {NULL}]
        /\ \A j \in Id \ {i} : table'[j] = table[j]
        /\ table'[i] \in Pages_!Row /\ table'[i].occurredAt = table[i].occurredAt
    BY <1>1, <1>3, <1>4 DEF Pages_!Row, Pages_!Statuses
  <1>6. Written(i)
    BY <1>1, <1>5, PageParameters DEF Written
  <1>7. /\ seek' = IF seek = NULL THEN NULL ELSE [seek EXCEPT !.steady = @ \ {i}]
        /\ seek' \in Pages_!Seeker \cup {NULL}
        /\ export' \in Pages_!Exporter \cup {NULL}
        /\ Pages_!ExportInv'
    BY <1>1, <1>2, Disturbs
  <1>8. Pages_!SeekInv'
    BY <1>2, <1>6, <1>7, SeekDisturbed
  <1>9. reviews' \in 0..MaxReviews
    BY <1>1, <1>3, PageParameters
  <1>10. Pages_!TypeOK'
    BY <1>5, <1>7, <1>9 DEF Pages_!TypeOK
  <1> QED BY <1>7, <1>8, <1>10, Zenon DEF Pages_!PageInv

\* With the table as it is, what a list is ordered by is too.
LEMMA TableRests ==
    ASSUME table' = table
    PROVE  /\ \A filter : (Pages_!Matching(filter))' = Pages_!Matching(filter)
           /\ \A i, a : (Pages_!Beyond(i, a))' <=> Pages_!Beyond(i, a)
           /\ \A S, T : (Pages_!NotAfter(S, T))' <=> Pages_!NotAfter(S, T)
           /\ Pages_!TotallyOrdered' <=> Pages_!TotallyOrdered
  <1>1. \A filter : (Pages_!Matching(filter))' = Pages_!Matching(filter)
    BY DEF Pages_!Matching
  <1>2. \A i, a : (Pages_!Beyond(i, a))' <=> Pages_!Beyond(i, a)
    BY DEF Pages_!Beyond
  <1>3. \A S, T : (Pages_!NotAfter(S, T))' <=> Pages_!NotAfter(S, T)
    BY DEF Pages_!NotAfter
  <1>4. Pages_!TotallyOrdered' <=> Pages_!TotallyOrdered
    BY DEF Pages_!TotallyOrdered, Pages_!Matching
  <1> QED BY <1>1, <1>2, <1>3, <1>4

LEMMA PageSeekStart ==
    ASSUME Pages_!PageInv, NEW filter \in {NULL, "PENDING"}, Pages_!SeekStart(filter)
    PROVE  Pages_!PageInv'
  <1>1. /\ export = NULL
        /\ seek' = [filter |-> filter, after |-> NULL, seen |-> <<>>,
                    steady |-> Pages_!Matching(filter), hasMore |-> TRUE]
        /\ UNCHANGED <<table, reviews, export>>
    BY Zenon DEF Pages_!SeekStart, Pages_!NoReader
  <1>2. Pages_!TypeOK
    BY Zenon DEF Pages_!PageInv
  <1>3. Pages_!Matching(filter) \subseteq Id /\ (Pages_!Matching(filter))' = Pages_!Matching(filter)
    BY <1>1, <1>2, PageKnown, TableRests
  <1>4. seek' \in Pages_!Seeker
    <2>1. Pages_!Matching(filter) \in SUBSET Id /\ filter \in Pages_!Statuses \cup {NULL}
      BY <1>3 DEF Pages_!Statuses
    <2>2. <<>> \in Seq(Id)
      OBVIOUS
    <2> QED BY <1>1, <2>1, <2>2 DEF Pages_!Seeker
  <1>5. Pages_!TypeOK'
    BY <1>1, <1>2, <1>4 DEF Pages_!TypeOK
  <1>6. Pages_!ExportInv'
    BY <1>1, Zenon DEF Pages_!ExportInv
  <1>7. (SeekSteady(seek))'
    <2>1. /\ seek'.filter = filter /\ seek'.after = NULL /\ seek'.seen = <<>>
          /\ seek'.steady = Pages_!Matching(filter) /\ seek'.hasMore
      BY <1>1
    <2>2. IsInjective(<<>>) /\ Range(<<>>) = {}
      BY DEF IsInjective, Range
    <2>3. (seek.steady \subseteq Pages_!Matching(seek.filter))'
      <3>1. (Pages_!Matching(seek.filter))' = Pages_!Matching(seek'.filter)
        BY <1>1 DEF Pages_!Matching
      <3> QED BY <2>1, <3>1
    <2> QED BY <2>1, <2>2, <2>3 DEF SeekSteady
  <1> QED BY <1>5, <1>6, <1>7, SeekMeansNext, Zenon DEF Pages_!PageInv

LEMMA PageSeeks ==
    ASSUME Pages_!PageInv, Pages_!SeekPage
    PROVE  Pages_!PageInv'
  <1> DEFINE page == Pages_!toCursorPage(Pages_!Rows(seek.filter, seek.after))
             t == [seek EXCEPT !.seen = @ \o page.data, !.after = page.nextCursor,
                               !.hasMore = page.hasMore]
  <1>1. /\ seek # NULL /\ seek.hasMore /\ seek' = t
        /\ UNCHANGED <<table, reviews, export>>
    BY Zenon DEF Pages_!SeekPage
  <1>2. Pages_!TypeOK /\ Pages_!SeekInv /\ Pages_!ExportInv
    BY Zenon DEF Pages_!PageInv
  <1>3. IsPage(page, Found(seek.filter, seek.after))
    BY <1>2, PageIsCut
  <1>4. seek \in Pages_!Seeker /\ SeekSteady(seek)
    <2>1. seek \in Pages_!Seeker
      BY <1>1, <1>2 DEF Pages_!TypeOK
    <2> QED BY <1>1, <1>2, <2>1, SeekMeans, Zenon
  <1> HIDE DEF page
  <1>5. /\ t.filter = seek.filter /\ t.steady = seek.steady
        /\ t.seen = seek.seen \o page.data /\ t.after = page.nextCursor
        /\ t.hasMore = page.hasMore
    BY <1>4 DEF Pages_!Seeker
  <1> HIDE DEF t
  <1>6. /\ SeekSteady(t)
        /\ t.seen \in Seq(Id) /\ t.hasMore \in BOOLEAN
        /\ t.after \in Pages_!Cursor \cup {NULL}
    BY <1>1, <1>2, <1>3, <1>4, <1>5, SeenGrows
  <1>7. seek' \in Pages_!Seeker
    <2>1. /\ seek.seen \o page.data \in Seq(Id) /\ page.hasMore \in BOOLEAN
          /\ page.nextCursor \in Pages_!Cursor \cup {NULL}
      BY <1>5, <1>6, Zenon
    <2>2. t \in Pages_!Seeker
      BY <1>4, <2>1 DEF Pages_!Seeker, t
    <2> QED BY <1>1, <2>2, Zenon
  <1>8. Pages_!TypeOK'
    BY <1>1, <1>2, <1>7 DEF Pages_!TypeOK
  <1>9. (SeekSteady(seek))'
    <2>1. (SeekSteady(seek))' <=> SeekSteady(seek')
      BY <1>1 DEF SeekSteady, Pages_!Matching, Pages_!Beyond
    <2> QED BY <1>1, <1>6, <2>1
  <1>10. Pages_!ExportInv'
    BY <1>1, <1>2 DEF Pages_!ExportInv, Pages_!TotallyOrdered, Pages_!NotAfter, Pages_!Matching
  <1> QED BY <1>8, <1>9, <1>10, SeekMeansNext, Zenon DEF Pages_!PageInv

LEMMA ExportMeansNext ==
    ASSUME (export # NULL /\ export.quiet /\ Pages_!TotallyOrdered => ExportWhole(export))'
    PROVE  Pages_!ExportInv'
  <1> DEFINE s == export'.seen
  <1>1. /\ Pages_!IsInjective(s) = IsInjective(s)
        /\ Pages_!Range(s) = Range(s)
        /\ Pages_!Cardinality(Range(s)) = Cardinality(Range(s))
    <2> HIDE DEF s
    <2> QED BY PageLibrary, Zenon
  <1>2. /\ (Pages_!IsInjective(export.seen))' = (IsInjective(export.seen))'
        /\ (Pages_!Range(export.seen))' = (Range(export.seen))'
        /\ (Pages_!Cardinality(Range(export.seen)))' = (Cardinality(Range(export.seen)))'
    BY <1>1
  <1> QED BY <1>2, Zenon DEF Pages_!ExportInv, ExportWhole

LEMMA PageExportStart ==
    ASSUME Pages_!PageInv, Pages_!ExportStart
    PROVE  Pages_!PageInv'
  <1>1. /\ seek = NULL /\ UNCHANGED <<table, reviews, seek>>
        /\ export' = [skip |-> 0, seen |-> <<>>, quiet |-> TRUE, more |-> TRUE]
    BY Zenon DEF Pages_!ExportStart, Pages_!NoReader
  <1>2. export' \in Pages_!Exporter
    <2>1. <<>> \in Seq(Id)
      OBVIOUS
    <2> QED BY <1>1, <2>1 DEF Pages_!Exporter
  <1>3. Pages_!TypeOK'
    BY <1>1, <1>2 DEF Pages_!PageInv, Pages_!TypeOK
  <1>4. Pages_!SeekInv'
    BY <1>1, Zenon DEF Pages_!SeekInv
  <1>5. (ExportWhole(export))'
    <2>1. export'.seen = <<>> /\ export'.more /\ export'.skip = 0
      BY <1>1
    <2>2. IsInjective(<<>>) /\ Range(<<>>) = {}
      BY DEF IsInjective, Range
    <2>3. Cardinality({}) = 0
      BY FS_EmptySet
    <2>4. \A T : (Pages_!NotAfter({}, T))'
      BY DEF Pages_!NotAfter
    <2> QED BY <2>1, <2>2, <2>3, <2>4 DEF ExportWhole
  <1> QED BY <1>3, <1>4, <1>5, ExportMeansNext, Zenon DEF Pages_!PageInv

LEMMA PageExports ==
    ASSUME Pages_!PageInv, Pages_!ExportPage
    PROVE  Pages_!PageInv'
  <1>1. PICK page \in Pages_!OffsetPages(export.skip) :
          export' = [export EXCEPT !.seen = @ \o Pages_!SetToSeq(page),
                                   !.more = Pages_!Cardinality(page) = PageSize,
                                   !.skip = @ + PageSize]
    BY Zenon DEF Pages_!ExportPage
  <1>2. export # NULL /\ export.more /\ UNCHANGED <<table, reviews, seek>>
    BY Zenon DEF Pages_!ExportPage
  <1>3. Pages_!TypeOK /\ Pages_!SeekInv /\ Pages_!ExportInv
    BY Zenon DEF Pages_!PageInv
  <1>4. /\ export \in Pages_!Exporter /\ export.skip \in Nat /\ export.seen \in Seq(Id)
    BY <1>2, <1>3 DEF Pages_!TypeOK, Pages_!Exporter
  <1>5. /\ page \subseteq Id /\ IsFiniteSet(page)
    <2>1. IsOffsetPage(page, export.skip, Pages_!Matching(NULL))
      BY <1>3, <1>4, PageOfExport
    <2> QED BY <1>3, <2>1, PageKnown DEF IsOffsetPage
  <1> DEFINE more == Cardinality(page) = PageSize
             seen == export.seen \o Pages_!SetToSeq(page)
  <1>6. seen \in Seq(Id)
    <2>1. Pages_!SetToSeq(page) \in Seq(page)
      BY <1>5, ReadInOrder, Zenon
    <2>2. Pages_!SetToSeq(page) \in Seq(Id)
      BY <1>5, <2>1
    <2> QED BY <1>4, <2>2, ReadOn
  <1>7. /\ export' = [export EXCEPT !.seen = seen, !.more = more, !.skip = @ + PageSize]
        /\ more \in BOOLEAN
    <2>1. Pages_!Cardinality(page) = Cardinality(page)
      BY PageLibrary, Zenon
    <2> QED BY <1>1, <2>1
  <1> HIDE DEF more, seen
  <1>8. /\ export' \in Pages_!Exporter
        /\ export'.seen = seen /\ export'.more = more /\ export'.quiet = export.quiet
        /\ export'.skip = export.skip + PageSize
    <2> DEFINE skip == export.skip + PageSize
    <2>1. skip \in Nat
      BY <1>4, PageParameters
    <2>2. export' = [export EXCEPT !.seen = seen, !.more = more, !.skip = skip]
      BY <1>7
    <2> HIDE DEF skip
    <2>3. /\ export' \in Pages_!Exporter
          /\ export'.seen = seen /\ export'.more = more /\ export'.quiet = export.quiet
          /\ export'.skip = skip
      BY <1>4, <1>6, <1>7, <2>1, <2>2 DEF Pages_!Exporter
    <2> QED BY <2>3 DEF skip
  <1>9. Pages_!TypeOK'
    BY <1>2, <1>3, <1>8 DEF Pages_!TypeOK
  <1>10. Pages_!SeekInv'
    BY <1>2, <1>3 DEF Pages_!SeekInv, Pages_!Matching, Pages_!Beyond
  <1> DEFINE f == [seen |-> seen, more |-> more, skip |-> export.skip + PageSize]
  <1>11. ASSUME export.quiet, Pages_!TotallyOrdered
         PROVE  ExportWhole(f)
    <2>1. ExportWhole(export)
      BY <1>2, <1>3, <1>11, ExportMeans, Zenon
    <2>2. /\ f.seen = export.seen \o Pages_!SetToSeq(page)
          /\ f.more = (Cardinality(page) = PageSize)
          /\ f.skip = export.skip + PageSize
      BY DEF seen, more
    <2> HIDE DEF f
    <2> QED BY <1>2, <1>3, <1>4, <1>11, <2>1, <2>2, ReadGrows
  <1>12. (export.quiet /\ Pages_!TotallyOrdered => ExportWhole(export))'
    <2> SUFFICES ASSUME export'.quiet, Pages_!TotallyOrdered'
                 PROVE  (ExportWhole(export))'
      OBVIOUS
    <2>1. ExportWhole(f)
      BY <1>2, <1>8, <1>11, TableRests, Zenon
    <2>2. f.seen = export'.seen /\ f.more = export'.more /\ f.skip = export'.skip
      BY <1>8
    <2>3. /\ (Pages_!Matching(NULL))' = Pages_!Matching(NULL)
          /\ \A S, T : (Pages_!NotAfter(S, T))' <=> Pages_!NotAfter(S, T)
      BY <1>2, TableRests, Zenon
    <2> HIDE DEF f
    <2> QED BY <2>1, <2>2, <2>3 DEF ExportWhole
  <1> QED BY <1>9, <1>10, <1>12, ExportMeansNext, Zenon DEF Pages_!PageInv

LEMMA PageNext == Pages_!PageInv /\ Pages_!Next => Pages_!PageInv'
  <1> SUFFICES ASSUME Pages_!PageInv, Pages_!Next PROVE Pages_!PageInv'
    OBVIOUS
  <1>1. CASE \E i \in Id : Pages_!Review(i)
    BY <1>1, PageReview
  <1>2. CASE \E i \in Id, t \in Moment : Pages_!Insert(i, t)
    BY <1>2, PageInsert
  <1>3. CASE \E filter \in {NULL, "PENDING"} : Pages_!SeekStart(filter)
    BY <1>3, PageSeekStart
  <1>4. CASE Pages_!SeekPage
    BY <1>4, PageSeeks
  <1>5. CASE Pages_!ExportStart
    BY <1>5, PageExportStart
  <1>6. CASE Pages_!ExportPage
    BY <1>6, PageExports
  <1> QED BY <1>1, <1>2, <1>3, <1>4, <1>5, <1>6, Zenon DEF Pages_!Next

LEMMA PagesAlone ==
    [MarketplaceNext]_marketVars => Pages_!Next \/ UNCHANGED pageVars
  BY Zenon DEF MarketplaceNext, marketVars, peopleVars

LEMMA PageStep ==
    Pages_!PageInv /\ [MarketplaceNext]_marketVars => Pages_!PageInv'
  <1> SUFFICES ASSUME Pages_!PageInv, UNCHANGED pageVars PROVE Pages_!PageInv'
    BY PageNext, PagesAlone
  <1>1. UNCHANGED <<table, reviews, seek, export>>
    BY DEF pageVars
  <1> QED
    BY <1>1 DEF Pages_!PageInv, Pages_!TypeOK, Pages_!SeekInv, Pages_!ExportInv,
       Pages_!Matching, Pages_!Beyond, Pages_!NotAfter, Pages_!TotallyOrdered

LEMMA PagesAreWhole == Pages_!PageInv => Pages_!EachRowOnce
  BY Zenon DEF Pages_!PageInv, Pages_!SeekInv, Pages_!ExportInv, Pages_!EachRowOnce

\* Whatever rows are inserted or reviewed between two pages, for any rows, times
\* and page size: a reader by cursor gets no row twice and, when it is told that
\* there are no more, has every row that matched all the time; so has an export by
\* offset, if the table rested and no two rows have the same time
\* (conversion.repository.ts, pagination.ts, csv.ts).
THEOREM RowsAreReadOnce == MarketplaceSpec => [](component = "pages" => Pages_!EachRowOnce)
  <1>1. MarketplaceInit => Pages_!PageInv
    BY PageInit, Zenon DEF MarketplaceInit
  <1>2. Pages_!PageInv /\ [MarketplaceNext]_marketVars => Pages_!PageInv'
    BY PageStep
  <1>3. Pages_!PageInv => (component = "pages" => Pages_!EachRowOnce)
    BY PagesAreWhole
  <1> QED
    BY <1>1, <1>2, <1>3, PTL DEF MarketplaceSpec, marketVars

-----------------------------------------------------------------------------
(* Reports: what they add up to (Reports.tla). *)

\* What the reports are made for.
ReportBrand == {acme, bolt}
ReportCampaign == {shoes, lamps}
ReportLink == {shoesLink, lampsLink}
CampaignBrand == shoes :> acme @@ lamps :> bolt
LinkCampaign == shoesLink :> shoes @@ lampsLink :> lamps
LinkPartner == [l \in {shoesLink, lampsLink} |-> alice]
SaleValue == sale :> 9

LEMMA ReportParameters ==
    /\ IsFiniteSet(ReportCampaign) /\ CampaignBrand \in [ReportCampaign -> ReportBrand]
    /\ IsFiniteSet(ReportLink) /\ LinkCampaign \in [ReportLink -> ReportCampaign]
    /\ LinkPartner \in [ReportLink -> {alice}]
    /\ ReportBrand \cap {alice} = {}
    /\ IsFiniteSet(Click) /\ IsFiniteSet({sale}) /\ SaleValue \in [{sale} -> Nat]
    /\ MaxTime \in Nat /\ DefaultDays \in Nat /\ MaxRange \in Nat
    /\ NULL \notin {tag} \cup Nat
    /\ NULL \notin Reports!ClickRow /\ NULL \notin Reports!ConversionRow
  <1>1. Reports!ReportAssumption
    BY MarketplaceAssumption DEF MarketplaceAssumption
  <1> QED
    BY <1>1, Zenon DEF Reports!ReportAssumption, Reports!IsFiniteSet, IsFiniteSet,
       ReportBrand, ReportCampaign, ReportLink, CampaignBrand, LinkCampaign,
       LinkPartner, SaleValue

LEMMA ReportLibrary ==
    /\ \A S : Reports!Cardinality(S) = Cardinality(S)
    /\ \A f, S : Reports!SumFunctionOnSet(f, S) = SumFunctionOnSet(f, S)
  BY DEF Reports!Cardinality, Cardinality, Reports!SumFunctionOnSet,
     Reports!FoldFunctionOnSet, Reports!MapThenFoldSet,
     SumFunctionOnSet, FoldFunctionOnSet, MapThenFoldSet

\* What the reports select from.
CountedOf(w, own) == {c \in Reports!Counted(w) : click[c].link \in own}
OccurredOf(w, own) == {v \in Reports!Occurred(w) : conversion[v].link \in own}
FilteredOf(w, p, own) == {v \in Reports!Filtered(w, p) : conversion[v].link \in own}

LEMMA ReportRows ==
    ASSUME Reports!TypeOK
    PROVE  /\ \A c \in Click : click[c] # NULL =>
                /\ click[c].link \in ReportLink /\ click[c].at \in Nat
                /\ click[c].tag \in {tag, NULL}
           /\ \A v \in {sale} : conversion[v] # NULL =>
                /\ conversion[v].link \in ReportLink /\ conversion[v].at \in Nat
                /\ conversion[v].tag \in {tag, NULL}
                /\ conversion[v].status \in {"PENDING", "APPROVED", "REJECTED"}
  <1>1. \A c \in Click : click[c] # NULL => click[c] \in Reports!ClickRow
    BY DEF Reports!TypeOK
  <1>2. \A v \in {sale} : conversion[v] # NULL => conversion[v] \in Reports!ConversionRow
    BY Zenon DEF Reports!TypeOK
  <1>3. \A r \in Reports!ClickRow : /\ r.link \in ReportLink /\ r.at \in Nat
                                    /\ r.tag \in {tag, NULL}
    BY ReportParameters DEF Reports!ClickRow, Reports!Time, ReportLink
  <1>4. \A r \in Reports!ConversionRow :
          /\ r.link \in ReportLink /\ r.at \in Nat /\ r.tag \in {tag, NULL}
          /\ r.status \in {"PENDING", "APPROVED", "REJECTED"}
    BY ReportParameters DEF Reports!ConversionRow, Reports!Time, Reports!Statuses, ReportLink
  <1> QED BY <1>1, <1>2, <1>3, <1>4, Zenon

LEMMA Selected ==
    \A w, own : /\ IsFiniteSet(CountedOf(w, own)) /\ CountedOf(w, own) \subseteq Click
                  /\ IsFiniteSet(OccurredOf(w, own)) /\ OccurredOf(w, own) \subseteq {sale}
                  /\ \A p : /\ IsFiniteSet(FilteredOf(w, p, own))
                            /\ FilteredOf(w, p, own) \subseteq OccurredOf(w, own)
                            /\ FilteredOf(w, p, own) \subseteq {sale}
  <1> SUFFICES ASSUME NEW w, NEW own
               PROVE  /\ IsFiniteSet(CountedOf(w, own)) /\ CountedOf(w, own) \subseteq Click
                      /\ IsFiniteSet(OccurredOf(w, own)) /\ OccurredOf(w, own) \subseteq {sale}
                      /\ \A p : /\ IsFiniteSet(FilteredOf(w, p, own))
                                /\ FilteredOf(w, p, own) \subseteq OccurredOf(w, own)
                                /\ FilteredOf(w, p, own) \subseteq {sale}
    OBVIOUS
  <1>1. CountedOf(w, own) \in SUBSET Click
    BY DEF CountedOf, Reports!Counted
  <1>2. OccurredOf(w, own) \in SUBSET {sale}
    BY DEF OccurredOf, Reports!Occurred
  <1>3. \A p : FilteredOf(w, p, own) \in SUBSET OccurredOf(w, own)
    BY DEF FilteredOf, OccurredOf, Reports!Filtered
  <1>4. IsFiniteSet(CountedOf(w, own)) /\ IsFiniteSet(OccurredOf(w, own))
    BY <1>1, <1>2, ReportParameters, FS_Subset
  <1>5. \A p : IsFiniteSet(FilteredOf(w, p, own))
    BY <1>3, <1>4, FS_Subset
  <1> QED BY <1>1, <1>2, <1>3, <1>4, <1>5

\* T has a row for each of K, and what its columns then add up to.
IsGrouping(T, K, X, Y, ck, vk) ==
    /\ IsFiniteSet(K) /\ IsFiniteSet(X) /\ IsFiniteSet(Y) /\ Y \subseteq {sale}
    /\ T = {Reports!BreakdownRow(k, {c \in X : ck[c] = k}, {v \in Y : vk[v] = k}) : k \in K}

ColumnsAddUp(T, K, X, Y, ck, vk) ==
    /\ Reports!Total(T, "clicks") = Cardinality({c \in X : ck[c] \in K})
    /\ Reports!Total(T, "conversions") = Cardinality({v \in Y : vk[v] \in K})
    /\ Reports!Total(T, "revenue") = SumFunctionOnSet(SaleValue, {v \in Y : vk[v] \in K})
    /\ \A r \in T : /\ r.key \in K
                    /\ r.clicks = Cardinality({c \in X : ck[c] = r.key})
                    /\ r.conversions = Cardinality({v \in Y : vk[v] = r.key})

\* A breakdown adds up to what has one of its keys.
LEMMA GroupsAddUp ==
    ASSUME NEW table_, NEW K, NEW X, NEW Y, NEW ck, NEW vk,
           IsGrouping(table_, K, X, Y, ck, vk)
    PROVE  ColumnsAddUp(table_, K, X, Y, ck, vk)
  <1> SUFFICES
           /\ Reports!Total(table_, "clicks") = Cardinality({c \in X : ck[c] \in K})
           /\ Reports!Total(table_, "conversions") = Cardinality({v \in Y : vk[v] \in K})
           /\ Reports!Total(table_, "revenue")
                 = SumFunctionOnSet(SaleValue, {v \in Y : vk[v] \in K})
           /\ \A r \in table_ : /\ r.key \in K
                                /\ r.clicks = Cardinality({c \in X : ck[c] = r.key})
                                /\ r.conversions = Cardinality({v \in Y : vk[v] = r.key})
    BY Zenon DEF ColumnsAddUp
  <1>0. /\ IsFiniteSet(K) /\ IsFiniteSet(X) /\ IsFiniteSet(Y) /\ Y \subseteq {sale}
        /\ table_ = {Reports!BreakdownRow(k, {c \in X : ck[c] = k},
                                          {v \in Y : vk[v] = k}) : k \in K}
    BY Zenon DEF IsGrouping
  <1> USE <1>0
  <1> DEFINE C(k) == {c \in X : ck[c] = k}
             V(k) == {v \in Y : vk[v] = k}
             b == [k \in K |-> [key |-> k, clicks |-> Cardinality(C(k)),
                                conversions |-> Cardinality(V(k)),
                                revenue |-> SumFunctionOnSet(SaleValue, V(k))]]
             ones == [c \in X |-> 1]
             units == [v \in Y |-> 1]
  <1>1. /\ \A k : IsFiniteSet(C(k)) /\ Cardinality(C(k)) \in Nat
        /\ \A k : IsFiniteSet(V(k)) /\ Cardinality(V(k)) \in Nat /\ V(k) \subseteq {sale}
    <2>1. \A k : C(k) \in SUBSET X /\ V(k) \in SUBSET Y
      OBVIOUS
    <2> HIDE DEF C, V
    <2> QED BY <2>1, FS_Subset, FS_CardinalityType
  <1>2. \A v \in {sale} : SaleValue[v] \in Nat
    BY ReportParameters
  <1>3. \A k : SumFunctionOnSet(SaleValue, V(k)) \in Nat
    <2> SUFFICES ASSUME NEW k PROVE SumFunctionOnSet(SaleValue, V(k)) \in Nat
      OBVIOUS
    <2> DEFINE S == V(k)
    <2>1. IsFiniteSet(S) /\ S \subseteq {sale}
      BY <1>1
    <2> HIDE DEF S
    <2>2. SumFunctionOnSet(SaleValue, S) \in Nat
      BY <1>2, <2>1, SumType
    <2> QED BY <2>2 DEF S
  <1>4. \A k \in K : Reports!BreakdownRow(k, C(k), V(k)) = b[k]
    BY ReportLibrary DEF Reports!BreakdownRow, Reports!Revenue, SaleValue
  <1>5. \A k \in K : /\ b[k].key = k /\ b[k]["clicks"] = Cardinality(C(k))
                     /\ b[k]["conversions"] = Cardinality(V(k))
                     /\ b[k]["revenue"] = SumFunctionOnSet(SaleValue, V(k))
                     /\ b[k].clicks = Cardinality(C(k))
                     /\ b[k].conversions = Cardinality(V(k))
    OBVIOUS
  <1> HIDE DEF b
  <1>6. table_ = {b[k] : k \in K}
    BY <1>4
  <1>7. \A r \in table_ : \E k \in K : r = b[k]
    BY <1>6
  <1>8. \A r \in table_ : /\ r.key \in K
                          /\ r.clicks = Cardinality({c \in X : ck[c] = r.key})
                          /\ r.conversions = Cardinality({v \in Y : vk[v] = r.key})
    <2> SUFFICES ASSUME NEW r \in table_
                 PROVE  /\ r.key \in K
                        /\ r.clicks = Cardinality(C(r.key))
                        /\ r.conversions = Cardinality(V(r.key))
      OBVIOUS
    <2>1. PICK k \in K : r = b[k]
      BY <1>7
    <2> HIDE DEF C, V
    <2> QED BY <1>5, <2>1
  <1>9. \A j, k \in K : b[j] = b[k] => j = k
    BY <1>5
  <1> DEFINE cg == [k \in K |-> C(k)]
             vg == [k \in K |-> V(k)]
             A == {c \in X : ck[c] \in K}
             B == {v \in Y : vk[v] \in K}
  <1>10. /\ \A k \in K : /\ cg[k] \in SUBSET X
                         /\ \A c \in X : c \in cg[k] <=> ck[c] = k
         /\ \A k \in K : /\ vg[k] \in SUBSET Y
                         /\ \A v \in Y : v \in vg[k] <=> vk[v] = k
    OBVIOUS
  <1>11. /\ A \in SUBSET X /\ \A c \in X : c \in A <=> ck[c] \in K
         /\ B \in SUBSET Y /\ \A v \in Y : v \in B <=> vk[v] \in K
    OBVIOUS
  <1>12. /\ \A k \in K : cg[k] = C(k) /\ vg[k] = V(k)
         /\ \A c \in X : ones[c] = 1
         /\ \A v \in Y : units[v] = 1
    OBVIOUS
  <1>13. /\ IsFiniteSet(A) /\ IsFiniteSet(B)
    BY FS_Subset
  <1> HIDE DEF C, V, cg, vg, A, B, ones, units
  <1>14. \A k \in K : /\ Cardinality(C(k)) = SumFunctionOnSet(ones, cg[k])
                      /\ Cardinality(V(k)) = SumFunctionOnSet(units, vg[k])
    <2> SUFFICES ASSUME NEW k \in K
                 PROVE  /\ Cardinality(C(k)) = SumFunctionOnSet(ones, cg[k])
                        /\ Cardinality(V(k)) = SumFunctionOnSet(units, vg[k])
      OBVIOUS
    <2>1. /\ IsFiniteSet(cg[k]) /\ \A c \in cg[k] : ones[c] = 1
          /\ IsFiniteSet(vg[k]) /\ \A v \in vg[k] : units[v] = 1
      BY <1>1, <1>10, <1>12
    <2> QED BY <1>12, <2>1, SizeIsSum
  <1>15. /\ SumFunctionOnSet(ones, A) = Cardinality(A)
         /\ SumFunctionOnSet(units, B) = Cardinality(B)
    BY <1>11, <1>12, <1>13, SizeIsSum
  <1>16. Reports!Total(table_, "clicks") = Cardinality(A)
    <2> DEFINE f == [k \in K |-> Cardinality(C(k))]
               g == [r \in table_ |-> r["clicks"]]
    <2>1. /\ \A k \in K : f[k] \in Nat /\ g[b[k]] = f[k]
          /\ \A k \in K : f[k] = SumFunctionOnSet(ones, cg[k])
          /\ \A c \in X : ones[c] \in Nat
      <3>1. \A k \in K : b[k] \in table_
        BY <1>6
      <3>2. \A k \in K : f[k] \in Nat /\ g[b[k]] = f[k]
        BY <1>1, <1>5, <3>1
      <3>3. \A k \in K : f[k] = SumFunctionOnSet(ones, cg[k])
        BY <1>14
      <3>4. \A c \in X : ones[c] \in Nat
        BY <1>12
      <3> QED BY <3>2, <3>3, <3>4, Zenon
    <2>2. Reports!Total(table_, "clicks") = SumFunctionOnSet(g, table_)
      BY ReportLibrary DEF Reports!Total
    <2> HIDE DEF f, g
    <2>3. SumFunctionOnSet(f, K) = SumFunctionOnSet(g, {b[k] : k \in K})
      BY <1>9, <2>1, SumMoves
    <2>4. Grouped(ones, X, K, ck, cg, A, f)
      BY <1>10, <1>11, <2>1 DEF Grouped
    <2>5. SumFunctionOnSet(f, K) = SumFunctionOnSet(ones, A)
      BY <2>4, SumGroups
    <2> QED BY <1>6, <1>15, <2>2, <2>3, <2>5, Zenon
  <1>17. Reports!Total(table_, "conversions") = Cardinality(B)
    <2> DEFINE f == [k \in K |-> Cardinality(V(k))]
               g == [r \in table_ |-> r["conversions"]]
    <2>1. /\ \A k \in K : f[k] \in Nat /\ g[b[k]] = f[k]
          /\ \A k \in K : f[k] = SumFunctionOnSet(units, vg[k])
          /\ \A v \in Y : units[v] \in Nat
      <3>1. \A k \in K : b[k] \in table_
        BY <1>6
      <3>2. \A k \in K : f[k] \in Nat /\ g[b[k]] = f[k]
        BY <1>1, <1>5, <3>1
      <3>3. \A k \in K : f[k] = SumFunctionOnSet(units, vg[k])
        BY <1>14
      <3>4. \A v \in Y : units[v] \in Nat
        BY <1>12
      <3> QED BY <3>2, <3>3, <3>4, Zenon
    <2>2. Reports!Total(table_, "conversions") = SumFunctionOnSet(g, table_)
      BY ReportLibrary DEF Reports!Total
    <2> HIDE DEF f, g
    <2>3. SumFunctionOnSet(f, K) = SumFunctionOnSet(g, {b[k] : k \in K})
      BY <1>9, <2>1, SumMoves
    <2>4. Grouped(units, Y, K, vk, vg, B, f)
      BY <1>10, <1>11, <2>1 DEF Grouped
    <2>5. SumFunctionOnSet(f, K) = SumFunctionOnSet(units, B)
      BY <2>4, SumGroups
    <2> QED BY <1>6, <1>15, <2>2, <2>3, <2>5, Zenon
  <1>18. Reports!Total(table_, "revenue") = SumFunctionOnSet(SaleValue, B)
    <2> DEFINE f == [k \in K |-> SumFunctionOnSet(SaleValue, V(k))]
               g == [r \in table_ |-> r["revenue"]]
    <2>1. /\ \A k \in K : f[k] \in Nat /\ g[b[k]] = f[k]
          /\ \A k \in K : f[k] = SumFunctionOnSet(SaleValue, vg[k])
          /\ \A v \in Y : SaleValue[v] \in Nat
      BY <1>2, <1>3, <1>5, <1>6, <1>12
    <2>2. Reports!Total(table_, "revenue") = SumFunctionOnSet(g, table_)
      BY ReportLibrary DEF Reports!Total
    <2> HIDE DEF f, g
    <2>3. SumFunctionOnSet(f, K) = SumFunctionOnSet(g, {b[k] : k \in K})
      BY <1>9, <2>1, SumMoves
    <2>4. Grouped(SaleValue, Y, K, vk, vg, B, f)
      BY <1>10, <1>11, <2>1 DEF Grouped
    <2>5. SumFunctionOnSet(f, K) = SumFunctionOnSet(SaleValue, B)
      BY <2>4, SumGroups
    <2> QED BY <1>6, <2>2, <2>3, <2>5, Zenon
  <1> QED BY <1>8, <1>16, <1>17, <1>18, Zenon DEF A, B

\* A window that may be asked for does not end before it starts.
LEMMA WindowsAre ==
    \A w \in Reports!Window : w.start \in Int /\ w.end \in Int /\ w.start <= w.end
  <1> DEFINE T == Reports!Time \cup {NULL}
  <1>1. \A t \in Reports!Time : t \in Nat /\ t # NULL
    BY ReportParameters DEF Reports!Time
  <1>2. DefaultDays * 1 \in Int
    BY ReportParameters
  <1>3. ASSUME NEW from \in T, NEW to \in T, NEW n \in Reports!Time
        PROVE  LET r == Reports!resolveRange(from, to, n)
               IN  r.ok => /\ r.range.start \in Int /\ r.range.end \in Int
                           /\ r.range.start <= r.range.end
    <2> DEFINE e == IF to = NULL THEN n ELSE to
               s == IF from = NULL THEN e - DefaultDays * 1 ELSE from
    <2>1. e \in Int /\ s \in Int /\ n \in Int
      BY <1>1, <1>2
    <2>2. Reports!resolveRange(from, to, n) =
            CASE s > n -> Reports!Refused("start_in_future")
              [] s <= n /\ e < s -> Reports!Refused("end_before_start")
              [] s <= n /\ e - s > MaxRange -> Reports!Refused("range_too_long")
              [] OTHER -> [ok |-> TRUE, range |-> [start |-> s, end |-> e]]
      BY Zenon DEF Reports!resolveRange
    <2> HIDE DEF e, s
    <2>3. \A x : Reports!Refused(x).ok = FALSE
      BY DEF Reports!Refused
    <2>4. CASE s > n \/ (s <= n /\ e < s) \/ (s <= n /\ e - s > MaxRange)
      BY <2>2, <2>3, <2>4
    <2>5. CASE ~(s > n \/ (s <= n /\ e < s) \/ (s <= n /\ e - s > MaxRange))
      <3>1. Reports!resolveRange(from, to, n)
              = [ok |-> TRUE, range |-> [start |-> s, end |-> e]]
        BY <2>2, <2>5
      <3>2. s <= e
        BY <2>1, <2>5
      <3> QED BY <2>1, <3>1, <3>2
    <2> QED BY <2>4, <2>5, Zenon
  <1>4. \A w \in Reports!Window :
          \E from \in T, to \in T, n \in Reports!Time :
             LET r == Reports!resolveRange(from, to, n) IN r.ok /\ w = r.range
    BY DEF Reports!Window
  <1> QED
    <2> TAKE w \in Reports!Window
    <2>1. PICK from \in T, to \in T, n \in Reports!Time :
             LET r == Reports!resolveRange(from, to, n) IN r.ok /\ w = r.range
      BY <1>4, Zenon
    <2> QED BY <1>3, <2>1, Zenon

\* The days of a series are those of what is in its window.
LEMMA DaysCover ==
    ASSUME NEW w, w.start \in Int, w.end \in Int, w.start <= w.end, NEW at \in Nat,
           Reports!Within(at, w)
    PROVE  at \div 1 \in (w.start \div 1)..(w.end \div 1)
  <1>1. /\ w.start <= at /\ at <= w.end
    BY DEF Reports!Within
  <1> DEFINE d == 1
  <1>2. d \in Nat \ {0}
    OBVIOUS
  <1> HIDE DEF d
  <1>3. /\ w.start \div d \in Int /\ at \div d \in Int /\ w.end \div d \in Int
        /\ w.start \div d <= at \div d /\ at \div d <= w.end \div d
    BY <1>1, <1>2, WholeParts
  <1> QED BY <1>3 DEF d

\* A series adds up to what is in its window.
LEMMA SeriesTotals ==
    ASSUME Reports!TypeOK, NEW scope,
           NEW w, w.start \in Int, w.end \in Int, w.start <= w.end
    PROVE  LET own == Reports!LinksOf(scope) IN
           /\ Reports!TotalOfSeries(scope, w, "clicks") = Cardinality(CountedOf(w, own))
           /\ Reports!TotalOfSeries(scope, w, "conversions")
                = Cardinality(OccurredOf(w, own))
           /\ Reports!TotalOfSeries(scope, w, "revenue")
                = SumFunctionOnSet(SaleValue, OccurredOf(w, own))
  <1> DEFINE own == Reports!LinksOf(scope)
             X == CountedOf(w, own)
             Y == OccurredOf(w, own)
             K == (w.start \div 1)..(w.end \div 1)
             ck == [c \in Click |-> click[c].at \div 1]
             vk == [v \in {sale} |-> conversion[v].at \div 1]
             C(k) == {c \in X : ck[c] = k}
             V(k) == {v \in Y : vk[v] = k}
             cg == [k \in K |-> C(k)]
             vg == [k \in K |-> V(k)]
             ones == [c \in X |-> 1]
             units == [v \in Y |-> 1]
  <1>1. IsFiniteSet(K)
    BY FS_Interval
  <1>2. /\ IsFiniteSet(X) /\ X \subseteq Click /\ IsFiniteSet(Y) /\ Y \subseteq {sale}
    BY Selected
  <1>3. \A c \in X : click[c] # NULL /\ Reports!Within(click[c].at, w)
    BY DEF CountedOf, Reports!Counted
  <1>4. \A v \in Y : conversion[v] # NULL /\ Reports!Within(conversion[v].at, w)
    BY DEF OccurredOf, Reports!Occurred
  <1>5. \A c \in X : ck[c] \in K
    BY <1>2, <1>3, ReportRows, DaysCover
  <1>6. \A v \in Y : vk[v] \in K
    BY <1>2, <1>4, ReportRows, DaysCover
  <1>7. \A v \in {sale} : SaleValue[v] \in Nat
    BY ReportParameters
  <1>8. \A day \in K : Reports!SeriesDay(scope, w, day) =
           [clicks |-> Cardinality(C(day)), conversions |-> Cardinality(V(day)),
            revenue |-> SumFunctionOnSet(SaleValue, V(day))]
    <2> SUFFICES ASSUME NEW day \in K
                 PROVE  Reports!SeriesDay(scope, w, day) =
           [clicks |-> Cardinality(C(day)), conversions |-> Cardinality(V(day)),
            revenue |-> SumFunctionOnSet(SaleValue, V(day))]
      OBVIOUS
    <2> DEFINE cs == {v \in Reports!Occurred(w) : /\ conversion[v].link \in own
                                                  /\ conversion[v].at \div 1 = day}
               ks == {c \in Reports!Counted(w) : /\ click[c].link \in own
                                                 /\ click[c].at \div 1 = day}
    <2>1. cs = V(day)
      BY <1>2 DEF OccurredOf
    <2>2. ks = C(day)
      BY <1>2 DEF CountedOf
    <2>3. Reports!SeriesDay(scope, w, day) =
            [clicks |-> Cardinality(ks), conversions |-> Cardinality(cs),
             revenue |-> SumFunctionOnSet(SaleValue, cs)]
      BY ReportLibrary, Zenon DEF Reports!SeriesDay, Reports!Revenue, SaleValue
    <2> QED BY <2>1, <2>2, <2>3, Zenon
  <1>9. /\ Reports!TotalOfSeries(scope, w, "clicks")
              = SumFunctionOnSet([day \in K |-> Cardinality(C(day))], K)
        /\ Reports!TotalOfSeries(scope, w, "conversions")
              = SumFunctionOnSet([day \in K |-> Cardinality(V(day))], K)
        /\ Reports!TotalOfSeries(scope, w, "revenue")
              = SumFunctionOnSet([day \in K |-> SumFunctionOnSet(SaleValue, V(day))], K)
    <2> DEFINE s == Reports!Series(scope, w)
    <2>1. s = [day \in K |-> Reports!SeriesDay(scope, w, day)]
      BY Zenon DEF Reports!Series
    <2>2. DOMAIN s = K
      BY <2>1
    <2> HIDE DEF s, C, V, K
    <2>3. \A day \in K : /\ s[day]["clicks"] = Cardinality(C(day))
                         /\ s[day]["conversions"] = Cardinality(V(day))
                         /\ s[day]["revenue"] = SumFunctionOnSet(SaleValue, V(day))
      BY <1>8, <2>1
    <2>4. /\ [day \in K |-> s[day]["clicks"]] = [day \in K |-> Cardinality(C(day))]
          /\ [day \in K |-> s[day]["conversions"]] = [day \in K |-> Cardinality(V(day))]
          /\ [day \in K |-> s[day]["revenue"]]
                = [day \in K |-> SumFunctionOnSet(SaleValue, V(day))]
      BY <2>3
    <2>5. \A column : Reports!TotalOfSeries(scope, w, column)
             = SumFunctionOnSet([day \in K |-> s[day][column]], K)
      BY <2>2, ReportLibrary, Zenon DEF Reports!TotalOfSeries, s
    <2> QED BY <2>4, <2>5, Zenon
  <1>10. /\ \A k \in K : /\ cg[k] \in SUBSET X
                         /\ \A c \in X : c \in cg[k] <=> ck[c] = k
         /\ \A k \in K : /\ vg[k] \in SUBSET Y
                         /\ \A v \in Y : v \in vg[k] <=> vk[v] = k
         /\ \A k \in K : cg[k] = C(k) /\ vg[k] = V(k)
         /\ \A c \in X : ones[c] = 1
         /\ \A v \in Y : units[v] = 1
    <2> HIDE DEF X, Y, K, ck, vk
    <2> QED OBVIOUS
  <1> HIDE DEF X, Y, K, ck, vk, C, V, cg, vg, ones, units
  <1>11. \A k \in K : /\ Cardinality(C(k)) = SumFunctionOnSet(ones, cg[k])
                      /\ Cardinality(V(k)) = SumFunctionOnSet(units, vg[k])
    <2> SUFFICES ASSUME NEW k \in K
                 PROVE  /\ Cardinality(C(k)) = SumFunctionOnSet(ones, cg[k])
                        /\ Cardinality(V(k)) = SumFunctionOnSet(units, vg[k])
      OBVIOUS
    <2>1. /\ IsFiniteSet(cg[k]) /\ \A c \in cg[k] : ones[c] = 1
          /\ IsFiniteSet(vg[k]) /\ \A v \in vg[k] : units[v] = 1
      BY <1>2, <1>10, FS_Subset
    <2> QED BY <1>10, <2>1, SizeIsSum
  <1>12. /\ SumFunctionOnSet(ones, X) = Cardinality(X)
         /\ SumFunctionOnSet(units, Y) = Cardinality(Y)
    BY <1>2, <1>10, SizeIsSum
  <1>13. SumFunctionOnSet([day \in K |-> Cardinality(C(day))], K) = Cardinality(X)
    <2> DEFINE f == [day \in K |-> Cardinality(C(day))]
    <2>1. \A k \in K : f[k] = SumFunctionOnSet(ones, cg[k])
      BY <1>11
    <2>2. Grouped(ones, X, K, ck, cg, X, f)
      <3>1. \A c \in X : ones[c] \in Nat
        BY <1>10
      <3> HIDE DEF f
      <3> QED BY <1>1, <1>2, <1>5, <1>10, <2>1, <3>1 DEF Grouped
    <2> HIDE DEF f
    <2>3. SumFunctionOnSet(f, K) = SumFunctionOnSet(ones, X)
      BY <2>2, SumGroups
    <2> QED BY <1>12, <2>3, Zenon DEF f
  <1>14. SumFunctionOnSet([day \in K |-> Cardinality(V(day))], K) = Cardinality(Y)
    <2> DEFINE f == [day \in K |-> Cardinality(V(day))]
    <2>1. \A k \in K : f[k] = SumFunctionOnSet(units, vg[k])
      BY <1>11
    <2>2. Grouped(units, Y, K, vk, vg, Y, f)
      <3>1. \A v \in Y : units[v] \in Nat
        BY <1>10
      <3> HIDE DEF f
      <3> QED BY <1>1, <1>2, <1>6, <1>10, <2>1, <3>1 DEF Grouped
    <2> HIDE DEF f
    <2>3. SumFunctionOnSet(f, K) = SumFunctionOnSet(units, Y)
      BY <2>2, SumGroups
    <2> QED BY <1>12, <2>3, Zenon DEF f
  <1>15. SumFunctionOnSet([day \in K |-> SumFunctionOnSet(SaleValue, V(day))], K)
            = SumFunctionOnSet(SaleValue, Y)
    <2> DEFINE f == [day \in K |-> SumFunctionOnSet(SaleValue, V(day))]
    <2>1. \A k \in K : f[k] = SumFunctionOnSet(SaleValue, vg[k])
      BY <1>10
    <2>2. Grouped(SaleValue, Y, K, vk, vg, Y, f)
      <3>1. \A v \in Y : SaleValue[v] \in Nat
        BY <1>2, <1>7
      <3> HIDE DEF f
      <3> QED BY <1>1, <1>2, <1>6, <1>10, <2>1, <3>1 DEF Grouped
    <2> HIDE DEF f
    <2>3. SumFunctionOnSet(f, K) = SumFunctionOnSet(SaleValue, Y)
      BY <2>2, SumGroups
    <2> QED BY <2>3, Zenon DEF f
  <1> QED BY <1>9, <1>13, <1>14, <1>15, Zenon DEF X, Y

\* A breakdown is grouped by what its key makes of a click and of a conversion.
Grouping(K, X, Y, ck, vk) ==
    {Reports!BreakdownRow(k, {c \in X : ck[c] = k}, {v \in Y : vk[v] = k}) : k \in K}

ClickKey(f) == [c \in Click |-> f[click[c].link]]
SaleKey(f) == [v \in {sale} |-> f[conversion[v].link]]

Breaks(K, own, w, p, f) ==
    Grouping(K, CountedOf(w, own), FilteredOf(w, p, own), ClickKey(f), SaleKey(f))

LEMMA BreaksAre ==
    ASSUME NEW K, NEW own, NEW w, NEW p, NEW f
    PROVE  Breaks(K, own, w, p, f) =
             {Reports!BreakdownRow(k,
                {c \in Reports!Counted(w) : click[c].link \in own /\ f[click[c].link] = k},
                {v \in Reports!Filtered(w, p) :
                    conversion[v].link \in own /\ f[conversion[v].link] = k}) : k \in K}
  <1> DEFINE C(k) == {c \in CountedOf(w, own) : ClickKey(f)[c] = k}
             V(k) == {v \in FilteredOf(w, p, own) : SaleKey(f)[v] = k}
             D(k) == {c \in Reports!Counted(w) :
                         click[c].link \in own /\ f[click[c].link] = k}
             W(k) == {v \in Reports!Filtered(w, p) :
                         conversion[v].link \in own /\ f[conversion[v].link] = k}
  <1>1. \A k : C(k) = D(k) /\ V(k) = W(k)
    <2>1. \A c \in CountedOf(w, own) : ClickKey(f)[c] = f[click[c].link]
      BY Selected DEF ClickKey
    <2>2. \A v \in FilteredOf(w, p, own) : SaleKey(f)[v] = f[conversion[v].link]
      BY Selected DEF SaleKey
    <2>3. \A k : C(k) = D(k)
      BY <2>1 DEF CountedOf
    <2>4. \A k : V(k) = W(k)
      BY <2>2 DEF FilteredOf
    <2> QED BY <2>3, <2>4, Zenon
  <1>2. Breaks(K, own, w, p, f) = {Reports!BreakdownRow(k, C(k), V(k)) : k \in K}
    BY Zenon DEF Breaks, Grouping
  <1> HIDE DEF C, D, V, W
  <1>3. Breaks(K, own, w, p, f) = {Reports!BreakdownRow(k, D(k), W(k)) : k \in K}
    <2> DEFINE r(k) == Reports!BreakdownRow(k, C(k), V(k))
               s(k) == Reports!BreakdownRow(k, D(k), W(k))
    <2>1. \A k : r(k) = s(k)
      BY <1>1, Zenon
    <2>2. Breaks(K, own, w, p, f) = {r(k) : k \in K}
      BY <1>2, Zenon
    <2> HIDE DEF r, s
    <2>3. Breaks(K, own, w, p, f) = {s(k) : k \in K}
      BY <2>1, <2>2
    <2> QED BY <2>3, Zenon DEF s
  <1> QED BY <1>3, Zenon DEF D, W

LinkItself == [l \in ReportLink |-> l]
CampaignsOf(b) == {k \in ReportCampaign : CampaignBrand[k] = b}
PartnersOf(b) == {a \in {alice} : partner[b, a] = "APPROVED"}
CampaignsWith(a) == {LinkCampaign[l] : l \in Reports!LinksOf(a)}

LEMMA BreakdownsAre ==
    ASSUME NEW w, NEW p, NEW b, Reports!TypeOK
    PROVE  /\ Reports!byCampaign(b, w, p)
                = Breaks(CampaignsOf(b), Reports!LinksOf(b), w, p, LinkCampaign)
           /\ Reports!byAffiliate(b, w, p)
                = Breaks(PartnersOf(b), Reports!LinksOf(b), w, p, LinkPartner)
           /\ Reports!forAffiliateOwnCampaigns(b, w, p)
                = Breaks(CampaignsWith(b), Reports!LinksOf(b), w, p, LinkCampaign)
           /\ Reports!forAffiliateLinks(b, w, p)
                = Breaks(Reports!LinksOf(b), Reports!LinksOf(b), w, p, LinkItself)
  <1>1. Reports!byCampaign(b, w, p)
                = Breaks(CampaignsOf(b), Reports!LinksOf(b), w, p, LinkCampaign)
    BY BreaksAre, Zenon DEF Reports!byCampaign, Reports!Breakdown, Reports!CampaignKey,
       CampaignsOf, LinkCampaign, CampaignBrand, ReportCampaign
  <1>2. Reports!byAffiliate(b, w, p)
                = Breaks(PartnersOf(b), Reports!LinksOf(b), w, p, LinkPartner)
    BY BreaksAre, Zenon DEF Reports!byAffiliate, Reports!Breakdown, Reports!AffiliateKey,
       PartnersOf, LinkPartner
  <1>3. Reports!forAffiliateOwnCampaigns(b, w, p)
                = Breaks(CampaignsWith(b), Reports!LinksOf(b), w, p, LinkCampaign)
    BY BreaksAre, Zenon DEF Reports!forAffiliateOwnCampaigns, Reports!Breakdown,
       Reports!CampaignKey, CampaignsWith, LinkCampaign
  <1>4. Reports!forAffiliateLinks(b, w, p)
                = Breaks(Reports!LinksOf(b), Reports!LinksOf(b), w, p, LinkItself)
    <2> DEFINE own == Reports!LinksOf(b)
               D(k) == {c \in Reports!Counted(w) :
                           click[c].link \in own /\ LinkItself[click[c].link] = k}
               W(k) == {v \in Reports!Filtered(w, p) :
                           conversion[v].link \in own /\ LinkItself[conversion[v].link] = k}
               E(k) == {c \in Reports!Counted(w) :
                           click[c].link \in own /\ click[c].link = k}
               U(k) == {v \in Reports!Filtered(w, p) :
                           conversion[v].link \in own /\ conversion[v].link = k}
               r(k) == Reports!BreakdownRow(k, D(k), W(k))
               s(k) == Reports!BreakdownRow(k, E(k), U(k))
    <2>1. \A l \in own : LinkItself[l] = l
      BY DEF LinkItself, Reports!LinksOf, ReportLink
    <2>2. \A k : D(k) = E(k) /\ W(k) = U(k)
      <3> HIDE DEF own
      <3> QED BY <2>1
    <2>3. Breaks(own, own, w, p, LinkItself) = {r(k) : k \in own}
      BY BreaksAre, Zenon
    <2>4. Reports!forAffiliateLinks(b, w, p) = {s(k) : k \in own}
      BY Zenon DEF Reports!forAffiliateLinks, Reports!Breakdown, Reports!LinkKey
    <2> HIDE DEF D, W, E, U
    <2>5. \A k : r(k) = s(k)
      BY <2>2, Zenon
    <2> HIDE DEF own, r, s
    <2>6. {r(k) : k \in own} = {s(k) : k \in own}
      BY <2>5
    <2> QED BY <2>3, <2>4, <2>6, Zenon DEF own
  <1> QED BY <1>1, <1>2, <1>3, <1>4, Zenon

\* The same, by what the link of a click or of a conversion belongs to.
LinkColumnsAddUp(T, K, X, Y, f) ==
    LET A == {c \in X : f[click[c].link] \in K}
        B == {v \in Y : f[conversion[v].link] \in K}
    IN  /\ Reports!Total(T, "clicks") = Cardinality(A)
        /\ Reports!Total(T, "conversions") = Cardinality(B)
        /\ Reports!Total(T, "revenue") = SumFunctionOnSet(SaleValue, B)
        /\ \A r \in T :
             /\ r.key \in K
             /\ r.clicks = Cardinality({c \in X : f[click[c].link] = r.key})
             /\ r.conversions = Cardinality({v \in Y : f[conversion[v].link] = r.key})

\* What a breakdown that has a key for everything adds up to.
LEMMA BreaksTotal ==
    ASSUME NEW K, IsFiniteSet(K), NEW own, NEW w, NEW p, NEW f, NEW T,
           T = Breaks(K, own, w, p, f)
    PROVE  LinkColumnsAddUp(T, K, CountedOf(w, own), FilteredOf(w, p, own), f)
  <1> DEFINE X == CountedOf(w, own)
             Y == FilteredOf(w, p, own)
             ck == ClickKey(f)
             vk == SaleKey(f)
  <1>1. /\ IsFiniteSet(X) /\ IsFiniteSet(Y) /\ Y \subseteq {sale} /\ X \subseteq Click
    BY Selected, Zenon
  <1>2. T = {Reports!BreakdownRow(k, {c \in X : ck[c] = k}, {v \in Y : vk[v] = k}) : k \in K}
    BY Zenon DEF Breaks, Grouping
  <1>3. \A c \in X : ck[c] = f[click[c].link]
    BY <1>1 DEF ClickKey
  <1>4. \A v \in Y : vk[v] = f[conversion[v].link]
    BY <1>1 DEF SaleKey
  <1> HIDE DEF X, Y, ck, vk
  <1>5. ColumnsAddUp(T, K, X, Y, ck, vk)
    <2>1. IsGrouping(T, K, X, Y, ck, vk)
      BY <1>1, <1>2, Zenon DEF IsGrouping
    <2> QED BY <2>1, GroupsAddUp
  <1>6. /\ {c \in X : ck[c] \in K} = {c \in X : f[click[c].link] \in K}
        /\ {v \in Y : vk[v] \in K} = {v \in Y : f[conversion[v].link] \in K}
    BY <1>3, <1>4
  <1>7. \A k : /\ {c \in X : ck[c] = k} = {c \in X : f[click[c].link] = k}
               /\ {v \in Y : vk[v] = k} = {v \in Y : f[conversion[v].link] = k}
    BY <1>3, <1>4
  <1>8. LinkColumnsAddUp(T, K, X, Y, f)
    BY <1>5, <1>6, <1>7, Zenon DEF ColumnsAddUp, LinkColumnsAddUp
  <1> QED BY <1>8, Zenon DEF X, Y

LEMMA LinksAre ==
    /\ \A s : Reports!LinksOf(s) = {l \in ReportLink : \/ LinkPartner[l] = s
                                                       \/ CampaignBrand[LinkCampaign[l]] = s}
    /\ \A b \in ReportBrand : Reports!LinksOf(b) =
          {l \in ReportLink : CampaignBrand[LinkCampaign[l]] = b}
    /\ Reports!LinksOf(alice) = ReportLink
    /\ \A l \in ReportLink : /\ LinkPartner[l] = alice /\ LinkCampaign[l] \in ReportCampaign
                             /\ CampaignBrand[LinkCampaign[l]] \in ReportBrand
  <1>1. \A s : Reports!LinksOf(s) = {l \in ReportLink : \/ LinkPartner[l] = s
                                                        \/ CampaignBrand[LinkCampaign[l]] = s}
    BY Zenon DEF Reports!LinksOf, ReportLink, LinkPartner, LinkCampaign, CampaignBrand
  <1>2. \A l \in ReportLink : /\ LinkPartner[l] = alice /\ LinkCampaign[l] \in ReportCampaign
                              /\ CampaignBrand[LinkCampaign[l]] \in ReportBrand
    BY ReportParameters
  <1>3. \A b \in ReportBrand : b # alice
    BY ReportParameters
  <1>4. \A b \in ReportBrand : Reports!LinksOf(b) =
          {l \in ReportLink : CampaignBrand[LinkCampaign[l]] = b}
    BY <1>1, <1>2, <1>3
  <1>5. Reports!LinksOf(alice) = ReportLink
    BY <1>1, <1>2
  <1> QED BY <1>1, <1>2, <1>4, <1>5, Zenon

\* A brand's campaigns add up to its series, but for what was rejected.
LEMMA BrandAgrees ==
    ASSUME Reports!TypeOK, NEW w \in Reports!Window, NEW b \in ReportBrand
    PROVE  /\ Reports!Total(Reports!byCampaign(b, w, TRUE), "clicks")
                = Reports!TotalOfSeries(b, w, "clicks")
           /\ Reports!Total(Reports!byCampaign(b, w, TRUE), "conversions")
                = Reports!TotalOfSeries(b, w, "conversions")
                  - Reports!Cardinality(Reports!Rejected(b, w))
           /\ Reports!Total(Reports!byCampaign(b, w, TRUE), "revenue")
                = Reports!TotalOfSeries(b, w, "revenue")
                  - Reports!Revenue(Reports!Rejected(b, w))
  <1> DEFINE own == Reports!LinksOf(b)
             K == CampaignsOf(b)
             X == CountedOf(w, own)
             O == OccurredOf(w, own)
             Y == FilteredOf(w, TRUE, own)
             R == Reports!Rejected(b, w)
             T == Reports!byCampaign(b, w, TRUE)
  <1>1. /\ own = {l \in ReportLink : CampaignBrand[LinkCampaign[l]] = b}
        /\ \A l \in ReportLink : LinkCampaign[l] \in ReportCampaign
    BY LinksAre
  <1>2. IsFiniteSet(K) /\ \A l \in own : LinkCampaign[l] \in K
    <2>1. K \in SUBSET ReportCampaign
      BY DEF CampaignsOf
    <2>2. IsFiniteSet(K)
      BY <2>1, ReportParameters, FS_Subset
    <2> QED BY <1>1, <2>2 DEF CampaignsOf
  <1>3. T = Breaks(K, own, w, TRUE, LinkCampaign)
    BY BreakdownsAre, Zenon
  <1>4. w.start \in Int /\ w.end \in Int /\ w.start <= w.end
    BY WindowsAre, Zenon
  <1>5. /\ Reports!TotalOfSeries(b, w, "clicks") = Cardinality(X)
        /\ Reports!TotalOfSeries(b, w, "conversions") = Cardinality(O)
        /\ Reports!TotalOfSeries(b, w, "revenue") = SumFunctionOnSet(SaleValue, O)
    BY <1>4, SeriesTotals, Zenon
  <1>6. /\ \A c \in X : click[c].link \in own
        /\ \A v \in Y : conversion[v].link \in own
        /\ \A v \in O : conversion[v] # NULL /\ v \in {sale}
    <2>1. O \subseteq {sale}
      BY Selected, Zenon
    <2>2. \A c \in X : click[c].link \in own
      <3> HIDE DEF own
      <3> QED BY Zenon DEF CountedOf
    <2>3. \A v \in Y : conversion[v].link \in own
      <3> HIDE DEF own
      <3> QED BY Zenon DEF FilteredOf
    <2>4. \A v \in O : conversion[v] # NULL
      <3> HIDE DEF own
      <3> QED BY Zenon DEF OccurredOf, Reports!Occurred
    <2> HIDE DEF X, Y, O, own
    <2> QED BY <2>1, <2>2, <2>3, <2>4
  <1>7. /\ {c \in X : LinkCampaign[click[c].link] \in K} = X
        /\ {v \in Y : LinkCampaign[conversion[v].link] \in K} = Y
    BY <1>2, <1>6
  <1>8. /\ Reports!Total(T, "clicks") = Cardinality(X)
        /\ Reports!Total(T, "conversions") = Cardinality(Y)
        /\ Reports!Total(T, "revenue") = SumFunctionOnSet(SaleValue, Y)
    <2>1. LinkColumnsAddUp(T, K, X, Y, LinkCampaign)
      <3> HIDE DEF T, K, own
      <3> QED BY <1>2, <1>3, BreaksTotal
    <2> HIDE DEF T, K, X, Y
    <2> QED BY <1>7, <2>1, Zenon DEF LinkColumnsAddUp
  <1>9. R \in SUBSET O /\ O \ R = Y
    <2>1. \A v \in O : conversion[v].status \in {"PENDING", "APPROVED", "REJECTED"}
      BY <1>6, ReportRows
    <2>2. R = {v \in O : conversion[v].status = "REJECTED"}
      BY DEF Reports!Rejected, OccurredOf
    <2>3. Y = {v \in O : conversion[v].status \in {"PENDING", "APPROVED"}}
      BY DEF FilteredOf, OccurredOf, Reports!Filtered
    <2> HIDE DEF R, Y, O
    <2> QED BY <2>1, <2>2, <2>3
  <1>10. IsFiniteSet(O) /\ IsFiniteSet(R) /\ IsFiniteSet(Y) /\ O \subseteq {sale}
    <2>1. IsFiniteSet(O) /\ IsFiniteSet(Y) /\ O \subseteq {sale}
      BY Selected, Zenon
    <2> QED BY <1>9, <2>1, FS_Subset
  <1> HIDE DEF O, R, Y, X, T
  <1>11. Cardinality(Y) = Cardinality(O) - Cardinality(R)
    <2>1. R \cap O = R
      BY <1>9
    <2>2. Cardinality(O \ R) = Cardinality(O) - Cardinality(O \cap R)
      BY <1>10, FS_Difference
    <2>3. O \cap R = R
      BY <2>1
    <2> QED BY <1>9, <2>2, <2>3
  <1>12. SumFunctionOnSet(SaleValue, Y)
            = SumFunctionOnSet(SaleValue, O) - SumFunctionOnSet(SaleValue, R)
    <2>1. \A v \in O : SaleValue[v] \in Nat
      BY <1>10, ReportParameters
    <2>2. SumFunctionOnSet(SaleValue, O)
            = SumFunctionOnSet(SaleValue, R) + SumFunctionOnSet(SaleValue, O \ R)
      BY <1>9, <1>10, <2>1, SumSplit
    <2>3. /\ SumFunctionOnSet(SaleValue, R) \in Nat
          /\ SumFunctionOnSet(SaleValue, O \ R) \in Nat
      BY <1>9, <1>10, <2>1, SumType
    <2>4. SumFunctionOnSet(SaleValue, O)
            = SumFunctionOnSet(SaleValue, R) + SumFunctionOnSet(SaleValue, Y)
      BY <1>9, <2>2, Zenon
    <2>5. /\ SumFunctionOnSet(SaleValue, R) \in Nat
          /\ SumFunctionOnSet(SaleValue, Y) \in Nat
      BY <1>9, <2>3, Zenon
    <2> QED BY ONLY <2>4, <2>5
  <1>13. /\ Reports!Cardinality(R) = Cardinality(R)
         /\ Reports!Revenue(R) = SumFunctionOnSet(SaleValue, R)
    BY ReportLibrary, Zenon DEF Reports!Revenue, SaleValue
  <1> QED BY <1>5, <1>8, <1>11, <1>12, <1>13, Zenon DEF T, R

\* What is selected has its link among these, and is in the tables.
LEMMA SelectedRows ==
    ASSUME NEW w, NEW own
    PROVE  /\ \A c \in CountedOf(w, own) : click[c] # NULL /\ click[c].link \in own
           /\ \A p : \A v \in FilteredOf(w, p, own) :
                 conversion[v] # NULL /\ conversion[v].link \in own
  <1>1. \A c \in CountedOf(w, own) : click[c] # NULL /\ click[c].link \in own
    BY Zenon DEF CountedOf, Reports!Counted
  <1>2. \A p : \A v \in FilteredOf(w, p, own) :
            conversion[v] # NULL /\ conversion[v].link \in own
    BY DEF FilteredOf, Reports!Filtered, Reports!Occurred
  <1> QED BY <1>1, <1>2, Zenon

RowsOfBrand(b, S) == {o \in S : CampaignBrand[o.key] = b}

\* A partner's row is what the partner sees of this brand's campaigns.
LEMMA PartnerAgrees ==
    ASSUME Reports!TypeOK, NEW w, NEW b \in ReportBrand,
           NEW r \in Reports!byAffiliate(b, w, FALSE)
    PROVE  LET seen_ == RowsOfBrand(b, Reports!forAffiliateOwnCampaigns(r.key, w, FALSE))
           IN  /\ r.clicks = Reports!Total(seen_, "clicks")
               /\ r.conversions = Reports!Total(seen_, "conversions")
  <1> DEFINE own == Reports!LinksOf(b)
             all == Reports!LinksOf(alice)
             X == CountedOf(w, own)
             Y == FilteredOf(w, FALSE, own)
             XX == CountedOf(w, all)
             YY == FilteredOf(w, FALSE, all)
             K == {k \in CampaignsWith(alice) : CampaignBrand[k] = b}
             mine == RowsOfBrand(b, Reports!forAffiliateOwnCampaigns(r.key, w, FALSE))
  <1>1. /\ own = {l \in ReportLink : CampaignBrand[LinkCampaign[l]] = b}
        /\ all = ReportLink
        /\ \A l \in ReportLink : LinkPartner[l] = alice
    BY LinksAre, Zenon
  <1>2. LinkColumnsAddUp(Reports!byAffiliate(b, w, FALSE), PartnersOf(b), X, Y, LinkPartner)
    <2>1. Reports!byAffiliate(b, w, FALSE) = Breaks(PartnersOf(b), own, w, FALSE, LinkPartner)
      BY BreakdownsAre, Zenon
    <2>2. PartnersOf(b) \in SUBSET {alice}
      BY DEF PartnersOf
    <2>3. IsFiniteSet(PartnersOf(b))
      BY <2>2, FS_Singleton, FS_Subset
    <2> HIDE DEF own
    <2> QED BY <2>1, <2>3, BreaksTotal
  <1>3. r.key = alice
    <2>1. r.key \in PartnersOf(b)
      BY <1>2, Zenon DEF LinkColumnsAddUp
    <2> QED BY <2>1 DEF PartnersOf
  <1>4. r.clicks = Cardinality(X) /\ r.conversions = Cardinality(Y)
    <2>1. /\ r.clicks = Cardinality({c \in X : LinkPartner[click[c].link] = r.key})
          /\ r.conversions = Cardinality({v \in Y : LinkPartner[conversion[v].link] = r.key})
      <3> HIDE DEF X, Y
      <3> QED BY <1>2, Zenon DEF LinkColumnsAddUp
    <2>2. /\ \A c \in X : click[c].link \in ReportLink
          /\ \A v \in Y : conversion[v].link \in ReportLink
      <3> HIDE DEF own
      <3>1. /\ \A c \in X : click[c].link \in own
            /\ \A v \in Y : conversion[v].link \in own
        BY SelectedRows
      <3> HIDE DEF X, Y
      <3> QED BY <1>1, <3>1
    <2> HIDE DEF X, Y
    <2>3. /\ {c \in X : LinkPartner[click[c].link] = r.key} = X
          /\ {v \in Y : LinkPartner[conversion[v].link] = r.key} = Y
      BY <1>1, <1>3, <2>2
    <2> QED BY <2>1, <2>3, Zenon
  <1>5. mine = Breaks(K, all, w, FALSE, LinkCampaign)
    <2> DEFINE row_(k) == Reports!BreakdownRow(k,
                            {c \in XX : ClickKey(LinkCampaign)[c] = k},
                            {v \in YY : SaleKey(LinkCampaign)[v] = k})
    <2>1. Reports!forAffiliateOwnCampaigns(alice, w, FALSE)
             = Breaks(CampaignsWith(alice), all, w, FALSE, LinkCampaign)
      BY BreakdownsAre, Zenon
    <2>2. /\ Breaks(CampaignsWith(alice), all, w, FALSE, LinkCampaign)
               = {row_(k) : k \in CampaignsWith(alice)}
          /\ Breaks(K, all, w, FALSE, LinkCampaign) = {row_(k) : k \in K}
      BY Zenon DEF Breaks, Grouping
    <2>3. \A k : row_(k).key = k
      BY DEF Reports!BreakdownRow
    <2> HIDE DEF row_, all
    <2>4. mine = {o \in {row_(k) : k \in CampaignsWith(alice)} : CampaignBrand[o.key] = b}
      BY <1>3, <2>1, <2>2, Zenon DEF RowsOfBrand
    <2> HIDE DEF mine
    <2>5. mine = {row_(k) : k \in K}
      BY <2>3, <2>4
    <2> QED BY <2>2, <2>5, Zenon
  <1>6. LinkColumnsAddUp(mine, K, XX, YY, LinkCampaign)
    <2>1. K \in SUBSET ReportCampaign
      BY <1>1, LinksAre DEF CampaignsWith
    <2>2. IsFiniteSet(K)
      BY <2>1, ReportParameters, FS_Subset
    <2> HIDE DEF K, all, mine
    <2> QED BY <1>5, <2>2, BreaksTotal
  <1>7. /\ {c \in XX : LinkCampaign[click[c].link] \in K} = X
        /\ {v \in YY : LinkCampaign[conversion[v].link] \in K} = Y
    <2>1. /\ \A c \in XX : click[c].link \in all
          /\ \A v \in YY : conversion[v].link \in all
      <3> HIDE DEF all
      <3> QED BY SelectedRows
    <2>2. \A l \in all : LinkCampaign[l] \in K <=> l \in own
      BY <1>1 DEF CampaignsWith
    <2>3. \A c : c \in X <=> c \in XX /\ click[c].link \in own
      <3>1. own \subseteq all
        BY <1>1
      <3> HIDE DEF own, all
      <3> QED BY <3>1 DEF CountedOf
    <2>4. \A v : v \in Y <=> v \in YY /\ conversion[v].link \in own
      <3>1. own \subseteq all
        BY <1>1
      <3> HIDE DEF own, all
      <3> QED BY <3>1 DEF FilteredOf
    <2> HIDE DEF X, Y, XX, YY, K, own, all
    <2> QED BY <2>1, <2>2, <2>3, <2>4
  <1> HIDE DEF X, Y, XX, YY, K, mine
  <1>8. /\ r.clicks = Reports!Total(mine, "clicks")
        /\ r.conversions = Reports!Total(mine, "conversions")
    BY <1>4, <1>6, <1>7, Zenon DEF LinkColumnsAddUp
  <1> QED BY <1>8, Zenon DEF mine

\* An affiliate's links add up to its campaigns.
LEMMA AffiliateAgrees ==
    ASSUME Reports!TypeOK, NEW w, NEW column \in {"clicks", "conversions", "revenue"}
    PROVE  Reports!Total(Reports!forAffiliateLinks(alice, w, FALSE), column)
              = Reports!Total(Reports!forAffiliateOwnCampaigns(alice, w, FALSE), column)
  <1> DEFINE own == Reports!LinksOf(alice)
             X == CountedOf(w, own)
             Y == FilteredOf(w, FALSE, own)
             S == Reports!forAffiliateLinks(alice, w, FALSE)
             T == Reports!forAffiliateOwnCampaigns(alice, w, FALSE)
             K == CampaignsWith(alice)
  <1>1. own = ReportLink /\ \A l \in own : LinkItself[l] = l /\ LinkCampaign[l] \in K
    BY LinksAre DEF LinkItself, CampaignsWith
  <1>2. S = Breaks(own, own, w, FALSE, LinkItself) /\ T = Breaks(K, own, w, FALSE, LinkCampaign)
    BY BreakdownsAre, Zenon
  <1>3. IsFiniteSet(own) /\ IsFiniteSet(K)
    <2>1. K \in SUBSET ReportCampaign
      BY <1>1, LinksAre DEF CampaignsWith
    <2> HIDE DEF K
    <2> QED BY <1>1, <2>1, ReportParameters, FS_Subset
  <1>4. /\ \A c \in X : click[c].link \in own
        /\ \A v \in Y : conversion[v].link \in own
    <2> HIDE DEF own
    <2> QED BY SelectedRows
  <1>5. LinkColumnsAddUp(S, own, X, Y, LinkItself) /\ LinkColumnsAddUp(T, K, X, Y, LinkCampaign)
    <2> HIDE DEF own, K, S, T
    <2> QED BY <1>2, <1>3, BreaksTotal
  <1> HIDE DEF own, K, X, Y, S, T
  <1>6. /\ {c \in X : LinkItself[click[c].link] \in own} = X
        /\ {v \in Y : LinkItself[conversion[v].link] \in own} = Y
        /\ {c \in X : LinkCampaign[click[c].link] \in K} = X
        /\ {v \in Y : LinkCampaign[conversion[v].link] \in K} = Y
    BY <1>1, <1>4
  <1>7. /\ Reports!Total(S, "clicks") = Cardinality(X)
        /\ Reports!Total(S, "conversions") = Cardinality(Y)
        /\ Reports!Total(S, "revenue") = SumFunctionOnSet(SaleValue, Y)
    BY <1>5, <1>6, Zenon DEF LinkColumnsAddUp
  <1>8. /\ Reports!Total(T, "clicks") = Cardinality(X)
        /\ Reports!Total(T, "conversions") = Cardinality(Y)
        /\ Reports!Total(T, "revenue") = SumFunctionOnSet(SaleValue, Y)
    BY <1>5, <1>6, Zenon DEF LinkColumnsAddUp
  <1>9. column = "clicks" \/ column = "conversions" \/ column = "revenue"
    OBVIOUS
  <1> QED BY <1>7, <1>8, <1>9, Zenon DEF S, T

\* An affiliate's sub-IDs add up to the clicks that carry one.
LEMMA SubIdsAgree ==
    ASSUME Reports!TypeOK, NEW w
    PROVE  Reports!Total(Reports!subIdReport(alice, w), "clicks")
              = Reports!Cardinality({c \in Reports!Counted(w) :
                                       /\ click[c].link \in Reports!LinksOf(alice)
                                       /\ click[c].tag # NULL})
  <1> DEFINE own == Reports!LinksOf(alice)
             X == CountedOf(w, own)
             Y == FilteredOf(w, FALSE, own)
             ck == [c \in Click |-> click[c].tag]
             vk == [v \in {sale} |-> conversion[v].tag]
             K == ({click[c].tag : c \in X} \cup {conversion[v].tag : v \in Y}) \ {NULL}
             T == Reports!subIdReport(alice, w)
  <1>1. /\ IsFiniteSet(X) /\ X \subseteq Click
        /\ IsFiniteSet(Y) /\ Y \subseteq {sale}
    BY Selected, Zenon
  <1>2. /\ \A c \in X : click[c] # NULL
        /\ \A v \in Y : conversion[v] # NULL
    <2> HIDE DEF own
    <2> QED BY SelectedRows
  <1>3. IsFiniteSet(K)
    <2>1. K \in SUBSET {tag}
      <3>1. \A c \in X : click[c].tag \in {tag, NULL}
        BY <1>1, <1>2, ReportRows
      <3>2. \A v \in Y : conversion[v].tag \in {tag, NULL}
        BY <1>1, <1>2, ReportRows
      <3> HIDE DEF X, Y
      <3> QED BY <3>1, <3>2
    <2> HIDE DEF K
    <2> QED BY <2>1, FS_Singleton, FS_Subset
  <1>4. /\ \A c \in X : ck[c] = click[c].tag
        /\ \A v \in Y : vk[v] = conversion[v].tag
    BY <1>1
  <1>5. T = {Reports!BreakdownRow(k, {c \in X : ck[c] = k}, {v \in Y : vk[v] = k}) : k \in K}
    <2> DEFINE D(k) == {c \in Reports!Counted(w) : click[c].link \in own /\ click[c].tag = k}
               W(k) == {v \in Reports!Filtered(w, FALSE) :
                           conversion[v].link \in own /\ conversion[v].tag = k}
               C(k) == {c \in X : ck[c] = k}
               V(k) == {v \in Y : vk[v] = k}
               row_(k) == Reports!BreakdownRow(k, C(k), V(k))
               other(k) == Reports!BreakdownRow(k, D(k), W(k))
    <2>1. T = {other(k) : k \in K}
      BY Zenon DEF Reports!subIdReport, Reports!Breakdown, Reports!TagKey, CountedOf, FilteredOf
    <2>2. \A k : C(k) = D(k) /\ V(k) = W(k)
      <3> HIDE DEF own
      <3>1. \A k : C(k) = D(k)
        BY <1>4 DEF CountedOf
      <3>2. \A k : V(k) = W(k)
        BY <1>4 DEF FilteredOf
      <3> QED BY <3>1, <3>2, Zenon
    <2> HIDE DEF C, D, V, W
    <2>3. \A k : row_(k) = other(k)
      BY <2>2, Zenon
    <2> HIDE DEF row_, other, K
    <2>4. T = {row_(k) : k \in K}
      BY <2>1, <2>3
    <2> QED BY <2>4, Zenon DEF row_, C, V
  <1>6. {c \in X : ck[c] \in K} = {c \in Reports!Counted(w) : click[c].link \in own /\ click[c].tag # NULL}
    <2>1. {c \in X : ck[c] \in K} = {c \in X : click[c].tag # NULL}
      <3> HIDE DEF X, Y, ck
      <3> QED BY <1>4
    <2> HIDE DEF own
    <2>2. {c \in X : click[c].tag # NULL}
            = {c \in Reports!Counted(w) : click[c].link \in own /\ click[c].tag # NULL}
      BY DEF CountedOf
    <2> QED BY <2>1, <2>2, Zenon
  <1>7. Reports!Total(T, "clicks") = Cardinality({c \in X : ck[c] \in K})
    <2> HIDE DEF T, X, Y, K, ck, vk
    <2>1. IsGrouping(T, K, X, Y, ck, vk)
      BY <1>1, <1>3, <1>5, Zenon DEF IsGrouping
    <2>2. ColumnsAddUp(T, K, X, Y, ck, vk)
      BY <2>1, GroupsAddUp
    <2> QED BY <2>2, Zenon DEF ColumnsAddUp
  <1> QED BY <1>6, <1>7, ReportLibrary, Zenon

\* A window and the one before it have each click from the start of the earlier
\* to the end of the later once.
LEMMA PeriodsAgree ==
    ASSUME Reports!TypeOK, NEW w \in Reports!Window, NEW scope
    PROVE  LET earlier == Reports!previousPeriod(w) IN
           /\ earlier.end - earlier.start = w.end - w.start
           /\ Reports!TotalOfSeries(scope, w, "clicks")
              + Reports!TotalOfSeries(scope, earlier, "clicks")
                 = Reports!Cardinality({c \in Reports!Counted(
                        [start |-> earlier.start, end |-> w.end]) :
                           click[c].link \in Reports!LinksOf(scope)})
  <1> DEFINE e == Reports!previousPeriod(w)
             own == Reports!LinksOf(scope)
             both == [start |-> e.start, end |-> w.end]
             X == CountedOf(w, own)
             E == CountedOf(e, own)
             B == CountedOf(both, own)
  <1>1. w.start \in Int /\ w.end \in Int /\ w.start <= w.end
    BY WindowsAre, Zenon
  <1>2. e.start = w.start - (w.end - w.start) - 1 /\ e.end = w.start - 1
    BY DEF Reports!previousPeriod
  <1>3. both.start = e.start /\ both.end = w.end
    OBVIOUS
  <1> HIDE DEF e, both
  <1>4. /\ e.start \in Int /\ e.end \in Int /\ e.start <= e.end
        /\ e.end - e.start = w.end - w.start
    BY <1>1, <1>2
  <1>5. Reports!TotalOfSeries(scope, w, "clicks") = Cardinality(X)
    BY <1>1, SeriesTotals, Zenon
  <1>6. Reports!TotalOfSeries(scope, e, "clicks") = Cardinality(E)
    BY <1>4, SeriesTotals, Zenon
  <1>7. \A c \in Click : click[c] # NULL => click[c].at \in Int
    BY ReportRows
  <1>8. \A at \in Int : /\ Reports!Within(at, both) <=> Reports!Within(at, w) \/ Reports!Within(at, e)
                        /\ ~(Reports!Within(at, w) /\ Reports!Within(at, e))
    <2> TAKE at \in Int
    <2> DEFINE a == w.start
               z == w.end
    <2>1. /\ Reports!Within(at, both) <=> e.start <= at /\ at <= z
          /\ Reports!Within(at, e) <=> e.start <= at /\ at <= e.end
          /\ Reports!Within(at, w) <=> a <= at /\ at <= z
      BY <1>3 DEF Reports!Within
    <2>2. a \in Int /\ z \in Int /\ a <= z
      BY <1>1
    <2>3. e.start = a - (z - a) - 1 /\ e.end = a - 1
      BY <1>2
    <2> HIDE DEF a, z
    <2>4. (a - (z - a) - 1 <= at /\ at <= z)
              <=> (a <= at /\ at <= z) \/ (a - (z - a) - 1 <= at /\ at <= a - 1)
      BY ONLY <2>2, at \in Int
    <2>5. ~((a <= at /\ at <= z) /\ (a - (z - a) - 1 <= at /\ at <= a - 1))
      BY ONLY <2>2, at \in Int
    <2> QED BY <2>1, <2>3, <2>4, <2>5
  <1>9. /\ \A c : c \in X <=> /\ c \in Click /\ click[c] # NULL /\ click[c].isCounted
                              /\ Reports!Within(click[c].at, w) /\ click[c].link \in own
        /\ \A c : c \in E <=> /\ c \in Click /\ click[c] # NULL /\ click[c].isCounted
                              /\ Reports!Within(click[c].at, e) /\ click[c].link \in own
        /\ \A c : c \in B <=> /\ c \in Click /\ click[c] # NULL /\ click[c].isCounted
                              /\ Reports!Within(click[c].at, both) /\ click[c].link \in own
    <2> HIDE DEF own
    <2> QED BY DEF CountedOf, Reports!Counted
  <1>10. B = X \cup E /\ X \cap E = {}
    <2> HIDE DEF X, E, B
    <2> QED BY <1>7, <1>8, <1>9
  <1>11. IsFiniteSet(X) /\ IsFiniteSet(E)
    BY Selected, Zenon
  <1> HIDE DEF X, E
  <1>12. Cardinality(B) = Cardinality(X) + Cardinality(E)
    <2> HIDE DEF B
    <2>1. Cardinality(X \cup E)
             = Cardinality(X) + Cardinality(E) - Cardinality(X \cap E)
      BY <1>11, FS_Union
    <2>2. Cardinality(X \cap E) = 0
      BY <1>10, FS_EmptySet
    <2>3. Cardinality(X) \in Nat /\ Cardinality(E) \in Nat
      BY <1>11, FS_CardinalityType
    <2> QED BY <1>10, <2>1, <2>2, <2>3
  <1>13. Reports!Cardinality({c \in Reports!Counted(both) : click[c].link \in Reports!LinksOf(scope)})
            = Cardinality(B)
    BY ReportLibrary, Zenon DEF CountedOf
  <1> QED BY <1>4, <1>5, <1>6, <1>12, <1>13, Zenon DEF e, both

LEMMA ReportsTell == Reports!TypeOK => Reports!ReportsAgree /\ Reports!PeriodsMeet
  <1> SUFFICES ASSUME Reports!TypeOK PROVE Reports!ReportsAgree /\ Reports!PeriodsMeet
    OBVIOUS
  <1>1. \A w \in Reports!Window, b \in ReportBrand : Reports!CampaignsAddUp(b, w)
    BY BrandAgrees, Zenon DEF Reports!CampaignsAddUp
  <1>2. \A w : \A b \in ReportBrand : Reports!PartnersAgree(b, w)
    <2> SUFFICES ASSUME NEW w, NEW b \in ReportBrand PROVE Reports!PartnersAgree(b, w)
      OBVIOUS
    <2> QED BY PartnerAgrees, Zenon DEF Reports!PartnersAgree, RowsOfBrand, CampaignBrand
  <1>3. \A w : Reports!LinksAddUp(alice, w)
    BY AffiliateAgrees, Zenon DEF Reports!LinksAddUp
  <1>4. \A w : Reports!SubIdsAddUp(alice, w)
    BY SubIdsAgree, Zenon DEF Reports!SubIdsAddUp
  <1>5. Reports!ReportsAgree
    <2>1. \A w : \A a \in {alice} : Reports!LinksAddUp(a, w) /\ Reports!SubIdsAddUp(a, w)
      BY <1>3, <1>4
    <2>2. \A w \in Reports!Window, b \in {acme, bolt} :
             Reports!CampaignsAddUp(b, w) /\ Reports!PartnersAgree(b, w)
      BY <1>1, <1>2, Zenon DEF ReportBrand
    <2> QED BY <2>1, <2>2, Zenon DEF Reports!ReportsAgree
  <1>6. Reports!PeriodsMeet
    BY PeriodsAgree, Zenon DEF Reports!PeriodsMeet
  <1> QED BY <1>5, <1>6

LEMMA ReportInit == Reports!Init => Reports!TypeOK
  BY DEF Reports!Init, Reports!TypeOK

LEMMA ReportVisit ==
    ASSUME Reports!TypeOK, NEW c \in Click, NEW row_ \in Reports!ClickRow,
           Reports!Visit(c, row_)
    PROVE  Reports!TypeOK'
  BY DEF Reports!Visit, Reports!TypeOK

LEMMA ReportConvert ==
    ASSUME Reports!TypeOK, NEW v \in {sale}, NEW c \in Click, NEW at \in Reports!Time,
           Reports!Convert(v, c, at)
    PROVE  Reports!TypeOK'
  <1> DEFINE r == [link |-> click[c].link, at |-> at, status |-> "PENDING",
                   tag |-> click[c].tag]
  <1>1. r \in Reports!ConversionRow
    <2>1. click[c] \in Reports!ClickRow
      BY DEF Reports!Convert, Reports!TypeOK
    <2>2. click[c].link \in ReportLink /\ click[c].tag \in {tag} \cup {NULL}
      BY <2>1 DEF Reports!ClickRow, ReportLink
    <2> HIDE DEF ReportLink
    <2>3. r \in [link : ReportLink, at : Reports!Time,
                 status : {"PENDING", "APPROVED", "REJECTED"}, tag : {tag} \cup {NULL}]
      BY <2>2
    <2> QED BY <2>3, Zenon DEF Reports!ConversionRow, Reports!Statuses, ReportLink
  <1>2. conversion' = [conversion EXCEPT ![v] = r] /\ UNCHANGED <<click, partner>>
    BY Zenon DEF Reports!Convert
  <1> HIDE DEF r
  <1> QED BY <1>1, <1>2 DEF Reports!TypeOK

LEMMA ReportReview ==
    ASSUME Reports!TypeOK, NEW v \in {sale}, NEW s \in {"APPROVED", "REJECTED"},
           Reports!Review(v, s)
    PROVE  Reports!TypeOK'
  <1>1. conversion[v] \in Reports!ConversionRow
    BY DEF Reports!Review, Reports!TypeOK
  <1>2. [conversion[v] EXCEPT !.status = s] \in Reports!ConversionRow
    BY <1>1 DEF Reports!ConversionRow, Reports!Statuses
  <1>3. conversion' = [conversion EXCEPT ![v] = [conversion[v] EXCEPT !.status = s]]
    BY DEF Reports!Review
  <1>4. UNCHANGED <<click, partner>>
    BY DEF Reports!Review
  <1> QED BY <1>2, <1>3, <1>4 DEF Reports!TypeOK

LEMMA ReportDeactivate ==
    ASSUME Reports!TypeOK, NEW b \in ReportBrand, NEW a \in {alice},
           Reports!Deactivate(b, a)
    PROVE  Reports!TypeOK'
  BY DEF Reports!Deactivate, Reports!TypeOK

LEMMA ReportsAlone ==
    [MarketplaceNext]_marketVars => Reports!Next \/ UNCHANGED reportVars
  BY Zenon DEF MarketplaceNext, marketVars, peopleVars

LEMMA ReportStep ==
    ASSUME Reports!TypeOK, [MarketplaceNext]_marketVars
    PROVE  Reports!TypeOK'
  <1>1. CASE Reports!Next
    <2>1. CASE \E c \in Click, r \in Reports!ClickRow : Reports!Visit(c, r)
      BY <2>1, ReportVisit
    <2>2. CASE \E v \in {sale}, c \in Click, at \in Reports!Time : Reports!Convert(v, c, at)
      BY <2>2, ReportConvert
    <2>3. CASE \E v \in {sale}, s \in {"APPROVED", "REJECTED"} : Reports!Review(v, s)
      BY <2>3, ReportReview
    <2>4. CASE \E b \in ReportBrand, a \in {alice} : Reports!Deactivate(b, a)
      BY <2>4, ReportDeactivate
    <2> QED BY <1>1, <2>1, <2>2, <2>3, <2>4, Zenon DEF Reports!Next, ReportBrand
  <1>2. CASE UNCHANGED reportVars
    BY <1>2 DEF reportVars, Reports!TypeOK
  <1> QED BY <1>1, <1>2, ReportsAlone

\* Whatever is clicked, bought, approved, rejected or deactivated, and for every
\* window that may be asked for, the reports agree: campaigns, partners, links and
\* sub-IDs add up to the series and to each other, and a window and the one it is
\* compared with share no click (breakdown.service.ts, periods.ts).
THEOREM ReportsAreConsistent == MarketplaceSpec => []ReportsAgree
  <1>1. MarketplaceInit => Reports!TypeOK
    BY ReportInit, Zenon DEF MarketplaceInit
  <1>2. Reports!TypeOK /\ [MarketplaceNext]_marketVars => Reports!TypeOK'
    BY ReportStep
  <1>3. Reports!TypeOK => ReportsAgree
    BY ReportsTell, Zenon DEF ReportsAgree
  <1> QED
    BY <1>1, <1>2, <1>3, PTL DEF MarketplaceSpec, marketVars
==============================================================================
