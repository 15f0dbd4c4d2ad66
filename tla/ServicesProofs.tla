---------------------------- MODULE ServicesProofs ----------------------------
(***************************************************************************)
(* Proofs about the services, each an instance that takes turns with the   *)
(* others in MCServices: for any number of requests, processes, keys and   *)
(* notifications, and any bound on the losses.                             *)
(***************************************************************************)
EXTENDS IntakeProofs

-----------------------------------------------------------------------------
(* Idempotency keys. *)

\* What the proofs know about the parameters.
LEMMA KeyParameters ==
    /\ KeyOf \in [HttpRequest -> Key]
    /\ BodyOf \in [HttpRequest -> Body]
    /\ NULL \notin Keys!Row
    /\ NULL \notin {"ok", "rejected", "error"}
  BY ServicesAssumption DEF ServicesAssumption, Keys!KeyAssumption

LEMMA KeyInit ==
    ASSUME Keys!Init
    PROVE  Keys!KeyInv
  <1>1. Keys!TypeOK
    BY DEF Keys!Init, Keys!TypeOK, Keys!Progress
  <1>2. Keys!RequestInv /\ Keys!OwnerInv
    BY DEF Keys!Init, Keys!RequestInv, Keys!OwnerInv
  <1>3. Keys!RowInv /\ Keys!AnswerInv
    BY DEF Keys!Init, Keys!RowInv, Keys!AnswerInv
  <1>4. QED
    BY <1>1, <1>2, <1>3 DEF Keys!KeyInv

\* A request goes on: the others stay, and it keeps what is not set.
LEMMA KeyedStep ==
    ASSUME Keys!TypeOK, NEW q \in HttpRequest,
           NEW s \in {"new", "collided", "handling", "sending", "over"},
           NEW c \in BOOLEAN, NEW a \in {"ok", "rejected", "error", NULL},
           keyed' = [keyed EXCEPT ![q].step = s, ![q].claimed = c, ![q].code = a]
    PROVE  /\ keyed' \in [HttpRequest -> Keys!Progress]
           /\ \A p \in HttpRequest : p # q => keyed'[p] = keyed[p]
           /\ keyed'[q].step = s /\ keyed'[q].claimed = c /\ keyed'[q].code = a
  BY DEF Keys!TypeOK, Keys!Progress

\* The answers of the other requests stand, and so does this one, when it is
\* the request's own or the outcome of one that is over.
LEMMA AnswersStand ==
    ASSUME Keys!TypeOK, Keys!AnswerInv, NEW q \in HttpRequest,
           keyed[q].step # "over",
           \A p \in HttpRequest : p # q =>
               /\ keyed'[p] = keyed[p]
               /\ p \in done' <=> p \in done
               /\ answer'[p] = answer[p],
           \/ answer'[q] = answer[q]
           \/ answer'[q].of = q
           \/ /\ answer'[q].of \in HttpRequest
              /\ BodyOf[answer'[q].of] = BodyOf[q]
              /\ KeyOf[answer'[q].of] = KeyOf[q]
              /\ keyed[answer'[q].of].step = "over"
              /\ answer'[q].code = IF answer'[q].of \in done THEN "ok" ELSE "rejected"
    PROVE  Keys!AnswerInv'
  <1>1. ASSUME NEW p \in HttpRequest,
               answer[p] # NULL, answer[p].of # p, answer'[p] = answer[p]
        PROVE  /\ BodyOf[answer[p].of] = BodyOf[p]
               /\ KeyOf[answer[p].of] = KeyOf[p]
               /\ keyed'[answer[p].of].step = "over"
               /\ answer[p].code = IF answer[p].of \in done' THEN "ok" ELSE "rejected"
    <2>0. answer[p] \in Keys!Answer
      BY <1>1 DEF Keys!TypeOK
    <2>1. answer[p].of \in HttpRequest
      BY <2>0 DEF Keys!Answer
    <2>2. /\ BodyOf[answer[p].of] = BodyOf[p]
          /\ KeyOf[answer[p].of] = KeyOf[p]
          /\ keyed[answer[p].of].step = "over"
          /\ answer[p].code = IF answer[p].of \in done THEN "ok" ELSE "rejected"
      BY <1>1 DEF Keys!AnswerInv
    <2>3. QED
      BY <2>1, <2>2
  <1>2. QED
    BY <1>1 DEF Keys!AnswerInv

\* A request that has read its key's row goes on, and leaves the row alone.
LEMMA GoesOn ==
    ASSUME Keys!KeyInv, NEW q \in HttpRequest,
           NEW s \in {"handling", "sending", "over"},
           NEW a \in {"ok", "rejected", "error", NULL},
           keyed' = [keyed EXCEPT ![q].step = s, ![q].code = a],
           keyed[q].step \in {"collided", "handling", "sending"},
           UNCHANGED <<row, vanished>>, losses' \in Nat,
           done' \in {done, done \cup {q}},
           answer' \in [HttpRequest -> Keys!Answer \cup {NULL}],
           \/ KeyOf[q] \in vanished
           \/ keyed[q].step \in {"handling", "sending"}
           \/ s = "over" /\ done' = done,
           q \in done' => s \in {"sending", "over"},
           s = "sending" => a # NULL /\ (a = "ok" => q \in done')
                                     /\ (a = "rejected" => q \notin done'),
           Keys!AnswerInv'
    PROVE  Keys!KeyInv'
  <1>1. /\ Keys!TypeOK /\ Keys!RequestInv /\ Keys!RowInv /\ Keys!OwnerInv
        /\ keyed[q].claimed \in BOOLEAN
    BY DEF Keys!KeyInv, Keys!TypeOK, Keys!Progress
  <1>2. keyed' = [keyed EXCEPT ![q].step = s, ![q].claimed = keyed[q].claimed,
                               ![q].code = a]
    BY <1>1 DEF Keys!TypeOK, Keys!Progress
  <1>3. /\ keyed' \in [HttpRequest -> Keys!Progress]
        /\ \A p \in HttpRequest : p # q => keyed'[p] = keyed[p]
        /\ keyed'[q].step = s /\ keyed'[q].code = a
        /\ keyed'[q].claimed = keyed[q].claimed
    <2>1. keyed[q].claimed \in BOOLEAN /\ Keys!TypeOK
      BY <1>1
    <2>2. PICK c \in BOOLEAN : c = keyed[q].claimed
      BY <2>1
    <2>3. keyed' = [keyed EXCEPT ![q].step = s, ![q].claimed = c, ![q].code = a]
      BY <1>2, <2>2
    <2>4. /\ keyed' \in [HttpRequest -> Keys!Progress]
          /\ \A p \in HttpRequest : p # q => keyed'[p] = keyed[p]
          /\ keyed'[q].step = s /\ keyed'[q].claimed = c /\ keyed'[q].code = a
      BY ONLY <2>1, <2>3 DEF Keys!TypeOK, Keys!Progress
    <2>5. QED
      BY <2>2, <2>4, Zenon
  <1>4. Keys!TypeOK'
    BY <1>1, <1>3 DEF Keys!TypeOK
  <1>5. Keys!RequestInv'
    BY <1>1, <1>3 DEF Keys!RequestInv
  <1>6. Keys!RowInv'
    BY <1>1, <1>3 DEF Keys!TypeOK, Keys!Row, Keys!RowInv
  <1>7. Keys!OwnerInv'
    BY <1>1, <1>3 DEF Keys!RequestInv, Keys!OwnerInv
  <1>8. QED
    BY <1>4, <1>5, <1>6, <1>7 DEF Keys!KeyInv

LEMMA KeyClaim ==
    ASSUME Keys!KeyInv, NEW q \in HttpRequest, Keys!Claim(q)
    PROVE  Keys!KeyInv'
  <1> DEFINE k == KeyOf[q]
             r == [by |-> q, fingerprint |-> BodyOf[q], expired |-> FALSE,
                   code |-> NULL]
  <1>1. k \in Key /\ r \in Keys!Row /\ r # NULL
    <2>1. k \in Key /\ BodyOf[q] \in Body
      BY KeyParameters
    <2>2. r \in Keys!Row
      BY <2>1 DEF Keys!Row
    <2>3. QED
      BY <2>1, <2>2, KeyParameters
  <1>2. Keys!TypeOK /\ keyed[q].step = "new" /\ q \notin done
        /\ keyed[q].claimed = FALSE /\ keyed[q].code \in {"ok", "rejected", "error", NULL}
        /\ UNCHANGED <<answer, done, vanished, losses>>
    BY DEF Keys!KeyInv, Keys!RequestInv, Keys!Claim, Keys!TypeOK, Keys!Progress
  <1>3. CASE row[k] = NULL
    <2>1. /\ row' = [row EXCEPT ![k] = r]
          /\ keyed' = [keyed EXCEPT ![q].step = "handling", ![q].claimed = TRUE]
      BY <1>3 DEF Keys!Claim, Keys!Unclaimed
    <2>2. keyed' = [keyed EXCEPT ![q].step = "handling", ![q].claimed = TRUE,
                                 ![q].code = keyed[q].code]
      BY <1>2, <2>1 DEF Keys!TypeOK, Keys!Progress
    <2>3. /\ keyed' \in [HttpRequest -> Keys!Progress]
          /\ \A p \in HttpRequest : p # q => keyed'[p] = keyed[p]
          /\ keyed'[q].step = "handling" /\ keyed'[q].claimed
      BY <1>2, <2>2, KeyedStep
    <2>4. Keys!TypeOK'
      BY <1>1, <1>2, <2>1, <2>3 DEF Keys!TypeOK
    <2>5. row'[k] = r /\ \A l \in Key : l # k => row'[l] = row[l]
      BY <1>1, <1>2, <2>1 DEF Keys!TypeOK
    <2>6. Keys!RequestInv'
      BY <1>2, <2>3 DEF Keys!KeyInv, Keys!RequestInv
    <2>7. Keys!RowInv'
      BY <1>1, <1>2, <2>3, <2>5, KeyParameters
      DEF Keys!KeyInv, Keys!TypeOK, Keys!Row, Keys!RequestInv, Keys!RowInv
    <2>8. Keys!OwnerInv'
      BY <1>1, <1>2, <1>3, <2>3, <2>5, KeyParameters
      DEF Keys!KeyInv, Keys!RequestInv, Keys!OwnerInv
    <2>9. Keys!AnswerInv'
      BY <1>2, <2>3, AnswersStand DEF Keys!KeyInv
    <2>10. QED
      BY <2>4, <2>6, <2>7, <2>8, <2>9 DEF Keys!KeyInv
  <1>4. CASE row[k] # NULL
    <2>1. UNCHANGED row /\ keyed' = [keyed EXCEPT ![q].step = "collided"]
      BY <1>4 DEF Keys!Claim, Keys!Unclaimed
    <2>2. keyed' = [keyed EXCEPT ![q].step = "collided", ![q].claimed = FALSE,
                                 ![q].code = keyed[q].code]
      BY <1>2, <2>1 DEF Keys!TypeOK, Keys!Progress
    <2>3. /\ keyed' \in [HttpRequest -> Keys!Progress]
          /\ \A p \in HttpRequest : p # q => keyed'[p] = keyed[p]
          /\ keyed'[q].step = "collided" /\ ~keyed'[q].claimed
      BY <1>2, <2>2, KeyedStep
    <2>4. Keys!TypeOK'
      BY <1>2, <2>1, <2>3 DEF Keys!TypeOK
    <2>6. Keys!RequestInv'
      BY <1>2, <2>3 DEF Keys!KeyInv, Keys!RequestInv
    <2>7. Keys!RowInv'
      BY <1>2, <2>1, <2>3 DEF Keys!KeyInv, Keys!TypeOK, Keys!Row, Keys!RowInv
    <2>8. Keys!OwnerInv'
      BY <1>2, <1>4, <2>1, <2>3 DEF Keys!KeyInv, Keys!RequestInv, Keys!OwnerInv
    <2>9. Keys!AnswerInv'
      BY <1>2, <2>3, AnswersStand DEF Keys!KeyInv
    <2>10. QED
      BY <2>4, <2>6, <2>7, <2>8, <2>9 DEF Keys!KeyInv
  <1>5. QED
    BY <1>3, <1>4

LEMMA KeyLookup ==
    ASSUME Keys!KeyInv, NEW q \in HttpRequest, Keys!Lookup(q)
    PROVE  Keys!KeyInv'
  <1> DEFINE k == KeyOf[q]
             r == row[k]
  <1>1. /\ Keys!TypeOK /\ keyed[q].step = "collided" /\ q \notin done
        /\ keyed[q].code \in {"ok", "rejected", "error", NULL}
        /\ UNCHANGED <<row, done, vanished, losses>> /\ losses' \in Nat
    BY DEF Keys!KeyInv, Keys!RequestInv, Keys!Lookup, Keys!TypeOK, Keys!Progress
  <1>2. k \in Key
    BY KeyParameters
  <1>3. CASE r = NULL
    <2>1. /\ keyed' = [keyed EXCEPT ![q].step = "handling"]
          /\ UNCHANGED answer
      BY <1>3 DEF Keys!Lookup
    <2>2. keyed' = [keyed EXCEPT ![q].step = "handling", ![q].code = keyed[q].code]
      BY <1>1, <2>1 DEF Keys!TypeOK, Keys!Progress
    <2>3. k \in vanished
      BY <1>1, <1>3 DEF Keys!KeyInv, Keys!OwnerInv
    <2>4. \A p \in HttpRequest : p # q => keyed'[p] = keyed[p]
      BY <2>1
    <2>5. Keys!AnswerInv'
      BY <1>1, <2>1, <2>4, AnswersStand DEF Keys!KeyInv
    <2>6. QED
      BY <1>1, <2>1, <2>2, <2>3, <2>5, GoesOn DEF Keys!TypeOK
  <1>4. CASE r # NULL
    <2>1. PICK code \in {"reused", "in flight", "ok", "rejected"}, of \in HttpRequest :
              /\ Keys!Answered(q, code, of)
              /\ \/ of = q
                 \/ /\ of = r.by /\ code = r.code /\ r.code # NULL
                    /\ r.fingerprint = BodyOf[q]
      <3>1. r \in Keys!Row
        BY <1>1, <1>2, <1>4 DEF Keys!TypeOK
      <3>2. CASE Keys!Mismatch(q, r)
        BY <1>4, <3>2 DEF Keys!Lookup
      <3>3. CASE ~Keys!Mismatch(q, r) /\ Keys!InFlight(r)
        BY <1>4, <3>3 DEF Keys!Lookup
      <3>4. CASE ~Keys!Mismatch(q, r) /\ ~Keys!InFlight(r)
        <4>1. /\ Keys!Answered(q, r.code, r.by)
              /\ r.code # NULL /\ r.fingerprint = BodyOf[q]
          BY <1>4, <3>4 DEF Keys!Lookup, Keys!Mismatch, Keys!InFlight
        <4>2. r.code \in {"ok", "rejected"} /\ r.by \in HttpRequest
          BY <3>1, <4>1 DEF Keys!Row
        <4>3. QED
          BY <4>1, <4>2
      <3>5. QED
        BY <3>2, <3>3, <3>4
    <2>2. /\ keyed' = [keyed EXCEPT ![q].step = "over"]
          /\ answer' = [answer EXCEPT ![q] = [code |-> code, of |-> of]]
      BY <2>1 DEF Keys!Answered
    <2>3. keyed' = [keyed EXCEPT ![q].step = "over", ![q].code = keyed[q].code]
      BY <1>1, <2>2 DEF Keys!TypeOK, Keys!Progress
    <2>4. /\ answer' \in [HttpRequest -> Keys!Answer \cup {NULL}]
          /\ answer'[q].of = of /\ answer'[q].code = code
          /\ \A p \in HttpRequest : p # q => answer'[p] = answer[p] /\ keyed'[p] = keyed[p]
      <3>1. [code |-> code, of |-> of] \in Keys!Answer
        BY DEF Keys!Answer
      <3>2. QED
        BY <1>1, <2>2, <3>1 DEF Keys!TypeOK
    <2>5. \/ of = q
          \/ /\ BodyOf[of] = BodyOf[q] /\ KeyOf[of] = KeyOf[q]
             /\ keyed[of].step = "over"
             /\ code = IF of \in done THEN "ok" ELSE "rejected"
      BY <1>2, <1>4, <2>1 DEF Keys!KeyInv, Keys!RowInv
    <2>6. Keys!AnswerInv'
      BY <1>1, <2>4, <2>5, AnswersStand DEF Keys!KeyInv
    <2>7. QED
      BY <1>1, <2>3, <2>4, <2>6, GoesOn
  <1>5. QED
    BY <1>3, <1>4

LEMMA KeyHandle ==
    ASSUME Keys!KeyInv, NEW q \in HttpRequest, Keys!Handle(q)
    PROVE  Keys!KeyInv'
  <1>1. PICK code \in {"ok", "rejected", "error"} :
            /\ keyed' = [keyed EXCEPT ![q].step = "sending", ![q].code = code]
            /\ done' \in {done, done \cup {q}}
            /\ code = "ok" => q \in done'
            /\ code = "rejected" => done' = done
    BY Zenon DEF Keys!Handle
  <1>2. /\ keyed[q].step = "handling" /\ q \notin done /\ Keys!TypeOK
        /\ UNCHANGED <<row, answer, vanished, losses>> /\ losses' \in Nat
        /\ answer' \in [HttpRequest -> Keys!Answer \cup {NULL}]
    BY DEF Keys!Handle, Keys!KeyInv, Keys!TypeOK, Keys!RequestInv
  <1>3. \A p \in HttpRequest : p # q =>
            keyed'[p] = keyed[p] /\ (p \in done' <=> p \in done)
    <2>1. \A p \in HttpRequest : p # q => keyed'[p] = keyed[p]
      BY <1>1, <1>2 DEF Keys!TypeOK
    <2>2. QED
      BY <1>1, <2>1
  <1>4. Keys!AnswerInv'
    BY <1>2, <1>3, AnswersStand DEF Keys!KeyInv
  <1>5. code # NULL
    BY KeyParameters
  <1>6. QED
    BY <1>1, <1>2, <1>4, <1>5, GoesOn

\* A request that is answered with its own outcome, or dies unanswered, is over.
LEMMA IsOver ==
    ASSUME Keys!KeyInv, NEW q \in HttpRequest,
           keyed[q].step \in {"collided", "handling", "sending"},
           keyed' = [keyed EXCEPT ![q].step = "over"],
           \/ UNCHANGED answer
           \/ \E c \in {"ok", "rejected", "error"} :
                 answer' = [answer EXCEPT ![q] = [code |-> c, of |-> q]]
    PROVE  /\ keyed' = [keyed EXCEPT ![q].step = "over", ![q].code = keyed[q].code]
           /\ keyed[q].code \in {"ok", "rejected", "error", NULL}
           /\ answer' \in [HttpRequest -> Keys!Answer \cup {NULL}]
           /\ \A p \in HttpRequest : p # q => keyed'[p] = keyed[p]
           /\ done' = done => Keys!AnswerInv'
  <1>1. Keys!TypeOK
    BY DEF Keys!KeyInv
  <1>2. /\ keyed' = [keyed EXCEPT ![q].step = "over", ![q].code = keyed[q].code]
        /\ keyed[q].code \in {"ok", "rejected", "error", NULL}
        /\ \A p \in HttpRequest : p # q => keyed'[p] = keyed[p]
    BY <1>1 DEF Keys!TypeOK, Keys!Progress
  <1>3. /\ answer' \in [HttpRequest -> Keys!Answer \cup {NULL}]
        /\ \A p \in HttpRequest : p # q => answer'[p] = answer[p]
        /\ answer'[q] = answer[q] \/ answer'[q].of = q
    <2>1. \A c \in {"ok", "rejected", "error"} : [code |-> c, of |-> q] \in Keys!Answer
      BY DEF Keys!Answer
    <2>2. QED
      BY <1>1, <2>1 DEF Keys!TypeOK
  <1>4. ASSUME done' = done PROVE Keys!AnswerInv'
    BY <1>1, <1>2, <1>3, <1>4, AnswersStand DEF Keys!KeyInv
  <1>5. QED
    BY <1>2, <1>3, <1>4

\* The code a handler left when its response is sent.
LEMMA SendingCode ==
    ASSUME Keys!KeyInv, NEW q \in HttpRequest, keyed[q].step = "sending"
    PROVE  keyed[q].code \in {"ok", "rejected", "error"}
  BY DEF Keys!KeyInv, Keys!TypeOK, Keys!Progress, Keys!RequestInv

\* Send, SendUnrecorded, Crash, and a Release or a Store that finds its claim
\* gone.
LEMMA KeyOver ==
    ASSUME Keys!KeyInv, NEW q \in HttpRequest,
           keyed[q].step \in {"collided", "handling", "sending"},
           keyed' = [keyed EXCEPT ![q].step = "over"],
           \/ UNCHANGED answer
           \/ \E c \in {"ok", "rejected", "error"} :
                 answer' = [answer EXCEPT ![q] = [code |-> c, of |-> q]],
           UNCHANGED <<row, done, vanished>>, losses' \in Nat
    PROVE  Keys!KeyInv'
  <1>1. /\ keyed' = [keyed EXCEPT ![q].step = "over", ![q].code = keyed[q].code]
        /\ keyed[q].code \in {"ok", "rejected", "error", NULL}
        /\ answer' \in [HttpRequest -> Keys!Answer \cup {NULL}]
        /\ Keys!AnswerInv'
    BY IsOver
  <1>2. done' \in {done, done \cup {q}}
    OBVIOUS
  <1>3. QED
    BY <1>1, <1>2, GoesOn

LEMMA KeyRelease ==
    ASSUME Keys!KeyInv, NEW q \in HttpRequest, Keys!Release(q)
    PROVE  Keys!KeyInv'
  <1> DEFINE k == KeyOf[q]
  <1>1. /\ keyed[q].step = "sending"
        /\ keyed' = [keyed EXCEPT ![q].step = "over"]
        /\ answer' = [answer EXCEPT ![q] = [code |-> "error", of |-> q]]
        /\ UNCHANGED <<done, losses>>
    BY DEF Keys!Release, Keys!Answered
  <1>2. /\ Keys!TypeOK /\ losses' \in Nat /\ k \in Key
    BY <1>1, KeyParameters DEF Keys!KeyInv, Keys!TypeOK
  <1>3. CASE Keys!Claimed(q)
    <2>1. row' = [row EXCEPT ![k] = NULL] /\ vanished' = vanished \cup {k}
      BY <1>3 DEF Keys!Release
    <2>2. /\ \A l \in Key : l # k => row'[l] = row[l]
          /\ row'[k] = NULL
      BY <1>2, <2>1 DEF Keys!TypeOK
    <2>3. /\ answer' \in [HttpRequest -> Keys!Answer \cup {NULL}]
          /\ \A p \in HttpRequest : p # q => keyed'[p] = keyed[p]
          /\ Keys!AnswerInv'
      BY <1>1, IsOver
    <2>4. keyed' \in [HttpRequest -> Keys!Progress] /\ keyed'[q].step = "over"
          /\ keyed'[q].claimed = keyed[q].claimed
      BY <1>1, <1>2 DEF Keys!TypeOK, Keys!Progress
    <2>5. Keys!TypeOK'
      BY <1>1, <1>2, <2>1, <2>3, <2>4 DEF Keys!TypeOK
    <2>6. Keys!RequestInv'
      BY <1>1, <2>3, <2>4 DEF Keys!KeyInv, Keys!RequestInv
    <2>7. Keys!RowInv'
      BY <1>1, <1>2, <2>2, <2>3, <2>4
      DEF Keys!KeyInv, Keys!TypeOK, Keys!Row, Keys!RowInv
    <2>8. Keys!OwnerInv'
      BY <1>1, <2>1, <2>2, <2>3, <2>4, KeyParameters DEF Keys!KeyInv, Keys!OwnerInv
    <2>9. QED
      BY <2>3, <2>5, <2>6, <2>7, <2>8 DEF Keys!KeyInv
  <1>4. CASE ~Keys!Claimed(q)
    <2>1. UNCHANGED <<row, vanished>>
      BY <1>4 DEF Keys!Release
    <2>2. QED
      BY <1>1, <1>2, <2>1, KeyOver
  <1>5. QED
    BY <1>3, <1>4

LEMMA KeyStore ==
    ASSUME Keys!KeyInv, NEW q \in HttpRequest, Keys!Store(q)
    PROVE  Keys!KeyInv'
  <1> DEFINE k == KeyOf[q]
             c == keyed[q].code
  <1>1. /\ keyed[q].step = "sending" /\ c # "error"
        /\ keyed' = [keyed EXCEPT ![q].step = "over"]
        /\ answer' = [answer EXCEPT ![q] = [code |-> c, of |-> q]]
        /\ UNCHANGED <<done, vanished, losses>>
    BY DEF Keys!Store, Keys!Answered
  <1>2. c \in {"ok", "rejected"} /\ c = IF q \in done THEN "ok" ELSE "rejected"
    BY <1>1, SendingCode DEF Keys!KeyInv, Keys!RequestInv
  <1>3. Keys!TypeOK /\ losses' \in Nat /\ k \in Key
    BY <1>1, KeyParameters DEF Keys!KeyInv, Keys!TypeOK
  <1>4. CASE Keys!Claimed(q)
    <2>1. /\ row' = [row EXCEPT ![k].code = c]
          /\ row[k] # NULL /\ row[k].by = q
      BY <1>4 DEF Keys!Store, Keys!Claimed
    <2>2. /\ \A l \in Key : l # k => row'[l] = row[l]
          /\ row'[k] \in Keys!Row /\ row'[k].by = q /\ row'[k].code = c
          /\ row'[k].fingerprint = row[k].fingerprint
      BY <1>2, <1>3, <2>1 DEF Keys!TypeOK, Keys!Row
    <2>3. /\ answer' \in [HttpRequest -> Keys!Answer \cup {NULL}]
          /\ \A p \in HttpRequest : p # q => keyed'[p] = keyed[p]
          /\ Keys!AnswerInv'
      BY <1>1, <1>2, IsOver
    <2>4. keyed' \in [HttpRequest -> Keys!Progress] /\ keyed'[q].step = "over"
          /\ keyed'[q].claimed = keyed[q].claimed
      BY <1>1, <1>3 DEF Keys!TypeOK, Keys!Progress
    <2>5. Keys!TypeOK'
      BY <1>1, <1>3, <2>1, <2>2, <2>3, <2>4 DEF Keys!TypeOK
    <2>6. Keys!RequestInv'
      BY <1>1, <2>3, <2>4 DEF Keys!KeyInv, Keys!RequestInv
    <2>7. Keys!RowInv'
      BY <1>1, <1>2, <1>3, <2>1, <2>2, <2>3, <2>4
      DEF Keys!KeyInv, Keys!TypeOK, Keys!Row, Keys!RowInv
    <2>8. Keys!OwnerInv'
      <3>1. row'[k] # NULL
        BY <2>2, KeyParameters
      <3>2. QED
        BY <1>1, <2>1, <2>2, <2>3, <2>4, <3>1, KeyParameters
        DEF Keys!KeyInv, Keys!OwnerInv
    <2>9. QED
      BY <2>3, <2>5, <2>6, <2>7, <2>8 DEF Keys!KeyInv
  <1>5. CASE ~Keys!Claimed(q)
    <2>1. UNCHANGED row
      BY <1>5 DEF Keys!Store
    <2>2. QED
      BY <1>1, <1>2, <1>3, <2>1, KeyOver
  <1>6. QED
    BY <1>4, <1>5

LEMMA KeyExpire ==
    ASSUME Keys!KeyInv, NEW k \in Key, Keys!Expire(k)
    PROVE  Keys!KeyInv'
  <1>1. /\ row' = [row EXCEPT ![k].expired = TRUE] /\ row[k] # NULL
        /\ UNCHANGED <<keyed, answer, done, vanished, losses>>
    BY DEF Keys!Expire
  <1>2. /\ \A l \in Key : l # k => row'[l] = row[l]
        /\ row'[k] \in Keys!Row /\ row'[k].by = row[k].by
        /\ row'[k].code = row[k].code
        /\ row'[k].fingerprint = row[k].fingerprint
    BY <1>1 DEF Keys!KeyInv, Keys!TypeOK, Keys!Row
  <1>3. row'[k] # NULL
    BY <1>2, KeyParameters
  <1>4. Keys!TypeOK'
    BY <1>1, <1>2 DEF Keys!KeyInv, Keys!TypeOK
  <1>5. Keys!RequestInv' /\ Keys!AnswerInv'
    BY <1>1 DEF Keys!KeyInv, Keys!RequestInv, Keys!AnswerInv
  <1>6. Keys!RowInv'
    BY <1>1, <1>2 DEF Keys!KeyInv, Keys!RowInv
  <1>7. Keys!OwnerInv'
    BY <1>1, <1>2, <1>3, KeyParameters DEF Keys!KeyInv, Keys!OwnerInv
  <1>8. QED
    BY <1>4, <1>5, <1>6, <1>7 DEF Keys!KeyInv

LEMMA KeySweep ==
    ASSUME Keys!KeyInv, Keys!Sweep
    PROVE  Keys!KeyInv'
  <1> DEFINE old == {k \in Key : row[k] # NULL /\ row[k].expired}
  <1>1. /\ row' = [k \in Key |-> IF k \in old THEN NULL ELSE row[k]]
        /\ vanished' = vanished \cup old
        /\ UNCHANGED <<keyed, answer, done, losses>>
    BY DEF Keys!Sweep
  <1>2. \A k \in Key : row'[k] = IF k \in old THEN NULL ELSE row[k]
    BY <1>1
  <1> HIDE DEF old
  <1>3. old \subseteq Key
    BY DEF old
  <1>4. Keys!TypeOK'
    BY <1>1, <1>3 DEF Keys!KeyInv, Keys!TypeOK
  <1>5. Keys!RequestInv' /\ Keys!AnswerInv'
    BY <1>1 DEF Keys!KeyInv, Keys!RequestInv, Keys!AnswerInv
  <1>6. Keys!RowInv'
    BY <1>1, <1>2 DEF Keys!KeyInv, Keys!RowInv
  <1>7. Keys!OwnerInv'
    BY <1>1, <1>2, KeyParameters DEF Keys!KeyInv, Keys!OwnerInv
  <1>8. QED
    BY <1>4, <1>5, <1>6, <1>7 DEF Keys!KeyInv

LEMMA KeyNext ==
    ASSUME Keys!KeyInv, Keys!Next
    PROVE  Keys!KeyInv'
  <1>1. ASSUME NEW q \in HttpRequest, Keys!Send(q) PROVE Keys!KeyInv'
    <2>1. /\ keyed[q].step = "sending"
          /\ keyed' = [keyed EXCEPT ![q].step = "over"]
          /\ answer' = [answer EXCEPT ![q] = [code |-> keyed[q].code, of |-> q]]
          /\ UNCHANGED <<row, done, vanished, losses>>
      BY <1>1 DEF Keys!Send, Keys!Answered
    <2>2. losses' \in Nat
      BY <2>1 DEF Keys!KeyInv, Keys!TypeOK
    <2>3. QED
      BY <2>1, <2>2, SendingCode, KeyOver
  <1>2. ASSUME NEW q \in HttpRequest, Keys!SendUnrecorded(q) PROVE Keys!KeyInv'
    <2>1. /\ keyed[q].step = "sending"
          /\ keyed' = [keyed EXCEPT ![q].step = "over"]
          /\ answer' = [answer EXCEPT ![q] = [code |-> keyed[q].code, of |-> q]]
          /\ UNCHANGED <<row, done, vanished>> /\ losses' = losses + 1
      BY <1>2 DEF Keys!SendUnrecorded, Keys!Answered
    <2>2. losses' \in Nat
      BY <2>1 DEF Keys!KeyInv, Keys!TypeOK
    <2>3. QED
      BY <2>1, <2>2, SendingCode, KeyOver
  <1>3. ASSUME NEW q \in HttpRequest, Keys!Crash(q) PROVE Keys!KeyInv'
    <2>1. /\ keyed[q].step \in {"collided", "handling", "sending"}
          /\ keyed' = [keyed EXCEPT ![q].step = "over"]
          /\ UNCHANGED <<row, answer, done, vanished>> /\ losses' = losses + 1
      BY <1>3 DEF Keys!Crash
    <2>2. losses' \in Nat
      BY <2>1 DEF Keys!KeyInv, Keys!TypeOK
    <2>3. QED
      BY <2>1, <2>2, KeyOver
  <1>4. QED
    BY <1>1, <1>2, <1>3, KeyClaim, KeyLookup, KeyHandle, KeyRelease, KeyStore,
       KeyExpire, KeySweep
    DEF Keys!Next

\* Nobody else writes the keys.
LEMMA KeysAlone ==
    ASSUME [ServicesNext]_lossVars
    PROVE  Keys!Next \/ UNCHANGED keyVars
  BY Zenon DEF ServicesNext, lossVars

LEMMA KeyFrame ==
    ASSUME Keys!KeyInv, UNCHANGED keyVars, losses' \in Nat
    PROVE  Keys!KeyInv'
  BY DEF keyVars, Keys!KeyInv, Keys!TypeOK, Keys!RequestInv, Keys!RowInv,
         Keys!OwnerInv, Keys!AnswerInv

LEMMA KeyStep ==
    ASSUME Keys!KeyInv, [ServicesNext]_lossVars
    PROVE  Keys!KeyInv'
  <1>1. losses' \in Nat
    BY LossesGrow DEF Keys!KeyInv, Keys!TypeOK
  <1>2. QED
    BY <1>1, KeysAlone, KeyFrame, KeyNext

\* An instance has operators of its own, also of the standard modules.
LEMMA CardinalityOfKeys == \A S : Keys!Cardinality(S) = Cardinality(S)
  BY Zenon DEF Keys!Cardinality, Cardinality

\* The work for a key is the work of the one that its row names.
LEMMA OneOwner ==
    ASSUME Keys!KeyInv PROVE Keys!WorkDoneOnce
  <1>1. SUFFICES ASSUME NEW k \in Key \ vanished
                 PROVE  Cardinality({q \in done : KeyOf[q] = k}) <= 1
    BY CardinalityOfKeys, Zenon DEF Keys!WorkDoneOnce
  <1> DEFINE D == {q \in done : KeyOf[q] = k}
  <1>2. \A q \in D : row[k].by = q
    BY <1>1 DEF Keys!KeyInv, Keys!TypeOK, Keys!OwnerInv
  <1>3. D = {} \/ D = {row[k].by}
    BY <1>2
  <1> HIDE DEF D
  <1>4. Cardinality(D) <= 1
    <2>1. CASE D = {}
      BY <2>1, FS_EmptySet
    <2>2. ASSUME NEW x, D = {x} PROVE Cardinality(D) <= 1
      BY <2>2, FS_Singleton
    <2>3. QED
      BY <1>3, <2>1, <2>2
  <1>5. QED
    BY <1>4 DEF D

\* While a key is claimed, the work of all requests that carry it is done at
\* most once, and what a retry is answered is the outcome of that work
\* (plugins/idempotency.ts).
THEOREM RetryIsAnswered == ServicesSpec => []RetryIsReplay
  <1>1. ServicesInit => Keys!KeyInv
    BY KeyInit DEF ServicesInit
  <1>2. Keys!KeyInv /\ [ServicesNext]_lossVars => Keys!KeyInv'
    BY KeyStep
  <1>3. Keys!KeyInv => RetryIsReplay
    <2>1. ASSUME Keys!KeyInv PROVE Keys!ReplayIsTheAnswer
      BY <2>1 DEF Keys!KeyInv, Keys!AnswerInv, Keys!ReplayIsTheAnswer
    <2>2. QED
      BY <2>1, OneOwner DEF RetryIsReplay
  <1>4. QED
    BY <1>1, <1>2, <1>3, PTL DEF ServicesSpec, lossVars

-----------------------------------------------------------------------------
(* The notification outbox. *)

LEMMA NoteParameters ==
    /\ IsFiniteSet(Instance)
    /\ NULL \notin Instance /\ NULL \notin Note
    /\ Optional \subseteq Note
    /\ MaxAttempts \in Nat \ {0}
  <1>1. Notes!NoteAssumption
    BY ServicesAssumption DEF ServicesAssumption
  <1>2. \A S : Notes!IsFiniteSet(S) <=> IsFiniteSet(S)
    BY Zenon DEF Notes!IsFiniteSet, IsFiniteSet
  <1>3. QED
    BY <1>1, <1>2 DEF Notes!NoteAssumption

LEMMA NoteSets ==
    /\ \A S : Notes!IsFiniteSet(S) <=> IsFiniteSet(S)
    /\ \A S : Notes!Cardinality(S) = Cardinality(S)
    /\ \A f, S : Notes!SumFunctionOnSet(f, S) = SumFunctionOnSet(f, S)
  <1>1. \A S : Notes!IsFiniteSet(S) <=> IsFiniteSet(S)
    BY Zenon DEF Notes!IsFiniteSet, IsFiniteSet
  <1>2. \A S : Notes!Cardinality(S) = Cardinality(S)
    BY Zenon DEF Notes!Cardinality, Cardinality
  <1>3. \A f, S : Notes!SumFunctionOnSet(f, S) = SumFunctionOnSet(f, S)
    BY Zenon
    DEF Notes!SumFunctionOnSet, SumFunctionOnSet, Notes!FoldFunctionOnSet,
        FoldFunctionOnSet, Notes!MapThenFoldSet, MapThenFoldSet
  <1>4. QED
    BY <1>1, <1>2, <1>3

\* What a pass p of instance i may still spend on n while l has the lease.
Sent(p, n) == p.step \in {"sent", "failed"} /\ p.at = n
Share(l, p, i, n) ==
    IF l = i \/ n \notin p.todo THEN 0
    ELSE IF Sent(p, n) THEN MaxAttempts - 1 ELSE MaxAttempts

LEMMA ShareIsNat == \A l, p, i, n : Share(l, p, i, n) \in 0..MaxAttempts
  BY NoteParameters DEF Share

LEMMA Shares ==
    ASSUME NEW n
    PROVE  /\ Notes!Owed(n) =
                  SumFunctionOnSet([i \in Instance |-> Share(lease, pass[i], i, n)],
                                   Instance)
           /\ Notes!Owed(n)' =
                  SumFunctionOnSet([i \in Instance |-> Share(lease', pass'[i], i, n)],
                                   Instance)
  <1>1. Notes!Allowance(n) = [i \in Instance |-> Share(lease, pass[i], i, n)]
    BY DEF Notes!Allowance, Notes!Unrecorded, Share, Sent
  <1>2. Notes!Allowance(n)' = [i \in Instance |-> Share(lease', pass'[i], i, n)]
    BY DEF Notes!Allowance, Notes!Unrecorded, Share, Sent
  <1>3. QED
    BY <1>1, <1>2, NoteSets, Zenon DEF Notes!Owed

LEMMA OwedIsNat ==
    ASSUME NEW n PROVE Notes!Owed(n) \in Nat
  <1> DEFINE f == [i \in Instance |-> Share(lease, pass[i], i, n)]
  <1>1. \A i \in Instance : f[i] \in Nat
    BY ShareIsNat, NoteParameters
  <1>2. Notes!Owed(n) = SumFunctionOnSet(f, Instance)
    BY Shares
  <1> HIDE DEF f
  <1>3. QED
    BY <1>1, <1>2, SumType, NoteParameters

\* A step of one instance changes its share alone.
LEMMA OwedMoves ==
    ASSUME NEW n, NEW i \in Instance,
           \A j \in Instance : j # i =>
               pass'[j] = pass[j] /\ (lease' = j <=> lease = j)
    PROVE  /\ Notes!Owed(n) \in Nat
           /\ Notes!Owed(n)' \in Nat
           /\ Notes!Owed(n)' = Notes!Owed(n) + Share(lease', pass'[i], i, n)
                                            - Share(lease, pass[i], i, n)
  <1> DEFINE f == [j \in Instance |-> Share(lease, pass[j], j, n)]
             g == [j \in Instance |-> Share(lease', pass'[j], j, n)]
  <1>1. \A j \in Instance : f[j] \in Nat /\ g[j] \in Nat
    BY ShareIsNat, NoteParameters
  <1>2. \A j \in Instance \ {i} : g[j] = f[j]
    BY DEF Share
  <1>3. f[i] = Share(lease, pass[i], i, n) /\ g[i] = Share(lease', pass'[i], i, n)
    OBVIOUS
  <1>4. /\ Notes!Owed(n) = SumFunctionOnSet(f, Instance)
        /\ Notes!Owed(n)' = SumFunctionOnSet(g, Instance)
    BY Shares
  <1> HIDE DEF f, g
  <1>5. /\ SumFunctionOnSet(f, Instance) \in Nat
        /\ SumFunctionOnSet(g, Instance) \in Nat
        /\ SumFunctionOnSet(g, Instance) = SumFunctionOnSet(f, Instance) + g[i] - f[i]
    BY <1>1, <1>2, NoteParameters, SumChange
  <1>6. QED
    BY <1>3, <1>4, <1>5

LEMMA OwedStays ==
    ASSUME NEW n, UNCHANGED <<lease, pass>>
    PROVE  Notes!Owed(n) \in Nat /\ Notes!Owed(n)' = Notes!Owed(n)
  <1>1. Notes!Owed(n)' = Notes!Owed(n)
    BY Shares
  <1>2. QED
    BY <1>1, OwedIsNat

LEMMA BudgetMoves ==
    ASSUME Notes!TypeOK, losses' \in {losses, losses + 1}
    PROVE  /\ Notes!Budget \in Nat
           /\ overlaps' = overlaps =>
                 Notes!Budget' = Notes!Budget + losses' - losses
           /\ overlaps' = overlaps + 1 =>
                 Notes!Budget' = Notes!Budget + MaxAttempts + losses' - losses
  <1>1. overlaps \in Nat /\ losses \in Nat /\ MaxAttempts \in Nat
    BY NoteParameters DEF Notes!TypeOK
  <1>2. /\ MaxAttempts * overlaps \in Nat
        /\ MaxAttempts * (overlaps + 1) = MaxAttempts * overlaps + MaxAttempts
    BY <1>1
  <1>3. QED
    BY <1>1, <1>2 DEF Notes!Budget

\* Neither the rows nor the passes change.
LEMMA WithinStays ==
    ASSUME Notes!NoteInv, NEW n \in Note, losses' \in {losses, losses + 1},
           UNCHANGED <<lease, pass, status, attempts, tries, overlaps>>
    PROVE  Notes!Within(n)'
  <1>1. Notes!TypeOK /\ Notes!Within(n)
    BY DEF Notes!NoteInv, Notes!BudgetInv
  <1>2. /\ tries[n] \in Nat /\ attempts[n] \in Nat /\ losses \in Nat
        /\ MaxAttempts \in Nat
        /\ lease # NULL => pass[lease].read[n] \in Nat
    BY <1>1, NoteParameters
    DEF Notes!TypeOK, Notes!LeaseTypeOK, Notes!Pass
  <1>3. Notes!Budget \in Nat /\ Notes!Budget' = Notes!Budget + losses' - losses
    BY <1>1, BudgetMoves
  <1>4. Notes!Owed(n) \in Nat /\ Notes!Owed(n)' = Notes!Owed(n)
    BY OwedStays
  <1>5. Notes!Unrecorded(lease, n)' <=> Notes!Unrecorded(lease, n)
    BY DEF Notes!Unrecorded
  <1>6. QED
    BY <1>1, <1>2, <1>3, <1>4, <1>5 DEF Notes!Within

\* So it is when somebody else moves, or a preference or a backoff changes.
LEMMA NoteQuiet ==
    ASSUME Notes!NoteInv, losses' \in {losses, losses + 1},
           UNCHANGED <<lease, createdAt, status, attempts, suppressed, pass, tries,
                       received, overlaps>>,
           optedOut' \subseteq everOff', everOff \subseteq everOff',
           everOff' \subseteq Optional, backedOff' \subseteq Note
    PROVE  Notes!NoteInv'
  <1>1. Notes!TypeOK'
    BY DEF Notes!NoteInv, Notes!TypeOK, Notes!LeaseTypeOK
  <1>2. (IsFiniteSet(Notes!Rows) /\ Notes!PassInv)'
    BY NoteSets DEF Notes!NoteInv, Notes!Rows, Notes!PassInv
  <1>3. Notes!SentInv'
    BY DEF Notes!NoteInv, Notes!SentInv, Notes!SentMeansReceived, Notes!Unrecorded
  <1>4. Notes!BudgetInv'
    BY WithinStays DEF Notes!BudgetInv
  <1>5. QED
    BY <1>1, <1>2, <1>3, <1>4, NoteSets DEF Notes!NoteInv

\* What the types say of one pass and one row.
LEMMA NoteTypes ==
    ASSUME Notes!TypeOK
    PROVE  /\ lease \in Instance \cup {NULL}
           /\ losses \in Nat /\ overlaps \in Nat
           /\ \A i \in Instance :
                 /\ pass[i].step \in {"idle", "checking", "sending", "sent", "failed"}
                 /\ pass[i].todo \subseteq Note
                 /\ pass[i].at \in Note \cup {NULL}
                 /\ \A n \in Note : pass[i].read[n] \in 0..MaxAttempts
           /\ \A n \in Note :
                 /\ status[n] \in {"NONE", "PENDING", "SENT", "FAILED"}
                 /\ attempts[n] \in 0..MaxAttempts
                 /\ tries[n] \in Nat
  BY DEF Notes!TypeOK, Notes!LeaseTypeOK, Notes!Pass

LEMMA NoteEnqueue ==
    ASSUME Notes!NoteInv, NEW n \in Note, Notes!Enqueue(n)
    PROVE  Notes!NoteInv'
  <1>1. /\ status[n] = "NONE"
        /\ status' = [status EXCEPT ![n] = "PENDING"]
        /\ createdAt' = [createdAt EXCEPT ![n] = 1 + Cardinality(Notes!Rows)]
        /\ UNCHANGED <<lease, attempts, suppressed, optedOut, backedOff, pass,
                       tries, received, everOff, overlaps, losses>>
    BY NoteSets
    DEF Notes!Enqueue, Notes!Rows, Notes!sentVars, Notes!faultVars
  <1>2. IsFiniteSet(Notes!Rows) /\ Cardinality(Notes!Rows) \in Nat
    BY NoteSets, FS_CardinalityType DEF Notes!NoteInv
  <1>3. Notes!TypeOK
    BY DEF Notes!NoteInv
  <1>4. Notes!TypeOK'
    BY <1>1, <1>2, <1>3 DEF Notes!TypeOK, Notes!LeaseTypeOK
  <1>5. Notes!Rows' = Notes!Rows \cup {n}
    BY <1>1, <1>3 DEF Notes!Rows, Notes!TypeOK
  <1>6. IsFiniteSet(Notes!Rows')
    BY <1>2, <1>5, FS_AddElement
  <1>7. Notes!PassInv'
    BY <1>1 DEF Notes!NoteInv, Notes!PassInv
  <1>8. Notes!SentInv'
    BY <1>1, <1>3
    DEF Notes!NoteInv, Notes!TypeOK, Notes!SentInv, Notes!SentMeansReceived,
        Notes!Unrecorded
  <1>9. ASSUME NEW m \in Note PROVE Notes!Within(m)'
    <2>1. Notes!Within(m)
      BY DEF Notes!NoteInv, Notes!BudgetInv
    <2>2. /\ status'[m] = "PENDING" => status[m] \in {"NONE", "PENDING"}
          /\ status'[m] # "NONE" \/ status[m] = "NONE"
          /\ status'[m] = status[m] \/ status'[m] = "PENDING"
      BY <1>1, <1>3 DEF Notes!TypeOK
    <2>3. Notes!Owed(m)' = Notes!Owed(m) /\ Notes!Budget' = Notes!Budget
      BY <1>1, OwedStays DEF Notes!Budget
    <2>4. Notes!Unrecorded(lease, m)' <=> Notes!Unrecorded(lease, m)
      BY <1>1 DEF Notes!Unrecorded
    <2>5. QED
      BY <1>1, <2>1, <2>2, <2>3, <2>4 DEF Notes!Within
  <1>10. QED
    BY <1>4, <1>6, <1>7, <1>8, <1>9, NoteSets DEF Notes!NoteInv, Notes!BudgetInv

LEMMA NoteLapse ==
    ASSUME Notes!NoteInv, Notes!LeaseLapses
    PROVE  Notes!NoteInv'
  <1> DEFINE h == lease
  <1>1. /\ h \in Instance /\ lease' = NULL
        /\ UNCHANGED <<createdAt, status, attempts, suppressed, optedOut, backedOff,
                       pass, tries, received, everOff>>
    BY NoteTypes
    DEF Notes!NoteInv, Notes!LeaseLapses, Notes!Lapse, Notes!rowVars, Notes!sentVars
  <1>2. \/ pass[h] = Notes!IdlePass /\ UNCHANGED <<overlaps, losses>>
        \/ overlaps' = overlaps + 1 /\ losses' = losses + 1
    BY DEF Notes!LeaseLapses, Notes!Loses, Notes!faultVars
  <1>3. Notes!TypeOK /\ losses' \in {losses, losses + 1}
    BY <1>2 DEF Notes!NoteInv
  <1>4. Notes!TypeOK'
    BY <1>1, <1>2, <1>3 DEF Notes!TypeOK, Notes!LeaseTypeOK
  <1>5. IsFiniteSet(Notes!Rows')
    BY <1>1, NoteSets DEF Notes!NoteInv, Notes!Rows
  <1>6. Notes!PassInv' /\ Notes!SentInv'
    BY <1>1
    DEF Notes!NoteInv, Notes!PassInv, Notes!SentInv, Notes!SentMeansReceived,
        Notes!Unrecorded
  <1>7. ASSUME NEW n \in Note PROVE Notes!Within(n)'
    <2>1. Notes!Within(n)
      BY DEF Notes!NoteInv, Notes!BudgetInv
    <2>2. NULL \notin Instance /\ MaxAttempts \in Nat \ {0}
      BY NoteParameters
    <2>3. /\ Notes!Owed(n) \in Nat /\ Notes!Owed(n)' \in Nat
          /\ Notes!Owed(n)' = Notes!Owed(n) + Share(NULL, pass[h], h, n)
                                           - Share(h, pass[h], h, n)
      BY <1>1, <2>2, OwedMoves
    <2>4. /\ Share(h, pass[h], h, n) = 0
          /\ Share(NULL, pass[h], h, n) \in 0..MaxAttempts
          /\ Notes!Unrecorded(h, n) /\ n \in pass[h].todo =>
                Share(NULL, pass[h], h, n) = MaxAttempts - 1
          /\ n \notin pass[h].todo => Share(NULL, pass[h], h, n) = 0
      BY <1>1, <2>2, ShareIsNat DEF Share, Sent, Notes!Unrecorded
    <2>5. Notes!Unrecorded(h, n) => n \in pass[h].todo
      BY <1>1 DEF Notes!NoteInv, Notes!PassInv, Notes!Unrecorded
    <2>6. /\ tries[n] \in Nat /\ attempts[n] \in 0..MaxAttempts
          /\ losses \in Nat
          /\ Notes!Budget \in Nat
      BY <1>3, NoteTypes, BudgetMoves
    <2>7. CASE pass[h] = Notes!IdlePass /\ UNCHANGED <<overlaps, losses>>
      <3>1. pass[h].todo = {} /\ ~Notes!Unrecorded(h, n)
        BY <2>7 DEF Notes!IdlePass, Notes!Unrecorded
      <3>2. Notes!Budget' = Notes!Budget
        BY <2>7 DEF Notes!Budget
      <3>3. QED
        BY <1>1, <2>1, <2>3, <2>4, <2>6, <3>1, <3>2 DEF Notes!Within
    <2>8. CASE overlaps' = overlaps + 1 /\ losses' = losses + 1
      <3>1. Notes!Budget' = Notes!Budget + MaxAttempts + 1
        BY <1>3, <2>2, <2>6, <2>8, BudgetMoves
      <3>2. QED
        BY <1>1, <2>1, <2>2, <2>3, <2>4, <2>5, <2>6, <3>1 DEF Notes!Within
    <2>9. QED
      BY <1>2, <2>7, <2>8
  <1>8. QED
    BY <1>4, <1>5, <1>6, <1>7, NoteSets DEF Notes!NoteInv, Notes!BudgetInv

LEMMA NoteBegin ==
    ASSUME Notes!NoteInv, NEW i \in Instance, Notes!Begin(i)
    PROVE  Notes!NoteInv'
  <1> DEFINE todo == Notes!Batch \ backedOff
             p == [step |-> "checking", todo |-> todo, at |-> NULL,
                   read |-> attempts]
  <1>1. /\ pass[i] = Notes!IdlePass /\ lease = NULL /\ lease' = i
        /\ pass' = [pass EXCEPT ![i] = p]
        /\ UNCHANGED <<createdAt, status, attempts, suppressed, optedOut, backedOff,
                       tries, received, everOff, overlaps, losses>>
    BY DEF Notes!Begin, Notes!Acquire, Notes!rowVars, Notes!sentVars, Notes!faultVars
  <1>2. Notes!TypeOK
    BY DEF Notes!NoteInv
  <1>3. \A n \in todo : n \in Note /\ status[n] = "PENDING"
    BY DEF Notes!Batch
  <1> HIDE DEF todo
  <1>4. p \in Notes!Pass
    BY <1>2, <1>3 DEF Notes!TypeOK, Notes!Pass
  <1>5. /\ pass'[i] = p
        /\ \A j \in Instance : j # i => pass'[j] = pass[j]
    BY <1>1, <1>2 DEF Notes!TypeOK
  <1>6. Notes!TypeOK'
    BY <1>1, <1>2, <1>4 DEF Notes!TypeOK, Notes!LeaseTypeOK
  <1>7. IsFiniteSet(Notes!Rows')
    BY <1>1, NoteSets DEF Notes!NoteInv, Notes!Rows
  <1>8. \A n \in todo : attempts[n] < MaxAttempts
    BY <1>3 DEF Notes!NoteInv, Notes!BudgetInv, Notes!Within
  <1>9. Notes!PassInv'
    BY <1>5, <1>8 DEF Notes!NoteInv, Notes!PassInv
  <1>10. Notes!SentInv'
    <2>1. \A n \in todo : attempts[n] \in Nat /\ attempts[n] <= tries[n]
      BY <1>2, <1>3, NoteTypes DEF Notes!NoteInv, Notes!SentInv
    <2>2. \A j \in Instance :
             /\ pass'[j].step = "sent" => pass'[j].at \in received'
             /\ \A n \in pass'[j].todo :
                   pass'[j].read[n] + (IF Notes!Unrecorded(j, n)' THEN 1 ELSE 0)
                       <= tries'[n]
      BY <1>1, <1>5, <2>1
      DEF Notes!NoteInv, Notes!SentInv, Notes!Unrecorded
    <2>3. QED
      BY <1>1, <2>2 DEF Notes!NoteInv, Notes!SentInv, Notes!SentMeansReceived
  <1>11. ASSUME NEW n \in Note PROVE Notes!Within(n)'
    <2>1. Notes!Within(n)
      BY DEF Notes!NoteInv, Notes!BudgetInv
    <2>2. NULL \notin Instance
      BY NoteParameters
    <2>3. /\ Notes!Owed(n) \in Nat /\ Notes!Owed(n)' \in Nat
          /\ Notes!Owed(n)' = Notes!Owed(n) + Share(i, p, i, n)
                                           - Share(NULL, Notes!IdlePass, i, n)
      BY <1>1, <1>5, <2>2, OwedMoves
    <2>4. Share(i, p, i, n) = 0 /\ Share(NULL, Notes!IdlePass, i, n) = 0
      BY DEF Share, Notes!IdlePass
    <2>5. Notes!Budget' = Notes!Budget
      BY <1>1 DEF Notes!Budget
    <2>6. ~Notes!Unrecorded(i, n)'
      BY <1>5 DEF Notes!Unrecorded
    <2>7. n \in pass'[i].todo => status[n] = "PENDING" /\ pass'[i].read[n] = attempts[n]
      BY <1>3, <1>5
    <2>8. QED
      BY <1>1, <2>1, <2>3, <2>4, <2>5, <2>6, <2>7 DEF Notes!Within
  <1>12. QED
    BY <1>6, <1>7, <1>9, <1>10, <1>11, NoteSets DEF Notes!NoteInv, Notes!BudgetInv

LEMMA NoteCheck ==
    ASSUME Notes!NoteInv, NEW i \in Instance, Notes!CheckPreference(i)
    PROVE  Notes!NoteInv'
  <1>1. PICK m \in Notes!Oldest(pass[i].todo) :
            \/ /\ m \in optedOut
               /\ status' = [status EXCEPT ![m] = "SENT"]
               /\ suppressed' = suppressed \cup {m}
               /\ pass' = [pass EXCEPT ![i].step = "checking",
                                       ![i].todo = @ \ {m}, ![i].at = NULL]
            \/ /\ pass' = [pass EXCEPT ![i].step = "sending", ![i].at = m]
               /\ UNCHANGED <<status, suppressed>>
    BY Zenon DEF Notes!CheckPreference, Notes!DoneWith
  <1>2. /\ pass[i].step = "checking"
        /\ UNCHANGED <<lease, createdAt, attempts, optedOut, backedOff, tries,
                       received, everOff, overlaps, losses>>
    BY DEF Notes!CheckPreference, Notes!sentVars, Notes!faultVars
  <1>3. Notes!TypeOK /\ m \in pass[i].todo /\ m \in Note
    BY NoteTypes DEF Notes!NoteInv, Notes!Oldest
  <1>4. /\ pass' \in [Instance -> Notes!Pass]
        /\ \A j \in Instance : j # i => pass'[j] = pass[j]
        /\ pass'[i].read = pass[i].read
        /\ \/ /\ m \in optedOut
              /\ status' = [status EXCEPT ![m] = "SENT"]
              /\ suppressed' = suppressed \cup {m}
              /\ pass'[i].step = "checking" /\ pass'[i].todo = pass[i].todo \ {m}
           \/ /\ pass'[i].step = "sending" /\ pass'[i].todo = pass[i].todo
              /\ pass'[i].at = m
              /\ UNCHANGED <<status, suppressed>>
    <2>1. CASE /\ m \in optedOut
               /\ status' = [status EXCEPT ![m] = "SENT"]
               /\ suppressed' = suppressed \cup {m}
               /\ pass' = [pass EXCEPT ![i].step = "checking",
                                       ![i].todo = @ \ {m}, ![i].at = NULL]
      BY <1>3, <2>1 DEF Notes!TypeOK, Notes!Pass
    <2>2. CASE /\ pass' = [pass EXCEPT ![i].step = "sending", ![i].at = m]
               /\ UNCHANGED <<status, suppressed>>
      BY <1>3, <2>2 DEF Notes!TypeOK, Notes!Pass
    <2>3. QED
      BY <1>1, <2>1, <2>2
  <1>5. Notes!TypeOK'
    BY <1>2, <1>3, <1>4 DEF Notes!TypeOK, Notes!LeaseTypeOK
  <1>6. IsFiniteSet(Notes!Rows')
    <2>1. IsFiniteSet(Notes!Rows)
      BY NoteSets DEF Notes!NoteInv
    <2>2. Notes!Rows' \subseteq Notes!Rows \cup {m}
      BY <1>3, <1>4 DEF Notes!Rows, Notes!TypeOK
    <2>3. QED
      BY <2>1, <2>2, FS_AddElement, FS_Subset
  <1>7. Notes!PassInv'
    BY <1>2, <1>3, <1>4 DEF Notes!NoteInv, Notes!PassInv
  <1>8. Notes!SentInv'
    <2>1. \A j \in Instance :
             /\ pass'[j].step = "sent" => pass'[j].at \in received'
             /\ \A n \in pass'[j].todo :
                   pass'[j].read[n] + (IF Notes!Unrecorded(j, n)' THEN 1 ELSE 0)
                       <= tries'[n]
      BY <1>2, <1>4 DEF Notes!NoteInv, Notes!SentInv, Notes!Unrecorded
    <2>2. \A n \in Note :
             \/ status'[n] = status[n]
             \/ status'[n] = "SENT" /\ n \in optedOut
      BY <1>3, <1>4 DEF Notes!TypeOK
    <2>3. QED
      BY <1>2, <2>1, <2>2 DEF Notes!NoteInv, Notes!SentInv, Notes!SentMeansReceived
  <1>9. ASSUME NEW n \in Note PROVE Notes!Within(n)'
    <2>1. Notes!Within(n)
      BY DEF Notes!NoteInv, Notes!BudgetInv
    <2>2. /\ Notes!Owed(n) \in Nat /\ Notes!Owed(n)' \in Nat
          /\ Notes!Owed(n)' = Notes!Owed(n) + Share(lease, pass'[i], i, n)
                                           - Share(lease, pass[i], i, n)
      BY <1>2, <1>4, OwedMoves
    <2>3. ~Sent(pass[i], n) /\ ~Sent(pass'[i], n)
      BY <1>2, <1>4 DEF Sent
    <2>4. /\ pass'[i].todo \subseteq pass[i].todo
          /\ status'[n] \in {"NONE", "PENDING"} => status[n] = status'[n]
      BY <1>3, <1>4 DEF Notes!TypeOK
    <2>5. /\ Share(lease, pass'[i], i, n) \in Nat /\ Share(lease, pass[i], i, n) \in Nat
          /\ Share(lease, pass'[i], i, n) <= Share(lease, pass[i], i, n)
      BY <2>3, <2>4, NoteParameters DEF Share
    <2>6. Notes!Budget' = Notes!Budget
      BY <1>2 DEF Notes!Budget
    <2>7. lease # NULL =>
             /\ Notes!Unrecorded(lease, n)' <=> Notes!Unrecorded(lease, n)
             /\ pass'[lease].todo \subseteq pass[lease].todo
             /\ pass'[lease].read = pass[lease].read
      BY <1>2, <1>3, <1>4, <2>3, NoteTypes DEF Notes!Unrecorded, Sent
    <2>8. /\ tries[n] \in Nat /\ attempts[n] \in Nat
          /\ lease # NULL => pass[lease].read[n] \in Nat
      BY <1>3, NoteTypes, NoteParameters
    <2>9. Notes!Budget \in Nat /\ MaxAttempts \in Nat
      BY <1>2, <1>3, BudgetMoves, NoteParameters
    <2>10. /\ tries'[n] = tries[n] /\ attempts'[n] = attempts[n] /\ lease' = lease
           /\ Notes!Owed(n)' <= Notes!Owed(n)
      BY <1>2, <2>2, <2>5
    <2>11. QED
      BY <2>1, <2>2, <2>4, <2>6, <2>7, <2>8, <2>9, <2>10 DEF Notes!Within
  <1>10. QED
    BY <1>5, <1>6, <1>7, <1>8, <1>9, NoteSets DEF Notes!NoteInv, Notes!BudgetInv

LEMMA NoteSend ==
    ASSUME Notes!NoteInv, NEW i \in Instance, Notes!Send(i)
    PROVE  Notes!NoteInv'
  <1> DEFINE m == pass[i].at
  <1>1. /\ pass[i].step = "sending"
        /\ tries' = [tries EXCEPT ![m] = @ + 1]
        /\ UNCHANGED <<lease, createdAt, status, attempts, suppressed, optedOut,
                       backedOff, everOff, overlaps, losses>>
    BY DEF Notes!Send, Notes!rowVars, Notes!faultVars
  <1>2. \/ pass' = [pass EXCEPT ![i].step = "sent"] /\ received' = received \cup {m}
        \/ pass' = [pass EXCEPT ![i].step = "failed"] /\ UNCHANGED received
    BY DEF Notes!Send, Notes!Step
  <1>3. Notes!TypeOK /\ m \in pass[i].todo /\ m \in Note
    BY <1>1, NoteTypes DEF Notes!NoteInv, Notes!PassInv
  <1>4. /\ pass' \in [Instance -> Notes!Pass]
        /\ \A j \in Instance : j # i => pass'[j] = pass[j]
        /\ pass'[i].read = pass[i].read /\ pass'[i].todo = pass[i].todo
        /\ pass'[i].at = m
        /\ \/ pass'[i].step = "sent" /\ received' = received \cup {m}
           \/ pass'[i].step = "failed" /\ UNCHANGED received
    <2>1. CASE pass' = [pass EXCEPT ![i].step = "sent"] /\ received' = received \cup {m}
      BY <1>3, <2>1 DEF Notes!TypeOK, Notes!Pass
    <2>2. CASE pass' = [pass EXCEPT ![i].step = "failed"] /\ UNCHANGED received
      BY <1>3, <2>2 DEF Notes!TypeOK, Notes!Pass
    <2>3. QED
      BY <1>2, <2>1, <2>2
  <1>5. /\ tries'[m] = tries[m] + 1
        /\ \A n \in Note : n # m => tries'[n] = tries[n]
    BY <1>1, <1>3 DEF Notes!TypeOK
  <1>6. Notes!TypeOK'
    BY <1>1, <1>3, <1>4 DEF Notes!TypeOK, Notes!LeaseTypeOK
  <1>7. IsFiniteSet(Notes!Rows')
    BY <1>1, NoteSets DEF Notes!NoteInv, Notes!Rows
  <1>8. Notes!PassInv'
    BY <1>3, <1>4 DEF Notes!NoteInv, Notes!PassInv
  <1>9. Notes!SentInv'
    <2>1. \A j \in Instance : pass'[j].step = "sent" => pass'[j].at \in received'
      BY <1>4 DEF Notes!NoteInv, Notes!SentInv
    <2>2. \A n \in Note : tries[n] \in Nat /\ tries'[n] \in Nat /\ tries[n] <= tries'[n]
      BY <1>3, <1>5, NoteTypes
    <2>3. ASSUME NEW j \in Instance, NEW n \in pass'[j].todo
          PROVE  pass'[j].read[n] + (IF Notes!Unrecorded(j, n)' THEN 1 ELSE 0)
                     <= tries'[n]
      <3>1. n \in Note /\ n \in pass[j].todo /\ pass[j].read[n] \in Nat
            /\ pass'[j].read = pass[j].read
        BY <1>3, <1>4, <2>3, NoteTypes, NoteParameters
      <3>2. pass[j].read[n] + (IF Notes!Unrecorded(j, n) THEN 1 ELSE 0) <= tries[n]
        BY <3>1 DEF Notes!NoteInv, Notes!SentInv
      <3>3. CASE j = i /\ n = m
        <4>1. ~Notes!Unrecorded(j, n)
          BY <1>1, <3>3 DEF Notes!Unrecorded
        <4>2. QED
          BY <1>3, <1>5, <2>2, <3>1, <3>2, <3>3, <4>1
      <3>4. CASE ~(j = i /\ n = m)
        <4>1. Notes!Unrecorded(j, n)' => Notes!Unrecorded(j, n)
          BY <1>4, <3>4 DEF Notes!Unrecorded
        <4>2. QED
          BY <2>2, <3>1, <3>2, <4>1
      <3>5. QED
        BY <3>3, <3>4
    <2>4. /\ Notes!SentMeansReceived /\ optedOut \subseteq everOff
          /\ \A n \in Note : attempts[n] <= tries[n]
      BY DEF Notes!NoteInv, Notes!SentInv
    <2>5. \A n \in Note : attempts[n] \in Nat
      BY <1>3, NoteTypes, NoteParameters
    <2>6. Notes!SentMeansReceived'
      BY <1>1, <1>2, <2>2, <2>4, NoteParameters DEF Notes!SentMeansReceived
    <2>7. QED
      BY <1>1, <2>1, <2>2, <2>3, <2>4, <2>5, <2>6 DEF Notes!SentInv
  <1>10. ASSUME NEW n \in Note PROVE Notes!Within(n)'
    <2>1. Notes!Within(n)
      BY DEF Notes!NoteInv, Notes!BudgetInv
    <2>2. /\ Notes!Owed(n) \in Nat /\ Notes!Owed(n)' \in Nat
          /\ Notes!Owed(n)' = Notes!Owed(n) + Share(lease, pass'[i], i, n)
                                           - Share(lease, pass[i], i, n)
      BY <1>1, <1>4, OwedMoves
    <2>3. ~Sent(pass[i], n) /\ (Sent(pass'[i], n) <=> n = m)
      BY <1>1, <1>4 DEF Sent
    <2>4. Notes!Budget' = Notes!Budget /\ Notes!Budget \in Nat /\ MaxAttempts \in Nat \ {0}
      BY <1>1, <1>3, BudgetMoves, NoteParameters DEF Notes!Budget
    <2>5. /\ tries[n] \in Nat /\ attempts[n] \in Nat
          /\ lease \in Instance \cup {NULL}
          /\ lease # NULL => pass[lease].read[n] \in Nat
      BY <1>3, NoteTypes, NoteParameters
    <2>6. /\ status'[n] = status[n] /\ attempts'[n] = attempts[n] /\ lease' = lease
          /\ lease # NULL =>
                pass'[lease].todo = pass[lease].todo /\ pass'[lease].read = pass[lease].read
      BY <1>1, <1>4, <2>5
    <2>7. CASE n # m
      <3>1. Share(lease, pass'[i], i, n) = Share(lease, pass[i], i, n)
        BY <1>4, <2>3, <2>7 DEF Share
      <3>2. Notes!Owed(n)' = Notes!Owed(n) /\ tries'[n] = tries[n]
        BY <1>5, <2>2, <2>4, <2>7, <3>1, ShareIsNat
      <3>3. lease # NULL => (Notes!Unrecorded(lease, n)' <=> Notes!Unrecorded(lease, n))
        BY <1>1, <1>4, <2>3, <2>5, <2>7 DEF Notes!Unrecorded, Sent
      <3>4. QED
        BY <2>1, <2>4, <2>5, <2>6, <3>2, <3>3 DEF Notes!Within
    <2>8. CASE n = m /\ lease = i
      <3>1. Share(lease, pass'[i], i, n) = 0 /\ Share(lease, pass[i], i, n) = 0
        BY <2>8 DEF Share
      <3>2. Notes!Owed(n)' = Notes!Owed(n) /\ tries'[n] = tries[n] + 1
        BY <1>5, <2>2, <2>8, <3>1
      <3>3. Notes!Unrecorded(i, n)' /\ ~Notes!Unrecorded(i, n)
        BY <1>1, <1>4, <2>8 DEF Notes!Unrecorded
      <3>4. pass[i].read[n] < MaxAttempts /\ i # NULL /\ n \in pass[i].todo
        BY <1>3, <2>8, NoteParameters DEF Notes!NoteInv, Notes!PassInv
      <3>5. tries[n] + Notes!Owed(n) <= pass[i].read[n] + Notes!Budget
        BY <2>1, <2>5, <2>8, <3>3, <3>4, <2>4 DEF Notes!Within
      <3>6. QED
        BY <2>1, <2>2, <2>4, <2>5, <2>6, <2>8, <3>2, <3>3, <3>4, <3>5 DEF Notes!Within
    <2>9. CASE n = m /\ lease # i
      <3>1. /\ Share(lease, pass'[i], i, n) = MaxAttempts - 1
            /\ Share(lease, pass[i], i, n) = MaxAttempts
        BY <1>3, <1>4, <2>3, <2>9 DEF Share
      <3>2. Notes!Owed(n)' = Notes!Owed(n) - 1 /\ tries'[n] = tries[n] + 1
        BY <1>5, <2>2, <2>4, <2>9, <3>1
      <3>3. lease # NULL => (Notes!Unrecorded(lease, n)' <=> Notes!Unrecorded(lease, n))
        BY <1>1, <1>4, <2>5, <2>9 DEF Notes!Unrecorded
      <3>4. tries'[n] + Notes!Owed(n)' = tries[n] + Notes!Owed(n)
        BY <2>2, <2>5, <3>2
      <3>5. QED
        BY <2>1, <2>4, <2>6, <3>3, <3>4 DEF Notes!Within
    <2>10. QED
      BY <2>7, <2>8, <2>9
  <1>11. QED
    BY <1>6, <1>7, <1>8, <1>9, <1>10, NoteSets DEF Notes!NoteInv, Notes!BudgetInv

LEMMA NoteMarkSent ==
    ASSUME Notes!NoteInv, NEW i \in Instance, Notes!MarkSent(i)
    PROVE  Notes!NoteInv'
  <1> DEFINE m == pass[i].at
  <1>1. /\ pass[i].step = "sent"
        /\ status' = [status EXCEPT ![m] = "SENT"]
        /\ pass' = [pass EXCEPT ![i].step = "checking", ![i].todo = @ \ {m},
                                ![i].at = NULL]
        /\ UNCHANGED <<lease, createdAt, attempts, suppressed, optedOut, backedOff,
                       tries, received, everOff, overlaps, losses>>
    BY DEF Notes!MarkSent, Notes!DoneWith, Notes!sentVars, Notes!faultVars
  <1>2. Notes!TypeOK /\ m \in pass[i].todo /\ m \in Note /\ m \in received
    BY <1>1, NoteTypes DEF Notes!NoteInv, Notes!PassInv, Notes!SentInv
  <1>3. /\ pass' \in [Instance -> Notes!Pass]
        /\ \A j \in Instance : j # i => pass'[j] = pass[j]
        /\ pass'[i].read = pass[i].read /\ pass'[i].todo = pass[i].todo \ {m}
        /\ pass'[i].step = "checking"
    BY <1>1, <1>2 DEF Notes!TypeOK, Notes!Pass
  <1>4. status'[m] = "SENT" /\ \A n \in Note : n # m => status'[n] = status[n]
    BY <1>1, <1>2 DEF Notes!TypeOK
  <1>5. Notes!TypeOK'
    BY <1>1, <1>2, <1>3 DEF Notes!TypeOK, Notes!LeaseTypeOK
  <1>6. IsFiniteSet(Notes!Rows')
    <2>1. IsFiniteSet(Notes!Rows)
      BY NoteSets DEF Notes!NoteInv
    <2>2. Notes!Rows' \subseteq Notes!Rows \cup {m}
      BY <1>4 DEF Notes!Rows
    <2>3. QED
      BY <2>1, <2>2, FS_AddElement, FS_Subset
  <1>7. Notes!PassInv'
    BY <1>3 DEF Notes!NoteInv, Notes!PassInv
  <1>8. Notes!SentInv'
    <2>1. ASSUME NEW j \in Instance, NEW n \in pass'[j].todo
          PROVE  pass'[j].read[n] + (IF Notes!Unrecorded(j, n)' THEN 1 ELSE 0)
                     <= tries'[n]
      <3>1. n \in Note /\ n \in pass[j].todo /\ pass'[j].read = pass[j].read
            /\ pass[j].read[n] \in Nat /\ tries[n] \in Nat
        BY <1>2, <1>3, <2>1, NoteTypes, NoteParameters
      <3>2. Notes!Unrecorded(j, n)' => Notes!Unrecorded(j, n)
        BY <1>3 DEF Notes!Unrecorded
      <3>3. pass[j].read[n] + (IF Notes!Unrecorded(j, n) THEN 1 ELSE 0) <= tries[n]
        BY <3>1 DEF Notes!NoteInv, Notes!SentInv
      <3>4. QED
        BY <1>1, <3>1, <3>2, <3>3
    <2>2. \A j \in Instance : pass'[j].step = "sent" => pass'[j].at \in received'
      BY <1>1, <1>3 DEF Notes!NoteInv, Notes!SentInv
    <2>3. Notes!SentMeansReceived'
      BY <1>1, <1>2, <1>4
      DEF Notes!NoteInv, Notes!SentInv, Notes!SentMeansReceived
    <2>4. QED
      BY <1>1, <2>1, <2>2, <2>3 DEF Notes!NoteInv, Notes!SentInv
  <1>9. ASSUME NEW n \in Note PROVE Notes!Within(n)'
    <2>1. Notes!Within(n) /\ NULL \notin Instance
      BY NoteParameters DEF Notes!NoteInv, Notes!BudgetInv
    <2>2. /\ Notes!Owed(n) \in Nat /\ Notes!Owed(n)' \in Nat
          /\ Notes!Owed(n)' = Notes!Owed(n) + Share(lease, pass'[i], i, n)
                                           - Share(lease, pass[i], i, n)
      BY <1>1, <1>3, OwedMoves
    <2>3. /\ Share(lease, pass'[i], i, n) \in Nat /\ Share(lease, pass[i], i, n) \in Nat
          /\ Share(lease, pass'[i], i, n) <= Share(lease, pass[i], i, n)
      <3>1. CASE n = m
        <4>1. Share(lease, pass'[i], i, n) = 0
          BY <1>3, <3>1 DEF Share
        <4>2. QED
          BY <4>1, ShareIsNat, NoteParameters
      <3>2. CASE n # m
        <4>1. Share(lease, pass'[i], i, n) = Share(lease, pass[i], i, n)
          BY <1>3, <3>2 DEF Share, Sent
        <4>2. QED
          BY <4>1, ShareIsNat, NoteParameters
      <3>3. QED
        BY <3>1, <3>2
    <2>4. Notes!Budget' = Notes!Budget /\ Notes!Budget \in Nat /\ MaxAttempts \in Nat
      BY <1>1, <1>2, BudgetMoves, NoteParameters DEF Notes!Budget
    <2>5. /\ tries[n] \in Nat /\ attempts[n] \in Nat
          /\ lease \in Instance \cup {NULL}
          /\ lease # NULL => pass[lease].read[n] \in Nat
      BY <1>2, NoteTypes, NoteParameters
    <2>6. /\ tries'[n] = tries[n] /\ attempts'[n] = attempts[n] /\ lease' = lease
          /\ Notes!Owed(n)' <= Notes!Owed(n)
      BY <1>1, <2>2, <2>3
    <2>7. lease # NULL =>
             /\ pass'[lease].todo \subseteq pass[lease].todo
             /\ pass'[lease].read = pass[lease].read
      BY <1>3, <2>5
    <2>8. lease # NULL /\ (n \in pass'[lease].todo \/ n # m) =>
             (Notes!Unrecorded(lease, n)' <=> Notes!Unrecorded(lease, n))
      BY <1>1, <1>3, <2>5 DEF Notes!Unrecorded
    <2>9. CASE n = m
      BY <1>4, <2>1, <2>2, <2>4, <2>5, <2>6, <2>7, <2>8, <2>9 DEF Notes!Within
    <2>10. CASE n # m
      BY <1>4, <2>1, <2>2, <2>4, <2>5, <2>6, <2>7, <2>8, <2>10 DEF Notes!Within
    <2>11. QED
      BY <2>9, <2>10
  <1>10. QED
    BY <1>5, <1>6, <1>7, <1>8, <1>9, NoteSets DEF Notes!NoteInv, Notes!BudgetInv

LEMMA NoteMarkSentFails ==
    ASSUME Notes!NoteInv, NEW i \in Instance, Notes!MarkSentFails(i)
    PROVE  Notes!NoteInv'
  <1>1. /\ pass[i].step = "sent"
        /\ pass' = [pass EXCEPT ![i].step = "failed"]
        /\ losses' = losses + 1
        /\ UNCHANGED <<lease, createdAt, status, attempts, suppressed, optedOut,
                       backedOff, tries, received, everOff, overlaps>>
    BY DEF Notes!MarkSentFails, Notes!Step, Notes!Loses, Notes!rowVars, Notes!sentVars
  <1>2. Notes!TypeOK
    BY DEF Notes!NoteInv
  <1>3. /\ pass' \in [Instance -> Notes!Pass]
        /\ \A j \in Instance : j # i => pass'[j] = pass[j]
        /\ pass'[i].read = pass[i].read /\ pass'[i].todo = pass[i].todo
        /\ pass'[i].at = pass[i].at /\ pass'[i].step = "failed"
    BY <1>1, <1>2 DEF Notes!TypeOK, Notes!Pass
  <1>4. \A j \in Instance : \A n :
            /\ pass'[j].read = pass[j].read /\ pass'[j].todo = pass[j].todo
            /\ Notes!Unrecorded(j, n)' <=> Notes!Unrecorded(j, n)
    BY <1>1, <1>3 DEF Notes!Unrecorded
  <1>5. Notes!TypeOK'
    BY <1>1, <1>2, <1>3 DEF Notes!TypeOK, Notes!LeaseTypeOK
  <1>6. IsFiniteSet(Notes!Rows')
    BY <1>1, NoteSets DEF Notes!NoteInv, Notes!Rows
  <1>7. Notes!PassInv'
    BY <1>1, <1>3 DEF Notes!NoteInv, Notes!PassInv
  <1>8. Notes!SentInv'
    <2>1. \A j \in Instance : pass'[j].step = "sent" => pass'[j].at \in received'
      BY <1>1, <1>3 DEF Notes!NoteInv, Notes!SentInv
    <2>2. QED
      BY <1>1, <1>4, <2>1 DEF Notes!NoteInv, Notes!SentInv, Notes!SentMeansReceived
  <1>9. ASSUME NEW n \in Note PROVE Notes!Within(n)'
    <2>1. Notes!Within(n)
      BY DEF Notes!NoteInv, Notes!BudgetInv
    <2>2. /\ Notes!Owed(n) \in Nat /\ Notes!Owed(n)' \in Nat
          /\ Notes!Owed(n)' = Notes!Owed(n) + Share(lease, pass'[i], i, n)
                                           - Share(lease, pass[i], i, n)
      BY <1>1, <1>3, OwedMoves
    <2>3. Share(lease, pass'[i], i, n) = Share(lease, pass[i], i, n)
      BY <1>1, <1>3 DEF Share, Sent
    <2>4. Notes!Owed(n)' = Notes!Owed(n)
      BY <2>2, <2>3, ShareIsNat, NoteParameters
    <2>5. /\ Notes!Budget' = Notes!Budget + 1 /\ Notes!Budget \in Nat
          /\ MaxAttempts \in Nat
      <3>1. losses \in Nat
        BY <1>2, NoteTypes
      <3>2. QED
        BY <1>1, <1>2, <3>1, BudgetMoves, NoteParameters
    <2>6. /\ tries[n] \in Nat /\ attempts[n] \in Nat
          /\ lease \in Instance \cup {NULL}
          /\ lease # NULL => pass[lease].read[n] \in Nat
      BY <1>2, NoteTypes, NoteParameters
    <2>7. lease # NULL =>
             /\ pass'[lease].todo = pass[lease].todo
             /\ pass'[lease].read = pass[lease].read
             /\ Notes!Unrecorded(lease, n)' <=> Notes!Unrecorded(lease, n)
      BY <1>1, <1>4, <2>6 DEF Notes!Unrecorded
    <2>8. QED
      BY <1>1, <2>1, <2>2, <2>4, <2>5, <2>6, <2>7 DEF Notes!Within
  <1>10. QED
    BY <1>5, <1>6, <1>7, <1>8, <1>9, NoteSets DEF Notes!NoteInv, Notes!BudgetInv

LEMMA NoteRecordFailure ==
    ASSUME Notes!NoteInv, NEW i \in Instance, Notes!RecordFailure(i)
    PROVE  Notes!NoteInv'
  <1> DEFINE m == pass[i].at
             c == pass[i].read[m] + 1
  <1>1. /\ pass[i].step = "failed"
        /\ attempts' = [attempts EXCEPT ![m] = c]
        /\ status' = [status EXCEPT ![m] = IF c >= MaxAttempts THEN "FAILED" ELSE "PENDING"]
        /\ backedOff' \in {backedOff, backedOff \cup {m}}
        /\ pass' = [pass EXCEPT ![i].step = "checking", ![i].todo = @ \ {m},
                                ![i].at = NULL]
        /\ UNCHANGED <<lease, createdAt, suppressed, optedOut, tries, received,
                       everOff, overlaps, losses>>
    BY DEF Notes!RecordFailure, Notes!Counted, Notes!DoneWith, Notes!sentVars,
           Notes!faultVars
  <1>2. Notes!TypeOK /\ m \in pass[i].todo /\ m \in Note /\ Notes!Unrecorded(i, m)
    BY <1>1, NoteTypes DEF Notes!NoteInv, Notes!PassInv, Notes!Unrecorded
  <1>3. c \in 1..MaxAttempts /\ c <= tries[m]
    <2>1. pass[i].read[m] \in 0..MaxAttempts /\ tries[m] \in Nat
      BY <1>2, NoteTypes
    <2>2. pass[i].read[m] < MaxAttempts /\ pass[i].read[m] + 1 <= tries[m]
      BY <1>2 DEF Notes!NoteInv, Notes!PassInv, Notes!SentInv
    <2>3. QED
      BY <2>1, <2>2, NoteParameters
  <1> HIDE DEF c
  <1>4. /\ pass' \in [Instance -> Notes!Pass]
        /\ \A j \in Instance : j # i => pass'[j] = pass[j]
        /\ pass'[i].read = pass[i].read /\ pass'[i].todo = pass[i].todo \ {m}
        /\ pass'[i].step = "checking"
    BY <1>1, <1>2 DEF Notes!TypeOK, Notes!Pass
  <1>5. /\ status'[m] \in {"FAILED", "PENDING"}
        /\ status'[m] = "FAILED" <=> c >= MaxAttempts
        /\ attempts'[m] = c
        /\ \A n \in Note : n # m => status'[n] = status[n] /\ attempts'[n] = attempts[n]
    BY <1>1, <1>2 DEF Notes!TypeOK
  <1>6. Notes!TypeOK'
    <2>1. attempts' \in [Note -> 0..MaxAttempts]
      BY <1>1, <1>2, <1>3, NoteParameters DEF Notes!TypeOK
    <2>2. backedOff' \subseteq Note
      BY <1>1, <1>2 DEF Notes!TypeOK
    <2>3. status' \in [Note -> {"NONE", "PENDING", "SENT", "FAILED"}]
      BY <1>1, <1>2 DEF Notes!TypeOK
    <2>4. QED
      BY <1>1, <1>2, <1>4, <2>1, <2>2, <2>3 DEF Notes!TypeOK, Notes!LeaseTypeOK
  <1>7. IsFiniteSet(Notes!Rows')
    <2>1. IsFiniteSet(Notes!Rows)
      BY NoteSets DEF Notes!NoteInv
    <2>2. Notes!Rows' \subseteq Notes!Rows \cup {m}
      BY <1>5 DEF Notes!Rows
    <2>3. QED
      BY <2>1, <2>2, FS_AddElement, FS_Subset
  <1>8. Notes!PassInv'
    BY <1>4 DEF Notes!NoteInv, Notes!PassInv
  <1>9. Notes!SentInv'
    <2>1. ASSUME NEW j \in Instance, NEW n \in pass'[j].todo
          PROVE  pass'[j].read[n] + (IF Notes!Unrecorded(j, n)' THEN 1 ELSE 0)
                     <= tries'[n]
      <3>1. n \in Note /\ n \in pass[j].todo /\ pass'[j].read = pass[j].read
            /\ pass[j].read[n] \in Nat /\ tries[n] \in Nat
        BY <1>2, <1>4, <2>1, NoteTypes, NoteParameters
      <3>2. Notes!Unrecorded(j, n)' => Notes!Unrecorded(j, n)
        BY <1>4 DEF Notes!Unrecorded
      <3>3. pass[j].read[n] + (IF Notes!Unrecorded(j, n) THEN 1 ELSE 0) <= tries[n]
        BY <3>1 DEF Notes!NoteInv, Notes!SentInv
      <3>4. QED
        BY <1>1, <3>1, <3>2, <3>3
    <2>2. \A j \in Instance : pass'[j].step = "sent" => pass'[j].at \in received'
      BY <1>1, <1>4 DEF Notes!NoteInv, Notes!SentInv
    <2>3. Notes!SentMeansReceived'
      <3>1. tries[m] \in Nat /\ MaxAttempts \in Nat
        BY <1>2, NoteTypes, NoteParameters
      <3>2. QED
        BY <1>1, <1>2, <1>3, <1>5, <3>1
        DEF Notes!NoteInv, Notes!SentInv, Notes!SentMeansReceived
    <2>4. \A n \in Note : attempts'[n] <= tries'[n]
      BY <1>1, <1>3, <1>5 DEF Notes!NoteInv, Notes!SentInv
    <2>5. QED
      BY <1>1, <2>1, <2>2, <2>3, <2>4 DEF Notes!NoteInv, Notes!SentInv
  <1>10. ASSUME NEW n \in Note PROVE Notes!Within(n)'
    <2>1. Notes!Within(n)
      BY DEF Notes!NoteInv, Notes!BudgetInv
    <2>2. /\ Notes!Owed(n) \in Nat /\ Notes!Owed(n)' \in Nat
          /\ Notes!Owed(n)' = Notes!Owed(n) + Share(lease, pass'[i], i, n)
                                           - Share(lease, pass[i], i, n)
      BY <1>1, <1>4, OwedMoves
    <2>3. Notes!Budget' = Notes!Budget /\ Notes!Budget \in Nat /\ MaxAttempts \in Nat \ {0}
      BY <1>1, <1>2, BudgetMoves, NoteParameters DEF Notes!Budget
    <2>4. /\ tries[n] \in Nat /\ attempts[n] \in Nat
          /\ lease \in Instance \cup {NULL} /\ i # NULL
          /\ lease # NULL => pass[lease].read[n] \in Nat
      BY <1>2, NoteTypes, NoteParameters
    <2>5. /\ tries'[n] = tries[n] /\ lease' = lease
          /\ lease # NULL =>
                /\ pass'[lease].todo \subseteq pass[lease].todo
                /\ pass'[lease].read = pass[lease].read
          /\ lease # NULL /\ lease # i => pass'[lease] = pass[lease]
      BY <1>1, <1>4, <2>4
    <2>6. CASE n # m
      <3>1. Share(lease, pass'[i], i, n) = Share(lease, pass[i], i, n)
        BY <1>4, <2>6 DEF Share, Sent
      <3>2. Notes!Owed(n)' = Notes!Owed(n)
        BY <2>2, <3>1, ShareIsNat, NoteParameters
      <3>3. lease # NULL => (Notes!Unrecorded(lease, n)' <=> Notes!Unrecorded(lease, n))
        BY <1>1, <1>4, <2>5, <2>6 DEF Notes!Unrecorded
      <3>4. QED
        BY <1>5, <2>1, <2>3, <2>4, <2>5, <2>6, <3>2, <3>3 DEF Notes!Within
    <2>7. CASE n = m /\ lease = i
      <3>1. Share(lease, pass'[i], i, n) = 0 /\ Share(lease, pass[i], i, n) = 0
        BY <2>7 DEF Share
      <3>2. Notes!Owed(n)' = Notes!Owed(n)
        BY <2>2, <3>1
      <3>3. tries[n] + Notes!Owed(n) <= c + Notes!Budget
        BY <1>2, <2>1, <2>3, <2>4, <2>7 DEF Notes!Within, c
      <3>4. n \notin pass'[i].todo /\ ~Notes!Unrecorded(lease, n)'
        BY <1>1, <1>4, <2>7 DEF Notes!Unrecorded
      <3>5. QED
        BY <1>3, <1>5, <2>1, <2>2, <2>3, <2>4, <2>5, <2>7, <3>2, <3>3, <3>4
        DEF Notes!Within
    <2>8. CASE n = m /\ lease # i
      <3>1. /\ Share(lease, pass'[i], i, n) = 0
            /\ Share(lease, pass[i], i, n) = MaxAttempts - 1
        BY <1>1, <1>2, <1>4, <2>8 DEF Share, Sent
      <3>2. Notes!Owed(n)' = Notes!Owed(n) - (MaxAttempts - 1)
        BY <2>2, <2>3, <3>1
      <3>3. tries[n] + Notes!Owed(n)' <= 1 + Notes!Budget
        BY <2>1, <2>2, <2>3, <2>4, <3>2 DEF Notes!Within
      <3>4. lease # NULL =>
               /\ Notes!Unrecorded(lease, n)' <=> Notes!Unrecorded(lease, n)
               /\ pass'[lease] = pass[lease]
        BY <1>1, <2>5, <2>8 DEF Notes!Unrecorded
      <3>5. Notes!Owed(n)' <= Notes!Owed(n)
        BY <2>2, <2>3, <3>2
      <3>6. QED
        BY <1>3, <1>5, <2>1, <2>2, <2>3, <2>4, <2>5, <2>8, <3>3, <3>4, <3>5
        DEF Notes!Within
    <2>9. QED
      BY <2>6, <2>7, <2>8
  <1>11. QED
    BY <1>6, <1>7, <1>8, <1>9, <1>10, NoteSets DEF Notes!NoteInv, Notes!BudgetInv

\* A pass is over, and what it was sending has been counted as a loss: End and
\* Crash.
LEMMA PassOver ==
    ASSUME Notes!NoteInv, NEW i \in Instance,
           pass' = [pass EXCEPT ![i] = Notes!IdlePass],
           lease' \in {lease, NULL}, lease' # lease => lease = i,
           losses' \in {losses, losses + 1},
           pass[i].step \in {"sent", "failed"} => losses' = losses + 1,
           UNCHANGED <<createdAt, status, attempts, suppressed, optedOut, backedOff,
                       tries, received, everOff, overlaps>>
    PROVE  Notes!NoteInv'
  <1>1. Notes!TypeOK
    BY DEF Notes!NoteInv
  <1>2. /\ pass' \in [Instance -> Notes!Pass]
        /\ \A j \in Instance : j # i => pass'[j] = pass[j]
        /\ pass'[i].step = "idle" /\ pass'[i].todo = {}
    <2>1. Notes!IdlePass \in Notes!Pass
      BY NoteParameters DEF Notes!IdlePass, Notes!Pass
    <2>2. Notes!IdlePass.step = "idle" /\ Notes!IdlePass.todo = {}
      BY DEF Notes!IdlePass
    <2>3. QED
      BY <1>1, <2>1, <2>2 DEF Notes!TypeOK
  <1>3. Notes!TypeOK'
    BY <1>1, <1>2 DEF Notes!TypeOK, Notes!LeaseTypeOK
  <1>4. IsFiniteSet(Notes!Rows')
    BY NoteSets DEF Notes!NoteInv, Notes!Rows
  <1>5. Notes!PassInv'
    BY <1>2 DEF Notes!NoteInv, Notes!PassInv
  <1>6. Notes!SentInv'
    <2>1. \A j \in Instance :
             /\ pass'[j].step = "sent" => pass'[j].at \in received'
             /\ \A n \in pass'[j].todo :
                   pass'[j].read[n] + (IF Notes!Unrecorded(j, n)' THEN 1 ELSE 0)
                       <= tries'[n]
      BY <1>2 DEF Notes!NoteInv, Notes!SentInv, Notes!Unrecorded
    <2>2. QED
      BY <2>1 DEF Notes!NoteInv, Notes!SentInv, Notes!SentMeansReceived
  <1>7. ASSUME NEW n \in Note PROVE Notes!Within(n)'
    <2>1. Notes!Within(n) /\ NULL \notin Instance
      BY NoteParameters DEF Notes!NoteInv, Notes!BudgetInv
    <2>2. /\ Notes!Owed(n) \in Nat /\ Notes!Owed(n)' \in Nat
          /\ Notes!Owed(n)' = Notes!Owed(n) + Share(lease', pass'[i], i, n)
                                           - Share(lease, pass[i], i, n)
      BY <1>2, <2>1, OwedMoves
    <2>3. Share(lease', pass'[i], i, n) = 0 /\ Share(lease, pass[i], i, n) \in 0..MaxAttempts
      BY <1>2, ShareIsNat DEF Share
    <2>4. /\ losses \in Nat /\ Notes!Budget \in Nat /\ MaxAttempts \in Nat
          /\ Notes!Budget' = Notes!Budget + losses' - losses
      BY <1>1, BudgetMoves, NoteTypes, NoteParameters
    <2>5. /\ tries[n] \in Nat /\ attempts[n] \in Nat
          /\ lease \in Instance \cup {NULL}
          /\ lease # NULL => pass[lease].read[n] \in Nat
      BY <1>1, NoteTypes, NoteParameters
    <2>6. Notes!Owed(n)' <= Notes!Owed(n)
      BY <2>2, <2>3, <2>4
    <2>7. CASE lease = i
      <3>1. Notes!Unrecorded(i, n) => losses' = losses + 1
        BY DEF Notes!Unrecorded
      <3>2. /\ ~(lease' # NULL /\ Notes!Unrecorded(lease, n)')
            /\ ~(lease' # NULL /\ n \in pass'[lease'].todo)
        BY <1>2, <2>7 DEF Notes!Unrecorded
      <3>3. QED
        BY <2>1, <2>2, <2>4, <2>5, <2>6, <2>7, <3>1, <3>2 DEF Notes!Within
    <2>8. CASE lease # i
      <3>1. lease' = lease
        BY <2>8
      <3>2. lease # NULL =>
               /\ pass'[lease] = pass[lease]
               /\ Notes!Unrecorded(lease, n)' <=> Notes!Unrecorded(lease, n)
        BY <1>2, <2>5, <2>8, <3>1 DEF Notes!Unrecorded
      <3>3. QED
        BY <2>1, <2>2, <2>4, <2>5, <2>6, <3>1, <3>2 DEF Notes!Within
    <2>9. QED
      BY <2>7, <2>8
  <1>8. QED
    BY <1>3, <1>4, <1>5, <1>6, <1>7, NoteSets DEF Notes!NoteInv, Notes!BudgetInv

LEMMA NoteInit ==
    ASSUME Notes!Init
    PROVE  Notes!NoteInv
  <1>1. Notes!TypeOK
    BY NoteParameters
    DEF Notes!Init, Notes!TypeOK, Notes!LeaseInit, Notes!LeaseTypeOK, Notes!IdlePass,
        Notes!Pass
  <1>2. IsFiniteSet(Notes!Rows)
    <2>1. Notes!Rows = {}
      BY DEF Notes!Init, Notes!Rows
    <2>2. QED
      BY <2>1, FS_EmptySet
  <1>3. \A i \in Instance : pass[i].step = "idle" /\ pass[i].todo = {}
    BY DEF Notes!Init, Notes!IdlePass
  <1>4. Notes!PassInv
    BY <1>3 DEF Notes!PassInv
  <1>5. Notes!SentInv
    BY <1>3 DEF Notes!Init, Notes!SentInv, Notes!SentMeansReceived
  <1>6. ASSUME NEW n \in Note PROVE Notes!Within(n)
    <2>1. Notes!Owed(n) = 0
      <3> DEFINE f == [i \in Instance |-> Share(lease, pass[i], i, n)]
      <3>1. \A i \in Instance : f[i] = 0
        BY <1>3 DEF Share
      <3>2. Notes!Owed(n) = SumFunctionOnSet(f, Instance)
        BY Shares
      <3> HIDE DEF f
      <3>3. QED
        BY <3>1, <3>2, SumZero, NoteParameters
    <2>2. Notes!Budget = 0
      BY NoteParameters DEF Notes!Init, Notes!Budget
    <2>3. QED
      BY <2>1, <2>2, NoteParameters
      DEF Notes!Init, Notes!LeaseInit, Notes!Within
  <1>7. QED
    BY <1>1, <1>2, <1>4, <1>5, <1>6, NoteSets DEF Notes!NoteInv, Notes!BudgetInv

LEMMA NoteNext ==
    ASSUME Notes!NoteInv, Notes!Next
    PROVE  Notes!NoteInv'
  <1>1. ASSUME NEW n \in Note,
               Notes!SwitchOff(n) \/ Notes!SwitchOn(n) \/ Notes!BackoffEnds(n)
        PROVE  Notes!NoteInv'
    <2>1. /\ UNCHANGED <<lease, createdAt, status, attempts, suppressed, pass, tries,
                         received, overlaps, losses>>
          /\ \/ /\ n \in Optional /\ optedOut' = optedOut \cup {n}
                /\ everOff' = everOff \cup {n} /\ UNCHANGED backedOff
             \/ /\ optedOut' = optedOut \ {n} /\ UNCHANGED <<everOff, backedOff>>
             \/ /\ backedOff' = backedOff \ {n} /\ UNCHANGED <<optedOut, everOff>>
      BY <1>1
      DEF Notes!SwitchOff, Notes!SwitchOn, Notes!BackoffEnds, Notes!rowVars,
          Notes!sentVars, Notes!faultVars
    <2>2. /\ optedOut \subseteq everOff /\ everOff \subseteq Optional
          /\ backedOff \subseteq Note
      BY DEF Notes!NoteInv, Notes!TypeOK, Notes!SentInv
    <2>3. QED
      BY <2>1, <2>2, NoteQuiet
  <1>2. ASSUME NEW i \in Instance, Notes!End(i) \/ Notes!Crash(i)
        PROVE  Notes!NoteInv'
    <2>1. CASE Notes!End(i)
      <3>1. /\ pass' = [pass EXCEPT ![i] = Notes!IdlePass]
            /\ lease' \in {lease, NULL}
            /\ lease' # lease => lease = i
            /\ UNCHANGED <<createdAt, status, attempts, suppressed, optedOut, backedOff,
                           tries, received, everOff, overlaps>>
        BY <2>1
        DEF Notes!End, Notes!Release, Notes!ReleaseFails, Notes!rowVars, Notes!sentVars
      <3>2. /\ losses' \in {losses, losses + 1}
            /\ pass[i].step \in {"sent", "failed"} => losses' = losses + 1
        BY <2>1 DEF Notes!End, Notes!Loses
      <3>3. QED
        BY <3>1, <3>2, PassOver
    <2>2. CASE Notes!Crash(i)
      <3>1. /\ pass' = [pass EXCEPT ![i] = Notes!IdlePass] /\ losses' = losses + 1
            /\ UNCHANGED <<lease, createdAt, status, attempts, suppressed, optedOut,
                           backedOff, tries, received, everOff, overlaps>>
        BY <2>2 DEF Notes!Crash, Notes!Loses, Notes!rowVars, Notes!sentVars
      <3>2. QED
        BY <3>1, PassOver
    <2>3. QED
      BY <1>2, <2>1, <2>2
  <1>3. QED
    BY <1>1, <1>2, NoteEnqueue, NoteLapse, NoteBegin, NoteCheck, NoteSend,
       NoteMarkSent, NoteMarkSentFails, NoteRecordFailure, Zenon
    DEF Notes!Next

\* Nobody else writes the notifications.
LEMMA NotesAlone ==
    ASSUME [ServicesNext]_lossVars
    PROVE  Notes!Next \/ UNCHANGED noteVars
  BY Zenon DEF ServicesNext, lossVars

LEMMA NoteStep ==
    ASSUME Notes!NoteInv, [ServicesNext]_lossVars
    PROVE  Notes!NoteInv'
  <1>1. losses' \in {losses, losses + 1}
    BY LossesGrow
  <1>2. ASSUME UNCHANGED noteVars PROVE Notes!NoteInv'
    <2>1. UNCHANGED <<lease, createdAt, status, attempts, suppressed, optedOut,
                      backedOff, pass, tries, received, everOff, overlaps>>
      BY <1>2 DEF noteVars
    <2>2. /\ optedOut \subseteq everOff /\ everOff \subseteq Optional
          /\ backedOff \subseteq Note
      BY DEF Notes!NoteInv, Notes!TypeOK, Notes!SentInv
    <2>3. QED
      BY <1>1, <2>1, <2>2, NoteQuiet
  <1>3. QED
    BY <1>2, NotesAlone, NoteNext

\* The budget of all losses is what the property allows a notification.
LEMMA TriesWithinBudget ==
    ASSUME Notes!NoteInv PROVE Notes!TriesAreBounded
  <1>1. ASSUME NEW n \in Note
        PROVE  tries[n] <= MaxAttempts * (1 + overlaps) + losses
    <2>1. /\ tries[n] \in Nat /\ losses \in Nat /\ overlaps \in Nat
          /\ MaxAttempts \in Nat
      BY NoteTypes, NoteParameters DEF Notes!NoteInv
    <2>2. tries[n] + Notes!Owed(n) <= MaxAttempts + (MaxAttempts * overlaps + losses)
      BY DEF Notes!NoteInv, Notes!BudgetInv, Notes!Within, Notes!Budget
    <2>3. /\ MaxAttempts * overlaps \in Nat
          /\ MaxAttempts * (1 + overlaps) = MaxAttempts + MaxAttempts * overlaps
      BY <2>1
    <2>4. QED
      BY <2>1, <2>2, <2>3, OwedIsNat
  <1>2. QED
    BY <1>1 DEF Notes!TriesAreBounded

\* What is marked SENT was sent, unless its user did not want it; what is given
\* up on was tried MAX_ATTEMPTS times; and however often leases are lost,
\* processes crash and statements fail, a notification is sent no more often
\* than these account for (services/notification.service.ts).
THEOREM NotesAreReceived == ServicesSpec => []NotesReceived
  <1>1. ServicesInit => Notes!NoteInv
    BY NoteInit DEF ServicesInit
  <1>2. Notes!NoteInv /\ [ServicesNext]_lossVars => Notes!NoteInv'
    BY NoteStep
  <1>3. Notes!NoteInv => NotesReceived
    <2>1. Notes!NoteInv => Notes!SentMeansReceived
      BY DEF Notes!NoteInv, Notes!SentInv
    <2>2. QED
      BY <2>1, TriesWithinBudget DEF NotesReceived
  <1>4. QED
    BY <1>1, <1>2, <1>3, PTL DEF ServicesSpec, lossVars

-----------------------------------------------------------------------------
(* The rate limiter. *)

LEMMA LimiterParameters ==
    /\ Capacity \in Nat \ {0} /\ PerMinute \in Nat \ {0} /\ Minute \in Nat \ {0}
    /\ MaxSkew \in Nat /\ Slack \in Nat /\ MaxSkew <= Slack
    /\ NULL \notin Limiter!Hash
  BY ServicesAssumption
  DEF ServicesAssumption, Limiter!LimiterAssumption, Limiter!BucketAssumption

\* The least number of milliseconds, or tokens, that is enough.
LEMMA Ceiling ==
    ASSUME NEW a \in Nat, NEW b \in Nat \ {0}
    PROVE  /\ Limiter!CeilDiv(a, b) \in Nat
           /\ Limiter!CeilDiv(a, b) * b >= a
           /\ a > 0 => Limiter!CeilDiv(a, b) > 0
           /\ (Limiter!CeilDiv(a, b) - 1) * b < a
  <1> DEFINE n == a + b - 1
             q == n \div b
  <1>1. n \in Nat /\ q \in Int /\ q * b <= n /\ n < (q + 1) * b
    OBVIOUS
  <1>2. (q + 1) * b = q * b + b /\ (q - 1) * b = q * b - b /\ q * b \in Int
    BY <1>1
  <1>3. q >= 0
    OBVIOUS
  <1>4. a > 0 => q > 0
    BY <1>1
  <1>5. q * b >= a /\ (q - 1) * b < a
    BY <1>1, <1>2
  <1>6. QED
    BY <1>1, <1>3, <1>4, <1>5 DEF Limiter!CeilDiv

\* The units that the rate adds until a time, and those of some tokens: products,
\* which the rest of the proof takes as they are.
Gain(t) == t * PerMinute
Worth(n) == n * Minute

LEMMA GainType == \A t \in Int : Gain(t) \in Int
  BY LimiterParameters DEF Gain

LEMMA GainDifference ==
    \A t, u \in Int : (u - t) * PerMinute = Gain(u) - Gain(t)
  BY LimiterParameters DEF Gain

LEMMA GainGrows == \A t, u \in Int : t <= u => Gain(t) <= Gain(u)
  <1> TAKE t, u \in Int
  <1>1. ASSUME t <= u PROVE Gain(t) <= Gain(u)
    <2>1. u - t \in Nat
      BY <1>1
    <2>2. (u - t) * PerMinute >= 0
      BY <2>1, LimiterParameters
    <2>3. Gain(u) - Gain(t) >= 0
      BY <2>2, GainDifference
    <2>4. QED
      BY <2>3, GainType
  <1>2. QED
    BY <1>1

LEMMA WorthOf ==
    \A n \in Nat : Worth(n) \in Nat /\ Worth(n + 1) = Worth(n) + Minute
  BY LimiterParameters DEF Worth

LEMMA FullType ==
    Limiter!Full \in Nat /\ Minute \in Nat \ {0} /\ Minute <= Limiter!Full
  <1>1. Capacity - 1 \in Nat /\ Minute \in Nat \ {0}
    BY LimiterParameters
  <1>2. (Capacity - 1) * Minute \in Nat /\ Capacity * Minute = (Capacity - 1) * Minute + Minute
    BY <1>1, LimiterParameters
  <1>3. QED
    BY <1>1, <1>2 DEF Limiter!Full

\* A refill needs CeilDiv(Full, PerMinute) milliseconds, and the hash lives for
\* the slack on top.
LEMMA TtlIsAFill ==
    ASSUME NEW t \in Nat, NEW ts \in Int, ts <= t + MaxSkew
    PROVE  t + Limiter!Ttl \in Nat /\ ((t + Limiter!Ttl) - ts) * PerMinute >= Limiter!Full
  <1> DEFINE c == Limiter!CeilDiv(Limiter!Full, PerMinute)
  <1>1. c \in Nat /\ c * PerMinute >= Limiter!Full
    BY Ceiling, FullType, LimiterParameters
  <1> HIDE DEF c
  <1>2. t + Limiter!Ttl \in Nat /\ c <= (t + Limiter!Ttl) - ts /\ (t + Limiter!Ttl) - ts \in Int
    BY <1>1, LimiterParameters DEF Limiter!Ttl, c
  <1>3. Gain(c) <= Gain((t + Limiter!Ttl) - ts)
    BY <1>1, <1>2, GainGrows
  <1>4. ((t + Limiter!Ttl) - ts) * PerMinute \in Int
    BY <1>2, LimiterParameters
  <1>5. c * PerMinute \in Int /\ c * PerMinute <= ((t + Limiter!Ttl) - ts) * PerMinute
    BY <1>1, <1>3, LimiterParameters DEF Gain
  <1>6. QED
    BY <1>1, <1>2, <1>4, <1>5, FullType

LEMMA LimiterInitial ==
    ASSUME Limiter!Init PROVE Limiter!LimiterInv
  BY DEF Limiter!Init, Limiter!LimiterInv, Limiter!TypeOK, Limiter!BucketInv,
         Limiter!DecisionInv, Limiter!AgreesWithTokenBucket

\* The invariant in those units.
LEMMA BucketUnits ==
    ASSUME Limiter!LimiterInv
    PROVE  /\ time \in Nat /\ since \in Nat /\ spent \in Nat /\ since <= time
           /\ Worth(spent) \in Nat
           /\ bucket # NULL =>
                 /\ bucket.state \in Limiter!State /\ bucket.expires \in Nat
                 /\ bucket.state.tokens \in 0..Limiter!Full /\ bucket.state.ts \in Int
                 /\ bucket.state.ts <= time + MaxSkew
                 /\ Gain(bucket.expires) - Gain(bucket.state.ts) >= Limiter!Full
                 /\ spent > 0 => bucket.state.ts >= since
                 /\ spent > 0 =>
                       Worth(spent) + bucket.state.tokens
                           <= Limiter!Full + Gain(bucket.state.ts) - Gain(since)
           /\ bucket = NULL => spent = 0
  <1>1. /\ time \in Nat /\ since \in Nat /\ spent \in Nat /\ since <= time
        /\ bucket = NULL => spent = 0
    BY DEF Limiter!LimiterInv, Limiter!TypeOK, Limiter!BucketInv
  <1>2. Worth(spent) \in Nat
    BY <1>1, WorthOf
  <1>3. ASSUME bucket # NULL
        PROVE  /\ bucket.state \in Limiter!State /\ bucket.expires \in Nat
               /\ bucket.state.tokens \in 0..Limiter!Full /\ bucket.state.ts \in Int
    BY <1>3 DEF Limiter!LimiterInv, Limiter!TypeOK, Limiter!Hash, Limiter!State
  <1>4. ASSUME bucket # NULL
        PROVE  /\ bucket.state.ts <= time + MaxSkew
               /\ (bucket.expires - bucket.state.ts) * PerMinute >= Limiter!Full
               /\ spent > 0 => bucket.state.ts >= since
               /\ Worth(spent) + bucket.state.tokens
                      <= Limiter!Full + Limiter!Refill(since, bucket.state.ts)
    BY <1>4 DEF Limiter!LimiterInv, Limiter!BucketInv, Worth
  <1>5. ASSUME bucket # NULL
        PROVE  (bucket.expires - bucket.state.ts) * PerMinute
                   = Gain(bucket.expires) - Gain(bucket.state.ts)
    BY <1>3, <1>5, GainDifference
  <1>6. ASSUME bucket # NULL, bucket.state.ts >= since
        PROVE  Limiter!Refill(since, bucket.state.ts) = Gain(bucket.state.ts) - Gain(since)
    <2>1. (bucket.state.ts - since) * PerMinute = Gain(bucket.state.ts) - Gain(since)
      BY <1>1, <1>3, <1>6, GainDifference
    <2>2. Gain(bucket.state.ts) \in Int
      BY <1>3, <1>6, GainType
    <2>3. QED
      BY <1>1, <1>3, <1>6, <2>1, <2>2 DEF Limiter!Refill
  <1>7. ASSUME bucket # NULL, spent > 0
        PROVE  Worth(spent) + bucket.state.tokens
                   <= Limiter!Full + Gain(bucket.state.ts) - Gain(since)
    <2>1. Gain(bucket.state.ts) \in Int /\ Gain(since) \in Int /\ Limiter!Full \in Nat
      BY <1>1, <1>3, <1>7, GainType, FullType
    <2>2. QED
      BY <1>2, <1>3, <1>4, <1>6, <1>7, <2>1
  <1>8. QED
    BY <1>1, <1>2, <1>3, <1>4, <1>5, <1>7

\* What the script finds, and what it makes of it before it spends.
LEMMA Refilling ==
    ASSUME Limiter!LimiterInv, NEW now \in time..(time + MaxSkew)
    PROVE  LET s == Limiter!Stored(now)
               r == Limiter!Refilled(now)
           IN
           /\ s \in Limiter!State /\ r \in Limiter!State
           /\ r = Limiter!refill(s, now)
           /\ r.ts >= now /\ r.ts <= time + MaxSkew
           /\ Worth(spent) + r.tokens <= Limiter!Full + Gain(r.ts) - Gain(since)
  <1> DEFINE s == Limiter!Stored(now)
             r == Limiter!Refilled(now)
             F == Limiter!Full
             b == bucket.state
  <1>1. /\ time \in Nat /\ since \in Nat /\ spent \in Nat /\ now \in Nat
        /\ since <= time /\ time <= now /\ now <= time + MaxSkew
        /\ MaxSkew \in Nat /\ F \in Nat /\ Worth(spent) \in Nat
        /\ Gain(now) \in Int /\ Gain(since) \in Int /\ Gain(now) >= Gain(since)
    BY LimiterParameters, BucketUnits, FullType, GainType, GainGrows
  <1>2. bucket # NULL =>
           /\ b \in Limiter!State /\ bucket.expires \in Nat
           /\ b.tokens \in 0..F /\ b.ts \in Int
           /\ b.ts <= time + MaxSkew
           /\ Gain(bucket.expires) \in Int /\ Gain(b.ts) \in Int
           /\ Gain(bucket.expires) - Gain(b.ts) >= F
           /\ spent > 0 =>
                 /\ b.ts >= since
                 /\ Worth(spent) + b.tokens <= F + Gain(b.ts) - Gain(since)
    BY BucketUnits, GainType
  <1>3. spent = 0 => Worth(spent) = 0
    BY LimiterParameters DEF Worth
  <1> HIDE DEF F, b
  <1>4. CASE Limiter!Expired
    <2>1. s = [tokens |-> F, ts |-> now] /\ r = s
      BY <1>1, <1>4 DEF Limiter!Stored, Limiter!Refilled, Limiter!fullBucket, F
    <2>2. s \in Limiter!State /\ r.tokens = F /\ r.ts = now
      BY <1>1, <2>1 DEF Limiter!State, F
    <2>3. Worth(spent) <= Gain(now) - Gain(since)
      <3>1. CASE spent = 0
        BY <1>1, <1>3, <3>1
      <3>2. CASE spent > 0
        <4>1. bucket # NULL /\ bucket.expires <= time
          BY <1>4, <3>2, BucketUnits DEF Limiter!Expired
        <4>2. Gain(bucket.expires) <= Gain(now)
          BY <1>1, <1>2, <4>1, GainGrows
        <4>3. QED
          BY <1>1, <1>2, <3>2, <4>1, <4>2
      <3>3. QED
        BY <1>1, <3>1, <3>2
    <2>4. r = Limiter!refill(s, now)
      BY <1>1, <2>1 DEF Limiter!refill
    <2>5. QED
      BY <1>1, <2>1, <2>2, <2>3, <2>4 DEF F
  <1>5. CASE ~Limiter!Expired
    <2>1. s = b /\ bucket # NULL /\ b \in Limiter!State
      BY <1>2, <1>5 DEF Limiter!Stored, Limiter!Expired, b
    <2>2. CASE now > b.ts
      <3>1. (now - b.ts) * PerMinute = Gain(now) - Gain(b.ts)
        <4>1. now \in Int /\ b.ts \in Int
          BY <1>1, <1>2, <2>1
        <4>2. QED
          BY <4>1, LimiterParameters DEF Gain
      <3>2. r = [tokens |-> Limiter!Lesser(F, b.tokens + (now - b.ts) * PerMinute),
                 ts |-> now]
        BY <2>1, <2>2 DEF Limiter!Refilled, F
      <3>3. Gain(now) - Gain(b.ts) \in Nat
        BY <1>1, <1>2, <2>1, <2>2, GainGrows
      <3>4. /\ r.ts = now /\ r.tokens \in 0..F
            /\ r.tokens <= b.tokens + Gain(now) - Gain(b.ts)
        BY <1>1, <1>2, <2>1, <3>1, <3>2, <3>3 DEF Limiter!Lesser
      <3>5. r \in Limiter!State
        BY <1>1, <3>2, <3>4 DEF Limiter!State, F
      <3>6. r = Limiter!refill(s, now)
        BY <1>1, <1>2, <2>1, <2>2, <3>2 DEF Limiter!refill, F
      <3>7. Worth(spent) + r.tokens <= F + Gain(now) - Gain(since)
        BY <1>1, <1>2, <1>3, <2>1, <3>4
      <3>8. QED
        BY <1>1, <2>1, <3>4, <3>5, <3>6, <3>7 DEF F
    <2>3. CASE now <= b.ts
      <3>1. r = b
        BY <1>1, <1>2, <2>1, <2>3 DEF Limiter!Refilled
      <3>2. r = Limiter!refill(s, now)
        BY <2>1, <2>3, <3>1 DEF Limiter!refill
      <3>3. Gain(since) <= Gain(b.ts)
        BY <1>1, <1>2, <2>1, <2>3, GainGrows
      <3>4. Worth(spent) + b.tokens <= F + Gain(b.ts) - Gain(since)
        BY <1>1, <1>2, <1>3, <2>1, <3>3
      <3>5. QED
        BY <1>1, <1>2, <2>1, <2>3, <3>1, <3>2, <3>4 DEF F
    <2>4. QED
      BY <1>1, <1>2, <2>1, <2>2, <2>3
  <1>6. QED
    BY <1>4, <1>5

LEMMA LimiterConsume ==
    ASSUME Limiter!LimiterInv, NEW now \in time..(time + MaxSkew),
           Limiter!Consume(now)
    PROVE  Limiter!LimiterInv'
  <1> DEFINE s == Limiter!Stored(now)
             r == Limiter!Refilled(now)
             allowed == r.tokens >= Minute
             left == IF allowed THEN r.tokens - Minute ELSE r.tokens
             d == [allowed   |-> allowed,
                   remaining |-> left \div Minute,
                   retry     |-> IF allowed THEN 0 ELSE Limiter!msFor(Minute - left),
                   reset     |-> Limiter!msFor(Limiter!Full - left),
                   at        |-> now,
                   before    |-> s]
             h == [state   |-> [tokens |-> left, ts |-> r.ts],
                   expires |-> time + Limiter!Ttl]
  <1>1. /\ s \in Limiter!State /\ r \in Limiter!State
        /\ r = Limiter!refill(s, now)
        /\ r.ts >= now /\ r.ts <= time + MaxSkew
        /\ Worth(spent) + r.tokens <= Limiter!Full + Gain(r.ts) - Gain(since)
    BY Refilling
  <1>2. /\ bucket' = h /\ decision' = d
        /\ spent' = IF allowed THEN spent + 1 ELSE spent
        /\ UNCHANGED <<time, since, losses>>
    BY DEF Limiter!Consume
  <1>3. /\ time \in Nat /\ since \in Nat /\ spent \in Nat /\ now \in Nat
        /\ since <= time /\ time <= now /\ MaxSkew \in Nat
        /\ Worth(spent) \in Nat /\ losses \in Nat
        /\ Minute \in Nat \ {0} /\ PerMinute \in Nat \ {0}
        /\ Limiter!Full \in Nat /\ Minute <= Limiter!Full
    BY LimiterParameters, BucketUnits, FullType DEF Limiter!LimiterInv, Limiter!TypeOK
  <1>4. /\ r.tokens \in 0..Limiter!Full /\ r.ts \in Int
        /\ r = [tokens |-> r.tokens, ts |-> r.ts]
    BY <1>1 DEF Limiter!State
  <1>5. left \in 0..Limiter!Full /\ (~allowed => left = r.tokens /\ left < Minute)
    BY <1>3, <1>4
  <1>6. Limiter!refill(s, now) = r /\ s \in Limiter!State
    BY <1>1
  <1> HIDE DEF r, s
  <1>7. time + Limiter!Ttl \in Nat /\ ((time + Limiter!Ttl) - r.ts) * PerMinute >= Limiter!Full
    BY <1>1, <1>3, <1>4, TtlIsAFill
  <1>8. /\ left \div Minute \in Nat
        /\ Limiter!msFor(Limiter!Full - left) \in Nat
        /\ ~allowed => Limiter!msFor(Minute - left) \in Nat
    <2>1. left \div Minute \in Nat
      BY <1>3, <1>5
    <2>2. Limiter!Full - left \in Nat /\ (~allowed => Minute - left \in Nat)
      BY <1>3, <1>5
    <2>3. QED
      BY <1>3, <2>1, <2>2, Ceiling DEF Limiter!msFor
  <1>9. Limiter!TypeOK'
    <2>1. h \in Limiter!Hash
      BY <1>4, <1>5, <1>7 DEF Limiter!Hash, Limiter!State
    <2>2. d \in [allowed : BOOLEAN, remaining : Nat, retry : Nat, reset : Nat,
                 at : Nat, before : Limiter!State]
      BY <1>3, <1>6, <1>8
    <2>3. spent' \in Nat
      BY <1>2, <1>3
    <2>4. QED
      BY <1>2, <1>3, <2>1, <2>2, <2>3 DEF Limiter!TypeOK
  <1>10. bucket' # NULL
    <2>1. h \in Limiter!Hash
      BY <1>4, <1>5, <1>7 DEF Limiter!Hash, Limiter!State
    <2>2. QED
      BY <1>2, <2>1, LimiterParameters
  <1>11. Limiter!BucketInv'
    <2>1. Limiter!Refill(since, r.ts) = Gain(r.ts) - Gain(since)
      <3>1. (r.ts - since) * PerMinute = Gain(r.ts) - Gain(since)
        BY <1>3, <1>4, LimiterParameters DEF Gain
      <3>2. Gain(r.ts) \in Int
        BY <1>4, GainType
      <3>3. QED
        BY <1>1, <1>3, <1>4, <3>1, <3>2 DEF Limiter!Refill
    <2>2. Worth(spent') + left = Worth(spent) + r.tokens
      BY <1>2, <1>3, <1>4, WorthOf
    <2>3. spent' * Minute + left <= Limiter!Full + Limiter!Refill(since, r.ts)
      BY <1>1, <2>1, <2>2 DEF Worth
    <2>4. /\ bucket'.state.ts = r.ts /\ bucket'.state.tokens = left
          /\ bucket'.expires = time + Limiter!Ttl
      BY <1>2
    <2>5. /\ bucket'.state.ts >= since'
          /\ bucket'.state.ts <= time' + MaxSkew /\ since' <= time'
      BY <1>1, <1>2, <1>3, <1>4, <2>4
    <2>6. (bucket'.expires - bucket'.state.ts) * PerMinute >= Limiter!Full
      <3>1. bucket'.expires = time + Limiter!Ttl /\ bucket'.state.ts = r.ts
        BY <2>4
      <3>2. bucket'.expires - bucket'.state.ts = (time + Limiter!Ttl) - r.ts
        BY ONLY <3>1, Zenon
      <3>3. QED
        BY ONLY <1>7, <3>2, Zenon
    <2>7. spent' * Minute + bucket'.state.tokens
             <= Limiter!Full + Limiter!Refill(since', bucket'.state.ts)
      BY <1>2, <2>3, <2>4
    <2>8. QED
      BY ONLY <1>10, <2>5, <2>6, <2>7 DEF Limiter!BucketInv, Limiter!Refill
  <1>12. Limiter!DecisionInv'
    <2>1. /\ decision'.at = now /\ decision'.allowed = allowed
          /\ ~allowed => decision'.retry = Limiter!msFor(Minute - left)
          /\ bucket'.state.ts = r.ts /\ bucket'.state.tokens = left
      BY <1>2
    <2>2. QED
      BY <1>1, <1>5, <1>10, <2>1 DEF Limiter!DecisionInv, Limiter!msFor, Limiter!CeilDiv
  <1>13. Limiter!AgreesWithTokenBucket'
    <2>1. Limiter!consume(s, now) =
             [allowed   |-> allowed,
              state     |-> IF allowed THEN [r EXCEPT !.tokens = @ - Minute] ELSE r,
              remaining |-> left \div Minute,
              retry     |-> IF allowed THEN 0 ELSE Limiter!msFor(Minute - left),
              reset     |-> Limiter!msFor(Limiter!Full - left)]
      <3>1. (IF allowed THEN [r EXCEPT !.tokens = @ - Minute] ELSE r).tokens = left
        BY <1>4
      <3>2. QED
        BY <1>6, <3>1, Zenon DEF Limiter!consume
    <2>2. (IF allowed THEN [r EXCEPT !.tokens = @ - Minute] ELSE r)
             = [tokens |-> left, ts |-> r.ts]
      BY <1>4
    <2>3. /\ decision'.before = s /\ decision'.at = now
          /\ decision'.allowed = allowed
          /\ decision'.remaining = left \div Minute
          /\ decision'.retry = IF allowed THEN 0 ELSE Limiter!msFor(Minute - left)
          /\ decision'.reset = Limiter!msFor(Limiter!Full - left)
          /\ bucket'.state = [tokens |-> left, ts |-> r.ts]
      BY <1>2
    <2> DEFINE c == Limiter!consume(decision'.before, decision'.at)
    <2>4. /\ c.allowed = decision'.allowed /\ c.remaining = decision'.remaining
          /\ c.retry = decision'.retry /\ c.reset = decision'.reset
          /\ c.state = bucket'.state
      BY <2>1, <2>2, <2>3
    <2>5. QED
      BY <2>4 DEF Limiter!AgreesWithTokenBucket
  <1>14. QED
    BY <1>9, <1>11, <1>12, <1>13 DEF Limiter!LimiterInv

LEMMA RefillType ==
    \A t, u \in Int : Limiter!Refill(t, u) \in Nat
  <1> TAKE t, u \in Int
  <1>1. u > t => u - t \in Nat
    OBVIOUS
  <1>2. \A d \in Nat : d * PerMinute \in Nat
    BY LimiterParameters
  <1>3. u > t => (u - t) * PerMinute \in Nat
    BY <1>1, <1>2
  <1>4. QED
    BY <1>3 DEF Limiter!Refill

LEMMA LimiterNext ==
    ASSUME Limiter!LimiterInv, Limiter!Next
    PROVE  Limiter!LimiterInv'
  <1>1. CASE Limiter!Tick
    <2>1. time' = time + 1 /\ UNCHANGED <<bucket, decision, since, spent, losses>>
      BY <1>1 DEF Limiter!Tick
    <2>2. Limiter!TypeOK' /\ Limiter!DecisionInv' /\ Limiter!AgreesWithTokenBucket'
      BY <2>1
      DEF Limiter!LimiterInv, Limiter!TypeOK, Limiter!DecisionInv,
          Limiter!AgreesWithTokenBucket
    <2>3. bucket # NULL => bucket.state.ts \in Int
      BY BucketUnits
    <2>4. time \in Nat /\ since \in Nat /\ MaxSkew \in Nat
      BY LimiterParameters DEF Limiter!LimiterInv, Limiter!TypeOK
    <2>5. Limiter!BucketInv'
      BY <2>1, <2>3, <2>4 DEF Limiter!LimiterInv, Limiter!BucketInv, Limiter!Refill
    <2>6. QED
      BY <2>2, <2>5 DEF Limiter!LimiterInv
  <1>2. CASE Limiter!Watch
    <2>1. /\ since' = time /\ spent' = 0
          /\ UNCHANGED <<time, bucket, decision, losses>>
      BY <1>2 DEF Limiter!Watch
    <2>2. Limiter!TypeOK' /\ Limiter!DecisionInv' /\ Limiter!AgreesWithTokenBucket'
      BY <2>1
      DEF Limiter!LimiterInv, Limiter!TypeOK, Limiter!DecisionInv,
          Limiter!AgreesWithTokenBucket
    <2>3. /\ time \in Nat
          /\ bucket # NULL =>
                /\ bucket.state.ts <= time + MaxSkew
                /\ (bucket.expires - bucket.state.ts) * PerMinute >= Limiter!Full
      BY DEF Limiter!LimiterInv, Limiter!TypeOK, Limiter!BucketInv
    <2>4. bucket # NULL =>
             spent' * Minute + bucket.state.tokens
                 <= Limiter!Full + Limiter!Refill(time, bucket.state.ts)
      <3>1. ASSUME bucket # NULL
            PROVE  /\ bucket.state.tokens \in 0..Limiter!Full
                   /\ Limiter!Refill(time, bucket.state.ts) \in Nat
        <4>1. bucket.state.tokens \in 0..Limiter!Full /\ bucket.state.ts \in Int
              /\ time \in Int
          BY <2>3, <3>1, BucketUnits
        <4>2. Limiter!Refill(time, bucket.state.ts) \in Nat
          BY <4>1, RefillType
        <4>3. QED
          BY <4>1, <4>2
      <3>2. spent' * Minute = 0
        BY <2>1, LimiterParameters
      <3>3. QED
        BY <3>1, <3>2, FullType
    <2>5. Limiter!BucketInv'
      BY <2>1, <2>3, <2>4 DEF Limiter!BucketInv, Limiter!Refill
    <2>6. QED
      BY <2>2, <2>5 DEF Limiter!LimiterInv
  <1>3. CASE Limiter!Unmetered
    <2>1. /\ decision' = NULL /\ losses' = losses + 1
          /\ UNCHANGED <<time, bucket, since, spent>>
      BY <1>3 DEF Limiter!Unmetered
    <2>2. QED
      BY <2>1
      DEF Limiter!LimiterInv, Limiter!TypeOK, Limiter!BucketInv, Limiter!Refill,
          Limiter!DecisionInv, Limiter!AgreesWithTokenBucket
  <1>4. QED
    BY <1>1, <1>2, <1>3, LimiterConsume DEF Limiter!Next

\* Nobody else writes the bucket.
LEMMA LimiterAlone ==
    ASSUME [ServicesNext]_lossVars
    PROVE  Limiter!Next \/ UNCHANGED limiterVars
  BY Zenon DEF ServicesNext, lossVars

LEMMA LimiterStep ==
    ASSUME Limiter!LimiterInv, [ServicesNext]_lossVars
    PROVE  Limiter!LimiterInv'
  <1>1. losses' \in Nat
    BY LossesGrow DEF Limiter!LimiterInv, Limiter!TypeOK
  <1>2. ASSUME UNCHANGED limiterVars PROVE Limiter!LimiterInv'
    BY <1>1, <1>2
    DEF limiterVars, Limiter!LimiterInv, Limiter!TypeOK, Limiter!BucketInv,
        Limiter!Refill, Limiter!DecisionInv, Limiter!AgreesWithTokenBucket
  <1>3. QED
    BY <1>2, LimiterAlone, LimiterNext

LEMMA BurstAndRate ==
    ASSUME Limiter!LimiterInv PROVE Limiter!BurstPlusRate
  <1>1. /\ time \in Nat /\ since \in Nat /\ spent \in Nat /\ since <= time
        /\ Worth(spent) \in Nat /\ MaxSkew \in Nat /\ Limiter!Full \in Nat
    BY BucketUnits, LimiterParameters, FullType
  <1>2. (time - since + MaxSkew) * PerMinute = Gain(time + MaxSkew) - Gain(since)
    BY <1>1, LimiterParameters DEF Gain
  <1>3. /\ Gain(since) \in Int /\ Gain(time + MaxSkew) \in Int
        /\ Gain(since) <= Gain(time + MaxSkew)
    BY <1>1, GainType, GainGrows
  <1>4. Worth(spent) <= Limiter!Full + Gain(time + MaxSkew) - Gain(since)
    <2>1. CASE spent = 0
      <3>1. Worth(spent) = 0
        BY <2>1, LimiterParameters DEF Worth
      <3>2. QED
        BY <1>1, <1>3, <3>1
    <2>2. CASE spent > 0
      <3>1. /\ bucket # NULL /\ bucket.state.tokens \in Nat /\ bucket.state.ts \in Int
            /\ bucket.state.ts <= time + MaxSkew
            /\ Worth(spent) + bucket.state.tokens
                   <= Limiter!Full + Gain(bucket.state.ts) - Gain(since)
        BY <1>1, <2>2, BucketUnits
      <3>2. /\ Gain(bucket.state.ts) \in Int
            /\ Gain(bucket.state.ts) <= Gain(time + MaxSkew)
        BY <1>1, <3>1, GainType, GainGrows
      <3>3. QED
        BY <1>1, <1>3, <3>1, <3>2
    <2>3. QED
      BY <1>1, <2>1, <2>2
  <1>5. QED
    BY <1>2, <1>4 DEF Limiter!BurstPlusRate, Worth

\* A bucket after d milliseconds, and whether it lets a request through.
LEMMA Waited ==
    ASSUME NEW b \in Limiter!State, NEW d \in Int
    PROVE  Limiter!consume(b, b.ts + d).allowed
              <=> Minute <= IF d <= 0 THEN b.tokens
                            ELSE Limiter!Lesser(Limiter!Full, b.tokens + d * PerMinute)
  <1> DEFINE r == Limiter!refill(b, b.ts + d)
  <1>1. b.ts \in Int
    BY DEF Limiter!State
  <1>2. Limiter!consume(b, b.ts + d).allowed = (r.tokens >= Minute)
    <2> DEFINE after == IF r.tokens >= Minute THEN [r EXCEPT !.tokens = @ - Minute] ELSE r
    <2>1. Limiter!consume(b, b.ts + d) =
             [allowed   |-> r.tokens >= Minute,
              state     |-> after,
              remaining |-> after.tokens \div Minute,
              retry     |-> IF r.tokens >= Minute THEN 0
                            ELSE Limiter!msFor(Minute - after.tokens),
              reset     |-> Limiter!msFor(Limiter!Full - after.tokens)]
      BY Zenon DEF Limiter!consume
    <2> HIDE DEF after, r
    <2>2. QED
      BY ONLY <2>1
  <1>3. CASE d <= 0
    <2>1. b.ts + d <= b.ts
      BY <1>1, <1>3
    <2>2. r = b
      BY <2>1, Zenon DEF Limiter!refill
    <2>3. b.tokens >= Minute <=> Minute <= b.tokens
      BY Zenon
    <2>4. QED
      BY <1>2, <1>3, <2>2, Zenon
  <1>4. CASE ~(d <= 0)
    <2>1. ~(b.ts + d <= b.ts) /\ (b.ts + d) - b.ts = d
      BY <1>1, <1>4
    <2>2. r = [tokens |-> Limiter!Lesser(Limiter!Full, b.tokens + d * PerMinute),
               ts |-> b.ts + d]
      <3>1. r = [tokens |-> Limiter!Lesser(Limiter!Full,
                                           b.tokens + ((b.ts + d) - b.ts) * PerMinute),
                 ts |-> b.ts + d]
        BY <2>1, Zenon DEF Limiter!refill
      <3>2. QED
        BY <2>1, <3>1, Zenon
    <2> HIDE DEF r
    <2>3. r.tokens = Limiter!Lesser(Limiter!Full, b.tokens + d * PerMinute)
      BY ONLY <2>2
    <2>4. QED
      BY ONLY <1>2, <1>4, <2>3
  <1>5. QED
    BY <1>3, <1>4

LEMMA RetryAfter ==
    ASSUME Limiter!LimiterInv PROVE Limiter!RetryAfterIsExact
  <1> DEFINE b == bucket.state
             t == b.tokens
             w == Limiter!CeilDiv(Minute - t, PerMinute)
  <1>1. SUFFICES ASSUME decision # NULL, ~decision.allowed, decision.at >= b.ts
                 PROVE  LET then == decision.at + decision.retry
                        IN  /\ Limiter!consume(b, then).allowed
                            /\ ~Limiter!consume(b, then - 1).allowed
    BY Zenon DEF Limiter!RetryAfterIsExact
  <1>2. /\ bucket # NULL /\ b \in Limiter!State /\ t \in Nat /\ t < Minute
        /\ b.ts \in Int /\ decision.at = b.ts /\ decision.retry = w
    <2>1. bucket # NULL /\ decision.at <= b.ts /\ t < Minute /\ decision.retry = w
      BY <1>1 DEF Limiter!LimiterInv, Limiter!DecisionInv, Limiter!msFor
    <2>2. b \in Limiter!State /\ t \in Nat /\ b.ts \in Int
      BY <2>1, BucketUnits
    <2>3. decision.at \in Nat
      BY <1>1 DEF Limiter!LimiterInv, Limiter!TypeOK
    <2>4. QED
      BY <1>1, <2>1, <2>2, <2>3
  <1> HIDE DEF b, t
  <1>3. /\ w \in Nat \ {0}
        /\ w * PerMinute >= Minute - t
        /\ (w - 1) * PerMinute < Minute - t
    <2> DEFINE a == Minute - t
    <2>1. a \in Nat /\ a > 0 /\ PerMinute \in Nat \ {0}
      BY <1>2, FullType, LimiterParameters
    <2> HIDE DEF a
    <2>2. /\ Limiter!CeilDiv(a, PerMinute) \in Nat
          /\ Limiter!CeilDiv(a, PerMinute) > 0
          /\ Limiter!CeilDiv(a, PerMinute) * PerMinute >= a
          /\ (Limiter!CeilDiv(a, PerMinute) - 1) * PerMinute < a
      BY <2>1, Ceiling
    <2>3. QED
      BY <2>2 DEF a
  <1> HIDE DEF w
  <1>4. /\ w * PerMinute \in Int /\ (w - 1) * PerMinute \in Int
        /\ Limiter!Full \in Nat /\ Minute \in Nat /\ Minute <= Limiter!Full
    BY <1>3, FullType, LimiterParameters
  <1>5. Limiter!consume(b, b.ts + w).allowed
    <2>1. Limiter!Lesser(Limiter!Full, t + w * PerMinute) >= Minute
      BY <1>2, <1>3, <1>4 DEF Limiter!Lesser
    <2>2. w \in Int /\ ~(w <= 0)
      BY <1>3
    <2>3. QED
      BY <1>2, <2>1, <2>2, Waited DEF t
  <1>6. ~Limiter!consume(b, b.ts + (w - 1)).allowed
    <2>1. CASE w = 1
      BY <1>2, <1>4, <2>1, Waited DEF t
    <2>2. CASE w # 1
      <3>1. /\ Limiter!Lesser(Limiter!Full, t + (w - 1) * PerMinute) < Minute
            /\ Limiter!Lesser(Limiter!Full, t + (w - 1) * PerMinute) \in Int
        BY <1>2, <1>3, <1>4 DEF Limiter!Lesser
      <3>2. w - 1 \in Int /\ ~(w - 1 <= 0)
        BY <1>3, <2>2
      <3>3. QED
        BY <1>2, <1>4, <3>1, <3>2, Waited DEF t
    <2>3. QED
      BY <2>1, <2>2
  <1>7. /\ decision.at + decision.retry = b.ts + w
        /\ (b.ts + w) - 1 = b.ts + (w - 1)
    BY <1>2, <1>3
  <1>8. QED
    BY <1>5, <1>6, <1>7, Zenon

\* However the clocks of the processes differ and their commands overtake one
\* another, and though Redis forgets the bucket, no window lets through more
\* than a burst and what the rate adds; the script decides what the functions of
\* the package decide; and Retry-After is exact to the millisecond
\* (lib/rate-limiter.ts, analytics/token-bucket.ts).
THEOREM TheLimitIsKept == ServicesSpec => []LimitIsKept
  <1>1. ServicesInit => Limiter!LimiterInv
    BY LimiterInitial DEF ServicesInit
  <1>2. Limiter!LimiterInv /\ [ServicesNext]_lossVars => Limiter!LimiterInv'
    BY LimiterStep
  <1>3. Limiter!LimiterInv => LimitIsKept
    <2>1. Limiter!LimiterInv => Limiter!AgreesWithTokenBucket
      BY DEF Limiter!LimiterInv
    <2>2. QED
      BY <2>1, BurstAndRate, RetryAfter DEF LimitIsKept
  <1>4. QED
    BY <1>1, <1>2, <1>3, PTL DEF ServicesSpec, lossVars

-----------------------------------------------------------------------------
(* Import jobs. *)

\* The parameters of the instance.
Jobs == {mixed, overlapping, headless}
FileOf == [j \in Jobs |->
              CASE j = mixed       -> <<good, poison, badLine>>
                [] j = overlapping -> <<again, unlinked, fresh>>
                [] OTHER           -> <<good>>]
OrderIn == [r \in Lines |-> IF r = again THEN good ELSE r]
UnfitLines == {badLine} \cup {unlinked} \cup {poison}
SoughtLines(o) == {r \in Lines \ UnfitLines : OrderIn[r] = o}

LEMMA ImportParameters ==
    /\ FileOf \in [Jobs -> Seq(Lines)]
    /\ OrderIn \in [Lines -> Lines]
    /\ UnfitLines \subseteq Lines
    /\ BatchSize \in Nat \ {0} /\ MaxLosses \in Nat
    /\ NULL \notin Imports!JobRow
    /\ IsFiniteSet(Lines) /\ IsFiniteSet(Jobs)
  <1>1. Imports!ImportAssumption
    BY ServicesAssumption DEF ServicesAssumption
  <1>2. IsFiniteSet(Lines)
    <2>1. Lines = {good} \cup {again} \cup {poison} \cup {badLine} \cup {unlinked}
                  \cup {fresh}
      BY DEF Lines
    <2>2. /\ IsFiniteSet({good})
          /\ \A S, x : IsFiniteSet(S) => IsFiniteSet(S \cup {x})
      BY FS_Singleton, FS_AddElement, Zenon
    <2>3. IsFiniteSet({good} \cup {again} \cup {poison})
      BY <2>2, Zenon
    <2>4. IsFiniteSet({good} \cup {again} \cup {poison} \cup {badLine}
                      \cup {unlinked} \cup {fresh})
      BY <2>2, <2>3, Zenon
    <2>5. QED
      BY <2>1, <2>4, Zenon
  <1>3. IsFiniteSet(Jobs)
    <2>1. Jobs = {mixed} \cup {overlapping} \cup {headless}
      BY DEF Jobs
    <2>2. QED
      BY <2>1, FS_Singleton, FS_AddElement, Zenon
  <1>4. FileOf \in [Jobs -> Seq(Lines)]
    BY <1>1, Zenon DEF Imports!ImportAssumption, FileOf, Jobs
  <1>5. OrderIn \in [Lines -> Lines]
    BY <1>1, Zenon DEF Imports!ImportAssumption, OrderIn
  <1>6. QED
    BY <1>1, <1>2, <1>3, <1>4, <1>5, Zenon DEF Imports!ImportAssumption, UnfitLines

\* An instance has operators of its own, also of the community modules.
LEMMA ImportCounts ==
    /\ \A S : Imports!Cardinality(S) = Cardinality(S)
    /\ \A s, B : Imports!Occurs(s, B) = Occurs(s, B)
    /\ \A w, B : Imports!OccursIn(w, B) = OccursIn(w, B)
    /\ \A f, S : Imports!SumFunctionOnSet(f, S) = SumFunctionOnSet(f, S)
    /\ \A s : Imports!ToSet(s) = {s[i] : i \in DOMAIN s}
  <1>1. \A S : Imports!Cardinality(S) = Cardinality(S)
    BY Zenon DEF Imports!Cardinality, Cardinality
  <1>2. \A s, B : Imports!Occurs(s, B) = Occurs(s, B)
    BY <1>1, Zenon DEF Imports!Occurs, Occurs
  <1>3. \A f, S : Imports!SumFunctionOnSet(f, S) = SumFunctionOnSet(f, S)
    BY DEF Imports!SumFunctionOnSet, Imports!FoldFunctionOnSet,
           Imports!MapThenFoldSet, SumFunctionOnSet, FoldFunctionOnSet, MapThenFoldSet
  <1>4. \A w, B : Imports!OccursIn(w, B) = OccursIn(w, B)
    BY <1>2, <1>3, Zenon DEF Imports!OccursIn, OccursIn
  <1>5. \A s : Imports!ToSet(s) = {s[i] : i \in DOMAIN s}
    BY Zenon DEF Imports!ToSet
  <1>6. QED
    BY <1>1, <1>2, <1>3, <1>4, <1>5

\* What is read of a file, and LinesAccountedFor as a fact about the values of
\* the variables.
ReadOf(l) == SubSeq(FileOf[l.job], 1, l.pos)

RefusedOf(l) == l.counts.failed + Len(l.failed) + Occurs(l.batch, UnfitLines)
                  + OccursIn(l.work, UnfitLines)

Whole(l, conv, lost) ==
    /\ l.pos = l.counts.total /\ l.pos <= Len(FileOf[l.job])
    /\ l.step = "claimed"
          => l.pos = 0 /\ l.counts = Imports!NoCounts /\ l.batch = <<>>
    /\ l.step # "inserting" => /\ l.work = <<>> /\ l.failed = <<>>
                                /\ l.committed = 0 /\ l.inserted = 0
    /\ l.step = "inserting" => l.batch = <<>>
    /\ l.inserted <= l.committed
    /\ l.pos = l.counts.imported + l.counts.skipped + l.counts.failed
                 + l.committed + Len(l.failed)
                 + Occurs(l.batch, Lines) + OccursIn(l.work, Lines)
    /\ Occurs(l.batch, {badLine}) = 0
    /\ OccursIn(l.work, {badLine} \cup {unlinked}) = 0
    /\ RefusedOf(l) - lost <= Occurs(ReadOf(l), UnfitLines)
    /\ Occurs(ReadOf(l), UnfitLines) <= RefusedOf(l)
    /\ lost = 0 => \A o \in Lines \ conv :
          Occurs(ReadOf(l), SoughtLines(o)) > 0
              => Occurs(l.batch, SoughtLines(o)) + OccursIn(l.work, SoughtLines(o)) > 0

LEMMA SameWhole ==
    /\ \A w \in Worker :
          Imports!LinesAccountedFor(worker[w]) <=> Whole(worker[w], imported, losses)
    /\ \A w \in Worker :
          Imports!LinesAccountedFor(worker[w])' <=> Whole(worker'[w], imported', losses')
  <1> DEFINE RefusedIn(l) == l.counts.failed + Len(l.failed)
                             + Imports!Occurs(l.batch, UnfitLines)
                             + Imports!OccursIn(l.work, UnfitLines)
  <1> DEFINE Told(l, conv, lost) ==
    /\ l.pos = l.counts.total /\ l.pos <= Len(FileOf[l.job])
    /\ l.step = "claimed"
          => l.pos = 0 /\ l.counts = Imports!NoCounts /\ l.batch = <<>>
    /\ l.step # "inserting" => /\ l.work = <<>> /\ l.failed = <<>>
                                /\ l.committed = 0 /\ l.inserted = 0
    /\ l.step = "inserting" => l.batch = <<>>
    /\ l.inserted <= l.committed
    /\ l.pos = l.counts.imported + l.counts.skipped + l.counts.failed
                 + l.committed + Len(l.failed)
                 + Imports!Occurs(l.batch, Lines) + Imports!OccursIn(l.work, Lines)
    /\ Imports!Occurs(l.batch, {badLine}) = 0
    /\ Imports!OccursIn(l.work, {badLine} \cup {unlinked}) = 0
    /\ RefusedIn(l) - lost <= Imports!Occurs(ReadOf(l), UnfitLines)
    /\ Imports!Occurs(ReadOf(l), UnfitLines) <= RefusedIn(l)
    /\ lost = 0 => \A o \in Lines \ conv :
          Imports!Occurs(ReadOf(l), SoughtLines(o)) > 0
              => Imports!Occurs(l.batch, SoughtLines(o))
                 + Imports!OccursIn(l.work, SoughtLines(o)) > 0
  <1>1. \A l, conv, lost : Told(l, conv, lost) <=> Whole(l, conv, lost)
    <2> TAKE l, conv, lost
    <2>1. /\ Imports!Occurs(l.batch, Lines) = Occurs(l.batch, Lines)
          /\ Imports!OccursIn(l.work, Lines) = OccursIn(l.work, Lines)
          /\ Imports!Occurs(l.batch, {badLine}) = Occurs(l.batch, {badLine})
          /\ Imports!OccursIn(l.work, {badLine} \cup {unlinked})
                = OccursIn(l.work, {badLine} \cup {unlinked})
          /\ Imports!Occurs(l.batch, UnfitLines) = Occurs(l.batch, UnfitLines)
          /\ Imports!OccursIn(l.work, UnfitLines) = OccursIn(l.work, UnfitLines)
          /\ Imports!Occurs(ReadOf(l), UnfitLines) = Occurs(ReadOf(l), UnfitLines)
      BY ImportCounts, Zenon
    <2>4. RefusedIn(l) = RefusedOf(l)
      BY <2>1, Zenon DEF RefusedOf
    <2>2. \A o \in Lines \ conv :
            (Imports!Occurs(ReadOf(l), SoughtLines(o)) > 0
              => Imports!Occurs(l.batch, SoughtLines(o))
                 + Imports!OccursIn(l.work, SoughtLines(o)) > 0)
            <=> (Occurs(ReadOf(l), SoughtLines(o)) > 0
              => Occurs(l.batch, SoughtLines(o)) + OccursIn(l.work, SoughtLines(o)) > 0)
      BY ImportCounts, Zenon
    <2>3. QED
      BY <2>1, <2>2, <2>4, Zenon DEF Whole
  <1>2. \A w \in Worker :
           Imports!LinesAccountedFor(worker[w]) <=> Told(worker[w], imported, losses)
    BY Zenon DEF Imports!LinesAccountedFor, Imports!ReadBy, ReadOf, FileOf, Jobs,
        Imports!Refused, Imports!Unfit, UnfitLines, Imports!Sought, SoughtLines, OrderIn
  <1>3. \A w \in Worker :
           Imports!LinesAccountedFor(worker[w])' <=> Told(worker'[w], imported', losses')
    BY Zenon DEF Imports!LinesAccountedFor, Imports!ReadBy, ReadOf, FileOf, Jobs,
        Imports!Refused, Imports!Unfit, UnfitLines, Imports!Sought, SoughtLines, OrderIn
  <1> HIDE DEF Told
  <1>4. QED
    BY <1>1, <1>2, <1>3, Zenon

LEMMA LocalFields ==
    ASSUME NEW l \in Imports!Local
    PROVE  /\ l.step \in {"idle", "found", "claimed", "reading", "flushing",
                          "inserting", "failing", "discarding"}
           /\ l.job \in Jobs \cup {NULL} /\ l.pos \in Nat /\ l.progressAt \in Nat
           /\ l.counts \in Imports!Counts
           /\ l.counts.total \in Nat /\ l.counts.imported \in Nat
           /\ l.counts.skipped \in Nat /\ l.counts.failed \in Nat
           /\ l.batch \in Seq(Lines) /\ l.work \in Seq(Seq(Lines))
           /\ l.failed \in Seq(Lines) /\ Len(l.failed) \in Nat
           /\ l.committed \in Nat /\ l.inserted \in Nat
  <1> DEFINE S == Lines
             J == Jobs
  <1>1. l \in [step : {"idle", "found", "claimed", "reading", "flushing", "inserting",
                       "failing", "discarding"},
               job : J \cup {NULL}, pos : Nat, counts : Imports!Counts,
               progressAt : Nat, batch : Seq(S), work : Seq(Seq(S)),
               failed : Seq(S), committed : Nat, inserted : Nat]
    BY DEF Imports!Local, Jobs
  <1> HIDE DEF S, J
  <1>2. /\ l.step \in {"idle", "found", "claimed", "reading", "flushing",
                       "inserting", "failing", "discarding"}
        /\ l.job \in J \cup {NULL} /\ l.pos \in Nat /\ l.progressAt \in Nat
        /\ l.counts \in Imports!Counts
        /\ l.batch \in Seq(S) /\ l.work \in Seq(Seq(S)) /\ l.failed \in Seq(S)
        /\ l.committed \in Nat /\ l.inserted \in Nat
    BY <1>1
  <1>3. /\ l.counts.total \in Nat /\ l.counts.imported \in Nat
        /\ l.counts.skipped \in Nat /\ l.counts.failed \in Nat
    BY <1>2 DEF Imports!Counts
  <1>4. Len(l.failed) \in Nat
    BY <1>2
  <1>5. QED
    BY <1>2, <1>3, <1>4 DEF S, J

\* How many lines of a kind a worker has read, and has at hand.
LEMMA HandTypes ==
    ASSUME NEW l \in Imports!Local, NEW B
    PROVE  Occurs(l.batch, B) \in Nat /\ OccursIn(l.work, B) \in Nat
  <1>1. l.batch \in Seq(Lines) /\ l.work \in Seq(Seq(Lines))
    BY LocalFields
  <1>2. QED
    BY <1>1, OccursType, OccursInType, Zenon

LEMMA ReadTypes ==
    ASSUME NEW l \in Imports!Local, l.job \in Jobs, l.pos <= Len(FileOf[l.job])
    PROVE  /\ FileOf[l.job] \in Seq(Lines) /\ Len(FileOf[l.job]) \in Nat
           /\ ReadOf(l) \in Seq(Lines)
           /\ \A B : Occurs(ReadOf(l), B) \in Nat
           /\ l.pos < Len(FileOf[l.job]) => FileOf[l.job][l.pos + 1] \in Lines
  <1> DEFINE f == FileOf[l.job]
             p == l.pos
  <1>1. f \in Seq(Lines) /\ p \in Nat
    BY ImportParameters, LocalFields
  <1> HIDE DEF f, p
  <1>2. p <= Len(f) => SubSeq(f, 1, p) \in Seq(Lines)
    BY <1>1
  <1>3. p < Len(f) => f[p + 1] \in Lines
    BY <1>1
  <1>4. Len(f) \in Nat
    BY <1>1
  <1>5. ReadOf(l) = SubSeq(f, 1, p)
    BY DEF ReadOf, f, p
  <1>6. ReadOf(l) \in Seq(Lines)
    BY <1>2, <1>5 DEF f, p
  <1>7. QED
    BY <1>1, <1>3, <1>4, <1>6, OccursType DEF f, p

\* The next line is read after the ones before it.
LEMMA ReadOneMore ==
    ASSUME NEW l \in Imports!Local, NEW m, l.job \in Jobs,
           l.pos < Len(FileOf[l.job]), m.job = l.job, m.pos = l.pos + 1, NEW B
    PROVE  Occurs(ReadOf(m), B)
               = Occurs(ReadOf(l), B) + IF FileOf[l.job][l.pos + 1] \in B THEN 1 ELSE 0
  <1> DEFINE f == FileOf[l.job]
             p == l.pos
             e == f[p + 1]
  <1>1. f \in Seq(Lines) /\ p \in Nat /\ p < Len(f)
    BY ImportParameters, LocalFields
  <1>2. ReadOf(l) = SubSeq(f, 1, p) /\ ReadOf(m) = SubSeq(f, 1, p + 1)
    BY DEF ReadOf
  <1> HIDE DEF f, p
  <1>3. SubSeq(f, 1, p) \in Seq(Lines) /\ e \in Lines
    BY <1>1
  <1>4. SubSeq(f, 1, p + 1) = Append(SubSeq(f, 1, p), e)
    <2> DEFINE x == SubSeq(f, 1, p + 1)
               y == Append(SubSeq(f, 1, p), e)
    <2>1. /\ x \in Seq(Lines) /\ y \in Seq(Lines) /\ Len(x) = p + 1 /\ Len(y) = p + 1
          /\ \A i \in 1..p + 1 : x[i] = y[i]
      BY <1>1, <1>3
    <2> HIDE DEF x, y
    <2>2. x = y
      BY <2>1, SeqEqual
    <2>3. QED
      BY <2>2 DEF x, y
  <1>5. Occurs(Append(SubSeq(f, 1, p), e), B)
            = Occurs(SubSeq(f, 1, p), B) + IF e \in B THEN 1 ELSE 0
    <2> DEFINE s == SubSeq(f, 1, p)
    <2> HIDE DEF s, e
    <2>1. s \in Seq(Lines) /\ e \in Lines
      BY <1>3 DEF s
    <2>2. Occurs(Append(s, e), B) = Occurs(s, B) + IF e \in B THEN 1 ELSE 0
      BY <2>1, OccursAppend, Zenon
    <2>3. QED
      BY <2>2 DEF s
  <1>6. QED
    BY <1>2, <1>4, <1>5, Zenon DEF f, p

-----------------------------------------------------------------------------
\* What others import, or lose, leaves the account of a worker as it is.
LEMMA WholeStays ==
    ASSUME NEW l \in Imports!Local, l.job \in Jobs, NEW conv, NEW more,
           conv \subseteq more, NEW lost \in Nat, NEW lost2 \in Nat, lost <= lost2,
           Whole(l, conv, lost)
    PROVE  Whole(l, more, lost2)
  <1>1. /\ Occurs(ReadOf(l), UnfitLines) \in Nat /\ Occurs(l.batch, UnfitLines) \in Nat
        /\ OccursIn(l.work, UnfitLines) \in Nat
        /\ l.counts.failed \in Nat /\ Len(l.failed) \in Nat
    BY ReadTypes, HandTypes, LocalFields DEF Whole
  <1> DEFINE unfit == RefusedOf(l)
             seen == Occurs(ReadOf(l), UnfitLines)
  <1>2. unfit \in Nat /\ seen \in Nat
    <2> DEFINE f == l.counts.failed
               n == Len(l.failed)
               b == Occurs(l.batch, UnfitLines)
               w == OccursIn(l.work, UnfitLines)
    <2>1. f \in Nat /\ n \in Nat /\ b \in Nat /\ w \in Nat /\ seen \in Nat
      BY <1>1
    <2>2. unfit = f + n + b + w
      BY Zenon DEF RefusedOf
    <2> HIDE DEF f, n, b, w, unfit, seen
    <2>3. QED
      BY <2>1, <2>2
  <1>3. unfit - lost <= seen /\ seen <= unfit
    BY DEF Whole
  <1> HIDE DEF unfit, seen
  <1>4. unfit - lost2 <= seen
    BY <1>2, <1>3
  <1>5. lost2 = 0 => lost = 0
    OBVIOUS
  <1>6. Lines \ more \subseteq Lines \ conv
    OBVIOUS
  <1>7. QED
    BY <1>3, <1>4, <1>5, <1>6, Zenon DEF Whole, unfit, seen

\* A step with nothing done leaves it too.
LEMMA WholeMoves ==
    ASSUME NEW l, NEW m, NEW conv, NEW lost, Whole(l, conv, lost),
           l.step # "inserting", m.step \notin {"inserting", "claimed"},
           m.job = l.job, m.pos = l.pos, m.counts = l.counts, m.batch = l.batch,
           m.work = l.work, m.failed = l.failed, m.committed = l.committed,
           m.inserted = l.inserted
    PROVE  Whole(m, conv, lost)
  <1>1. ReadOf(m) = ReadOf(l)
    BY DEF ReadOf
  <1>2. RefusedOf(m) = RefusedOf(l)
    BY DEF RefusedOf
  <1>3. QED
    BY <1>1, <1>2 DEF Whole

LEMMA WholeBegins ==
    ASSUME NEW m, m.job \in Jobs, m.step = "claimed", m.pos = 0,
           m.counts = Imports!NoCounts, m.batch = <<>>, m.work = <<>>,
           m.failed = <<>>, m.committed = 0, m.inserted = 0,
           NEW conv, NEW lost \in Nat
    PROVE  Whole(m, conv, lost)
  <1> DEFINE f == FileOf[m.job]
  <1>1. f \in Seq(Lines) /\ Len(f) \in Nat
    BY ImportParameters
  <1>2. ReadOf(m) = <<>>
    <2> HIDE DEF f
    <2>1. SubSeq(f, 1, 0) = <<>>
      BY <1>1
    <2>2. QED
      BY <2>1 DEF ReadOf, f
  <1>3. \A B : Occurs(ReadOf(m), B) = 0 /\ Occurs(m.batch, B) = 0
               /\ OccursIn(m.work, B) = 0
    BY <1>2, OccursEmpty, OccursInEmpty
  <1>4. m.counts.total = 0 /\ m.counts.imported = 0 /\ m.counts.skipped = 0
        /\ m.counts.failed = 0
    BY DEF Imports!NoCounts
  <1>5. Len(m.failed) = 0
    OBVIOUS
  <1> HIDE DEF f
  <1>6. QED
    BY <1>1, <1>3, <1>4, <1>5 DEF Whole, RefusedOf, f

\* A line of a wrong width is counted as failed, any other joins the batch.
LEMMA WholeReads ==
    ASSUME NEW l \in Imports!Local, NEW m, l.job \in Jobs, NEW conv,
           NEW lost \in Nat, Whole(l, conv, lost), l.step = "reading",
           l.pos < Len(FileOf[l.job]), m.step \in {"reading", "flushing"},
           m.job = l.job, m.pos = l.pos + 1, NEW e, e = FileOf[l.job][l.pos + 1],
           m.counts.total = l.counts.total + 1,
           m.counts.imported = l.counts.imported,
           m.counts.skipped = l.counts.skipped,
           m.counts.failed = IF e = badLine THEN l.counts.failed + 1
                             ELSE l.counts.failed,
           m.batch = IF e = badLine THEN l.batch ELSE Append(l.batch, e),
           m.work = l.work, m.failed = l.failed, m.committed = l.committed,
           m.inserted = l.inserted
    PROVE  Whole(m, conv, lost)
  <1>1. /\ l.batch \in Seq(Lines) /\ l.pos \in Nat
        /\ l.counts.total \in Nat /\ l.counts.imported \in Nat
        /\ l.counts.skipped \in Nat /\ l.counts.failed \in Nat
        /\ l.committed \in Nat /\ Len(l.failed) \in Nat
    BY LocalFields
  <1>2. e \in Lines /\ \A B : Occurs(ReadOf(l), B) \in Nat
    BY ReadTypes DEF Whole
  <1>3. \A B : Occurs(ReadOf(m), B) = Occurs(ReadOf(l), B) + IF e \in B THEN 1 ELSE 0
    BY ReadOneMore
  <1>4. \A B : Occurs(l.batch, B) \in Nat /\ OccursIn(l.work, B) \in Nat
    BY HandTypes
  <1>5. \A B : Occurs(m.batch, B)
                   = Occurs(l.batch, B) + IF e # badLine /\ e \in B THEN 1 ELSE 0
    <2>1. ASSUME NEW B PROVE Occurs(Append(l.batch, e), B)
                 = Occurs(l.batch, B) + IF e \in B THEN 1 ELSE 0
      <3> DEFINE s == l.batch
      <3>1. s \in Seq(Lines) /\ e \in Lines
        BY <1>1, <1>2
      <3> HIDE DEF s
      <3>2. Occurs(Append(s, e), B) = Occurs(s, B) + IF e \in B THEN 1 ELSE 0
        BY <3>1, OccursAppend, SMT
      <3>3. QED
        BY <3>2 DEF s
    <2>2. QED
      BY <1>4, <2>1
  <1>6. badLine \in UnfitLines /\ \A o : badLine \notin SoughtLines(o)
    BY DEF UnfitLines, SoughtLines
  <1>7. Occurs(m.batch, {badLine}) = 0
    <2> DEFINE B == {badLine}
    <2>1. Occurs(l.batch, B) = 0
      BY Zenon DEF Whole
    <2>2. Occurs(m.batch, B)
              = Occurs(l.batch, B) + IF e # badLine /\ e \in B THEN 1 ELSE 0
      BY <1>5, Zenon
    <2>3. ~(e # badLine /\ e \in B)
      OBVIOUS
    <2> HIDE DEF B
    <2>4. Occurs(m.batch, B) = 0
      BY <2>1, <2>2, <2>3
    <2>5. QED
      BY <2>4 DEF B
  <1>8. m.pos = m.counts.total /\ m.pos <= Len(FileOf[m.job])
    <2> DEFINE p == l.pos
               n == Len(FileOf[l.job])
    <2>1. n \in Nat /\ p \in Nat /\ p < n /\ p = l.counts.total
      BY <1>1, ReadTypes DEF Whole
    <2>2. m.pos = p + 1 /\ m.counts.total = p + 1 /\ Len(FileOf[m.job]) = n
      BY <2>1
    <2> HIDE DEF p, n
    <2>3. QED
      BY <2>1, <2>2
  <1>9. m.pos = m.counts.imported + m.counts.skipped + m.counts.failed
                 + m.committed + Len(m.failed)
                 + Occurs(m.batch, Lines) + OccursIn(m.work, Lines)
    <2>1. l.pos = l.counts.imported + l.counts.skipped + l.counts.failed
                 + l.committed + Len(l.failed)
                 + Occurs(l.batch, Lines) + OccursIn(l.work, Lines)
      BY DEF Whole
    <2> DEFINE i == l.counts.imported
               k == l.counts.skipped
               f == l.counts.failed
               c == l.committed
               n == Len(l.failed)
               b == Occurs(l.batch, Lines)
               w == OccursIn(l.work, Lines)
               p == l.pos
               f2 == m.counts.failed
               b2 == Occurs(m.batch, Lines)
    <2>2. /\ i \in Nat /\ k \in Nat /\ f \in Nat /\ c \in Nat /\ n \in Nat
          /\ b \in Nat /\ w \in Nat /\ p \in Nat
      BY <1>1, <1>4
    <2>3. b2 = b + IF e # badLine THEN 1 ELSE 0
      BY <1>2, <1>5
    <2>4. f2 = f + IF e # badLine THEN 0 ELSE 1
      BY <1>1
    <2>5. /\ m.counts.imported = i /\ m.counts.skipped = k /\ m.committed = c
          /\ Len(m.failed) = n /\ OccursIn(m.work, Lines) = w /\ m.pos = p + 1
      OBVIOUS
    <2> HIDE DEF i, k, f, c, n, b, w, p, f2, b2
    <2>6. p + 1 = i + k + f2 + c + n + b2 + w
      <3>1. p = i + k + f + c + n + b + w
        BY <2>1 DEF i, k, f, c, n, b, w, p
      <3>2. QED
        BY <2>2, <2>3, <2>4, <3>1
    <2>7. QED
      BY <2>5, <2>6 DEF f2, b2
  <1>10. RefusedOf(m) - lost <= Occurs(ReadOf(m), UnfitLines)
         /\ Occurs(ReadOf(m), UnfitLines) <= RefusedOf(m)
    <2> DEFINE f == l.counts.failed
               n == Len(l.failed)
               b == Occurs(l.batch, UnfitLines)
               w == OccursIn(l.work, UnfitLines)
               r == Occurs(ReadOf(l), UnfitLines)
               f2 == m.counts.failed
               b2 == Occurs(m.batch, UnfitLines)
               r2 == Occurs(ReadOf(m), UnfitLines)
               isBad == e = badLine
               isUnfit == e \in UnfitLines
    <2> DEFINE u == RefusedOf(l)
               u2 == RefusedOf(m)
    <2>1. u - lost <= r /\ r <= u
      BY DEF Whole
    <2>10. u = f + n + b + w
      BY DEF RefusedOf
    <2>11. u2 = m.counts.failed + Len(m.failed) + Occurs(m.batch, UnfitLines)
                + OccursIn(m.work, UnfitLines)
      BY DEF RefusedOf
    <2>2. /\ f \in Nat /\ n \in Nat /\ b \in Nat /\ w \in Nat /\ r \in Nat
      BY <1>1, <1>2, <1>4
    <2>3. b2 = b + IF ~isBad /\ isUnfit THEN 1 ELSE 0
      BY <1>5
    <2>4. r2 = r + IF isUnfit THEN 1 ELSE 0
      BY <1>3
    <2>5. f2 = IF isBad THEN f + 1 ELSE f
      OBVIOUS
    <2>6. isBad => isUnfit
      BY <1>6
    <2> DEFINE n2 == Len(m.failed)
               w2 == OccursIn(m.work, UnfitLines)
    <2>7. n2 = n /\ w2 = w
      OBVIOUS
    <2>12. u2 = f2 + n2 + b2 + w2
      BY <2>11
    <2> HIDE DEF f, n, b, w, r, f2, b2, r2, n2, w2, u, u2, isBad, isUnfit
    <2>8. u2 - lost <= r2 /\ r2 <= u2
      BY <2>10, <2>12, <2>1, <2>2, <2>3, <2>4, <2>5, <2>6, <2>7
    <2>9. QED
      BY <2>8 DEF r2, u2
  <1>11. ASSUME lost = 0, NEW o \in Lines \ conv, Occurs(ReadOf(m), SoughtLines(o)) > 0
         PROVE  Occurs(m.batch, SoughtLines(o)) + OccursIn(m.work, SoughtLines(o)) > 0
    <2> DEFINE B == SoughtLines(o)
    <2>1. Occurs(ReadOf(l), B) > 0 => Occurs(l.batch, B) + OccursIn(l.work, B) > 0
      BY <1>11 DEF Whole
    <2>2. badLine \notin B /\ Occurs(ReadOf(m), B) > 0
      BY <1>6, <1>11
    <2> HIDE DEF B
    <2>3. /\ Occurs(ReadOf(l), B) \in Nat /\ Occurs(l.batch, B) \in Nat
          /\ OccursIn(l.work, B) \in Nat
          /\ Occurs(ReadOf(m), B) = Occurs(ReadOf(l), B) + IF e \in B THEN 1 ELSE 0
          /\ Occurs(m.batch, B)
                   = Occurs(l.batch, B) + IF e # badLine /\ e \in B THEN 1 ELSE 0
      BY <1>2, <1>3, <1>4, <1>5
    <2>4. Occurs(m.batch, B) + OccursIn(l.work, B) > 0
      BY <2>1, <2>2, <2>3
    <2>5. QED
      BY <2>4 DEF B
  <1>12. /\ m.work = <<>> /\ m.failed = <<>> /\ m.committed = 0 /\ m.inserted = 0
         /\ m.inserted <= m.committed
         /\ OccursIn(m.work, {badLine} \cup {unlinked}) = 0
    BY DEF Whole
  <1>13. QED
    BY <1>7, <1>8, <1>9, <1>10, <1>11, <1>12 DEF Whole

\* A slice is inserted: its lines are in the table, and committed.
LEMMA WholeInserts ==
    ASSUME NEW l \in Imports!Local, NEW m, l.job \in Jobs, NEW conv \in SUBSET Lines,
           NEW lost \in Nat, Whole(l, conv, lost), l.step = "inserting",
           l.work # <<>>, NEW s, s = Head(l.work),
           \A i \in 1..Len(s) : s[i] # poison,
           NEW news \in Nat, news <= Len(s),
           NEW more, conv \subseteq more, \A i \in 1..Len(s) : OrderIn[s[i]] \in more,
           m.step = "inserting", m.job = l.job, m.pos = l.pos, m.counts = l.counts,
           m.batch = l.batch, m.failed = l.failed, m.work = Tail(l.work),
           m.committed = l.committed + Len(s), m.inserted = l.inserted + news
    PROVE  Whole(m, more, lost)
  <1>1. /\ l.work \in Seq(Seq(Lines)) /\ l.pos \in Nat
        /\ l.counts.total \in Nat /\ l.counts.imported \in Nat
        /\ l.counts.skipped \in Nat /\ l.counts.failed \in Nat
        /\ l.committed \in Nat /\ l.inserted \in Nat /\ Len(l.failed) \in Nat
    BY LocalFields
  <1>2. s \in Seq(Lines) /\ Tail(l.work) \in Seq(Seq(Lines)) /\ Len(s) \in Nat
    <2>1. /\ Head(l.work) \in Seq(Lines) /\ Tail(l.work) \in Seq(Seq(Lines))
      BY <1>1
    <2>2. QED
      BY <2>1
  <1>3. \A B : /\ OccursIn(l.work, B) = Occurs(s, B) + OccursIn(m.work, B)
               /\ Occurs(s, B) \in Nat /\ OccursIn(m.work, B) \in Nat
               /\ Occurs(l.batch, B) \in Nat
    <2> TAKE B
    <2>1. OccursIn(l.work, B) = Occurs(Head(l.work), B) + OccursIn(Tail(l.work), B)
      BY <1>1, OccursInTail, Zenon
    <2>2. Occurs(s, B) \in Nat
      BY <1>2, OccursType, Zenon
    <2>3. OccursIn(Tail(l.work), B) \in Nat
      BY <1>2, OccursInType, Zenon
    <2>4. QED
      BY <2>1, <2>2, <2>3, HandTypes
  <1>4. ReadOf(m) = ReadOf(l)
    BY DEF ReadOf
  <1>5. OccursIn(m.work, {badLine} \cup {unlinked}) = 0
        /\ Occurs(s, {badLine} \cup {unlinked}) = 0
    <2> DEFINE B == {badLine} \cup {unlinked}
    <2>1. OccursIn(l.work, B) = 0
      BY DEF Whole
    <2> HIDE DEF B
    <2>2. OccursIn(m.work, B) = 0 /\ Occurs(s, B) = 0
      BY <1>3, <2>1
    <2>3. QED
      BY <2>2 DEF B
  <1>6. Occurs(s, UnfitLines) = 0
    <2>1. ASSUME NEW i \in 1..Len(s) PROVE s[i] \notin UnfitLines
      <3>1. s[i] \notin {badLine} \cup {unlinked}
        <4> DEFINE B == {badLine} \cup {unlinked}
        <4>1. Occurs(s, B) = 0
          BY <1>5
        <4> HIDE DEF B
        <4>2. s[i] \in B => Occurs(s, B) > 0
          BY <1>2, OccursSome, Zenon
        <4>3. s[i] \notin B
          BY <4>1, <4>2
        <4>4. QED
          BY <4>3 DEF B
      <3>2. QED
        BY <3>1 DEF UnfitLines
    <2>2. QED
      BY <1>2, <2>1, OccursNone
  <1>7. Occurs(s, Lines) = Len(s)
    <2>1. \A i \in 1..Len(s) : s[i] \in Lines
      BY <1>2
    <2>2. QED
      BY <1>2, <2>1, OccursAll
  <1>8. m.pos = m.counts.imported + m.counts.skipped + m.counts.failed
                 + m.committed + Len(m.failed)
                 + Occurs(m.batch, Lines) + OccursIn(m.work, Lines)
    <2>1. l.pos = l.counts.imported + l.counts.skipped + l.counts.failed
                 + l.committed + Len(l.failed)
                 + Occurs(l.batch, Lines) + OccursIn(l.work, Lines)
      BY DEF Whole
    <2> DEFINE i == l.counts.imported
               k == l.counts.skipped
               f == l.counts.failed
               c == l.committed
               n == Len(l.failed)
               b == Occurs(l.batch, Lines)
               w == OccursIn(l.work, Lines)
               w2 == OccursIn(m.work, Lines)
               d == Len(s)
    <2>2. /\ i \in Nat /\ k \in Nat /\ f \in Nat /\ c \in Nat /\ n \in Nat
          /\ b \in Nat /\ w2 \in Nat /\ d \in Nat
      BY <1>1, <1>2, <1>3
    <2>3. w = d + w2
      BY <1>3, <1>7
    <2>4. /\ m.counts.imported = i /\ m.counts.skipped = k /\ m.counts.failed = f
          /\ m.committed = c + d /\ Len(m.failed) = n
          /\ Occurs(m.batch, Lines) = b /\ m.pos = l.pos
      OBVIOUS
    <2>5. l.pos = i + k + f + c + n + b + w
      BY <2>1
    <2> HIDE DEF i, k, f, c, n, b, w, w2, d
    <2>6. l.pos = i + k + f + (c + d) + n + b + w2
      BY <2>2, <2>3, <2>5
    <2>7. QED
      BY <2>4, <2>6, Zenon DEF w2
  <1>9. OccursIn(m.work, UnfitLines) = OccursIn(l.work, UnfitLines)
    BY <1>3, <1>6
  <1>10. ASSUME lost = 0, NEW o \in Lines \ more, Occurs(ReadOf(m), SoughtLines(o)) > 0
         PROVE  Occurs(m.batch, SoughtLines(o)) + OccursIn(m.work, SoughtLines(o)) > 0
    <2> DEFINE B == SoughtLines(o)
    <2>1. Occurs(l.batch, B) + OccursIn(l.work, B) > 0
      <3>1. o \in Lines \ conv
        BY <1>10
      <3>2. QED
        BY <1>4, <1>10, <3>1 DEF Whole
    <2>2. Occurs(s, B) = 0
      <3>1. \A i \in 1..Len(s) : s[i] \notin B
        BY <1>10 DEF SoughtLines
      <3>2. QED
        BY <1>2, <3>1, OccursNone
    <2> HIDE DEF B
    <2>3. Occurs(l.batch, B) + OccursIn(m.work, B) > 0
      BY <1>3, <2>1, <2>2
    <2>4. QED
      BY <2>3 DEF B
  <1>11. m.inserted <= m.committed
    <2>1. l.inserted <= l.committed
      BY DEF Whole
    <2>2. QED
      BY <1>1, <1>2, <2>1
  <1>12. RefusedOf(m) = RefusedOf(l)
    BY <1>9 DEF RefusedOf
  <1>13. QED
    BY <1>4, <1>5, <1>8, <1>9, <1>10, <1>11, <1>12 DEF Whole

\* A slice that fails is cut in two.
LEMMA WholeHalves ==
    ASSUME NEW l \in Imports!Local, NEW m, l.job \in Jobs, NEW conv,
           NEW lost, Whole(l, conv, lost), l.step = "inserting",
           \A B : OccursIn(m.work, B) = OccursIn(l.work, B),
           m.step = "inserting", m.job = l.job, m.pos = l.pos, m.counts = l.counts,
           m.batch = l.batch, m.failed = l.failed, m.committed = l.committed,
           m.inserted = l.inserted
    PROVE  Whole(m, conv, lost)
  <1>1. ReadOf(m) = ReadOf(l)
    BY DEF ReadOf
  <1>2. RefusedOf(m) = RefusedOf(l)
    BY DEF RefusedOf
  <1>3. QED
    BY <1>1, <1>2 DEF Whole

\* A line that fails is set aside: it cannot be imported, or something was lost.
LEMMA WholeSetsAside ==
    ASSUME NEW l \in Imports!Local, NEW m, l.job \in Jobs, NEW conv,
           NEW lost \in Nat, NEW lost2, Whole(l, conv, lost), l.step = "inserting",
           l.work # <<>>, NEW e \in Lines, NEW s, s = Head(l.work), Len(s) = 1,
           e = s[1], (lost2 = lost /\ e = poison) \/ lost2 = lost + 1,
           m.step = "inserting", m.job = l.job, m.pos = l.pos, m.counts = l.counts,
           m.batch = l.batch, m.work = Tail(l.work), m.failed = Append(l.failed, e),
           m.committed = l.committed, m.inserted = l.inserted
    PROVE  Whole(m, conv, lost2)
  <1>1. /\ l.work \in Seq(Seq(Lines)) /\ l.pos \in Nat
        /\ l.counts.total \in Nat /\ l.counts.imported \in Nat
        /\ l.counts.skipped \in Nat /\ l.counts.failed \in Nat
        /\ l.committed \in Nat /\ l.inserted \in Nat /\ Len(l.failed) \in Nat
        /\ l.failed \in Seq(Lines)
    BY LocalFields
  <1>2. s \in Seq(Lines) /\ s = <<e>>
    <2>1. Head(l.work) \in Seq(Lines)
      BY <1>1
    <2>2. s = <<s[1]>>
      BY <2>1
    <2>3. QED
      BY <2>1, <2>2
  <1>3. \A B : /\ OccursIn(l.work, B) = (IF e \in B THEN 1 ELSE 0) + OccursIn(m.work, B)
               /\ OccursIn(m.work, B) \in Nat
               /\ Occurs(l.batch, B) \in Nat
    <2> TAKE B
    <2>1. OccursIn(l.work, B) = Occurs(Head(l.work), B) + OccursIn(Tail(l.work), B)
      BY <1>1, OccursInTail, Zenon
    <2>2. Occurs(<<e>>, B) = IF e \in B THEN 1 ELSE 0
      BY OccursOne, Zenon
    <2>3. OccursIn(Tail(l.work), B) \in Nat
      <3>1. Tail(l.work) \in Seq(Seq(Lines))
        BY <1>1
      <3>2. QED
        BY <3>1, OccursInType, Zenon
    <2>4. Occurs(Head(l.work), B) = IF e \in B THEN 1 ELSE 0
      BY <1>2, <2>2, Zenon
    <2>5. OccursIn(l.work, B) = (IF e \in B THEN 1 ELSE 0) + OccursIn(m.work, B)
      BY <2>1, <2>4, Zenon
    <2>6. QED
      BY <2>3, <2>5, HandTypes
  <1>4. ReadOf(m) = ReadOf(l) /\ Len(m.failed) = Len(l.failed) + 1
    BY <1>1 DEF ReadOf
  <1>5. OccursIn(m.work, {badLine} \cup {unlinked}) = 0
    <2> DEFINE B == {badLine} \cup {unlinked}
               x == OccursIn(m.work, B)
    <2>1. OccursIn(l.work, B) = 0
      BY Zenon DEF Whole
    <2>2. OccursIn(l.work, B) = (IF e \in B THEN 1 ELSE 0) + x /\ x \in Nat
      BY <1>3, Zenon
    <2> HIDE DEF B, x
    <2>3. x = 0
      BY <2>1, <2>2
    <2>4. QED
      BY <2>3 DEF B, x
  <1>6. m.pos = m.counts.imported + m.counts.skipped + m.counts.failed
                 + m.committed + Len(m.failed)
                 + Occurs(m.batch, Lines) + OccursIn(m.work, Lines)
    <2>1. l.pos = l.counts.imported + l.counts.skipped + l.counts.failed
                 + l.committed + Len(l.failed)
                 + Occurs(l.batch, Lines) + OccursIn(l.work, Lines)
      BY DEF Whole
    <2> DEFINE i == l.counts.imported
               k == l.counts.skipped
               f == l.counts.failed
               c == l.committed
               n == Len(l.failed)
               b == Occurs(l.batch, Lines)
               w == OccursIn(l.work, Lines)
               w2 == OccursIn(m.work, Lines)
    <2>2. /\ i \in Nat /\ k \in Nat /\ f \in Nat /\ c \in Nat /\ n \in Nat
          /\ b \in Nat /\ w2 \in Nat /\ w = 1 + w2
      BY <1>1, <1>3
    <2>3. /\ m.counts.imported = i /\ m.counts.skipped = k /\ m.counts.failed = f
          /\ m.committed = c /\ Len(m.failed) = n + 1
          /\ Occurs(m.batch, Lines) = b /\ m.pos = l.pos
      BY <1>4
    <2>4. l.pos = i + k + f + c + n + b + w
      BY <2>1
    <2> HIDE DEF i, k, f, c, n, b, w, w2
    <2>5. l.pos = i + k + f + c + (n + 1) + b + w2
      BY <2>2, <2>4
    <2>6. QED
      BY <2>3, <2>5, Zenon DEF w2
  <1>7. RefusedOf(m) - lost2 <= Occurs(ReadOf(m), UnfitLines)
        /\ Occurs(ReadOf(m), UnfitLines) <= RefusedOf(m)
    <2> DEFINE f == l.counts.failed
               n == Len(l.failed)
               b == Occurs(l.batch, UnfitLines)
               w == OccursIn(l.work, UnfitLines)
               w2 == OccursIn(m.work, UnfitLines)
               r == Occurs(ReadOf(l), UnfitLines)
               isUnfit == e \in UnfitLines
    <2> DEFINE u == RefusedOf(l)
               u2 == RefusedOf(m)
    <2>1. u - lost <= r /\ r <= u
      BY DEF Whole
    <2>10. u = f + n + b + w
      BY DEF RefusedOf
    <2>11. u2 = m.counts.failed + Len(m.failed) + Occurs(m.batch, UnfitLines)
                + OccursIn(m.work, UnfitLines)
      BY DEF RefusedOf
    <2>2. /\ f \in Nat /\ n \in Nat /\ b \in Nat /\ w2 \in Nat
          /\ w = (IF isUnfit THEN 1 ELSE 0) + w2
      BY <1>1, <1>3
    <2>3. r \in Nat
      BY ReadTypes DEF Whole
    <2>4. (lost2 = lost /\ isUnfit) \/ lost2 = lost + 1
      BY DEF UnfitLines
    <2> DEFINE f2 == m.counts.failed
               n2 == Len(m.failed)
               b2 == Occurs(m.batch, UnfitLines)
               r2 == Occurs(ReadOf(m), UnfitLines)
    <2>5. f2 = f /\ n2 = n + 1 /\ b2 = b /\ r2 = r
      BY <1>4
    <2>12. u2 = f2 + n2 + b2 + w2
      BY <2>11
    <2> HIDE DEF f, n, b, w, w2, r, f2, n2, b2, r2, u, u2, isUnfit
    <2>6. u2 - lost2 <= r2 /\ r2 <= u2
      BY <2>10, <2>12, <2>1, <2>2, <2>3, <2>4, <2>5
    <2>7. QED
      BY <2>6 DEF r2, u2
  <1>8. ASSUME lost2 = 0, NEW o \in Lines \ conv, Occurs(ReadOf(m), SoughtLines(o)) > 0
        PROVE  Occurs(m.batch, SoughtLines(o)) + OccursIn(m.work, SoughtLines(o)) > 0
    <2> DEFINE B == SoughtLines(o)
    <2>1. lost = 0 /\ e = poison
      BY <1>8
    <2>2. e \notin B
      BY <2>1 DEF SoughtLines, UnfitLines
    <2>3. Occurs(l.batch, B) + OccursIn(l.work, B) > 0
      BY <1>4, <1>8, <2>1 DEF Whole
    <2> HIDE DEF B
    <2>4. Occurs(l.batch, B) + OccursIn(m.work, B) > 0
      BY <1>3, <2>2, <2>3
    <2>5. QED
      BY <2>4 DEF B
  <1>9. QED
    BY <1>4, <1>5, <1>6, <1>7, <1>8 DEF Whole

\* The batch is counted.
LEMMA WholeCounts ==
    ASSUME NEW l \in Imports!Local, NEW m, l.job \in Jobs, NEW conv,
           NEW lost \in Nat, Whole(l, conv, lost), l.step = "inserting",
           l.work = <<>>, m.step = "reading", m.job = l.job, m.pos = l.pos,
           m.counts.total = l.counts.total,
           m.counts.imported = l.counts.imported + l.inserted,
           m.counts.skipped = l.counts.skipped + l.committed - l.inserted,
           m.counts.failed = l.counts.failed + Len(l.failed),
           m.batch = l.batch, m.work = l.work, m.failed = <<>>,
           m.committed = 0, m.inserted = 0
    PROVE  Whole(m, conv, lost)
  <1>1. /\ l.pos \in Nat
        /\ l.counts.total \in Nat /\ l.counts.imported \in Nat
        /\ l.counts.skipped \in Nat /\ l.counts.failed \in Nat
        /\ l.committed \in Nat /\ l.inserted \in Nat /\ Len(l.failed) \in Nat
    BY LocalFields
  <1>2. ReadOf(m) = ReadOf(l) /\ Len(m.failed) = 0
    BY DEF ReadOf
  <1>3. \A B : Occurs(l.batch, B) \in Nat /\ OccursIn(l.work, B) \in Nat
    BY HandTypes
  <1>4. m.pos = m.counts.imported + m.counts.skipped + m.counts.failed
                 + m.committed + Len(m.failed)
                 + Occurs(m.batch, Lines) + OccursIn(m.work, Lines)
    <2>1. l.pos = l.counts.imported + l.counts.skipped + l.counts.failed
                 + l.committed + Len(l.failed)
                 + Occurs(l.batch, Lines) + OccursIn(l.work, Lines)
      BY DEF Whole
    <2> DEFINE i == l.counts.imported
               k == l.counts.skipped
               f == l.counts.failed
               c == l.committed
               g == l.inserted
               n == Len(l.failed)
               b == Occurs(l.batch, Lines)
               w == OccursIn(l.work, Lines)
    <2>2. /\ i \in Nat /\ k \in Nat /\ f \in Nat /\ c \in Nat /\ n \in Nat
          /\ b \in Nat /\ w \in Nat /\ g \in Nat
      BY <1>1, <1>3
    <2>3. /\ m.counts.imported = i + g /\ m.counts.skipped = k + c - g
          /\ m.counts.failed = f + n /\ m.committed = 0 /\ Len(m.failed) = 0
          /\ Occurs(m.batch, Lines) = b /\ OccursIn(m.work, Lines) = w
          /\ m.pos = l.pos
      BY <1>2
    <2>4. l.pos = i + k + f + c + n + b + w
      BY <2>1
    <2> HIDE DEF i, k, f, c, g, n, b, w
    <2>5. l.pos = (i + g) + (k + c - g) + (f + n) + 0 + 0 + b + w
      BY <2>2, <2>4
    <2>6. QED
      BY <2>3, <2>5, Zenon
  <1>5. m.counts.failed + Len(m.failed) = l.counts.failed + Len(l.failed)
    <2> DEFINE f == l.counts.failed
               n == Len(l.failed)
    <2>1. f \in Nat /\ n \in Nat /\ m.counts.failed = f + n /\ Len(m.failed) = 0
      BY <1>1, <1>2
    <2> HIDE DEF f, n
    <2>2. m.counts.failed + Len(m.failed) = f + n
      BY <2>1
    <2>3. QED
      BY <2>2 DEF f, n
  <1>6. RefusedOf(m) = RefusedOf(l)
    BY <1>5 DEF RefusedOf
  <1>7. /\ m.pos = m.counts.total /\ m.pos <= Len(FileOf[m.job])
        /\ m.batch = <<>> /\ m.work = <<>>
    BY DEF Whole
  <1>12. m.inserted <= m.committed
    OBVIOUS
  <1>10. Occurs(m.batch, {badLine}) = 0
    BY DEF Whole
  <1>11. OccursIn(m.work, {badLine} \cup {unlinked}) = 0
    BY DEF Whole
  <1>8. lost = 0 => \A o \in Lines \ conv :
          Occurs(ReadOf(m), SoughtLines(o)) > 0
              => Occurs(m.batch, SoughtLines(o)) + OccursIn(m.work, SoughtLines(o)) > 0
    BY <1>2 DEF Whole
  <1>13. RefusedOf(m) - lost <= Occurs(ReadOf(m), UnfitLines)
         /\ Occurs(ReadOf(m), UnfitLines) <= RefusedOf(m)
    BY <1>2, <1>6 DEF Whole
  <1>14. m.step # "claimed" /\ m.step # "inserting"
    OBVIOUS
  <1>9. QED
    BY <1>4, <1>7, <1>8, <1>10, <1>11, <1>12, <1>13, <1>14, Zenon DEF Whole

\* A set of small numbers has a least one.
LEMMA LeastOf ==
    ASSUME NEW n \in Nat, NEW D \in SUBSET (0..n), D # {}
    PROVE  \E k \in D : \A i \in D : k <= i
<1> DEFINE upTo(k) == 1..k
           E == {upTo(k) : k \in D}
           N == 1..n
<1>1. E \in SUBSET (SUBSET N) /\ E # {}
  <2>1. ASSUME NEW k \in D PROVE upTo(k) \in SUBSET N
    OBVIOUS
  <2> HIDE DEF upTo, N
  <2> QED BY <2>1
<1>2. PICK T \in E : \A U \in E : U \subseteq T => U = T
  <2>1. IsFiniteSet(N)
    BY FS_Interval
  <2> HIDE DEF E, N
  <2> QED BY <1>1, <2>1, SmallestSet
<1>3. PICK k \in D : T = upTo(k)
  OBVIOUS
<1>4. ASSUME NEW i \in D PROVE k <= i
  <2>1. SUFFICES ASSUME i < k PROVE FALSE
    OBVIOUS
  <2>2. upTo(i) \subseteq upTo(k) /\ k \in upTo(k) /\ k \notin upTo(i)
    BY <2>1
  <2>3. upTo(i) = upTo(k)
    BY <1>2, <1>3, <2>2
  <2> QED BY <2>2, <2>3
<1> QED
  BY <1>4

-----------------------------------------------------------------------------
\* f[n] holds those of the first n lines of s that have a link.
Links(f, s, n) ==
    f = [k \in 0..n |->
            IF k = 0 THEN <<>>
            ELSE IF s[k] \in {unlinked} THEN f[k - 1]
            ELSE Append(f[k - 1], s[k])]

LEMMA LinksExist ==
    ASSUME NEW s, NEW n \in Nat
    PROVE  \E f : Links(f, s, n)
<1> DEFINE D == {m \in 0..n : ~\E f : Links(f, s, m)}
<1>1. SUFFICES ASSUME D # {} PROVE FALSE
  OBVIOUS
<1>2. PICK m \in D : \A i \in D : m <= i
  BY <1>1, LeastOf
<1>3. m \in 0..n /\ ~\E f : Links(f, s, m)
  OBVIOUS
<1>4. m # 0
  <2> DEFINE f == [k \in 0..0 |-> <<>>]
  <2>1. Links(f, s, 0)
    BY DEF Links
  <2> QED BY <1>3, <2>1
<1>5. PICK f : Links(f, s, m - 1)
  <2>1. m - 1 \in 0..n /\ m - 1 \notin D
    BY <1>2, <1>3, <1>4
  <2> QED BY <2>1
<1> DEFINE g == [k \in 0..m |->
                    IF k = m
                    THEN IF s[m] \in {unlinked} THEN f[m - 1] ELSE Append(f[m - 1], s[m])
                    ELSE f[k]]
           h == [k \in 0..m |->
                    IF k = 0 THEN <<>>
                    ELSE IF s[k] \in {unlinked} THEN g[k - 1]
                    ELSE Append(g[k - 1], s[k])]
<1>6. ASSUME NEW k \in 0..m PROVE g[k] = h[k]
  <2>1. CASE k = m
    <3>1. g[m - 1] = f[m - 1] /\ m - 1 \in 0..m - 1
      BY <1>3, <1>4
    <3>2. QED
      BY <1>3, <1>4, <2>1, <3>1
  <2>2. CASE k # m
    <3>1. k \in 0..m - 1
      BY <1>3, <2>2
    <3>2. f[k] = IF k = 0 THEN <<>>
                 ELSE IF s[k] \in {unlinked} THEN f[k - 1]
                 ELSE Append(f[k - 1], s[k])
      BY <1>5, <3>1 DEF Links
    <3>3. k # 0 => g[k - 1] = f[k - 1]
      BY <1>3, <3>1
    <3>4. g[k] = f[k]
      BY <2>2
    <3>5. h[k] = IF k = 0 THEN <<>>
                 ELSE IF s[k] \in {unlinked} THEN g[k - 1]
                 ELSE Append(g[k - 1], s[k])
      OBVIOUS
    <3> HIDE DEF g, h
    <3>6. QED
      BY <3>2, <3>3, <3>4, <3>5
  <2>3. QED
    BY <2>1, <2>2
<1>7. g = h
  <2>1. g = [k \in 0..m |-> g[k]] /\ h = [k \in 0..m |-> h[k]]
    OBVIOUS
  <2> HIDE DEF g, h
  <2> QED BY <1>6, <2>1
<1>8. Links(g, s, m)
  <2> HIDE DEF g
  <2> QED BY <1>7 DEF Links
<1> QED
  BY <1>3, <1>8, Zenon

HoldsLinked(u, s, n) ==
    /\ u \in Seq(Lines)
    /\ \A B : Occurs(u, B) = Occurs(SubSeq(s, 1, n), B \ {unlinked})

LEMMA LinksHold ==
    ASSUME NEW s \in Seq(Lines), NEW f, Links(f, s, Len(s))
    PROVE  \A n \in 0..Len(s) : HoldsLinked(f[n], s, n)
<1> DEFINE D == {n \in 0..Len(s) :
                    ~ /\ f[n] \in Seq(Lines)
                      /\ \A B : Occurs(f[n], B)
                                   = Occurs(SubSeq(s, 1, n), B \ {unlinked})}
<1>1. SUFFICES ASSUME D # {} PROVE FALSE
  BY Zenon DEF HoldsLinked
<1>2. PICK n \in D : \A i \in D : n <= i
  <2>1. Len(s) \in Nat
    OBVIOUS
  <2> QED BY <1>1, <2>1, LeastOf
<1>3. /\ n \in 0..Len(s)
      /\ ~ /\ f[n] \in Seq(Lines)
           /\ \A B : Occurs(f[n], B) = Occurs(SubSeq(s, 1, n), B \ {unlinked})
  OBVIOUS
<1>4. f[n] = IF n = 0 THEN <<>>
             ELSE IF s[n] \in {unlinked} THEN f[n - 1]
             ELSE Append(f[n - 1], s[n])
  BY <1>3 DEF Links
<1>5. n # 0
  <2>1. ASSUME n = 0
        PROVE  /\ f[n] \in Seq(Lines)
               /\ \A B : Occurs(f[n], B) = Occurs(SubSeq(s, 1, n), B \ {unlinked})
    <3>1. f[n] = <<>> /\ SubSeq(s, 1, n) = <<>> /\ <<>> \in Seq(Lines)
      BY <1>4, <2>1
    <3>2. QED
      BY <3>1, OccursEmpty
  <2> QED BY <1>3, <2>1
<1> DEFINE u == f[n - 1]
           v == SubSeq(s, 1, n - 1)
           e == s[n]
<1>6. u \in Seq(Lines) /\ \A B : Occurs(u, B) = Occurs(v, B \ {unlinked})
  <2>1. n - 1 \in 0..Len(s) /\ n \in Int /\ ~(n <= n - 1)
    BY <1>3, <1>5
  <2>2. n - 1 \notin D
    <3> HIDE DEF D
    <3> QED BY <1>2, <2>1
  <2> QED BY <2>1, <2>2, Zenon
<1>7. v \in Seq(Lines) /\ e \in Lines
  BY <1>3, <1>5
<1>8. SubSeq(s, 1, n) = Append(v, e)
  <2> DEFINE x == SubSeq(s, 1, n)
             y == Append(v, e)
  <2>1. /\ x \in Seq(Lines) /\ y \in Seq(Lines) /\ Len(x) = n /\ Len(y) = n
        /\ \A i \in 1..n : x[i] = y[i]
    BY <1>3, <1>5, <1>7
  <2> HIDE DEF x, y
  <2>2. x = y
    BY <2>1, SeqEqual
  <2> QED BY <2>2 DEF x, y
<1>9. f[n] = IF e = unlinked THEN u ELSE Append(u, e)
  BY <1>4, <1>5
<1> HIDE DEF u, v, e
<1>10. f[n] \in Seq(Lines)
  BY <1>6, <1>7, <1>9
<1>11. ASSUME NEW B PROVE Occurs(f[n], B) = Occurs(SubSeq(s, 1, n), B \ {unlinked})
  <2>1. Occurs(Append(v, e), B \ {unlinked})
           = Occurs(v, B \ {unlinked}) + IF e \in B \ {unlinked} THEN 1 ELSE 0
    BY <1>7, OccursAppend
  <2>2. Occurs(Append(u, e), B) = Occurs(u, B) + IF e \in B THEN 1 ELSE 0
    BY <1>6, <1>7, OccursAppend
  <2>3. Occurs(u, B) = Occurs(v, B \ {unlinked}) /\ Occurs(v, B \ {unlinked}) \in Nat
    BY <1>6, <1>7, OccursType
  <2>4. CASE e = unlinked
    <3>1. f[n] = u
      BY <1>9, <2>4
    <3>2. e \notin B \ {unlinked}
      BY <2>4
    <3>3. Occurs(SubSeq(s, 1, n), B \ {unlinked}) = Occurs(v, B \ {unlinked}) + 0
      BY <1>8, <2>1, <3>2, Zenon
    <3> QED BY <2>3, <3>1, <3>3
  <2>5. CASE e # unlinked
    <3>1. f[n] = Append(u, e) /\ (e \in B \ {unlinked} <=> e \in B)
      BY <1>9, <2>5
    <3> QED BY <1>8, <2>1, <2>2, <2>3, <3>1
  <2> QED BY <2>4, <2>5
<1> QED
  BY <1>3, <1>10, <1>11, Zenon

\* The lines of a batch that have a link.
LEMMA LinkedLines ==
    ASSUME NEW s \in Seq(Lines)
    PROVE  /\ Imports!Linked(s) \in Seq(Lines)
           /\ \A B : Occurs(Imports!Linked(s), B) = Occurs(s, B \ {unlinked})
<1> DEFINE n == Len(s)
           f == CHOOSE g : Links(g, s, n)
<1>1. n \in Nat /\ SubSeq(s, 1, n) = s
  <2> DEFINE t == SubSeq(s, 1, Len(s))
  <2>1. /\ t \in Seq(Lines) /\ Len(t) = Len(s) /\ Len(s) \in Nat
        /\ \A i \in 1..Len(s) : t[i] = s[i]
    OBVIOUS
  <2> HIDE DEF t
  <2>2. t = s
    BY <2>1, SeqEqual
  <2> QED BY <2>1, <2>2 DEF t
<1>2. Links(f, s, n)
  BY <1>1, LinksExist, Zenon
<1>3. Imports!Linked(s) = f[n]
  BY Zenon DEF Imports!Linked, Links
<1> HIDE DEF f
<1>4. n \in 0..n
  BY <1>1
<1>5. f[n] \in Seq(Lines) /\ \A B : Occurs(f[n], B) = Occurs(SubSeq(s, 1, n), B \ {unlinked})
  <2>1. ASSUME NEW g, Links(g, s, Len(s)), NEW k \in 0..Len(s)
        PROVE  HoldsLinked(g[k], s, k)
    BY <2>1, LinksHold
  <2> QED BY <1>2, <1>4, <2>1, Zenon DEF HoldsLinked
<1> QED
  BY <1>1, <1>3, <1>5, Zenon

LEMMA LinesSplit ==
    ASSUME NEW b \in Seq(Lines)
    PROVE  /\ Occurs(b, Lines)
                 = Occurs(b, Lines \ {unlinked}) + Occurs(b, Lines \cap {unlinked})
           /\ Occurs(b, UnfitLines)
                 = Occurs(b, UnfitLines \ {unlinked}) + Occurs(b, UnfitLines \cap {unlinked})
  <1>1. \A B, U : Occurs(b, B) = Occurs(b, B \ U) + Occurs(b, B \cap U)
    BY OccursSplit
  <1>2. QED
    BY <1>1, Zenon

\* The lines without a link are counted as failed, the others are to insert.
LEMMA WholeFlush ==
    ASSUME NEW l \in Imports!Local, NEW m, l.job \in Jobs, NEW conv,
           NEW lost \in Nat, Whole(l, conv, lost), l.step = "flushing",
           NEW k, k = Imports!Linked(l.batch),
           m.step = "inserting", m.job = l.job, m.pos = l.pos,
           m.counts.total = l.counts.total,
           m.counts.imported = l.counts.imported,
           m.counts.skipped = l.counts.skipped,
           m.counts.failed = l.counts.failed + Len(l.batch) - Len(k),
           m.batch = <<>>, m.work = IF k = <<>> THEN <<>> ELSE <<k>>,
           m.failed = <<>>, m.committed = 0, m.inserted = 0
    PROVE  Whole(m, conv, lost)
  <1>1. /\ l.batch \in Seq(Lines) /\ l.pos \in Nat
        /\ l.counts.total \in Nat /\ l.counts.imported \in Nat
        /\ l.counts.skipped \in Nat /\ l.counts.failed \in Nat
    BY LocalFields
  <1>2. k \in Seq(Lines)
    BY <1>1, LinkedLines
  <1>3. ASSUME NEW B
        PROVE  /\ OccursIn(m.work, B) = Occurs(l.batch, B \ {unlinked})
               /\ Occurs(m.batch, B) = 0
    <2>1. Occurs(k, B) = Occurs(l.batch, B \ {unlinked})
      BY <1>1, LinkedLines
    <2>2. CASE k = <<>>
      <3>1. m.work = <<>> /\ Occurs(k, B) = 0
        BY <2>2, OccursEmpty
      <3>2. OccursIn(m.work, B) = 0
        BY <3>1, OccursInEmpty
      <3>3. QED
        BY <2>1, <3>1, <3>2, OccursEmpty
    <2>3. CASE k # <<>>
      <3>1. m.work = <<k>>
        BY <2>3
      <3>2. OccursIn(<<k>>, B) = Occurs(k, B)
        BY <1>2, OccursInOne, Zenon
      <3>3. QED
        BY <2>1, <3>1, <3>2, OccursEmpty
    <2>4. QED
      BY <2>2, <2>3
  <1> DEFINE U == {unlinked}
             i == l.counts.imported
             s == l.counts.skipped
             f == l.counts.failed
             all == Occurs(l.batch, Lines)
             linked == Occurs(l.batch, Lines \ U)
             without == Occurs(l.batch, U)
             f2 == m.counts.failed
  <1>4. Len(l.batch) = all /\ Len(k) = linked
    <2>1. \A n \in 1..Len(l.batch) : l.batch[n] \in Lines
      BY <1>1
    <2>2. \A n \in 1..Len(k) : k[n] \in Lines
      BY <1>2
    <2>3. Occurs(k, Lines) = Len(k)
      BY <1>2, <2>2, OccursAll
    <2>4. Occurs(l.batch, Lines) = Len(l.batch)
      BY <1>1, <2>1, OccursAll
    <2>5. Occurs(k, Lines) = Occurs(l.batch, Lines \ {unlinked})
      BY <1>1, LinkedLines
    <2>6. QED
      BY <2>3, <2>4, <2>5
  <1>5. all = linked + without
    <2>1. Lines \cap U = U
      BY DEF Lines
    <2>2. Occurs(l.batch, Lines)
             = Occurs(l.batch, Lines \ U) + Occurs(l.batch, Lines \cap U)
      BY <1>1, LinesSplit
    <2>3. QED
      BY <2>1, <2>2
  <1>6. all \in Nat /\ linked \in Nat /\ without \in Nat
    BY <1>1, OccursType, Zenon
  <1>7. f2 = f + without
    <2>1. f2 = f + Len(l.batch) - Len(k) /\ f \in Nat
      BY <1>1
    <2> HIDE DEF f, f2, all, linked, without
    <2>2. QED
      BY <1>4, <1>5, <1>6, <2>1
  <1>8. Len(l.failed) = 0 /\ l.committed = 0 /\ l.work = <<>> /\ Len(m.failed) = 0
    BY DEF Whole
  <1>9. \A B : OccursIn(l.work, B) = 0
    BY <1>8, OccursInEmpty
  <1>10. m.pos = m.counts.imported + m.counts.skipped + m.counts.failed
                 + m.committed + Len(m.failed)
                 + Occurs(m.batch, Lines) + OccursIn(m.work, Lines)
    <2>1. l.pos = l.counts.imported + l.counts.skipped + l.counts.failed
                 + l.committed + Len(l.failed)
                 + Occurs(l.batch, Lines) + OccursIn(l.work, Lines)
      BY DEF Whole
    <2>2. l.pos = i + s + f + 0 + 0 + all + 0
      BY <1>8, <1>9, <2>1
    <2>3. /\ m.counts.imported = i /\ m.counts.skipped = s /\ m.counts.failed = f2
          /\ m.committed = 0 /\ Len(m.failed) = 0 /\ Occurs(m.batch, Lines) = 0
          /\ OccursIn(m.work, Lines) = linked /\ m.pos = l.pos
      BY <1>3, <1>8
    <2>4. i \in Nat /\ s \in Nat /\ f \in Nat
      BY <1>1
    <2> HIDE DEF i, s, f, f2, all, linked, without
    <2>5. l.pos = i + s + f2 + 0 + 0 + 0 + linked
      BY <1>5, <1>6, <1>7, <2>2, <2>4
    <2>6. QED
      BY <2>3, <2>5
  <1>11. RefusedOf(m) = RefusedOf(l)
    <2> DEFINE un == Occurs(l.batch, UnfitLines)
               un2 == Occurs(l.batch, UnfitLines \ U)
    <2>1. un = un2 + without
      <3>1. UnfitLines \cap U = U
        BY DEF UnfitLines
      <3>2. Occurs(l.batch, UnfitLines) = Occurs(l.batch, UnfitLines \ U)
                                          + Occurs(l.batch, UnfitLines \cap U)
        BY <1>1, LinesSplit
      <3>3. QED
        BY <3>1, <3>2
    <2>2. un2 \in Nat /\ un \in Nat
      BY <1>1, OccursType, Zenon
    <2>3. RefusedOf(l) = f + 0 + un + 0
      BY <1>8, <1>9 DEF RefusedOf
    <2>4. RefusedOf(m) = f2 + 0 + 0 + un2
      BY <1>3, <1>8 DEF RefusedOf
    <2>5. f \in Nat
      BY <1>1
    <2> HIDE DEF f, f2, un, un2, without
    <2>6. QED
      BY <1>6, <1>7, <2>1, <2>2, <2>3, <2>4, <2>5
  <1>12. Occurs(m.batch, {badLine}) = 0 /\ OccursIn(m.work, {badLine} \cup U) = 0
    <2>1. Occurs(l.batch, {badLine}) = 0
      BY DEF Whole
    <2>2. Occurs(l.batch, ({badLine} \cup U) \ U) <= Occurs(l.batch, {badLine})
      <3>1. \A n \in 1..Len(l.batch) :
               l.batch[n] \in ({badLine} \cup U) \ U => l.batch[n] \in {badLine}
        BY Zenon
      <3>2. QED
        BY <1>1, <3>1, OccursWithin
    <2>3. Occurs(l.batch, ({badLine} \cup U) \ U) \in Nat
      BY <1>1, OccursType, Zenon
    <2>4. Occurs(l.batch, ({badLine} \cup U) \ U) = 0
      <3> DEFINE x == Occurs(l.batch, ({badLine} \cup U) \ U)
      <3>1. x <= 0 /\ x \in Nat
        BY <2>1, <2>2, <2>3, Zenon
      <3> HIDE DEF x
      <3>2. x = 0
        BY <3>1
      <3>3. QED
        BY <3>2 DEF x
    <2>5. QED
      BY <1>3, <2>4
  <1>13. ASSUME lost = 0, NEW o \in Lines \ conv, Occurs(ReadOf(m), SoughtLines(o)) > 0
         PROVE  Occurs(m.batch, SoughtLines(o)) + OccursIn(m.work, SoughtLines(o)) > 0
    <2> DEFINE B == SoughtLines(o)
    <2>1. Occurs(l.batch, B) + OccursIn(l.work, B) > 0
      BY <1>13 DEF Whole, ReadOf
    <2>2. B \ U = B
      BY DEF SoughtLines, UnfitLines
    <2> HIDE DEF B
    <2>3. OccursIn(m.work, B) = Occurs(l.batch, B) /\ Occurs(m.batch, B) = 0
      BY <1>3, <2>2
    <2>4. OccursIn(l.work, B) = 0 /\ Occurs(l.batch, B) \in Nat
      BY <1>1, <1>9, OccursType
    <2>5. Occurs(m.batch, B) + OccursIn(m.work, B) > 0
      BY <2>1, <2>3, <2>4
    <2>6. QED
      BY <2>5 DEF B
  <1>14. ReadOf(m) = ReadOf(l)
    BY DEF ReadOf
  <1>15. /\ m.pos = m.counts.total /\ m.pos <= Len(FileOf[m.job])
         /\ RefusedOf(m) - lost <= Occurs(ReadOf(m), UnfitLines)
         /\ Occurs(ReadOf(m), UnfitLines) <= RefusedOf(m)
    BY <1>11, <1>14 DEF Whole
  <1>16. m.inserted <= m.committed /\ m.step # "claimed"
    OBVIOUS
  <1>17. QED
    BY <1>10, <1>12, <1>13, <1>15, <1>16, Zenon DEF Whole

-----------------------------------------------------------------------------
\* What a job is credited with, and what a completed job tells, as facts about
\* the values of the variables.
OwnersIn(wk, j) == {w \in Worker : wk[w].step \notin {"idle", "found"} /\ wk[w].job = j}

CreditIn(jb, wk, j) ==
    IF jb[j] = NULL THEN 0
    ELSE IF OwnersIn(wk, j) = {} THEN jb[j].counts.imported
    ELSE LET l == wk[CHOOSE w \in OwnersIn(wk, j) : TRUE]
         IN  l.counts.imported + l.inserted

CreditsIn(jb, wk) == SumFunctionOnSet([j \in Jobs |-> CreditIn(jb, wk, j)], Jobs)

AccountedIn(jb, wk, conv, lost) ==
    /\ CreditsIn(jb, wk) <= Cardinality(conv)
    /\ lost = 0 => CreditsIn(jb, wk) = Cardinality(conv)

\* The places of the lines that cannot be imported.
UnfitIn(s) == {i \in DOMAIN s : s[i] \in UnfitLines}

CompletedWell(r, s, conv, lost) ==
    /\ r.counts.total = Len(s)
    /\ r.counts.total = r.counts.imported + r.counts.skipped + r.counts.failed
    /\ r.counts.failed \in Cardinality(UnfitIn(s))..(Cardinality(UnfitIn(s)) + lost)
    /\ lost = 0 => {OrderIn[s[i]] : i \in DOMAIN s \ UnfitIn(s)} \subseteq conv

LEMMA SameAccounts ==
    /\ Imports!ImportsAccountedFor <=> AccountedIn(job, worker, imported, losses)
    /\ Imports!ImportsAccountedFor' <=> AccountedIn(job', worker', imported', losses')
  <1> DEFINE Sum(jb, wk) ==
                Imports!SumFunctionOnSet([j \in Jobs |-> CreditIn(jb, wk, j)], Jobs)
             Told(jb, wk, conv, lost) ==
                /\ Sum(jb, wk) <= Imports!Cardinality(conv)
                /\ lost = 0 => Sum(jb, wk) = Imports!Cardinality(conv)
  <1>1. \A jb, wk, conv, lost : Told(jb, wk, conv, lost) <=> AccountedIn(jb, wk, conv, lost)
    <2> TAKE jb, wk, conv, lost
    <2>1. Sum(jb, wk) = CreditsIn(jb, wk) /\ Imports!Cardinality(conv) = Cardinality(conv)
      BY ImportCounts, Zenon DEF CreditsIn
    <2> HIDE DEF Sum
    <2>2. QED
      BY <2>1, Zenon DEF AccountedIn
  <1>2. Imports!ImportsAccountedFor <=> Told(job, worker, imported, losses)
    BY Zenon DEF Imports!ImportsAccountedFor, Imports!ImportedBy, Imports!Owns,
        CreditIn, OwnersIn, Jobs
  <1>3. Imports!ImportsAccountedFor' <=> Told(job', worker', imported', losses')
    BY Zenon DEF Imports!ImportsAccountedFor, Imports!ImportedBy, Imports!Owns,
        CreditIn, OwnersIn, Jobs
  <1> HIDE DEF Told
  <1>4. QED
    BY <1>1, <1>2, <1>3, Zenon

LEMMA SameCompletions ==
    /\ Imports!OnlyBadRowsFail <=>
          \A j \in Jobs : job[j] # NULL /\ job[j].status = "COMPLETED"
              => CompletedWell(job[j], FileOf[j], imported, losses)
    /\ Imports!OnlyBadRowsFail' <=>
          \A j \in Jobs : job'[j] # NULL /\ job'[j].status = "COMPLETED"
              => CompletedWell(job'[j], FileOf[j], imported', losses')
  <1> DEFINE Told(r, s, conv, lost) ==
                LET counts == r.counts
                    bad == {i \in DOMAIN s : s[i] \in {badLine} \cup {unlinked} \cup {poison}}
                IN
                /\ counts.total = Len(s)
                /\ counts.total = counts.imported + counts.skipped + counts.failed
                /\ counts.failed \in
                      Imports!Cardinality(bad)..(Imports!Cardinality(bad) + lost)
                /\ lost = 0 => {OrderIn[s[i]] : i \in DOMAIN s \ bad} \subseteq conv
  <1>1. \A r, s, conv, lost : Told(r, s, conv, lost) <=> CompletedWell(r, s, conv, lost)
    <2> TAKE r, s, conv, lost
    <2>1. Imports!Cardinality(UnfitIn(s)) = Cardinality(UnfitIn(s))
      BY ImportCounts, Zenon
    <2>2. UnfitIn(s) = {i \in DOMAIN s : s[i] \in {badLine} \cup {unlinked} \cup {poison}}
      BY Zenon DEF UnfitIn, UnfitLines
    <2>3. QED
      BY <2>1, <2>2, Zenon DEF CompletedWell
  <1>2. Imports!OnlyBadRowsFail <=>
          \A j \in Jobs : job[j] # NULL /\ job[j].status = "COMPLETED"
              => Told(job[j], FileOf[j], imported, losses)
    BY Zenon DEF Imports!OnlyBadRowsFail, Jobs, FileOf, OrderIn
  <1>3. Imports!OnlyBadRowsFail' <=>
          \A j \in Jobs : job'[j] # NULL /\ job'[j].status = "COMPLETED"
              => Told(job'[j], FileOf[j], imported', losses')
    BY Zenon DEF Imports!OnlyBadRowsFail, Jobs, FileOf, OrderIn
  <1> HIDE DEF Told
  <1>4. QED
    BY <1>1, <1>2, <1>3, Zenon

\* What others import or lose leaves a completed job as it is.
LEMMA CompletedStays ==
    ASSUME NEW r \in Imports!JobRow, NEW s \in Seq(Lines), NEW conv, NEW more,
           conv \subseteq more, NEW lost \in Nat, NEW lost2 \in Nat, lost <= lost2,
           CompletedWell(r, s, conv, lost)
    PROVE  CompletedWell(r, s, more, lost2)
  <1>1. Cardinality(UnfitIn(s)) \in Nat
    BY OccursType, FS_CardinalityType, Zenon DEF UnfitIn
  <1> DEFINE n == Cardinality(UnfitIn(s))
             f == r.counts.failed
  <1>2. f \in n..(n + lost) /\ n \in Nat
    BY <1>1 DEF CompletedWell
  <1> HIDE DEF n, f
  <1>3. f \in n..(n + lost2)
    BY <1>2
  <1>4. lost2 = 0 => lost = 0
    OBVIOUS
  <1>5. QED
    BY <1>3, <1>4 DEF CompletedWell, n, f

-----------------------------------------------------------------------------
\* A job with a worker is credited with what that one counts.
LEMMA CreditOfOwned ==
    ASSUME NEW jb, NEW wk, NEW j, jb[j] # NULL, NEW w \in Worker,
           OwnersIn(wk, j) = {w}
    PROVE  CreditIn(jb, wk, j) = wk[w].counts.imported + wk[w].inserted
  <1>1. (CHOOSE v \in OwnersIn(wk, j) : TRUE) = w
    <2> DEFINE S == OwnersIn(wk, j)
    <2>1. S = {w}
      OBVIOUS
    <2> HIDE DEF S
    <2>2. (CHOOSE v \in S : TRUE) = w
      BY <2>1
    <2>3. QED
      BY <2>2 DEF S
  <1>2. OwnersIn(wk, j) # {}
    OBVIOUS
  <1>3. QED
    BY <1>1, <1>2, Zenon DEF CreditIn

LEMMA CreditOfOthers ==
    ASSUME NEW jb, NEW wk, NEW jb2, NEW wk2, NEW j,
           jb2[j] = jb[j], OwnersIn(wk2, j) = OwnersIn(wk, j),
           \A v \in OwnersIn(wk, j) : wk2[v] = wk[v]
    PROVE  CreditIn(jb2, wk2, j) = CreditIn(jb, wk, j)
  <1> DEFINE S == OwnersIn(wk, j)
             c == CHOOSE v \in S : TRUE
  <1>1. S # {} => c \in S
    OBVIOUS
  <1>2. S # {} => wk2[c] = wk[c]
    BY <1>1
  <1>3. CreditIn(jb, wk, j) =
            IF jb[j] = NULL THEN 0
            ELSE IF S = {} THEN jb[j].counts.imported
            ELSE wk[c].counts.imported + wk[c].inserted
    BY Zenon DEF CreditIn
  <1>4. CreditIn(jb2, wk2, j) =
            IF jb[j] = NULL THEN 0
            ELSE IF S = {} THEN jb[j].counts.imported
            ELSE wk2[c].counts.imported + wk2[c].inserted
    <2>1. OwnersIn(wk2, j) = S /\ jb2[j] = jb[j]
      OBVIOUS
    <2> HIDE DEF S
    <2>2. QED
      BY <2>1 DEF CreditIn
  <1> HIDE DEF S, c
  <1>5. QED
    BY <1>2, <1>3, <1>4

\* What the invariant says of a worker at work.
LEMMA OwnerFacts ==
    ASSUME Imports!ImportInv, NEW w \in Worker, worker[w].step \notin {"idle", "found"}
    PROVE  /\ worker[w] \in Imports!Local
           /\ worker[w].job \in Jobs /\ job[worker[w].job] # NULL
           /\ job[worker[w].job] \in Imports!JobRow
           /\ job[worker[w].job].status # "PENDING"
           /\ worker[w].step \in Imports!Importing \cup {"failing"}
                 => job[worker[w].job].status = "PROCESSING"
           /\ worker[w].step \in Imports!Importing => Whole(worker[w], imported, losses)
           /\ job[worker[w].job].counts.imported
                 <= worker[w].counts.imported + worker[w].inserted
           /\ worker[w].step \in {"failing", "discarding"} => worker[w].inserted = 0
           /\ worker[w].step = "discarding" /\ losses = 0
                 => job[worker[w].job].counts.imported = worker[w].counts.imported
           /\ \A v \in Worker : worker[v].step \notin {"idle", "found"}
                                /\ worker[v].job = worker[w].job => v = w
  <1>1. /\ worker[w] \in Imports!Local
        /\ job \in [Jobs -> Imports!JobRow \cup {NULL}]
    BY Zenon DEF Imports!ImportInv, Imports!TypeOK, Jobs
  <1>2. worker[w].job \in Jobs /\ job[worker[w].job] # NULL
    BY DEF Imports!ImportInv, Imports!JobsAreOwned, Jobs
  <1>3. Imports!Owns(w)
    BY DEF Imports!Owns
  <1>4. /\ job[worker[w].job].status # "PENDING"
        /\ worker[w].step \in Imports!Importing \cup {"failing"}
                 => job[worker[w].job].status = "PROCESSING"
    BY <1>3, Zenon DEF Imports!ImportInv, Imports!JobsAreOwned
  <1>5. \A v \in Worker : worker[v].step \notin {"idle", "found"}
                          /\ worker[v].job = worker[w].job => v = w
    BY <1>3, Zenon DEF Imports!ImportInv, Imports!JobsAreOwned, Imports!Owns
  <1>6. worker[w].step \in Imports!Importing => Whole(worker[w], imported, losses)
    BY SameWhole, Zenon DEF Imports!ImportInv
  <1>7. /\ job[worker[w].job].counts.imported
                 <= worker[w].counts.imported + worker[w].inserted
        /\ worker[w].step \in {"failing", "discarding"} => worker[w].inserted = 0
        /\ worker[w].step = "discarding" /\ losses = 0
                 => job[worker[w].job].counts.imported = worker[w].counts.imported
    BY <1>3, Zenon DEF Imports!ImportInv, Imports!RowsFollowWorkers
  <1>8. QED
    BY <1>1, <1>2, <1>4, <1>5, <1>6, <1>7

LEMMA ImportTypes ==
    ASSUME Imports!ImportInv
    PROVE  /\ file \subseteq Jobs
           /\ job \in [Jobs -> Imports!JobRow \cup {NULL}]
           /\ jobs \in Seq(Jobs)
           /\ imported \subseteq Lines /\ IsFiniteSet(imported)
           /\ worker \in [Worker -> Imports!Local]
           /\ losses \in Nat /\ Cardinality(imported) \in Nat
  <1>1. /\ file \subseteq Jobs
        /\ job \in [Jobs -> Imports!JobRow \cup {NULL}]
        /\ jobs \in Seq(Jobs)
        /\ imported \subseteq Lines
        /\ worker \in [Worker -> Imports!Local]
        /\ losses \in Nat
    BY Zenon DEF Imports!ImportInv, Imports!TypeOK, Jobs
  <1>2. IsFiniteSet(imported)
    BY <1>1, ImportParameters, FS_Subset, Zenon
  <1>3. QED
    BY <1>1, <1>2, FS_CardinalityType, Zenon

\* Other workers account for what they read as before, whatever else happens.
LEMMA OthersAreWhole ==
    ASSUME Imports!ImportInv, NEW v \in Worker,
           worker'[v] = worker[v], worker[v].step \in Imports!Importing,
           imported \subseteq imported', losses' \in {losses, losses + 1}
    PROVE  Whole(worker'[v], imported', losses')
  <1>1. worker[v].step \notin {"idle", "found"}
    BY DEF Imports!Importing
  <1>2. /\ worker[v] \in Imports!Local /\ worker[v].job \in Jobs
        /\ Whole(worker[v], imported, losses)
    BY <1>1, OwnerFacts, Zenon
  <1>3. losses \in Nat /\ losses' \in Nat /\ losses <= losses'
    BY ImportTypes
  <1>4. Whole(worker[v], imported', losses')
    BY <1>2, <1>3, WholeStays
  <1>5. QED
    BY <1>4

LEMMA OthersAreComplete ==
    ASSUME Imports!ImportInv, NEW j \in Jobs, job[j] # NULL, job[j].status = "COMPLETED",
           imported \subseteq imported', losses' \in {losses, losses + 1}
    PROVE  CompletedWell(job[j], FileOf[j], imported', losses')
  <1>1. CompletedWell(job[j], FileOf[j], imported, losses)
    BY SameCompletions, Zenon DEF Imports!ImportInv
  <1>2. losses \in Nat /\ losses' \in Nat /\ losses <= losses'
    BY ImportTypes
  <1>3. job[j] \in Imports!JobRow /\ FileOf[j] \in Seq(Lines)
    BY ImportTypes, ImportParameters
  <1>4. QED
    BY <1>1, <1>2, <1>3, CompletedStays

LEMMA CreditType ==
    ASSUME Imports!ImportInv, NEW j \in Jobs PROVE CreditIn(job, worker, j) \in Nat
  <1>1. CASE job[j] = NULL
    BY <1>1 DEF CreditIn
  <1>2. ASSUME job[j] # NULL, OwnersIn(worker, j) = {} PROVE CreditIn(job, worker, j) \in Nat
    <2>1. job[j] \in Imports!JobRow
      BY <1>2, ImportTypes
    <2>2. job[j].counts.imported \in Nat
      BY <2>1 DEF Imports!JobRow, Imports!Counts
    <2>3. QED
      BY <1>2, <2>2, Zenon DEF CreditIn
  <1>3. ASSUME job[j] # NULL, NEW w \in OwnersIn(worker, j)
        PROVE  CreditIn(job, worker, j) \in Nat
    <2>1. w \in Worker /\ worker[w].step \notin {"idle", "found"} /\ worker[w].job = j
      BY <1>3 DEF OwnersIn
    <2>2. OwnersIn(worker, j) = {w}
      BY <2>1, OwnerFacts DEF OwnersIn
    <2>3. CreditIn(job, worker, j) = worker[w].counts.imported + worker[w].inserted
      BY <1>3, <2>1, <2>2, CreditOfOwned
    <2>4. worker[w].counts.imported \in Nat /\ worker[w].inserted \in Nat
      BY <2>1, OwnerFacts, LocalFields
    <2>5. QED
      BY <2>3, <2>4
  <1>4. QED
    BY <1>1, <1>2, <1>3

\* One job's credit moves, the others stay.
LEMMA CreditsMove ==
    ASSUME NEW jb, NEW wk, NEW jb2, NEW wk2, NEW j \in Jobs, NEW d \in Nat,
           \A i \in Jobs : CreditIn(jb, wk, i) \in Nat,
           \A i \in Jobs \ {j} : CreditIn(jb2, wk2, i) = CreditIn(jb, wk, i),
           CreditIn(jb2, wk2, j) = CreditIn(jb, wk, j) + d
    PROVE  /\ CreditsIn(jb2, wk2) = CreditsIn(jb, wk) + d
           /\ CreditsIn(jb, wk) \in Nat
  <1> DEFINE f == [i \in Jobs |-> CreditIn(jb, wk, i)]
             g == [i \in Jobs |-> CreditIn(jb2, wk2, i)]
  <1>6. /\ \A i \in Jobs : f[i] \in Nat
        /\ \A i \in Jobs \ {j} : g[i] = f[i]
        /\ g[j] = f[j] + d
    OBVIOUS
  <1>7. CreditsIn(jb, wk) = SumFunctionOnSet(f, Jobs)
        /\ CreditsIn(jb2, wk2) = SumFunctionOnSet(g, Jobs)
    BY Zenon DEF CreditsIn
  <1> HIDE DEF f, g
  <1>1. \A i \in Jobs : f[i] \in Nat /\ g[i] \in Nat
    BY <1>6
  <1>2. IsFiniteSet(Jobs)
    BY ImportParameters
  <1>3. /\ SumFunctionOnSet(f, Jobs) \in Nat
        /\ SumFunctionOnSet(g, Jobs) = SumFunctionOnSet(f, Jobs) + g[j] - f[j]
    BY <1>1, <1>2, <1>6, SumChange
  <1>4. f[j] \in Nat
    BY <1>6
  <1>5. QED
    BY <1>3, <1>4, <1>6, <1>7

LEMMA CreatedJobs ==
    ASSUME Imports!ImportInv
    PROVE  \A i \in DOMAIN jobs : jobs[i] \in Jobs /\ job[jobs[i]] # NULL
  <1>1. jobs \in Seq(Jobs)
    BY ImportTypes
  <1>2. \A i \in DOMAIN jobs : jobs[i] \in Jobs
    BY <1>1
  <1>3. QED
    BY <1>2, Zenon DEF Imports!ImportInv, Imports!JobsAreOwned

\* A worker that counts d conversions more adds them to the credits.
LEMMA CreditMoves ==
    ASSUME Imports!ImportInv, NEW w \in Worker, worker[w].step \notin {"idle", "found"},
           NEW j \in Jobs, worker[w].job = j, NEW d \in Nat,
           worker'[w].step \notin {"idle", "found"}, worker'[w].job = j,
           worker'[w].counts.imported + worker'[w].inserted
               = worker[w].counts.imported + worker[w].inserted + d,
           job'[j] # NULL, \A i \in Jobs \ {j} : job'[i] = job[i],
           \A v \in Worker \ {w} : worker'[v] = worker[v]
    PROVE  /\ CreditsIn(job', worker') = CreditsIn(job, worker) + d
           /\ CreditsIn(job, worker) \in Nat
  <1>1. \A i \in Jobs : OwnersIn(worker', i) = OwnersIn(worker, i)
    <2>1. \A x \in Worker : /\ worker'[x].job = worker[x].job
                            /\ worker'[x].step \notin {"idle", "found"}
                                  <=> worker[x].step \notin {"idle", "found"}
      OBVIOUS
    <2>2. QED
      BY <2>1, Zenon DEF OwnersIn
  <1>2. \A i \in Jobs \ {j} : CreditIn(job', worker', i) = CreditIn(job, worker, i)
    <2>1. ASSUME NEW i \in Jobs \ {j} PROVE CreditIn(job', worker', i) = CreditIn(job, worker, i)
      <3>1. \A v \in OwnersIn(worker, i) : worker'[v] = worker[v]
        BY DEF OwnersIn
      <3>2. job'[i] = job[i] /\ OwnersIn(worker', i) = OwnersIn(worker, i)
        BY <1>1
      <3>3. QED
        BY <3>1, <3>2, CreditOfOthers
    <2>2. QED
      BY <2>1
  <1>3. CreditIn(job', worker', j) = CreditIn(job, worker, j) + d
    <2>1. OwnersIn(worker, j) = {w} /\ job[j] # NULL
      BY OwnerFacts DEF OwnersIn
    <2>2. CreditIn(job, worker, j) = worker[w].counts.imported + worker[w].inserted
      BY <2>1, CreditOfOwned
    <2>3. OwnersIn(worker', j) = {w}
      BY <1>1, <2>1
    <2>4. CreditIn(job', worker', j) = worker'[w].counts.imported + worker'[w].inserted
      BY <2>3, CreditOfOwned
    <2>5. QED
      BY <2>2, <2>4
  <1>4. \A i \in Jobs : CreditIn(job, worker, i) \in Nat
    BY CreditType
  <1>5. QED
    BY <1>2, <1>3, <1>4, CreditsMove

\* Conversions and credits move together, and losses only excuse.
LEMMA AccountMoves ==
    ASSUME Imports!ImportInv, NEW d \in Nat, losses' \in {losses, losses + 1},
           Cardinality(imported') = Cardinality(imported) + d,
           CreditsIn(job', worker') = CreditsIn(job, worker) + d,
           CreditsIn(job, worker) \in Nat
    PROVE  Imports!ImportsAccountedFor'
  <1>1. AccountedIn(job, worker, imported, losses)
    BY SameAccounts, Zenon DEF Imports!ImportInv
  <1>2. losses \in Nat /\ Cardinality(imported) \in Nat
    BY ImportTypes
  <1>3. CreditsIn(job', worker') <= Cardinality(imported')
    BY <1>1, <1>2 DEF AccountedIn
  <1>4. losses' = 0 => CreditsIn(job', worker') = Cardinality(imported')
    BY <1>1, <1>2 DEF AccountedIn
  <1>5. AccountedIn(job', worker', imported', losses')
    BY <1>3, <1>4 DEF AccountedIn
  <1>6. QED
    BY <1>5, SameAccounts, Zenon

\* A step of a worker that owns its job: it goes from what it was to m, and the
\* job's row to r, while d conversions join the table.
LEMMA WorkerWorks ==
    ASSUME Imports!ImportInv, NEW w \in Worker, worker[w].step \notin {"idle", "found"},
           NEW m \in Imports!Local, m.step \notin {"idle", "found"},
           m.job = worker[w].job, NEW r \in Imports!JobRow, r.status # "PENDING",
           m.step \in Imports!Importing \cup {"failing"} => r.status = "PROCESSING",
           worker' = [worker EXCEPT ![w] = m], job' = [job EXCEPT ![m.job] = r],
           jobs' = jobs, file' = file, NEW d \in Nat,
           imported \subseteq imported', imported' \subseteq Lines,
           Cardinality(imported') = Cardinality(imported) + d,
           losses' \in {losses, losses + 1},
           m.counts.imported + m.inserted
               = worker[w].counts.imported + worker[w].inserted + d,
           m.step \in Imports!Importing => Whole(m, imported', losses'),
           r.counts.imported <= m.counts.imported + m.inserted,
           m.step \in {"failing", "discarding"} => m.inserted = 0,
           m.step = "discarding" /\ losses' = 0 => r.counts.imported = m.counts.imported,
           r.status = "COMPLETED"
               => CompletedWell(r, FileOf[m.job], imported', losses')
    PROVE  Imports!ImportInv'
  <1> DEFINE j == worker[w].job
  <1>1. /\ j \in Jobs /\ job[j] # NULL /\ m.job = j /\ job[j] \in Imports!JobRow
        /\ \A v \in Worker : worker[v].step \notin {"idle", "found"}
                             /\ worker[v].job = j => v = w
    BY OwnerFacts, Zenon
  <1>2. /\ job \in [Jobs -> Imports!JobRow \cup {NULL}]
        /\ worker \in [Worker -> Imports!Local] /\ losses \in Nat
        /\ Cardinality(imported) \in Nat
    BY ImportTypes
  <1>3. r # NULL
    BY ImportParameters
  <1>4. /\ worker'[w] = m /\ \A v \in Worker \ {w} : worker'[v] = worker[v]
        /\ job'[j] = r /\ \A i \in Jobs \ {j} : job'[i] = job[i]
    <2>1. worker'[w] = m /\ \A v \in Worker \ {w} : worker'[v] = worker[v]
      BY <1>2
    <2>2. job' = [job EXCEPT ![j] = r]
      BY <1>1
    <2> HIDE DEF j
    <2>3. job'[j] = r /\ \A i \in Jobs \ {j} : job'[i] = job[i]
      BY <1>1, <1>2, <2>2
    <2>4. QED
      BY <2>1, <2>3
  <1>5. Imports!TypeOK'
    <2>1. worker' \in [Worker -> Imports!Local]
      BY <1>2
    <2>2. job' \in [Jobs -> Imports!JobRow \cup {NULL}]
      BY <1>1, <1>2
    <2>3. losses' \in Nat
      BY <1>2
    <2>4. QED
      BY <2>1, <2>2, <2>3, Zenon DEF Imports!ImportInv, Imports!TypeOK, Jobs
  <1> HIDE DEF j
  <1>6. Imports!JobsAreOwned'
    <2> DEFINE On(v) == worker'[v].step \notin {"idle", "found"}
    <2>1. \A i \in DOMAIN jobs : jobs[i] \in Jobs /\ job'[jobs[i]] # NULL
      <3>1. \A i \in DOMAIN jobs : jobs[i] \in Jobs /\ job[jobs[i]] # NULL
        BY CreatedJobs
      <3>2. \A i \in Jobs : job[i] # NULL => job'[i] # NULL
        BY <1>3, <1>4
      <3>3. QED
        BY <3>1, <3>2, Zenon
    <2>2. \A i \in Jobs : job'[i] # NULL /\ job'[i].status = "PENDING"
                          => job'[i].counts = Imports!NoCounts
      <3>1. \A i \in Jobs : job[i] # NULL /\ job[i].status = "PENDING"
                            => job[i].counts = Imports!NoCounts
        BY Zenon DEF Imports!ImportInv, Imports!JobsAreOwned, Jobs
      <3>2. QED
        BY <1>4, <3>1
    <2>3. ASSUME NEW v \in Worker
          PROVE  /\ worker'[v].step = "idle" => worker'[v] = Imports!IdleWorker
                 /\ worker'[v].step = "found"
                       => worker'[v] = [Imports!IdleWorker EXCEPT
                                           !.step = "found", !.job = worker'[v].job]
                 /\ worker'[v].step # "idle"
                       => worker'[v].job \in Jobs /\ job'[worker'[v].job] # NULL
                 /\ On(v) => job'[worker'[v].job].status # "PENDING"
                 /\ worker'[v].step \in Imports!Importing \cup {"failing"}
                       => job'[worker'[v].job].status = "PROCESSING"
      <3>1. CASE v = w
        BY <1>1, <1>3, <1>4, <3>1
      <3>2. CASE v # w
        <4>1. worker'[v] = worker[v]
          BY <1>4, <3>2
        <4>2. /\ worker[v].step = "idle" => worker[v] = Imports!IdleWorker
              /\ worker[v].step = "found"
                    => worker[v] = [Imports!IdleWorker EXCEPT
                                       !.step = "found", !.job = worker[v].job]
              /\ worker[v].step # "idle"
                    => worker[v].job \in Jobs /\ job[worker[v].job] # NULL
          BY Zenon DEF Imports!ImportInv, Imports!JobsAreOwned, Jobs
        <4>3. On(v) => /\ job[worker[v].job].status # "PENDING"
                       /\ worker[v].job # j /\ worker[v].job \in Jobs
          BY <1>1, <3>2, <4>1, OwnerFacts
        <4>4. worker[v].step \in Imports!Importing \cup {"failing"}
                    => job[worker[v].job].status = "PROCESSING"
          BY Zenon DEF Imports!ImportInv, Imports!JobsAreOwned
        <4>5. worker[v].step \in Imports!Importing \cup {"failing"} => On(v)
          BY <4>1 DEF Imports!Importing
        <4>6. On(v) => job'[worker[v].job] = job[worker[v].job]
          BY <1>4, <4>3, Zenon
        <4>7. worker[v].step # "idle" => job'[worker[v].job] # NULL
          BY <1>3, <1>4, <4>2
        <4> HIDE DEF On
        <4>8. QED
          BY <4>1, <4>2, <4>3, <4>4, <4>5, <4>6, <4>7, Zenon
      <3>3. QED
        BY <3>1, <3>2
    <2>4. ASSUME NEW u \in Worker, NEW v \in Worker, On(u), On(v),
                 worker'[u].job = worker'[v].job
          PROVE  u = v
      <3>1. /\ worker[u].step \notin {"idle", "found"}
            /\ worker[v].step \notin {"idle", "found"}
            /\ worker[u].job = worker[v].job
        <4>1. \A x \in Worker : On(x) => worker[x].step \notin {"idle", "found"}
          BY <1>4
        <4>2. \A x \in Worker : worker'[x].job = worker[x].job
          BY <1>4, <1>1 DEF j
        <4>3. QED
          BY <2>4, <4>1, <4>2
      <3>2. QED
        BY <3>1, OwnerFacts
    <2>5. QED
      BY <2>1, <2>2, <2>3, <2>4, Zenon DEF Imports!JobsAreOwned, Imports!Owns, Jobs
  <1>7. \A v \in Worker : worker'[v].step \in Imports!Importing
                             => Imports!LinesAccountedFor(worker[v])'
    <2>1. ASSUME NEW v \in Worker, worker'[v].step \in Imports!Importing
          PROVE  Whole(worker'[v], imported', losses')
      <3>1. CASE v = w
        BY <1>4, <2>1, <3>1
      <3>2. CASE v # w
        BY <1>4, <2>1, <3>2, OthersAreWhole
      <3>3. QED
        BY <3>1, <3>2
    <2>2. QED
      BY <2>1, SameWhole, Zenon
  <1>8. Imports!RowsFollowWorkers'
    <2> SUFFICES ASSUME NEW v \in Worker, worker'[v].step \notin {"idle", "found"}
                 PROVE  /\ job'[worker'[v].job].counts.imported
                              <= worker'[v].counts.imported + worker'[v].inserted
                        /\ worker'[v].step \in {"failing", "discarding"}
                              => worker'[v].inserted = 0
                        /\ worker'[v].step = "discarding" /\ losses' = 0
                              => job'[worker'[v].job].counts.imported
                                    = worker'[v].counts.imported
      BY Zenon DEF Imports!RowsFollowWorkers, Imports!Owns
    <2>1. CASE v = w
      BY <1>1, <1>4, <2>1
    <2>2. CASE v # w
      <3>1. worker'[v] = worker[v]
        BY <1>4, <2>2
      <3>2. worker[v].job # j /\ worker[v].job \in Jobs
        BY <1>1, <2>2, <3>1, OwnerFacts
      <3>3. job'[worker[v].job] = job[worker[v].job]
        BY <1>4, <3>2
      <3>4. losses' = 0 => losses = 0
        BY <1>2
      <3>5. QED
        BY <3>1, <3>3, <3>4, OwnerFacts
    <2>3. QED
      BY <2>1, <2>2
  <1>9. Imports!ImportsAccountedFor'
    <2>1. CreditsIn(job', worker') = CreditsIn(job, worker) + d /\ CreditsIn(job, worker) \in Nat
      <3>1. job'[j] # NULL /\ worker[w].job = j /\ m.job = j
        BY <1>1, <1>3, <1>4 DEF j
      <3>2. j \in Jobs
        BY <1>1
      <3>3. /\ worker'[w].step \notin {"idle", "found"} /\ worker'[w].job = j
            /\ worker'[w].counts.imported + worker'[w].inserted
                  = worker[w].counts.imported + worker[w].inserted + d
        BY <1>4, <3>1
      <3>4. QED
        BY <1>4, <3>1, <3>2, <3>3, CreditMoves, Zenon
    <2>2. QED
      BY <2>1, AccountMoves
  <1>10. Imports!OnlyBadRowsFail'
    <2>1. ASSUME NEW i \in Jobs, job'[i] # NULL, job'[i].status = "COMPLETED"
          PROVE  CompletedWell(job'[i], FileOf[i], imported', losses')
      <3>1. CASE i = j
        BY <1>1, <1>4, <2>1, <3>1
      <3>2. CASE i # j
        <4>1. job'[i] = job[i]
          BY <1>4, <3>2
        <4>2. QED
          BY <2>1, <4>1, OthersAreComplete
      <3>3. QED
        BY <3>1, <3>2
    <2>2. QED
      BY <2>1, SameCompletions, Zenon
  <1>11. QED
    BY <1>5, <1>6, <1>7, <1>8, <1>9, <1>10 DEF Imports!ImportInv

LEMMA CreditsStay ==
    ASSUME NEW jb, NEW wk, NEW jb2, NEW wk2,
           \A i \in Jobs : CreditIn(jb2, wk2, i) = CreditIn(jb, wk, i)
    PROVE  CreditsIn(jb2, wk2) = CreditsIn(jb, wk)
  <1>1. [i \in Jobs |-> CreditIn(jb2, wk2, i)] = [i \in Jobs |-> CreditIn(jb, wk, i)]
    BY Zenon
  <1>2. QED
    BY <1>1, Zenon DEF CreditsIn

LEMMA CreditsType ==
    ASSUME Imports!ImportInv PROVE CreditsIn(job, worker) \in Nat
  <1> DEFINE f == [i \in Jobs |-> CreditIn(job, worker, i)]
  <1>1. \A i \in Jobs : f[i] \in Nat
    BY CreditType
  <1>2. CreditsIn(job, worker) = SumFunctionOnSet(f, Jobs)
    BY Zenon DEF CreditsIn
  <1>3. IsFiniteSet(Jobs)
    BY ImportParameters
  <1> HIDE DEF f
  <1>4. SumFunctionOnSet(f, Jobs) \in Nat
    BY <1>1, <1>3, SumType
  <1>5. QED
    BY <1>2, <1>4

\* With the credits of every job, the account stays.
LEMMA AccountStays ==
    ASSUME Imports!ImportInv, losses' \in {losses, losses + 1},
           imported' = imported,
           \A i \in Jobs : CreditIn(job', worker', i) = CreditIn(job, worker, i)
    PROVE  Imports!ImportsAccountedFor'
  <1>1. CreditsIn(job', worker') = CreditsIn(job, worker) /\ CreditsIn(job, worker) \in Nat
    BY CreditsStay, CreditsType
  <1>2. Cardinality(imported') = Cardinality(imported) /\ Cardinality(imported) \in Nat
    BY ImportTypes
  <1>3. /\ CreditsIn(job', worker') = CreditsIn(job, worker) + 0
        /\ Cardinality(imported') = Cardinality(imported) + 0
    BY <1>1, <1>2
  <1>4. QED
    BY <1>1, <1>3, AccountMoves

\* A worker that stops loses the credit its job's row does not tell.
LEMMA AccountDrops ==
    ASSUME Imports!ImportInv, losses' \in {losses, losses + 1},
           imported' = imported, NEW j \in Jobs, NEW d \in Nat, losses' = 0 => d = 0,
           \A i \in Jobs \ {j} : CreditIn(job', worker', i) = CreditIn(job, worker, i),
           CreditIn(job', worker', j) \in Nat,
           CreditIn(job, worker, j) = CreditIn(job', worker', j) + d
    PROVE  Imports!ImportsAccountedFor'
  <1>1. \A i \in Jobs : CreditIn(job', worker', i) \in Nat
    BY CreditType
  <1>2. \A i \in Jobs \ {j} : CreditIn(job, worker, i) = CreditIn(job', worker', i)
    OBVIOUS
  <1>3. /\ CreditsIn(job, worker) = CreditsIn(job', worker') + d
        /\ CreditsIn(job', worker') \in Nat
    BY <1>1, <1>2, CreditsMove
  <1>4. AccountedIn(job, worker, imported, losses)
    BY SameAccounts, Zenon DEF Imports!ImportInv
  <1>5. losses \in Nat /\ Cardinality(imported) \in Nat
    BY ImportTypes
  <1>6. CreditsIn(job', worker') <= Cardinality(imported')
    BY <1>3, <1>4, <1>5 DEF AccountedIn
  <1>7. losses' = 0 => CreditsIn(job', worker') = Cardinality(imported')
    BY <1>3, <1>4, <1>5 DEF AccountedIn
  <1>8. AccountedIn(job', worker', imported', losses')
    BY <1>6, <1>7 DEF AccountedIn
  <1>9. QED
    BY <1>8, SameAccounts, Zenon

\* What holds of the completed jobs while the rows stay as they are.
LEMMA CompletionsStay ==
    ASSUME Imports!ImportInv, losses' \in {losses, losses + 1},
           imported' = imported, job' = job
    PROVE  Imports!OnlyBadRowsFail'
  <1>1. ASSUME NEW i \in Jobs, job'[i] # NULL, job'[i].status = "COMPLETED"
        PROVE  CompletedWell(job'[i], FileOf[i], imported', losses')
    BY <1>1, OthersAreComplete
  <1>2. QED
    BY <1>1, SameCompletions, Zenon

\* What is kept in files, and what is lost elsewhere, is not part of the account.
LEMMA ImportQuiet ==
    ASSUME Imports!ImportInv, losses' \in {losses, losses + 1}, file' \subseteq Jobs,
           imported' = imported, job' = job, worker' = worker, jobs' = jobs
    PROVE  Imports!ImportInv'
  <1>1. Imports!TypeOK'
    <2>1. losses' \in Nat
      BY ImportTypes
    <2>2. QED
      BY <2>1, Zenon DEF Imports!ImportInv, Imports!TypeOK, Jobs
  <1>2. Imports!JobsAreOwned'
    BY Zenon DEF Imports!ImportInv, Imports!JobsAreOwned, Imports!Owns
  <1>3. \A v \in Worker : worker'[v].step \in Imports!Importing
                             => Imports!LinesAccountedFor(worker[v])'
    <2>1. ASSUME NEW v \in Worker, worker'[v].step \in Imports!Importing
          PROVE  Whole(worker'[v], imported', losses')
      BY <2>1, OthersAreWhole
    <2>2. QED
      BY <2>1, SameWhole, Zenon
  <1>4. Imports!RowsFollowWorkers'
    <2>1. losses' = 0 => losses = 0
      BY ImportTypes
    <2>2. QED
      BY <2>1, Zenon DEF Imports!ImportInv, Imports!RowsFollowWorkers, Imports!Owns
  <1>5. Imports!ImportsAccountedFor'
    <2>1. \A i \in Jobs : CreditIn(job', worker', i) = CreditIn(job, worker, i)
      BY Zenon
    <2>2. QED
      BY <2>1, AccountStays
  <1>6. Imports!OnlyBadRowsFail'
    BY CompletionsStay
  <1>7. QED
    BY <1>1, <1>2, <1>3, <1>4, <1>5, <1>6, Zenon DEF Imports!ImportInv

LEMMA AnyWorker ==
    ASSUME Imports!ImportInv, NEW v \in Worker
    PROVE  /\ worker[v].step = "idle" => worker[v] = Imports!IdleWorker
           /\ worker[v].step = "found"
                 => worker[v] = [Imports!IdleWorker EXCEPT
                                    !.step = "found", !.job = worker[v].job]
           /\ worker[v].step # "idle"
                 => worker[v].job \in Jobs /\ job[worker[v].job] # NULL
           /\ worker[v].step \notin {"idle", "found"}
                 => job[worker[v].job].status # "PENDING"
           /\ worker[v].step \in Imports!Importing \cup {"failing"}
                 => job[worker[v].job].status = "PROCESSING"
  BY Zenon DEF Imports!ImportInv, Imports!JobsAreOwned, Imports!Owns, Jobs

LEMMA CreditKept ==
    ASSUME NEW i \in Jobs, job'[i] = job[i], OwnersIn(worker', i) = OwnersIn(worker, i),
           \A v \in OwnersIn(worker, i) : worker'[v] = worker[v]
    PROVE  CreditIn(job', worker', i) = CreditIn(job, worker, i)
  BY CreditOfOthers

\* A worker finds a job or stops.
LEMMA WorkerRests ==
    ASSUME Imports!ImportInv, NEW w \in Worker, NEW m \in Imports!Local,
           m.step \in {"idle", "found"},
           m.step = "idle" => m = Imports!IdleWorker,
           m.step = "found"
               => /\ m = [Imports!IdleWorker EXCEPT !.step = "found", !.job = m.job]
                  /\ m.job \in Jobs /\ job[m.job] # NULL,
           worker[w].step \notin {"idle", "found"} /\ losses' = 0
               => job[worker[w].job].counts.imported
                      = worker[w].counts.imported + worker[w].inserted,
           worker' = [worker EXCEPT ![w] = m], job' = job, jobs' = jobs,
           file' \subseteq Jobs, imported' = imported, losses' \in {losses, losses + 1}
    PROVE  Imports!ImportInv'
  <1>1. worker'[w] = m /\ \A v \in Worker \ {w} : worker'[v] = worker[v]
    BY ImportTypes
  <1>2. \A v \in Worker : worker'[v].step \notin {"idle", "found"}
           => v # w /\ worker'[v] = worker[v]
    BY <1>1
  <1>3. losses' = 0 => losses = 0
    BY ImportTypes
  <1>4. Imports!TypeOK'
    <2>1. worker' \in [Worker -> Imports!Local] /\ losses' \in Nat
      BY ImportTypes
    <2>2. QED
      BY <2>1, Zenon DEF Imports!ImportInv, Imports!TypeOK, Jobs
  <1>5. Imports!JobsAreOwned'
    <2>1. \A i \in DOMAIN jobs : job[jobs[i]] # NULL
      BY CreatedJobs
    <2>2. \A i \in Jobs : job[i] # NULL /\ job[i].status = "PENDING"
                          => job[i].counts = Imports!NoCounts
      BY Zenon DEF Imports!ImportInv, Imports!JobsAreOwned, Jobs
    <2>3. ASSUME NEW v \in Worker
          PROVE  /\ worker'[v].step = "idle" => worker'[v] = Imports!IdleWorker
                 /\ worker'[v].step = "found"
                       => worker'[v] = [Imports!IdleWorker EXCEPT
                                           !.step = "found", !.job = worker'[v].job]
                 /\ worker'[v].step # "idle"
                       => worker'[v].job \in Jobs /\ job[worker'[v].job] # NULL
                 /\ worker'[v].step \notin {"idle", "found"}
                       => job[worker'[v].job].status # "PENDING"
                 /\ worker'[v].step \in Imports!Importing \cup {"failing"}
                       => job[worker'[v].job].status = "PROCESSING"
      <3>1. CASE v = w
        BY <1>1, <3>1 DEF Imports!Importing
      <3>2. CASE v # w
        <4>1. worker'[v] = worker[v]
          BY <1>1, <3>2
        <4>2. QED
          BY <4>1, AnyWorker, Zenon
      <3>3. QED
        BY <3>1, <3>2
    <2>4. ASSUME NEW u \in Worker, NEW v \in Worker,
                 worker'[u].step \notin {"idle", "found"},
                 worker'[v].step \notin {"idle", "found"},
                 worker'[u].job = worker'[v].job
          PROVE  u = v
      <3>1. worker'[u] = worker[u] /\ worker'[v] = worker[v]
        BY <1>2, <2>4
      <3>2. QED
        BY <2>4, <3>1, OwnerFacts
    <2>5. QED
      BY <2>1, <2>2, <2>3, <2>4, Zenon DEF Imports!JobsAreOwned, Imports!Owns, Jobs
  <1>6. \A v \in Worker : worker'[v].step \in Imports!Importing
                             => Imports!LinesAccountedFor(worker[v])'
    <2>1. ASSUME NEW v \in Worker, worker'[v].step \in Imports!Importing
          PROVE  Whole(worker'[v], imported', losses')
      <3>1. worker'[v] = worker[v] /\ worker[v].step \in Imports!Importing
        BY <1>2, <2>1 DEF Imports!Importing
      <3>2. QED
        BY <3>1, OthersAreWhole
    <2>2. QED
      BY <2>1, SameWhole, Zenon
  <1>7. Imports!RowsFollowWorkers'
    <2>1. ASSUME NEW v \in Worker, worker'[v].step \notin {"idle", "found"}
          PROVE  /\ job[worker'[v].job].counts.imported
                       <= worker'[v].counts.imported + worker'[v].inserted
                 /\ worker'[v].step \in {"failing", "discarding"}
                       => worker'[v].inserted = 0
                 /\ worker'[v].step = "discarding" /\ losses' = 0
                       => job[worker'[v].job].counts.imported
                             = worker'[v].counts.imported
      <3>1. worker'[v] = worker[v]
        BY <1>2, <2>1
      <3>2. QED
        BY <1>3, <2>1, <3>1, OwnerFacts
    <2>2. QED
      BY <2>1, Zenon DEF Imports!RowsFollowWorkers, Imports!Owns
  <1>8. Imports!ImportsAccountedFor'
    <2>1. \A i \in Jobs : OwnersIn(worker', i) = OwnersIn(worker, i) \ {w}
      BY <1>1 DEF OwnersIn
    <2>2. ASSUME NEW i \in Jobs, w \notin OwnersIn(worker, i)
          PROVE  CreditIn(job', worker', i) = CreditIn(job, worker, i)
      <3>1. OwnersIn(worker', i) = OwnersIn(worker, i)
        BY <2>1, <2>2
      <3>2. \A v \in OwnersIn(worker, i) : worker'[v] = worker[v]
        BY <1>1, <2>2 DEF OwnersIn
      <3>3. QED
        BY <3>1, <3>2, CreditKept, Zenon
    <2>3. CASE worker[w].step \in {"idle", "found"}
      <3>1. \A i \in Jobs : w \notin OwnersIn(worker, i)
        BY <2>3 DEF OwnersIn
      <3>2. QED
        BY <2>2, <3>1, AccountStays
    <2>4. ASSUME worker[w].step \notin {"idle", "found"} PROVE Imports!ImportsAccountedFor'
      <3> DEFINE j == worker[w].job
                 c == job[j].counts.imported
                 x == worker[w].counts.imported + worker[w].inserted
                 d == x - c
      <3>1. /\ j \in Jobs /\ job[j] # NULL /\ job[j] \in Imports!JobRow /\ c <= x
            /\ worker[w] \in Imports!Local
        BY <2>4, OwnerFacts
      <3>2. c \in Nat /\ x \in Nat
        <4>1. c \in Nat
          BY <3>1 DEF Imports!JobRow, Imports!Counts
        <4>2. x \in Nat
          BY <3>1, LocalFields
        <4>3. QED
          BY <4>1, <4>2
      <3>3. OwnersIn(worker, j) = {w}
        BY <2>4, OwnerFacts DEF OwnersIn
      <3>4. CreditIn(job, worker, j) = x
        BY <3>1, <3>3, CreditOfOwned
      <3>5. CreditIn(job', worker', j) = c
        <4>1. OwnersIn(worker', j) = {}
          BY <2>1, <3>1, <3>3
        <4>2. QED
          BY <3>1, <4>1, Zenon DEF CreditIn
      <3>6. \A i \in Jobs \ {j} : CreditIn(job', worker', i) = CreditIn(job, worker, i)
        <4>1. \A i \in Jobs \ {j} : w \notin OwnersIn(worker, i)
          BY DEF OwnersIn
        <4>2. QED
          BY <2>2, <4>1
      <3>7. losses' = 0 => c = x
        BY <2>4
      <3> HIDE DEF j, c, x
      <3>8. d \in Nat /\ (losses' = 0 => d = 0) /\ x = c + d
        BY <3>1, <3>2, <3>7
      <3> HIDE DEF d
      <3>9. CreditIn(job, worker, j) = CreditIn(job', worker', j) + d
            /\ CreditIn(job', worker', j) \in Nat
        BY <3>2, <3>4, <3>5, <3>8
      <3>10. QED
        BY <3>1, <3>6, <3>8, <3>9, AccountDrops
    <2>5. QED
      BY <2>3, <2>4
  <1>9. Imports!OnlyBadRowsFail'
    BY CompletionsStay
  <1>10. QED
    BY <1>4, <1>5, <1>6, <1>7, <1>8, <1>9, Zenon DEF Imports!ImportInv

LEMMA IdleLocal ==
    /\ Imports!IdleWorker \in Imports!Local
    /\ \A j \in Jobs : [Imports!IdleWorker EXCEPT !.step = "found", !.job = j]
                           \in Imports!Local
    /\ Imports!NoCounts \in Imports!Counts
    /\ Imports!NoCounts.imported = 0
  <1>1. Imports!NoCounts \in Imports!Counts /\ Imports!NoCounts.imported = 0
    BY DEF Imports!NoCounts, Imports!Counts
  <1>2. <<>> \in Seq(Lines) /\ <<>> \in Seq(Seq(Lines))
    OBVIOUS
  <1> DEFINE S == Seq(Lines)
             SS == Seq(Seq(Lines))
             C == Imports!Counts
             N == Imports!NoCounts
             none == <<>>
             at(j, step) == [step |-> step, job |-> j, pos |-> 0, counts |-> N,
                             progressAt |-> 0, batch |-> none, work |-> none,
                             failed |-> none, committed |-> 0, inserted |-> 0]
             L == [step : {"idle", "found", "claimed", "reading", "flushing",
                           "inserting", "failing", "discarding"},
                   job : Jobs \cup {NULL}, pos : Nat, counts : C,
                   progressAt : Nat, batch : S, work : SS,
                   failed : S, committed : Nat, inserted : Nat]
  <1>3. Imports!Local = L
    BY Zenon DEF Imports!Local, Jobs
  <1>4. Imports!IdleWorker = at(NULL, "idle")
    BY Zenon DEF Imports!IdleWorker
  <1>5. none \in S /\ none \in SS /\ N \in C
    BY <1>1, <1>2
  <1>6. \A j \in Jobs : [at(NULL, "idle") EXCEPT !.step = "found", !.job = j] = at(j, "found")
    <2> TAKE j \in Jobs
    <2> DEFINE a == at(NULL, "idle")
               b == [a EXCEPT !.step = "found"]
    <2> HIDE DEF N, none
    <2>1. b = at(NULL, "found")
      OBVIOUS
    <2>2. [at(NULL, "found") EXCEPT !.job = j] = at(j, "found")
      OBVIOUS
    <2> HIDE DEF at
    <2>3. [a EXCEPT !.step = "found", !.job = j] = [b EXCEPT !.job = j]
      OBVIOUS
    <2>4. QED
      BY <2>1, <2>2, <2>3
  <1> HIDE DEF S, SS, C, N, none
  <1>7. at(NULL, "idle") \in L /\ \A j \in Jobs : at(j, "found") \in L
    BY <1>5
  <1> HIDE DEF at, L
  <1>8. QED
    BY <1>1, <1>3, <1>4, <1>6, <1>7, Zenon

LEMMA ImportSpool ==
    ASSUME Imports!ImportInv, NEW j \in Jobs, Imports!Spool(j) \/ Imports!EnqueueFails(j)
    PROVE  Imports!ImportInv'
  <1>1. /\ losses' \in {losses, losses + 1} /\ file' \subseteq Jobs
        /\ imported' = imported /\ job' = job /\ worker' = worker /\ jobs' = jobs
    BY ImportTypes DEF Imports!Spool, Imports!EnqueueFails, Imports!Loses
  <1>2. QED
    BY <1>1, ImportQuiet

LEMMA ImportFind ==
    ASSUME Imports!ImportInv, NEW w \in Worker, Imports!Find(w)
    PROVE  Imports!ImportInv'
  <1>1. PICK i \in Imports!Pending :
           worker' = [worker EXCEPT ![w].step = "found", ![w].job = jobs[i]]
    BY Zenon DEF Imports!Find
  <1>2. /\ worker[w] = Imports!IdleWorker
        /\ UNCHANGED <<file, job, jobs, imported, losses>>
    BY Zenon DEF Imports!Find
  <1>3. jobs[i] \in Jobs /\ job[jobs[i]] # NULL
    BY CreatedJobs DEF Imports!Pending
  <1> DEFINE m == [Imports!IdleWorker EXCEPT !.step = "found", !.job = jobs[i]]
  <1>4. worker' = [worker EXCEPT ![w] = m]
    BY <1>1, <1>2, ImportTypes
  <1>5. m.step = "found" /\ m.job = jobs[i] /\ worker[w].step = "idle"
    BY <1>2 DEF Imports!IdleWorker
  <1>6. m \in Imports!Local
    BY <1>3, IdleLocal
  <1> HIDE DEF m
  <1>7. m = [Imports!IdleWorker EXCEPT !.step = "found", !.job = m.job]
    BY <1>5 DEF m
  <1>8. file \subseteq Jobs /\ losses' \in {losses, losses + 1} /\ job' = job
        /\ jobs' = jobs /\ file' = file /\ imported' = imported
    BY <1>2, ImportTypes
  <1>9. QED
    BY <1>3, <1>4, <1>5, <1>6, <1>7, <1>8, WorkerRests

\* A worker goes idle: its job was taken, or is done with, or the worker dies.
LEMMA WorkerIdles ==
    ASSUME Imports!ImportInv, NEW w \in Worker,
           worker' = [worker EXCEPT ![w] = Imports!IdleWorker],
           job' = job, jobs' = jobs, file' \subseteq Jobs, imported' = imported,
           losses' \in {losses, losses + 1},
           worker[w].step \in {"idle", "found", "discarding"} \/ losses' = losses + 1
    PROVE  Imports!ImportInv'
  <1>1. Imports!IdleWorker.step = "idle"
    BY DEF Imports!IdleWorker
  <1>2. worker[w].step \notin {"idle", "found"} /\ losses' = 0
            => job[worker[w].job].counts.imported
                   = worker[w].counts.imported + worker[w].inserted
    <2>1. SUFFICES ASSUME worker[w].step \notin {"idle", "found"}, losses' = 0
                   PROVE  job[worker[w].job].counts.imported
                              = worker[w].counts.imported + worker[w].inserted
      OBVIOUS
    <2>2. losses \in Nat
      BY ImportTypes
    <2>3. losses = 0 /\ worker[w].step = "discarding"
      BY <2>1, <2>2
    <2>4. /\ worker[w].inserted = 0 /\ worker[w].counts.imported \in Nat
          /\ job[worker[w].job].counts.imported = worker[w].counts.imported
      BY <2>1, <2>3, OwnerFacts, LocalFields
    <2>5. QED
      BY <2>4
  <1>3. Imports!IdleWorker \in Imports!Local
    BY IdleLocal
  <1>4. QED
    BY <1>1, <1>2, <1>3, WorkerRests

LEMMA ImportDiscard ==
    ASSUME Imports!ImportInv, NEW w \in Worker, Imports!Discard(w) \/ Imports!Crash(w)
    PROVE  Imports!ImportInv'
  <1>1. /\ worker' = [worker EXCEPT ![w] = Imports!IdleWorker]
        /\ job' = job /\ jobs' = jobs /\ file' \subseteq Jobs /\ imported' = imported
        /\ losses' \in {losses, losses + 1}
        /\ worker[w].step \in {"idle", "found", "discarding"} \/ losses' = losses + 1
    BY ImportTypes DEF Imports!Discard, Imports!Crash, Imports!Loses
  <1>2. QED
    BY <1>1, WorkerIdles

LEMMA ImportEnqueue ==
    ASSUME Imports!ImportInv, NEW j \in Jobs, Imports!Enqueue(j)
    PROVE  Imports!ImportInv'
  <1> DEFINE r == [status |-> "PENDING", counts |-> Imports!NoCounts]
  <1>1. /\ job[j] = NULL /\ job' = [job EXCEPT ![j] = r] /\ jobs' = Append(jobs, j)
        /\ UNCHANGED <<file, imported, worker, losses>>
    BY Zenon DEF Imports!Enqueue
  <1>2. r \in Imports!JobRow /\ r.status = "PENDING" /\ r.counts = Imports!NoCounts
    BY IdleLocal DEF Imports!JobRow
  <1> HIDE DEF r
  <1>3. r # NULL
    BY <1>2, ImportParameters
  <1>4. job'[j] = r /\ \A i \in Jobs \ {j} : job'[i] = job[i]
    BY <1>1, ImportTypes
  <1>5. \A v \in Worker : worker[v].step # "idle"
           => worker[v].job \in Jobs \ {j} /\ job'[worker[v].job] = job[worker[v].job]
    BY <1>1, <1>4, AnyWorker
  <1>6. losses' \in {losses, losses + 1} /\ imported' = imported /\ worker' = worker
    BY <1>1
  <1>7. Imports!TypeOK'
    <2>1. job' \in [Jobs -> Imports!JobRow \cup {NULL}] /\ jobs' \in Seq(Jobs)
      BY <1>1, <1>2, ImportTypes
    <2>2. QED
      BY <1>1, <2>1, Zenon DEF Imports!ImportInv, Imports!TypeOK, Jobs
  <1>8. Imports!JobsAreOwned'
    <2>1. \A i \in DOMAIN jobs' : job'[jobs'[i]] # NULL
      <3>1. jobs \in Seq(Jobs)
        BY ImportTypes
      <3>2. \A i \in DOMAIN jobs' : jobs'[i] = j \/ \E k \in DOMAIN jobs : jobs'[i] = jobs[k]
        <4>1. \A i \in DOMAIN Append(jobs, j) :
                 Append(jobs, j)[i] = j \/ \E k \in DOMAIN jobs : Append(jobs, j)[i] = jobs[k]
          <5>1. /\ DOMAIN Append(jobs, j) = 1..Len(jobs) + 1 /\ DOMAIN jobs = 1..Len(jobs)
                /\ \A i \in 1..Len(jobs) : Append(jobs, j)[i] = jobs[i]
                /\ Append(jobs, j)[Len(jobs) + 1] = j /\ Len(jobs) \in Nat
            BY <3>1
          <5>2. QED
            BY <5>1
        <4>2. QED
          BY <1>1, <4>1
      <3>3. \A i \in Jobs : job[i] # NULL => job'[i] # NULL
        BY <1>3, <1>4
      <3>4. QED
        BY <1>3, <1>4, <3>2, <3>3, CreatedJobs, Zenon
    <2>2. \A i \in Jobs : job'[i] # NULL /\ job'[i].status = "PENDING"
                          => job'[i].counts = Imports!NoCounts
      <3>1. \A i \in Jobs : job[i] # NULL /\ job[i].status = "PENDING"
                            => job[i].counts = Imports!NoCounts
        BY Zenon DEF Imports!ImportInv, Imports!JobsAreOwned, Jobs
      <3>2. QED
        BY <1>2, <1>4, <3>1
    <2>3. ASSUME NEW v \in Worker
          PROVE  /\ worker[v].step = "idle" => worker[v] = Imports!IdleWorker
                 /\ worker[v].step = "found"
                       => worker[v] = [Imports!IdleWorker EXCEPT
                                           !.step = "found", !.job = worker[v].job]
                 /\ worker[v].step # "idle"
                       => worker[v].job \in Jobs /\ job'[worker[v].job] # NULL
                 /\ worker[v].step \notin {"idle", "found"}
                       => job'[worker[v].job].status # "PENDING"
                 /\ worker[v].step \in Imports!Importing \cup {"failing"}
                       => job'[worker[v].job].status = "PROCESSING"
      <3>1. worker[v].step \in Imports!Importing \cup {"failing"} => worker[v].step # "idle"
        BY DEF Imports!Importing
      <3>2. QED
        BY <1>5, <3>1, AnyWorker
    <2>4. ASSUME NEW u \in Worker, NEW v \in Worker,
                 worker[u].step \notin {"idle", "found"},
                 worker[v].step \notin {"idle", "found"},
                 worker[u].job = worker[v].job
          PROVE  u = v
      BY <2>4, OwnerFacts
    <2>5. QED
      BY <1>6, <2>1, <2>2, <2>3, <2>4, Zenon DEF Imports!JobsAreOwned, Imports!Owns, Jobs
  <1>9. \A v \in Worker : worker'[v].step \in Imports!Importing
                             => Imports!LinesAccountedFor(worker[v])'
    <2>1. ASSUME NEW v \in Worker, worker'[v].step \in Imports!Importing
          PROVE  Whole(worker'[v], imported', losses')
      BY <1>6, <2>1, OthersAreWhole
    <2>2. QED
      BY <2>1, SameWhole, Zenon
  <1>10. Imports!RowsFollowWorkers'
    <2>1. ASSUME NEW v \in Worker, worker[v].step \notin {"idle", "found"}
          PROVE  /\ job'[worker[v].job].counts.imported
                       <= worker[v].counts.imported + worker[v].inserted
                 /\ worker[v].step \in {"failing", "discarding"}
                       => worker[v].inserted = 0
                 /\ worker[v].step = "discarding" /\ losses' = 0
                       => job'[worker[v].job].counts.imported
                             = worker[v].counts.imported
      <3>1. job'[worker[v].job] = job[worker[v].job] /\ losses' = losses
        BY <1>1, <1>5, <2>1
      <3>2. QED
        BY <2>1, <3>1, OwnerFacts
    <2>2. QED
      BY <1>6, <2>1, Zenon DEF Imports!RowsFollowWorkers, Imports!Owns
  <1>11. Imports!ImportsAccountedFor'
    <2>1. ASSUME NEW i \in Jobs PROVE CreditIn(job', worker', i) = CreditIn(job, worker, i)
      <3>1. CASE i = j
        <4>1. OwnersIn(worker, j) = {}
          BY <1>5 DEF OwnersIn
        <4>2. CreditIn(job, worker, j) = 0
          BY <1>1, Zenon DEF CreditIn
        <4>3. CreditIn(job', worker', j) = job'[j].counts.imported
          BY <1>3, <1>4, <1>6, <4>1 DEF CreditIn
        <4>4. job'[j].counts.imported = 0
          BY <1>2, <1>4, IdleLocal
        <4>5. QED
          BY <3>1, <4>2, <4>3, <4>4
      <3>2. CASE i # j
        <4>1. job'[i] = job[i]
          BY <1>4, <3>2
        <4>2. QED
          BY <1>6, <4>1, CreditKept
      <3>3. QED
        BY <3>1, <3>2
    <2>2. QED
      BY <1>6, <2>1, AccountStays
  <1>12. Imports!OnlyBadRowsFail'
    <2>1. ASSUME NEW i \in Jobs, job'[i] # NULL, job'[i].status = "COMPLETED"
          PROVE  CompletedWell(job'[i], FileOf[i], imported', losses')
      <3>1. i # j /\ job'[i] = job[i]
        BY <1>2, <1>4, <2>1
      <3>2. QED
        BY <1>6, <2>1, <3>1, OthersAreComplete
    <2>2. QED
      BY <2>1, SameCompletions, Zenon
  <1>13. QED
    BY <1>7, <1>8, <1>9, <1>10, <1>11, <1>12, Zenon DEF Imports!ImportInv

LEMMA CreditThen ==
    ASSUME NEW j, job'[j] # NULL, NEW w \in Worker, OwnersIn(worker', j) = {w}
    PROVE  CreditIn(job', worker', j) = worker'[w].counts.imported + worker'[w].inserted
  BY CreditOfOwned

\* The claim of a waiting job gives it the worker it did not have.
LEMMA ClaimTaken ==
    ASSUME Imports!ImportInv, NEW w \in Worker, NEW j, j = worker[w].job,
           worker[w].step = "found", job[j].status = "PENDING",
           job' = [job EXCEPT ![j].status = "PROCESSING"],
           worker' = [worker EXCEPT ![w].step = "claimed"],
           UNCHANGED <<file, jobs, imported, losses>>
    PROVE  Imports!ImportInv'
  <1> DEFINE r == [job[j] EXCEPT !.status = "PROCESSING"]
             m == [worker[w] EXCEPT !.step = "claimed"]
  <1>1. /\ j \in Jobs /\ job[j] # NULL /\ job[j] \in Imports!JobRow
        /\ job[j].counts = Imports!NoCounts
    <2>1. j \in Jobs /\ job[j] # NULL
      BY AnyWorker
    <2>2. job[j].counts = Imports!NoCounts
      BY <2>1, Zenon DEF Imports!ImportInv, Imports!JobsAreOwned, Jobs
    <2>3. job[j] \in Imports!JobRow
      BY <2>1, ImportTypes
    <2>4. QED
      BY <2>1, <2>2, <2>3
  <1>2. r \in Imports!JobRow /\ r.status = "PROCESSING" /\ r.counts = Imports!NoCounts
    <2> DEFINE C == Imports!Counts
    <2>1. job[j] \in [status : {"PENDING", "PROCESSING", "COMPLETED", "FAILED"}, counts : C]
      BY <1>1 DEF Imports!JobRow
    <2> HIDE DEF C
    <2>2. /\ r \in [status : {"PENDING", "PROCESSING", "COMPLETED", "FAILED"}, counts : C]
          /\ r.status = "PROCESSING" /\ r.counts = job[j].counts
      BY <2>1
    <2>3. QED
      BY <1>1, <2>2 DEF C, Imports!JobRow
  <1>3. /\ m \in Imports!Local /\ m.step = "claimed" /\ m.job = j /\ m.pos = 0
        /\ m.counts = Imports!NoCounts /\ m.batch = <<>> /\ m.work = <<>>
        /\ m.failed = <<>> /\ m.committed = 0 /\ m.inserted = 0
    <2>1. worker[w] = [Imports!IdleWorker EXCEPT !.step = "found", !.job = j]
          /\ worker[w] \in Imports!Local
      BY AnyWorker, ImportTypes
    <2>2. m \in Imports!Local /\ m.step = "claimed"
      BY <2>1 DEF Imports!Local
    <2>3. QED
      BY <2>1, <2>2 DEF Imports!IdleWorker
  <1> HIDE DEF r, m
  <1>4. r # NULL
    BY <1>2, ImportParameters
  <1>5. /\ worker'[w] = m /\ \A v \in Worker \ {w} : worker'[v] = worker[v]
        /\ job'[j] = r /\ \A i \in Jobs \ {j} : job'[i] = job[i]
    BY <1>1, ImportTypes DEF r, m
  <1>6. \A v \in Worker : worker[v].step \notin {"idle", "found"}
           => v # w /\ worker[v].job # j
    BY OwnerFacts
  <1>7. losses' \in {losses, losses + 1} /\ imported' = imported /\ jobs' = jobs
        /\ file' = file /\ losses' = losses /\ losses \in Nat
    BY ImportTypes
  <1>8. Imports!TypeOK'
    <2>1. job' \in [Jobs -> Imports!JobRow \cup {NULL}]
      BY <1>1, <1>2, ImportTypes DEF r
    <2>2. worker' \in [Worker -> Imports!Local]
      BY <1>3, ImportTypes DEF m
    <2>3. QED
      BY <1>7, <2>1, <2>2, Zenon DEF Imports!ImportInv, Imports!TypeOK, Jobs
  <1>9. Imports!JobsAreOwned'
    <2>1. \A i \in DOMAIN jobs : job'[jobs[i]] # NULL
      BY <1>4, <1>5, CreatedJobs
    <2>2. \A i \in Jobs : job'[i] # NULL /\ job'[i].status = "PENDING"
                          => job'[i].counts = Imports!NoCounts
      <3>1. \A i \in Jobs : job[i] # NULL /\ job[i].status = "PENDING"
                            => job[i].counts = Imports!NoCounts
        BY Zenon DEF Imports!ImportInv, Imports!JobsAreOwned, Jobs
      <3>2. QED
        BY <1>2, <1>5, <3>1
    <2>3. ASSUME NEW v \in Worker
          PROVE  /\ worker'[v].step = "idle" => worker'[v] = Imports!IdleWorker
                 /\ worker'[v].step = "found"
                       => worker'[v] = [Imports!IdleWorker EXCEPT
                                           !.step = "found", !.job = worker'[v].job]
                 /\ worker'[v].step # "idle"
                       => worker'[v].job \in Jobs /\ job'[worker'[v].job] # NULL
                 /\ worker'[v].step \notin {"idle", "found"}
                       => job'[worker'[v].job].status # "PENDING"
                 /\ worker'[v].step \in Imports!Importing \cup {"failing"}
                       => job'[worker'[v].job].status = "PROCESSING"
      <3>1. CASE v = w
        BY <1>1, <1>2, <1>3, <1>4, <1>5, <3>1
      <3>2. CASE v # w
        <4>1. worker'[v] = worker[v]
          BY <1>5, <3>2
        <4>2. worker[v].step # "idle" => job'[worker[v].job] # NULL
          BY <1>4, <1>5, AnyWorker
        <4>3. worker[v].step \notin {"idle", "found"}
                 => job'[worker[v].job] = job[worker[v].job]
          BY <1>5, <1>6, AnyWorker
        <4>4. worker[v].step \in Imports!Importing \cup {"failing"}
                 => worker[v].step \notin {"idle", "found"}
          BY DEF Imports!Importing
        <4>5. /\ worker[v].step = "idle" => worker[v] = Imports!IdleWorker
              /\ worker[v].step = "found"
                    => worker[v] = [Imports!IdleWorker EXCEPT
                                       !.step = "found", !.job = worker[v].job]
              /\ worker[v].step # "idle" => worker[v].job \in Jobs
          BY AnyWorker, Zenon
        <4>6. /\ worker[v].step \notin {"idle", "found"}
                    => job'[worker[v].job].status # "PENDING"
              /\ worker[v].step \in Imports!Importing \cup {"failing"}
                    => job'[worker[v].job].status = "PROCESSING"
          BY <4>3, <4>4, AnyWorker
        <4>7. QED
          BY <4>1, <4>2, <4>5, <4>6, Zenon
      <3>3. QED
        BY <3>1, <3>2
    <2>4. ASSUME NEW u \in Worker, NEW v \in Worker,
                 worker'[u].step \notin {"idle", "found"},
                 worker'[v].step \notin {"idle", "found"},
                 worker'[u].job = worker'[v].job
          PROVE  u = v
      <3>1. ASSUME NEW x \in Worker, x # w, worker'[x].step \notin {"idle", "found"}
            PROVE  worker'[x] = worker[x] /\ worker[x].job # j
        BY <1>5, <1>6, <3>1
      <3>2. CASE u = w \/ v = w
        BY <1>3, <1>5, <2>4, <3>1, <3>2
      <3>3. CASE u # w /\ v # w
        BY <2>4, <3>1, <3>3, OwnerFacts
      <3>4. QED
        BY <3>2, <3>3
    <2>5. QED
      BY <1>7, <2>1, <2>2, <2>3, <2>4, Zenon DEF Imports!JobsAreOwned, Imports!Owns, Jobs
  <1>10. \A v \in Worker : worker'[v].step \in Imports!Importing
                             => Imports!LinesAccountedFor(worker[v])'
    <2>1. ASSUME NEW v \in Worker, worker'[v].step \in Imports!Importing
          PROVE  Whole(worker'[v], imported', losses')
      <3>1. CASE v = w
        BY <1>1, <1>3, <1>5, <1>7, <3>1, WholeBegins
      <3>2. CASE v # w
        BY <1>5, <1>7, <2>1, <3>2, OthersAreWhole
      <3>3. QED
        BY <3>1, <3>2
    <2>2. QED
      BY <2>1, SameWhole, Zenon
  <1>11. Imports!RowsFollowWorkers'
    <2>1. ASSUME NEW v \in Worker, worker'[v].step \notin {"idle", "found"}
          PROVE  /\ job'[worker'[v].job].counts.imported
                       <= worker'[v].counts.imported + worker'[v].inserted
                 /\ worker'[v].step \in {"failing", "discarding"}
                       => worker'[v].inserted = 0
                 /\ worker'[v].step = "discarding" /\ losses' = 0
                       => job'[worker'[v].job].counts.imported
                             = worker'[v].counts.imported
      <3>1. CASE v = w
        <4>1. worker'[v] = m /\ job'[m.job] = r
          BY <1>3, <1>5, <3>1
        <4>2. m.counts.imported = 0 /\ m.inserted = 0 /\ r.counts.imported = 0
          BY <1>2, <1>3, IdleLocal
        <4>3. m.step = "claimed" /\ 0 <= 0 + 0
          BY <1>3
        <4>4. QED
          BY <4>1, <4>2, <4>3
      <3>2. CASE v # w
        <4>1. worker'[v] = worker[v] /\ worker[v].job \in Jobs \ {j}
          BY <1>5, <1>6, <2>1, <3>2, AnyWorker
        <4>2. job'[worker[v].job] = job[worker[v].job]
          BY <1>5, <4>1
        <4>3. QED
          BY <1>7, <2>1, <4>1, <4>2, OwnerFacts
      <3>3. QED
        BY <3>1, <3>2
    <2>2. QED
      BY <2>1, Zenon DEF Imports!RowsFollowWorkers, Imports!Owns
  <1>12. Imports!ImportsAccountedFor'
    <2>1. ASSUME NEW i \in Jobs PROVE CreditIn(job', worker', i) = CreditIn(job, worker, i)
      <3>1. CASE i = j
        <4>1. OwnersIn(worker, j) = {} /\ OwnersIn(worker', j) = {w}
          BY <1>3, <1>5, <1>6 DEF OwnersIn
        <4>2. CreditIn(job, worker, j) = 0
          <5>1. CreditIn(job, worker, j) = job[j].counts.imported
            BY <1>1, <4>1, Zenon DEF CreditIn
          <5>2. QED
            BY <1>1, <5>1, IdleLocal
        <4>3. CreditIn(job', worker', j) = worker'[w].counts.imported + worker'[w].inserted
          <5>1. job'[j] # NULL
            BY <1>4, <1>5
          <5>2. QED
            BY <4>1, <5>1, CreditThen, Zenon
        <4>4. worker'[w].counts.imported = 0 /\ worker'[w].inserted = 0
          BY <1>3, <1>5, IdleLocal
        <4>5. QED
          BY <3>1, <4>2, <4>3, <4>4
      <3>2. CASE i # j
        <4>1. job'[i] = job[i]
          BY <1>5, <3>2
        <4>2. OwnersIn(worker', i) = OwnersIn(worker, i)
          <5>1. ASSUME NEW v \in Worker
                PROVE  v \in OwnersIn(worker', i) <=> v \in OwnersIn(worker, i)
            <6>1. CASE v = w
              BY <1>3, <1>5, <3>2, <6>1 DEF OwnersIn
            <6>2. CASE v # w
              BY <1>5, <6>2 DEF OwnersIn
            <6>3. QED
              BY <6>1, <6>2
          <5>2. OwnersIn(worker', i) \subseteq Worker /\ OwnersIn(worker, i) \subseteq Worker
            BY DEF OwnersIn
          <5>3. QED
            BY <5>1, <5>2
        <4>3. \A v \in OwnersIn(worker, i) : worker'[v] = worker[v]
          BY <1>5, <1>6 DEF OwnersIn
        <4>4. QED
          BY <4>1, <4>2, <4>3, CreditKept, Zenon
      <3>3. QED
        BY <3>1, <3>2
    <2>2. QED
      BY <1>7, <2>1, AccountStays
  <1>13. Imports!OnlyBadRowsFail'
    <2>1. ASSUME NEW i \in Jobs, job'[i] # NULL, job'[i].status = "COMPLETED"
          PROVE  CompletedWell(job'[i], FileOf[i], imported', losses')
      <3>1. i # j /\ job'[i] = job[i]
        BY <1>2, <1>5, <2>1
      <3>2. QED
        BY <1>7, <2>1, <3>1, OthersAreComplete
    <2>2. QED
      BY <2>1, SameCompletions, Zenon
  <1>14. QED
    BY <1>8, <1>9, <1>10, <1>11, <1>12, <1>13, Zenon DEF Imports!ImportInv

LEMMA ImportClaim ==
    ASSUME Imports!ImportInv, NEW w \in Worker, Imports!Claim(w)
    PROVE  Imports!ImportInv'
  <1>1. CASE job[worker[w].job].status = "PENDING"
    <2>1. /\ worker[w].step = "found"
          /\ job' = [job EXCEPT ![worker[w].job].status = "PROCESSING"]
          /\ worker' = [worker EXCEPT ![w].step = "claimed"]
          /\ UNCHANGED <<file, jobs, imported, losses>>
      BY <1>1, Zenon DEF Imports!Claim
    <2>2. QED
      BY <1>1, <2>1, ClaimTaken
  <1>2. CASE job[worker[w].job].status # "PENDING"
    <2>1. /\ worker[w].step = "found" /\ job' = job
          /\ worker' = [worker EXCEPT ![w] = Imports!IdleWorker]
          /\ UNCHANGED <<file, jobs, imported, losses>>
      BY <1>2, Zenon DEF Imports!Claim
    <2>2. file' \subseteq Jobs
      BY <2>1, ImportTypes
    <2>3. QED
      BY <2>1, <2>2, WorkerIdles
  <1>3. QED
    BY <1>1, <1>2

-----------------------------------------------------------------------------
\* The locals of a worker after each of its steps.
Going(l, s) ==
    [l EXCEPT !.step = s]
Reading(l, p, c, b, s, a) ==
    [l EXCEPT !.pos = p, !.counts = c, !.batch = b, !.step = s,
              !.progressAt = a]
Inserting(l, k, c, n) ==
    [l EXCEPT !.work = k, !.committed = c, !.inserted = n]
Halving(l, k) ==
    [l EXCEPT !.work = k]
SettingAside(l, k, f) ==
    [l EXCEPT !.work = k, !.failed = f]
Counting(l, s, c, e) ==
    [l EXCEPT !.step = s, !.counts = c, !.failed = e,
              !.committed = 0, !.inserted = 0]
Flushing(l, b, f, k, e) ==
    [l EXCEPT !.step = "inserting", !.batch = b, !.counts.failed = f, !.work = k,
              !.failed = e, !.committed = 0, !.inserted = 0]

\* What they are then.
Gone(m, l, s) ==
    /\ m \in Imports!Local
    /\ m.step = s /\ m.job = l.job /\ m.pos = l.pos
    /\ m.counts = l.counts /\ m.batch = l.batch /\ m.work = l.work
    /\ m.failed = l.failed /\ m.committed = l.committed
    /\ m.inserted = l.inserted
HasRead(m, l, p, c, b, s, a) ==
    /\ m \in Imports!Local
    /\ m.pos = p /\ m.counts = c /\ m.batch = b /\ m.step = s
    /\ m.job = l.job /\ m.work = l.work /\ m.failed = l.failed
    /\ m.committed = l.committed /\ m.inserted = l.inserted
HasInserted(m, l, k, c, n) ==
    /\ m \in Imports!Local
    /\ m.work = k /\ m.committed = c /\ m.inserted = n /\ m.step = l.step
    /\ m.job = l.job /\ m.pos = l.pos /\ m.counts = l.counts
    /\ m.batch = l.batch /\ m.failed = l.failed
HasHalved(m, l, k) ==
    /\ m \in Imports!Local
    /\ m.work = k /\ m.step = l.step /\ m.job = l.job /\ m.pos = l.pos
    /\ m.counts = l.counts /\ m.batch = l.batch /\ m.failed = l.failed
    /\ m.committed = l.committed /\ m.inserted = l.inserted
HasSetAside(m, l, k, f) ==
    /\ m \in Imports!Local
    /\ m.work = k /\ m.failed = f /\ m.step = l.step /\ m.job = l.job
    /\ m.pos = l.pos /\ m.counts = l.counts /\ m.batch = l.batch
    /\ m.committed = l.committed /\ m.inserted = l.inserted
HasCounted(m, l, s, c, e) ==
    /\ m \in Imports!Local
    /\ m.step = s /\ m.counts = c /\ m.failed = e /\ m.committed = 0
    /\ m.inserted = 0 /\ m.job = l.job /\ m.pos = l.pos
    /\ m.batch = l.batch /\ m.work = l.work
HasFlushed(m, l, b, f, k, e) ==
    /\ m \in Imports!Local
    /\ m.step = "inserting" /\ m.batch = b
    /\ m.counts = [l.counts EXCEPT !.failed = f] /\ m.work = k
    /\ m.failed = e /\ m.committed = 0 /\ m.inserted = 0 /\ m.job = l.job
    /\ m.pos = l.pos

LEMMA LocalGoes ==
    ASSUME NEW l \in Imports!Local, NEW s \in {"idle", "found", "claimed", "reading", "flushing",
                       "inserting", "failing", "discarding"}
    PROVE  Gone(Going(l, s), l, s)
  <1> DEFINE m == Going(l, s)
             S == Seq(Lines)
             SS == Seq(Seq(Lines))
             C == Imports!Counts
             J == Jobs \cup {NULL}
             L == [step : {"idle", "found", "claimed", "reading", "flushing",
                           "inserting", "failing", "discarding"},
                   job : J, pos : Nat, counts : C,
                   progressAt : Nat, batch : S, work : SS,
                   failed : S, committed : Nat, inserted : Nat]
  <1>1. Imports!Local = L
    BY Zenon DEF Imports!Local, Jobs
  <1>2. l \in L
    BY <1>1
  <1> HIDE DEF S, SS, C, J
  <1>3. m \in L
    BY <1>2 DEF Going
  <1>4. m.step = s /\ m.job = l.job /\ m.pos = l.pos
        /\ m.counts = l.counts /\ m.batch = l.batch /\ m.work = l.work
        /\ m.failed = l.failed /\ m.committed = l.committed
        /\ m.inserted = l.inserted
    BY <1>2 DEF Going
  <1>5. QED
    BY <1>1, <1>3, <1>4 DEF Gone

LEMMA LocalReads ==
    ASSUME NEW l \in Imports!Local, NEW p, p \in Nat, NEW c, c \in Imports!Counts,
           NEW b, b \in Seq(Lines), NEW s, s \in {"reading", "flushing"},
           NEW a, a \in Nat
    PROVE  HasRead(Reading(l, p, c, b, s, a), l, p, c, b, s, a)
  <1> DEFINE m == Reading(l, p, c, b, s, a)
             S == Seq(Lines)
             SS == Seq(Seq(Lines))
             C == Imports!Counts
             J == Jobs \cup {NULL}
             L == [step : {"idle", "found", "claimed", "reading", "flushing",
                           "inserting", "failing", "discarding"},
                   job : J, pos : Nat, counts : C,
                   progressAt : Nat, batch : S, work : SS,
                   failed : S, committed : Nat, inserted : Nat]
  <1>1. Imports!Local = L
    BY Zenon DEF Imports!Local, Jobs
  <1>2. l \in L /\ c \in C /\ b \in S
    BY <1>1
  <1> HIDE DEF S, SS, C, J
  <1>3. m \in L
    BY <1>2 DEF Reading
  <1>4. m.pos = p /\ m.counts = c /\ m.batch = b /\ m.step = s
        /\ m.job = l.job /\ m.work = l.work /\ m.failed = l.failed
        /\ m.committed = l.committed /\ m.inserted = l.inserted
    BY <1>2 DEF Reading
  <1>5. QED
    BY <1>1, <1>3, <1>4 DEF HasRead

LEMMA LocalInserts ==
    ASSUME NEW l \in Imports!Local, NEW k \in Seq(Seq(Lines)), NEW c \in Nat, NEW n \in Nat
    PROVE  HasInserted(Inserting(l, k, c, n), l, k, c, n)
  <1> DEFINE m == Inserting(l, k, c, n)
             S == Seq(Lines)
             SS == Seq(Seq(Lines))
             C == Imports!Counts
             J == Jobs \cup {NULL}
             L == [step : {"idle", "found", "claimed", "reading", "flushing",
                           "inserting", "failing", "discarding"},
                   job : J, pos : Nat, counts : C,
                   progressAt : Nat, batch : S, work : SS,
                   failed : S, committed : Nat, inserted : Nat]
  <1>1. Imports!Local = L
    BY Zenon DEF Imports!Local, Jobs
  <1>2. l \in L /\ k \in SS
    BY <1>1
  <1> HIDE DEF S, SS, C, J
  <1>3. m \in L
    BY <1>2 DEF Inserting
  <1>4. m.work = k /\ m.committed = c /\ m.inserted = n /\ m.step = l.step
        /\ m.job = l.job /\ m.pos = l.pos /\ m.counts = l.counts
        /\ m.batch = l.batch /\ m.failed = l.failed
    BY <1>2 DEF Inserting
  <1>5. QED
    BY <1>1, <1>3, <1>4 DEF HasInserted

LEMMA LocalHalves ==
    ASSUME NEW l \in Imports!Local, NEW k \in Seq(Seq(Lines))
    PROVE  HasHalved(Halving(l, k), l, k)
  <1> DEFINE m == Halving(l, k)
             S == Seq(Lines)
             SS == Seq(Seq(Lines))
             C == Imports!Counts
             J == Jobs \cup {NULL}
             L == [step : {"idle", "found", "claimed", "reading", "flushing",
                           "inserting", "failing", "discarding"},
                   job : J, pos : Nat, counts : C,
                   progressAt : Nat, batch : S, work : SS,
                   failed : S, committed : Nat, inserted : Nat]
  <1>1. Imports!Local = L
    BY Zenon DEF Imports!Local, Jobs
  <1>2. l \in L /\ k \in SS
    BY <1>1
  <1> HIDE DEF S, SS, C, J
  <1>3. m \in L
    BY <1>2 DEF Halving
  <1>4. m.work = k /\ m.step = l.step /\ m.job = l.job /\ m.pos = l.pos
        /\ m.counts = l.counts /\ m.batch = l.batch /\ m.failed = l.failed
        /\ m.committed = l.committed /\ m.inserted = l.inserted
    BY <1>2 DEF Halving
  <1>5. QED
    BY <1>1, <1>3, <1>4 DEF HasHalved

LEMMA LocalSetsAside ==
    ASSUME NEW l \in Imports!Local, NEW k \in Seq(Seq(Lines)), NEW f \in Seq(Lines)
    PROVE  HasSetAside(SettingAside(l, k, f), l, k, f)
  <1> DEFINE m == SettingAside(l, k, f)
             S == Seq(Lines)
             SS == Seq(Seq(Lines))
             C == Imports!Counts
             J == Jobs \cup {NULL}
             L == [step : {"idle", "found", "claimed", "reading", "flushing",
                           "inserting", "failing", "discarding"},
                   job : J, pos : Nat, counts : C,
                   progressAt : Nat, batch : S, work : SS,
                   failed : S, committed : Nat, inserted : Nat]
  <1>1. Imports!Local = L
    BY Zenon DEF Imports!Local, Jobs
  <1>2. l \in L /\ k \in SS /\ f \in S
    BY <1>1
  <1> HIDE DEF S, SS, C, J
  <1>3. m \in L
    BY <1>2 DEF SettingAside
  <1>4. m.work = k /\ m.failed = f /\ m.step = l.step /\ m.job = l.job
        /\ m.pos = l.pos /\ m.counts = l.counts /\ m.batch = l.batch
        /\ m.committed = l.committed /\ m.inserted = l.inserted
    BY <1>2 DEF SettingAside
  <1>5. QED
    BY <1>1, <1>3, <1>4 DEF HasSetAside

LEMMA LocalCounts ==
    ASSUME NEW l \in Imports!Local, NEW s \in {"reading", "failing"}, NEW c \in Imports!Counts,
           NEW e \in Seq(Lines)
    PROVE  HasCounted(Counting(l, s, c, e), l, s, c, e)
  <1> DEFINE m == Counting(l, s, c, e)
             S == Seq(Lines)
             SS == Seq(Seq(Lines))
             C == Imports!Counts
             J == Jobs \cup {NULL}
             L == [step : {"idle", "found", "claimed", "reading", "flushing",
                           "inserting", "failing", "discarding"},
                   job : J, pos : Nat, counts : C,
                   progressAt : Nat, batch : S, work : SS,
                   failed : S, committed : Nat, inserted : Nat]
  <1>1. Imports!Local = L
    BY Zenon DEF Imports!Local, Jobs
  <1>2. l \in L /\ c \in C /\ e \in S
    BY <1>1
  <1> HIDE DEF S, SS, C, J
  <1>3. m \in L
    BY <1>2 DEF Counting
  <1>4. m.step = s /\ m.counts = c /\ m.failed = e /\ m.committed = 0
        /\ m.inserted = 0 /\ m.job = l.job /\ m.pos = l.pos
        /\ m.batch = l.batch /\ m.work = l.work
    BY <1>2 DEF Counting
  <1>5. QED
    BY <1>1, <1>3, <1>4 DEF HasCounted

LEMMA LocalFlushes ==
    ASSUME NEW l \in Imports!Local, NEW b \in Seq(Lines), NEW f \in Nat,
           NEW k \in Seq(Seq(Lines)), NEW e \in Seq(Lines)
    PROVE  HasFlushed(Flushing(l, b, f, k, e), l, b, f, k, e)
  <1> DEFINE m == Flushing(l, b, f, k, e)
             S == Seq(Lines)
             SS == Seq(Seq(Lines))
             C == Imports!Counts
             J == Jobs \cup {NULL}
             L == [step : {"idle", "found", "claimed", "reading", "flushing",
                           "inserting", "failing", "discarding"},
                   job : J, pos : Nat, counts : C,
                   progressAt : Nat, batch : S, work : SS,
                   failed : S, committed : Nat, inserted : Nat]
  <1>1. Imports!Local = L
    BY Zenon DEF Imports!Local, Jobs
  <1>2. l \in L /\ b \in S /\ k \in SS /\ e \in S
        /\ [l.counts EXCEPT !.failed = f] \in C
    <2>1. l \in L /\ l.counts \in C
      BY <1>1
    <2>2. [l.counts EXCEPT !.failed = f] \in C
      BY <2>1 DEF Imports!Counts
    <2>3. QED
      BY <2>1, <2>2
  <1> HIDE DEF S, SS, C, J
  <1>3. m \in L
    BY <1>2 DEF Flushing
  <1>4. m.step = "inserting" /\ m.batch = b
        /\ m.counts = [l.counts EXCEPT !.failed = f] /\ m.work = k
        /\ m.failed = e /\ m.committed = 0 /\ m.inserted = 0 /\ m.job = l.job
        /\ m.pos = l.pos
    BY <1>2 DEF Flushing
  <1>5. QED
    BY <1>1, <1>3, <1>4 DEF HasFlushed

-----------------------------------------------------------------------------
\* A step that leaves the job's row.
LEMMA WorkerGoesOn ==
    ASSUME Imports!ImportInv, NEW w \in Worker, worker[w].step \notin {"idle", "found"},
           NEW m \in Imports!Local, m.step \notin {"idle", "found"},
           m.job = worker[w].job,
           m.step \in Imports!Importing \cup {"failing"}
               => worker[w].step \in Imports!Importing \cup {"failing"},
           worker' = [worker EXCEPT ![w] = m], job' = job, jobs' = jobs, file' = file,
           NEW d \in Nat, imported \subseteq imported', imported' \subseteq Lines,
           Cardinality(imported') = Cardinality(imported) + d,
           losses' \in {losses, losses + 1},
           m.counts.imported + m.inserted
               = worker[w].counts.imported + worker[w].inserted + d,
           m.step \in Imports!Importing => Whole(m, imported', losses'),
           m.step \in {"failing", "discarding"} => m.inserted = 0,
           m.step = "discarding" /\ losses' = 0
               => job[m.job].counts.imported = m.counts.imported
    PROVE  Imports!ImportInv'
  <1> DEFINE j == m.job
             r == job[j]
  <1>1. /\ j \in Jobs /\ r # NULL /\ r \in Imports!JobRow /\ r.status # "PENDING"
        /\ r.counts.imported <= worker[w].counts.imported + worker[w].inserted
        /\ worker[w].step \in Imports!Importing \cup {"failing"} => r.status = "PROCESSING"
    BY OwnerFacts
  <1>2. /\ worker[w].counts.imported \in Nat /\ worker[w].inserted \in Nat
        /\ r.counts.imported \in Nat
    <2>1. worker[w] \in Imports!Local
      BY ImportTypes
    <2>2. r.counts.imported \in Nat
      BY <1>1 DEF Imports!JobRow, Imports!Counts
    <2>3. QED
      BY <2>1, <2>2, LocalFields
  <1>3. r.counts.imported <= m.counts.imported + m.inserted
    BY <1>1, <1>2
  <1>4. job' = [job EXCEPT ![m.job] = r]
    BY ImportTypes
  <1>5. r.status = "COMPLETED" => CompletedWell(r, FileOf[m.job], imported', losses')
    BY <1>1, OthersAreComplete
  <1>6. m.step \in Imports!Importing \cup {"failing"} => r.status = "PROCESSING"
    BY <1>1
  <1>7. r \in Imports!JobRow /\ r.status # "PENDING"
    BY <1>1
  <1>8. m.step = "discarding" /\ losses' = 0 => r.counts.imported = m.counts.imported
    OBVIOUS
  <1> HIDE DEF r
  <1>9. QED
    BY <1>3, <1>4, <1>5, <1>6, <1>7, <1>8, WorkerWorks

\* A step that saves what the worker has counted.
LEMMA WorkerSaves ==
    ASSUME Imports!ImportInv, NEW w \in Worker, worker[w].step \in Imports!Importing,
           NEW m \in Imports!Local, m.step \in Imports!Importing,
           m.job = worker[w].job,
           worker' = [worker EXCEPT ![w] = m],
           job' = [job EXCEPT ![m.job].counts = m.counts],
           UNCHANGED <<file, jobs, imported, losses>>,
           m.counts.imported + m.inserted
               = worker[w].counts.imported + worker[w].inserted,
           Whole(m, imported, losses)
    PROVE  Imports!ImportInv'
  <1> DEFINE j == m.job
             c == m.counts
             r == [job[j] EXCEPT !.counts = c]
  <1>1. /\ j \in Jobs /\ job[j] # NULL /\ job[j] \in Imports!JobRow
        /\ job[j].status = "PROCESSING" /\ worker[w].step \notin {"idle", "found"}
    <2>1. worker[w].step \notin {"idle", "found"}
      BY DEF Imports!Importing
    <2>2. QED
      BY <2>1, OwnerFacts
  <1>2. c \in Imports!Counts /\ c.imported \in Nat /\ m.inserted \in Nat
        /\ worker[w].counts.imported \in Nat /\ worker[w].inserted \in Nat
    BY LocalFields, ImportTypes
  <1>3. r \in Imports!JobRow /\ r.status = "PROCESSING" /\ r.counts = c
    <2> DEFINE C == Imports!Counts
    <2>1. job[j] \in [status : {"PENDING", "PROCESSING", "COMPLETED", "FAILED"}, counts : C]
      BY <1>1 DEF Imports!JobRow
    <2>2. c \in C
      BY <1>2
    <2> HIDE DEF C, c
    <2>3. /\ r \in [status : {"PENDING", "PROCESSING", "COMPLETED", "FAILED"}, counts : C]
          /\ r.status = "PROCESSING" /\ r.counts = c
      BY <1>1, <2>1, <2>2
    <2>4. QED
      BY <2>3 DEF C, Imports!JobRow
  <1>4. job' = [job EXCEPT ![m.job] = r]
    BY <1>1, ImportTypes
  <1>5. m.step \notin {"idle", "found", "failing", "discarding"}
    BY DEF Imports!Importing
  <1> HIDE DEF r
  <1>6. r.counts.imported <= m.counts.imported + m.inserted
    BY <1>2, <1>3
  <1>7. /\ imported \subseteq imported' /\ imported' \subseteq Lines
        /\ Cardinality(imported') = Cardinality(imported) + 0
        /\ losses' \in {losses, losses + 1} /\ jobs' = jobs /\ file' = file
        /\ 0 \in Nat /\ m.counts.imported + m.inserted
               = worker[w].counts.imported + worker[w].inserted + 0
        /\ Whole(m, imported', losses')
    BY <1>2, ImportTypes
  <1>8. QED
    BY <1>1, <1>3, <1>4, <1>5, <1>6, <1>7, WorkerWorks

\* What does not change has as many conversions.
LEMMA NoneImported ==
    ASSUME Imports!ImportInv, imported' = imported
    PROVE  /\ imported \subseteq imported' /\ imported' \subseteq Lines
           /\ Cardinality(imported') = Cardinality(imported) + 0 /\ 0 \in Nat
  BY ImportTypes

\* A step that only moves the worker on.
LEMMA ImportMoves ==
    ASSUME Imports!ImportInv, NEW w \in Worker,
           worker[w].step \in {"claimed", "reading"},
           NEW s \in {"reading", "flushing", "failing"},
           worker' = [worker EXCEPT ![w].step = s],
           UNCHANGED <<file, job, jobs, imported, losses>>
    PROVE  Imports!ImportInv'
  <1> DEFINE l == worker[w]
             m == Going(l, s)
  <1>1. /\ l \in Imports!Local /\ worker' = [worker EXCEPT ![w] = m]
        /\ losses \in Nat
    BY ImportTypes DEF Going
  <1>2. /\ m \in Imports!Local /\ m.step = s /\ m.job = l.job /\ m.pos = l.pos
        /\ m.counts = l.counts /\ m.batch = l.batch /\ m.work = l.work
        /\ m.failed = l.failed /\ m.committed = l.committed /\ m.inserted = l.inserted
    BY <1>1, LocalGoes DEF Gone
  <1>3. /\ l.step \notin {"idle", "found"} /\ l.step \in Imports!Importing
        /\ Whole(l, imported, losses) /\ l.step # "inserting"
    <2>1. l.step \notin {"idle", "found"} /\ l.step \in Imports!Importing
      BY DEF Imports!Importing
    <2>2. QED
      BY <2>1, OwnerFacts
  <1>4. l.inserted = 0 /\ l.counts.imported \in Nat
    BY <1>1, <1>3, LocalFields DEF Whole
  <1> HIDE DEF m, l
  <1>5. m.step \notin {"idle", "found"} /\ m.step \notin {"inserting", "claimed", "discarding"}
    BY <1>2
  <1>6. Whole(m, imported', losses')
    BY <1>2, <1>3, <1>5, WholeMoves
  <1>7. m.counts.imported + m.inserted = l.counts.imported + l.inserted + 0
    BY <1>2, <1>4
  <1>8. m.inserted = 0 /\ m.job = worker[w].job
    BY <1>2, <1>4 DEF l
  <1>9. losses' \in {losses, losses + 1} /\ job' = job /\ jobs' = jobs /\ file' = file
        /\ imported' = imported
    BY <1>1
  <1>10. /\ worker[w].step \in Imports!Importing \cup {"failing"}
         /\ worker[w].step \notin {"idle", "found"}
    BY <1>3 DEF l
  <1>11. QED
    BY <1>1, <1>2, <1>5, <1>6, <1>7, <1>8, <1>9, <1>10, NoneImported, WorkerGoesOn DEF l

LEMMA ImportOpen ==
    ASSUME Imports!ImportInv, NEW w \in Worker,
           Imports!Open(w) \/ Imports!LastFlush(w)
    PROVE  Imports!ImportInv'
  <1>1. CASE Imports!Open(w)
    <2>1. PICK s \in {"reading", "flushing", "failing"} :
             worker' = [worker EXCEPT ![w].step = s]
      BY <1>1, Zenon DEF Imports!Open
    <2>2. /\ worker[w].step = "claimed"
          /\ UNCHANGED <<file, job, jobs, imported, losses>>
      BY <1>1, Zenon DEF Imports!Open
    <2>3. QED
      BY <2>1, <2>2, ImportMoves
  <1>2. CASE Imports!LastFlush(w)
    <2>1. /\ worker[w].step = "reading"
          /\ worker' = [worker EXCEPT ![w].step = "flushing"]
          /\ UNCHANGED <<file, job, jobs, imported, losses>>
      BY <1>2, Zenon DEF Imports!LastFlush
    <2>2. QED
      BY <2>1, ImportMoves
  <1>3. QED
    BY <1>1, <1>2

-----------------------------------------------------------------------------
\* The next line.
LEMMA ImportReadRow ==
    ASSUME Imports!ImportInv, NEW w \in Worker, Imports!ReadRow(w)
    PROVE  Imports!ImportInv'
  <1> DEFINE l == worker[w]
             e == FileOf[l.job][l.pos + 1]
             c == [l.counts EXCEPT !.total = @ + 1,
                                   !.failed = IF e \in {badLine} THEN @ + 1 ELSE @]
             b == IF e \in {badLine} THEN l.batch ELSE Append(l.batch, e)
             full == Len(b) >= BatchSize
             due == c.total - l.progressAt >= ProgressEvery
             s == IF full THEN "flushing" ELSE "reading"
             a == IF due THEN c.total ELSE l.progressAt
             p == l.pos + 1
             m == Reading(l, p, c, b, s, a)
  <1>1. /\ l.step = "reading" /\ l.pos # Len(FileOf[l.job])
        /\ worker' = [worker EXCEPT ![w] = m]
        /\ IF due /\ ~full THEN job' = [job EXCEPT ![l.job].counts = c] ELSE job' = job
        /\ UNCHANGED <<file, jobs, imported, losses>>
    BY Zenon DEF Imports!ReadRow, Imports!AtEnd, Imports!SetCounts, FileOf, Jobs,
        Reading
  <1>2. /\ l \in Imports!Local /\ losses \in Nat
    BY ImportTypes
  <1>3. /\ l.step \notin {"idle", "found"} /\ l.step \in Imports!Importing
        /\ Whole(l, imported, losses) /\ l.job \in Jobs
    <2>1. l.step \notin {"idle", "found"} /\ l.step \in Imports!Importing
      BY <1>1 DEF Imports!Importing
    <2>2. QED
      BY <2>1, OwnerFacts
  <1>4. /\ l.pos < Len(FileOf[l.job]) /\ e \in Lines /\ p \in Nat
        /\ l.batch \in Seq(Lines) /\ l.progressAt \in Nat /\ l.counts \in Imports!Counts
        /\ l.counts.imported \in Nat /\ l.inserted \in Nat
    <2> DEFINE n == Len(FileOf[l.job])
               q == l.pos
    <2>1. /\ n \in Nat /\ q \in Nat /\ q <= n /\ (q < n => e \in Lines)
          /\ l.batch \in Seq(Lines) /\ l.progressAt \in Nat /\ l.counts \in Imports!Counts
          /\ l.counts.imported \in Nat /\ l.inserted \in Nat
      BY <1>2, <1>3, LocalFields, ReadTypes DEF Whole
    <2>2. q # n /\ p = q + 1
      BY <1>1
    <2> HIDE DEF n, q, e, p
    <2>3. q < n /\ p \in Nat
      BY <2>1, <2>2
    <2>4. QED
      BY <2>1, <2>3 DEF n, q
  <1>5. /\ c \in Imports!Counts /\ c.total = l.counts.total + 1
        /\ c.imported = l.counts.imported /\ c.skipped = l.counts.skipped
        /\ c.failed = IF e = badLine THEN l.counts.failed + 1 ELSE l.counts.failed
        /\ c.total \in Nat
    <2> DEFINE k == l.counts
               n == IF e \in {badLine} THEN k.failed + 1 ELSE k.failed
               t == k.total + 1
    <2>1. k \in [total : Nat, imported : Nat, skipped : Nat, failed : Nat]
      BY <1>4 DEF Imports!Counts
    <2>2. c = [k EXCEPT !.total = t, !.failed = n]
      OBVIOUS
    <2> HIDE DEF e, c, k
    <2>3. n \in Nat /\ t \in Nat /\ n = IF e = badLine THEN k.failed + 1 ELSE k.failed
      BY <2>1
    <2> HIDE DEF n
    <2>4. c \in [total : Nat, imported : Nat, skipped : Nat, failed : Nat]
      BY <2>1, <2>2, <2>3
    <2>5. c.total = t /\ c.failed = n /\ c.imported = k.imported /\ c.skipped = k.skipped
      BY <2>1, <2>2
    <2>6. QED
      BY <2>3, <2>4, <2>5 DEF k, Imports!Counts
  <1>6. b \in Seq(Lines) /\ b = IF e = badLine THEN l.batch ELSE Append(l.batch, e)
    <2> DEFINE s1 == l.batch
    <2> HIDE DEF e, s1
    <2>1. s1 \in Seq(Lines) /\ e \in Lines
      BY <1>4 DEF s1
    <2>2. Append(s1, e) \in Seq(Lines)
      BY <2>1
    <2>3. QED
      BY <2>1, <2>2 DEF s1
  <1>7. s \in {"reading", "flushing"} /\ a \in Nat
    BY <1>4, <1>5
  <1> HIDE DEF e, c, b, s, a, p, due, full, l
  <1>8. /\ m \in Imports!Local
        /\ m.pos = p /\ m.counts = c /\ m.batch = b /\ m.step = s
        /\ m.job = l.job /\ m.work = l.work /\ m.failed = l.failed
        /\ m.committed = l.committed /\ m.inserted = l.inserted
    <2>1. /\ l \in Imports!Local /\ p \in Nat /\ c \in Imports!Counts /\ b \in Seq(Lines)
          /\ s \in {"reading", "flushing"} /\ a \in Nat
      BY <1>2, <1>4, <1>5, <1>6, <1>7
    <2>2. HasRead(m, l, p, c, b, s, a)
      BY <2>1, LocalReads, Zenon
    <2>3. QED
      BY <2>2, Zenon DEF HasRead
  <1> HIDE DEF m
  <1>9. Whole(m, imported, losses)
    <2>1. p = l.pos + 1 /\ e = FileOf[l.job][l.pos + 1]
      BY DEF p, e
    <2>2. QED
      BY <1>1, <1>2, <1>3, <1>4, <1>5, <1>6, <1>7, <1>8, <2>1, WholeReads
  <1>10. /\ m.counts.imported + m.inserted = l.counts.imported + l.inserted
         /\ m.step \in Imports!Importing
         /\ m.step \notin {"idle", "found", "failing", "discarding"}
    BY <1>4, <1>5, <1>7, <1>8 DEF Imports!Importing
  <1>11. CASE due /\ ~full
    <2>1. job' = [job EXCEPT ![m.job].counts = m.counts]
      BY <1>1, <1>8, <1>11
    <2>2. QED
      BY <1>1, <1>3, <1>8, <1>9, <1>10, <2>1, WorkerSaves DEF l
  <1>12. CASE ~(due /\ ~full)
    <2>1. job' = job
      BY <1>1, <1>12
    <2>2. m.counts.imported + m.inserted = l.counts.imported + l.inserted + 0
      BY <1>4, <1>10
    <2>3. losses' \in {losses, losses + 1} /\ Whole(m, imported', losses')
      BY <1>1, <1>9
    <2>4. QED
      BY <1>1, <1>3, <1>8, <1>10, <2>1, <2>2, <2>3, NoneImported, WorkerGoesOn DEF l
  <1>13. QED
    BY <1>11, <1>12

\* What the owner of a job is, when it imports.
LEMMA ImporterFacts ==
    ASSUME Imports!ImportInv, NEW w \in Worker, worker[w].step \in Imports!Importing
    PROVE  /\ worker[w].step \notin {"idle", "found"} /\ worker[w] \in Imports!Local
           /\ worker[w].job \in Jobs /\ Whole(worker[w], imported, losses)
           /\ losses \in Nat
  <1>1. worker[w].step \notin {"idle", "found"}
    BY DEF Imports!Importing
  <1>2. QED
    BY <1>1, OwnerFacts, ImportTypes

\* The batch goes to the table, but for the lines without a link.
LEMMA ImportFlush ==
    ASSUME Imports!ImportInv, NEW w \in Worker, Imports!Flush(w)
    PROVE  Imports!ImportInv'
  <1> DEFINE l == worker[w]
             k == Imports!Linked(l.batch)
             f == l.counts.failed + Len(l.batch) - Len(k)
             work == IF k = <<>> THEN <<>> ELSE <<k>>
             none == <<>>
             m == Flushing(l, none, f, work, none)
  <1>1. /\ l.step = "flushing" /\ worker' = [worker EXCEPT ![w] = m]
        /\ UNCHANGED <<file, job, jobs, imported, losses>>
    BY Zenon DEF Imports!Flush, Flushing
  <1>2. /\ l.step \notin {"idle", "found"} /\ l \in Imports!Local
        /\ l.job \in Jobs /\ Whole(l, imported, losses) /\ losses \in Nat
        /\ l.step \in Imports!Importing
    <2>1. l.step \in Imports!Importing
      BY <1>1 DEF Imports!Importing
    <2>2. QED
      BY <2>1, ImporterFacts
  <1>3. /\ l.batch \in Seq(Lines) /\ l.counts \in Imports!Counts
        /\ l.counts.imported \in Nat /\ l.counts.failed \in Nat
    BY <1>2, LocalFields
  <1>4. k \in Seq(Lines) /\ Len(k) <= Len(l.batch)
    <2>1. k \in Seq(Lines)
      BY <1>3, LinkedLines
    <2> DEFINE b == l.batch
    <2> HIDE DEF k, b
    <2>2. Occurs(k, Lines) = Occurs(b, Lines \ {unlinked})
      BY <1>3, LinkedLines DEF k, b
    <2>3. Occurs(k, Lines) = Len(k)
      <3>1. \A i \in 1..Len(k) : k[i] \in Lines
        BY <2>1
      <3>2. QED
        BY <2>1, <3>1, OccursAll
    <2>4. Occurs(b, Lines \ {unlinked}) <= Len(b)
      BY <1>3, OccursType DEF b
    <2>5. QED
      BY <2>1, <2>2, <2>3, <2>4 DEF b
  <1>5. f \in Nat
    <2> DEFINE n == Len(l.batch)
               i == Len(k)
               a == l.counts.failed
    <2>1. n \in Nat /\ i \in Nat /\ i <= n /\ a \in Nat
      BY <1>3, <1>4
    <2> HIDE DEF n, i, a
    <2>2. a + n - i \in Nat
      BY <2>1
    <2>3. QED
      BY <2>2 DEF n, i, a
  <1>6. work \in Seq(Seq(Lines)) /\ none \in Seq(Lines)
    <2> HIDE DEF k
    <2>1. QED
      BY <1>4
  <1> HIDE DEF f, work, none, k, l
  <1>7. HasFlushed(m, l, none, f, work, none)
    BY <1>2, <1>5, <1>6, LocalFlushes, Zenon
  <1>8. /\ m \in Imports!Local /\ m.step = "inserting" /\ m.batch = none
        /\ m.counts = [l.counts EXCEPT !.failed = f] /\ m.work = work
        /\ m.failed = none /\ m.committed = 0 /\ m.inserted = 0 /\ m.job = l.job
        /\ m.pos = l.pos
    BY <1>7, Zenon DEF HasFlushed
  <1> HIDE DEF m
  <1>9. /\ m.counts.total = l.counts.total /\ m.counts.imported = l.counts.imported
        /\ m.counts.skipped = l.counts.skipped /\ m.counts.failed = f
    BY <1>3, <1>8 DEF Imports!Counts
  <1>10. Whole(m, imported, losses)
    <2>1. /\ m.counts.failed = l.counts.failed + Len(l.batch) - Len(k)
          /\ m.work = (IF k = <<>> THEN <<>> ELSE <<k>>)
          /\ m.batch = <<>> /\ m.failed = <<>>
      BY <1>8, <1>9, Zenon DEF f, work, none
    <2>2. k = Imports!Linked(l.batch)
      BY DEF k
    <2>3. /\ m.counts.total = l.counts.total /\ m.counts.imported = l.counts.imported
          /\ m.counts.skipped = l.counts.skipped /\ m.step = "inserting"
          /\ m.job = l.job /\ m.pos = l.pos /\ m.committed = 0 /\ m.inserted = 0
      BY <1>8, <1>9
    <2>4. /\ l \in Imports!Local /\ l.job \in Jobs /\ losses \in Nat
          /\ Whole(l, imported, losses) /\ l.step = "flushing"
      BY <1>1, <1>2
    <2>5. QED
      BY <2>1, <2>2, <2>3, <2>4, WholeFlush
  <1>11. m.counts.imported + m.inserted = l.counts.imported + l.inserted + 0
    <2>1. l.inserted = 0
      BY <1>1, <1>2 DEF Whole
    <2>2. QED
      BY <1>3, <1>8, <1>9, <2>1
  <1>12. /\ losses' \in {losses, losses + 1} /\ Whole(m, imported', losses')
         /\ m.step \notin {"idle", "found", "failing", "discarding"}
    BY <1>1, <1>8, <1>10
  <1>13. QED
    BY <1>1, <1>2, <1>8, <1>11, <1>12, NoneImported, WorkerGoesOn DEF l

\* What a worker has counted by now.
LEMMA TallyFacts ==
    ASSUME NEW l \in Imports!Local, NEW conv, NEW lost, Whole(l, conv, lost)
    PROVE  /\ Imports!Tally(l) \in Imports!Counts
           /\ Imports!Tally(l).total = l.counts.total
           /\ Imports!Tally(l).imported = l.counts.imported + l.inserted
           /\ Imports!Tally(l).skipped = l.counts.skipped + l.committed - l.inserted
           /\ Imports!Tally(l).failed = l.counts.failed + Len(l.failed)
  <1> DEFINE k == l.counts
             i == k.imported + l.inserted
             s == k.skipped + l.committed - l.inserted
             f == k.failed + Len(l.failed)
  <1>1. /\ k \in Imports!Counts /\ i \in Nat /\ s \in Nat /\ f \in Nat
    <2> DEFINE a == l.committed
               b == l.inserted
               c == Len(l.failed)
    <2>1. /\ k \in Imports!Counts /\ k.imported \in Nat /\ k.skipped \in Nat
          /\ k.failed \in Nat /\ a \in Nat /\ b \in Nat /\ c \in Nat /\ b <= a
      BY LocalFields DEF Whole
    <2> HIDE DEF a, b, c, k
    <2>2. k.skipped + a - b \in Nat
      BY <2>1
    <2>3. QED
      BY <2>1, <2>2 DEF a, b, c
  <1>2. Imports!Tally(l) = [k EXCEPT !.imported = i, !.skipped = s, !.failed = f]
    BY Zenon DEF Imports!Tally
  <1>3. k \in [total : Nat, imported : Nat, skipped : Nat, failed : Nat]
    BY <1>1 DEF Imports!Counts
  <1> DEFINE t == Imports!Tally(l)
  <1> HIDE DEF k, i, s, f, t
  <1>4. t = [k EXCEPT !.imported = i, !.skipped = s, !.failed = f]
    BY <1>2 DEF t
  <1>5. t \in [total : Nat, imported : Nat, skipped : Nat, failed : Nat]
    BY <1>1, <1>3, <1>4
  <1>6. t.total = k.total /\ t.imported = i /\ t.skipped = s /\ t.failed = f
    BY <1>3, <1>4
  <1>7. t \in Imports!Counts
    BY <1>5 DEF Imports!Counts
  <1>8. QED
    BY <1>6, <1>7 DEF t, k, i, s, f

LEMMA ImportFlushDone ==
    ASSUME Imports!ImportInv, NEW w \in Worker, Imports!FlushDone(w)
    PROVE  Imports!ImportInv'
  <1> DEFINE l == worker[w]
             c == Imports!Tally(l)
             none == <<>>
             m == Counting(l, "reading", c, none)
  <1>1. /\ l.step = "inserting" /\ l.work = <<>> /\ worker' = [worker EXCEPT ![w] = m]
        /\ job' = [job EXCEPT ![l.job].counts = c]
        /\ UNCHANGED <<file, jobs, imported, losses>>
    BY Zenon DEF Imports!FlushDone, Counting, Imports!SetCounts
  <1>2. /\ l.step \notin {"idle", "found"} /\ l \in Imports!Local
        /\ l.job \in Jobs /\ Whole(l, imported, losses) /\ losses \in Nat
        /\ l.step \in Imports!Importing
    <2>1. l.step \in Imports!Importing
      BY <1>1 DEF Imports!Importing
    <2>2. QED
      BY <2>1, ImporterFacts
  <1>3. /\ c \in Imports!Counts /\ c.total = l.counts.total
        /\ c.imported = l.counts.imported + l.inserted
        /\ c.skipped = l.counts.skipped + l.committed - l.inserted
        /\ c.failed = l.counts.failed + Len(l.failed)
    BY <1>2, TallyFacts
  <1>4. none \in Seq(Lines) /\ l.counts.imported \in Nat /\ l.inserted \in Nat
    BY <1>2, LocalFields
  <1> HIDE DEF c, none, l
  <1>5. HasCounted(m, l, "reading", c, none)
    BY <1>2, <1>3, <1>4, LocalCounts, Zenon
  <1>6. /\ m \in Imports!Local /\ m.step = "reading" /\ m.counts = c /\ m.failed = none
        /\ m.committed = 0 /\ m.inserted = 0 /\ m.job = l.job /\ m.pos = l.pos
        /\ m.batch = l.batch /\ m.work = l.work
    BY <1>5, Zenon DEF HasCounted
  <1> HIDE DEF m
  <1>7. Whole(m, imported, losses)
    <2>1. none = <<>>
      BY DEF none
    <2>2. QED
      BY <1>1, <1>2, <1>3, <1>6, <2>1, WholeCounts
  <1>8. /\ m.counts.imported + m.inserted = l.counts.imported + l.inserted
        /\ m.step \in Imports!Importing
    BY <1>3, <1>4, <1>6 DEF Imports!Importing
  <1>9. job' = [job EXCEPT ![m.job].counts = m.counts]
    BY <1>1, <1>6
  <1>10. QED
    BY <1>1, <1>2, <1>6, <1>7, <1>8, <1>9, WorkerSaves DEF l

\* The job is given up, with what was counted.
LEMMA ImportGivesUp ==
    ASSUME Imports!ImportInv, NEW w \in Worker, Imports!ImportFails(w)
    PROVE  Imports!ImportInv'
  <1> DEFINE l == worker[w]
             c == Imports!Tally(l)
             none == <<>>
             m == Counting(l, "failing", c, none)
  <1>1. /\ l.step \in {"flushing", "inserting", "reading"}
        /\ worker' = [worker EXCEPT ![w] = m]
        /\ losses' = losses + 1
        /\ UNCHANGED <<file, job, jobs, imported>>
    BY Zenon DEF Imports!ImportFails, Counting, Imports!Loses
  <1>2. /\ l.step \notin {"idle", "found"} /\ l \in Imports!Local
        /\ l.job \in Jobs /\ Whole(l, imported, losses) /\ losses \in Nat
        /\ l.step \in Imports!Importing
    <2>1. l.step \in Imports!Importing
      BY <1>1 DEF Imports!Importing
    <2>2. QED
      BY <2>1, ImporterFacts
  <1>3. c \in Imports!Counts /\ c.imported = l.counts.imported + l.inserted
    BY <1>2, TallyFacts
  <1>4. none \in Seq(Lines) /\ l.counts.imported \in Nat /\ l.inserted \in Nat
    BY <1>2, LocalFields
  <1> HIDE DEF c, none, l
  <1>5. HasCounted(m, l, "failing", c, none)
    BY <1>2, <1>3, <1>4, LocalCounts, Zenon
  <1>6. /\ m \in Imports!Local /\ m.step = "failing" /\ m.counts = c
        /\ m.inserted = 0 /\ m.job = l.job
    BY <1>5, Zenon DEF HasCounted
  <1> HIDE DEF m
  <1>7. /\ m.counts.imported + m.inserted = l.counts.imported + l.inserted + 0
        /\ m.step \notin Imports!Importing /\ losses' \in {losses, losses + 1}
    BY <1>1, <1>3, <1>4, <1>6 DEF Imports!Importing
  <1>8. QED
    BY <1>1, <1>2, <1>6, <1>7, NoneImported, WorkerGoesOn DEF l

LEMMA FinalRow ==
    ASSUME NEW k \in Imports!Counts, NEW s \in {"FAILED", "COMPLETED"}
    PROVE  LET r == [status |-> s, counts |-> k]
           IN  r \in Imports!JobRow /\ r.status = s /\ r.counts = k
  <1> DEFINE C == Imports!Counts
             r == [status |-> s, counts |-> k]
  <1>1. k \in C
    OBVIOUS
  <1> HIDE DEF C
  <1>2. /\ r \in [status : {"PENDING", "PROCESSING", "COMPLETED", "FAILED"}, counts : C]
        /\ r.status = s /\ r.counts = k
    BY <1>1
  <1>3. QED
    BY <1>2 DEF C, Imports!JobRow

LEMMA ImportFailed ==
    ASSUME Imports!ImportInv, NEW w \in Worker, Imports!Fail(w)
    PROVE  Imports!ImportInv'
  <1> DEFINE l == worker[w]
             m == Going(l, "discarding")
             r == [status |-> "FAILED", counts |-> l.counts]
  <1>1. /\ l.step = "failing" /\ worker' = [worker EXCEPT ![w] = m]
        /\ UNCHANGED <<file, jobs, imported>>
        /\ \/ job' = [job EXCEPT ![l.job] = r] /\ losses' = losses
           \/ losses' = losses + 1 /\ job' = job
    BY Zenon DEF Imports!Fail, Imports!Loses, Going
  <1>2. /\ l.step \notin {"idle", "found"} /\ l \in Imports!Local /\ losses \in Nat
        /\ l.job \in Jobs /\ l.inserted = 0
    BY <1>1, OwnerFacts, ImportTypes
  <1>3. l.counts \in Imports!Counts /\ l.counts.imported \in Nat
    BY <1>2, LocalFields
  <1>4. r \in Imports!JobRow /\ r.status = "FAILED" /\ r.counts = l.counts
    BY <1>3, FinalRow
  <1> HIDE DEF r
  <1>5. /\ m \in Imports!Local /\ m.step = "discarding" /\ m.job = l.job
        /\ m.counts = l.counts /\ m.inserted = 0
    BY <1>2, LocalGoes DEF Gone
  <1> HIDE DEF m, l
  <1>6. /\ m.counts.imported + m.inserted = l.counts.imported + l.inserted + 0
        /\ m.step \notin Imports!Importing \cup {"failing"}
        /\ m.step \notin {"idle", "found"}
    BY <1>2, <1>3, <1>5 DEF Imports!Importing
  <1>7. CASE job' = [job EXCEPT ![l.job] = r] /\ losses' = losses
    <2>1. job' = [job EXCEPT ![m.job] = r] /\ losses' \in {losses, losses + 1}
      BY <1>5, <1>7
    <2>2. /\ r.counts.imported <= m.counts.imported + m.inserted
          /\ r.counts.imported = m.counts.imported
          /\ r.status \notin {"PENDING", "COMPLETED"}
      BY <1>3, <1>4, <1>5
    <2>3. m.step \notin Imports!Importing
      BY <1>6
    <2>4. QED
      BY <1>1, <1>2, <1>4, <1>5, <1>6, <2>1, <2>2, <2>3, NoneImported, WorkerWorks DEF l
  <1>8. CASE losses' = losses + 1 /\ job' = job
    <2>1. losses' # 0 /\ losses' \in {losses, losses + 1} /\ job' = job
      BY <1>2, <1>8
    <2>2. m.step \notin Imports!Importing
      BY <1>6
    <2>3. QED
      BY <1>1, <1>2, <1>5, <1>6, <2>1, <2>2, NoneImported, WorkerGoesOn DEF l
  <1>9. QED
    BY <1>1, <1>7, <1>8

\* At the end of its file a worker has imported, skipped or failed every line.
LEMMA WholeCompletes ==
    ASSUME NEW l \in Imports!Local, l.job \in Jobs, NEW conv, NEW lost \in Nat,
           Whole(l, conv, lost), l.step = "reading", l.pos = Len(FileOf[l.job]),
           l.batch = <<>>, NEW r, r.counts = l.counts
    PROVE  CompletedWell(r, FileOf[l.job], conv, lost)
  <1> DEFINE s == FileOf[l.job]
             n == Occurs(s, UnfitLines)
             i == l.counts.imported
             k == l.counts.skipped
             f == l.counts.failed
             t == l.counts.total
             p == l.pos
  <1>1. s \in Seq(Lines) /\ OrderIn \in [Lines -> Lines]
    BY ImportParameters
  <1>2. ReadOf(l) = s
    <2>1. ReadOf(l) = SubSeq(s, 1, Len(s))
      BY DEF ReadOf
    <2> HIDE DEF s
    <2> DEFINE u == SubSeq(s, 1, Len(s))
    <2>2. /\ u \in Seq(Lines) /\ Len(u) = Len(s) /\ \A x \in 1..Len(u) : u[x] = s[x]
      BY <1>1
    <2> HIDE DEF u
    <2>3. u = s
      BY <1>1, <2>2, SeqEqual
    <2>4. QED
      BY <2>1, <2>3 DEF u
  <1>3. /\ i \in Nat /\ k \in Nat /\ f \in Nat /\ t \in Nat /\ p \in Nat
    BY LocalFields
  <1>4. \A B : Occurs(l.batch, B) = 0 /\ OccursIn(l.work, B) = 0
    BY OccursEmpty, OccursInEmpty DEF Whole
  <1>5. n \in Nat
    BY <1>1, OccursType, Zenon
  <1>6. Len(l.failed) = 0 /\ l.committed = 0
    BY DEF Whole
  <1>7. p = t /\ p = i + k + f
    <2>1. l.pos = i + k + f + l.committed + Len(l.failed)
                    + Occurs(l.batch, Lines) + OccursIn(l.work, Lines)
      BY DEF Whole
    <2>2. p = i + k + f + 0 + 0 + 0 + 0
      BY <1>4, <1>6, <2>1
    <2>3. p = t
      BY DEF Whole
    <2> HIDE DEF p, i, k, f, t
    <2>4. QED
      BY <1>3, <2>2, <2>3
  <1>8. f \in n..(n + lost)
    <2> DEFINE u == RefusedOf(l)
    <2>1. u - lost <= n /\ n <= u
      BY <1>2, Zenon DEF Whole
    <2>2. u = f + 0 + 0 + 0
      BY <1>4, <1>6 DEF RefusedOf
    <2> HIDE DEF u, f, n
    <2>3. QED
      BY <1>3, <1>5, <2>1, <2>2
  <1>9. n = Cardinality(UnfitIn(s))
    BY Zenon DEF Occurs, UnfitIn
  <1>10. ASSUME lost = 0, NEW x \in DOMAIN s \ UnfitIn(s) PROVE OrderIn[s[x]] \in conv
    <2> DEFINE o == OrderIn[s[x]]
               B == SoughtLines(o)
    <2>1. s[x] \in Lines /\ x \in 1..Len(s)
      BY <1>1
    <2>2. s[x] \in B /\ o \in Lines
      BY <1>1, <2>1 DEF SoughtLines, UnfitIn
    <2>3. ASSUME o \notin conv PROVE FALSE
      <3>1. Occurs(s, B) > 0
        <4> HIDE DEF B
        <4>1. QED
          BY <1>1, <2>1, <2>2, OccursSome
      <3>2. Occurs(l.batch, B) + OccursIn(l.work, B) > 0
        BY <1>2, <1>10, <2>2, <2>3, <3>1 DEF Whole
      <3>3. Occurs(l.batch, B) = 0 /\ OccursIn(l.work, B) = 0
        BY <1>4
      <3> HIDE DEF B
      <3>4. QED
        BY <3>2, <3>3
    <2>4. QED
      BY <2>3
  <1>11. r.counts.total = Len(s)
    BY <1>7
  <1>12. r.counts.total = r.counts.imported + r.counts.skipped + r.counts.failed
    BY <1>7
  <1>13. r.counts.failed \in Cardinality(UnfitIn(s))..(Cardinality(UnfitIn(s)) + lost)
    BY <1>8, <1>9
  <1>14. lost = 0 => {OrderIn[s[x]] : x \in DOMAIN s \ UnfitIn(s)} \subseteq conv
    BY <1>10
  <1> HIDE DEF s
  <1>15. CompletedWell(r, s, conv, lost)
    BY <1>11, <1>12, <1>13, <1>14, Zenon DEF CompletedWell
  <1>16. QED
    BY <1>15 DEF s

LEMMA ImportComplete ==
    ASSUME Imports!ImportInv, NEW w \in Worker, Imports!Complete(w)
    PROVE  Imports!ImportInv'
  <1> DEFINE l == worker[w]
             m == Going(l, "discarding")
             r == [status |-> "COMPLETED", counts |-> l.counts]
  <1>1. /\ l.step = "reading" /\ l.pos = Len(FileOf[l.job]) /\ l.batch = <<>>
        /\ worker' = [worker EXCEPT ![w] = m] /\ job' = [job EXCEPT ![l.job] = r]
        /\ UNCHANGED <<file, jobs, imported, losses>>
    BY Zenon DEF Imports!Complete, Imports!AtEnd, FileOf, Jobs, Going
  <1>2. /\ l.step \notin {"idle", "found"} /\ l \in Imports!Local
        /\ l.job \in Jobs /\ Whole(l, imported, losses) /\ losses \in Nat
    <2>1. l.step \in Imports!Importing
      BY <1>1 DEF Imports!Importing
    <2>2. QED
      BY <2>1, ImporterFacts
  <1>3. l.counts \in Imports!Counts /\ l.counts.imported \in Nat /\ l.inserted = 0
    BY <1>1, <1>2, LocalFields DEF Whole
  <1>4. r \in Imports!JobRow /\ r.status = "COMPLETED" /\ r.counts = l.counts
    BY <1>3, FinalRow
  <1> HIDE DEF r
  <1>5. /\ m \in Imports!Local /\ m.step = "discarding" /\ m.job = l.job
        /\ m.counts = l.counts /\ m.inserted = 0
    BY <1>2, <1>3, LocalGoes DEF Gone
  <1> HIDE DEF m, l
  <1>6. /\ m.counts.imported + m.inserted = l.counts.imported + l.inserted + 0
        /\ m.step \notin Imports!Importing \cup {"failing"}
        /\ m.step \notin {"idle", "found"} /\ m.step \notin Imports!Importing
    BY <1>3, <1>5 DEF Imports!Importing
  <1>7. CompletedWell(r, FileOf[m.job], imported', losses')
    <2>1. CompletedWell(r, FileOf[l.job], imported, losses)
      BY <1>1, <1>2, <1>4, WholeCompletes
    <2>2. QED
      BY <1>1, <1>5, <2>1
  <1>8. /\ r.counts.imported <= m.counts.imported + m.inserted
        /\ r.counts.imported = m.counts.imported /\ r.status # "PENDING"
    BY <1>3, <1>4, <1>5
  <1>9. job' = [job EXCEPT ![m.job] = r] /\ losses' \in {losses, losses + 1}
    BY <1>1, <1>5
  <1>10. QED
    BY <1>1, <1>2, <1>4, <1>5, <1>6, <1>7, <1>8, <1>9, NoneImported, WorkerWorks DEF l

\* The orders of a slice, and how many of them are new.
OrdersIn(s) == {OrderIn[s[i]] : i \in 1..Len(s)}

LEMMA OrdersInserted ==
    ASSUME NEW s \in Seq(Lines), NEW conv \in SUBSET Lines
    PROVE  /\ OrdersIn(s) \subseteq Lines /\ IsFiniteSet(OrdersIn(s))
           /\ Cardinality(OrdersIn(s) \ conv) \in Nat
           /\ Cardinality(OrdersIn(s) \ conv) <= Len(s)
           /\ Cardinality(conv \cup OrdersIn(s))
                 = Cardinality(conv) + Cardinality(OrdersIn(s) \ conv)
  <1> DEFINE I == 1..Len(s)
             O == OrdersIn(s)
             f == [i \in I |-> OrderIn[s[i]]]
  <1>1. IsFiniteSet(I) /\ Cardinality(I) = Len(s) /\ Len(s) \in Nat
    <2> DEFINE n == Len(s)
    <2>1. n \in Nat
      OBVIOUS
    <2> HIDE DEF n
    <2>2. IsFiniteSet(1..n) /\ Cardinality(1..n) = n
      BY <2>1, FS_Interval
    <2>3. QED
      BY <2>1, <2>2 DEF n
  <1>2. O \subseteq Lines
    <2>1. \A i \in I : s[i] \in Lines
      OBVIOUS
    <2>2. QED
      BY <2>1, ImportParameters DEF OrdersIn
  <1>3. f \in Surjection(I, O)
    BY DEF Surjection, OrdersIn
  <1> HIDE DEF f, I
  <1>4. IsFiniteSet(O) /\ Cardinality(O) <= Len(s)
    BY <1>1, <1>3, FS_Surjection
  <1>5. IsFiniteSet(conv)
    BY ImportParameters, FS_Subset, Zenon
  <1> DEFINE N == O \ conv
  <1> HIDE DEF O
  <1>6. IsFiniteSet(N) /\ Cardinality(N) <= Cardinality(O) /\ Cardinality(O) \in Nat
    BY <1>4, FS_Subset, FS_CardinalityType
  <1>7. conv \cap N = {} /\ conv \cup O = conv \cup N
    OBVIOUS
  <1> HIDE DEF N
  <1>8. Cardinality(N) \in Nat /\ Cardinality(conv) \in Nat
    BY <1>5, <1>6, FS_CardinalityType
  <1>9. Cardinality(conv \cup N) = Cardinality(conv) + Cardinality(N)
    <2>1. Cardinality(conv \cup N) = Cardinality(conv) + Cardinality(N) - Cardinality(conv \cap N)
      BY <1>5, <1>6, FS_Union, Zenon
    <2>2. Cardinality(conv \cap N) = 0
      BY <1>7, FS_EmptySet
    <2>3. QED
      BY <1>8, <2>1, <2>2
  <1>10. Cardinality(N) <= Len(s)
    BY <1>1, <1>4, <1>6, <1>8
  <1>11. QED
    BY <1>2, <1>4, <1>7, <1>8, <1>9, <1>10 DEF N, O

\* A slice is inserted.
LEMMA ImportInsert ==
    ASSUME Imports!ImportInv, NEW w \in Worker, Imports!Insert(w)
    PROVE  Imports!ImportInv'
  <1> DEFINE l == worker[w]
             s == Head(l.work)
             d == Cardinality(OrdersIn(s) \ imported)
             k == Tail(l.work)
             c == l.committed + Len(s)
             n == l.inserted + d
             m == Inserting(l, k, c, n)
  <1>1. /\ l.step = "inserting" /\ l.work # <<>>
        /\ Imports!ToSet(s) \cap {poison} = {}
        /\ imported' = imported \cup Imports!Orders(s)
        /\ worker' = [worker EXCEPT ![w] =
              Inserting(l, k, c,
                        l.inserted + Imports!Cardinality(Imports!Orders(s) \ imported))]
        /\ UNCHANGED <<file, job, jobs, losses>>
    BY Zenon DEF Imports!Insert, Inserting
  <1>2. /\ l.step \notin {"idle", "found"} /\ l \in Imports!Local
        /\ l.job \in Jobs /\ Whole(l, imported, losses) /\ losses \in Nat
        /\ l.step \in Imports!Importing
    <2>1. l.step \in Imports!Importing
      BY <1>1 DEF Imports!Importing
    <2>2. QED
      BY <2>1, ImporterFacts
  <1>3. /\ l.work \in Seq(Seq(Lines)) /\ l.committed \in Nat /\ l.inserted \in Nat
        /\ l.counts.imported \in Nat
    BY <1>2, LocalFields
  <1>4. s \in Seq(Lines) /\ k \in Seq(Seq(Lines))
    BY <1>1, <1>3
  <1> HIDE DEF l, s
  <1>5. Imports!Orders(s) = OrdersIn(s)
    <2>1. Imports!ToSet(s) = {s[i] : i \in 1..Len(s)}
      <3>1. Imports!ToSet(s) = {s[i] : i \in DOMAIN s}
        BY ImportCounts, Zenon
      <3>2. DOMAIN s = 1..Len(s)
        BY <1>4
      <3>3. QED
        BY <3>1, <3>2, Zenon
    <2>2. Imports!Orders(s) = {OrderIn[x] : x \in Imports!ToSet(s)}
      BY Zenon DEF Imports!Orders, OrderIn
    <2>3. QED
      BY <2>1, <2>2 DEF OrdersIn
  <1>6. /\ imported' = imported \cup OrdersIn(s) /\ worker' = [worker EXCEPT ![w] = m]
    <2>1. Imports!Cardinality(Imports!Orders(s) \ imported) = d
      BY <1>5, ImportCounts, Zenon
    <2>2. QED
      BY <1>1, <1>5, <2>1, Zenon
  <1>7. /\ imported \subseteq Lines /\ d \in Nat /\ d <= Len(s)
        /\ imported' \subseteq Lines
        /\ Cardinality(imported') = Cardinality(imported) + d
    BY <1>4, <1>6, ImportTypes, OrdersInserted
  <1>8. /\ \A i \in 1..Len(s) : s[i] # poison
        /\ \A i \in 1..Len(s) : OrderIn[s[i]] \in imported'
    <2>1. \A i \in 1..Len(s) : s[i] \in Imports!ToSet(s)
      BY <1>4, ImportCounts
    <2>2. QED
      BY <1>1, <1>6, <2>1 DEF OrdersIn
  <1>9. c \in Nat /\ n \in Nat
    <2> DEFINE h == Len(s)
    <2>1. h \in Nat
      BY <1>4
    <2> HIDE DEF h, d
    <2>2. QED
      BY <1>3, <1>7, <2>1 DEF h
  <1> HIDE DEF d, k, c, n
  <1>10. HasInserted(m, l, k, c, n)
    BY <1>2, <1>4, <1>9, LocalInserts, Zenon
  <1>11. /\ m \in Imports!Local /\ m.work = k /\ m.committed = c /\ m.inserted = n
         /\ m.step = l.step /\ m.job = l.job /\ m.pos = l.pos /\ m.counts = l.counts
         /\ m.batch = l.batch /\ m.failed = l.failed
    BY <1>10, Zenon DEF HasInserted
  <1> HIDE DEF m
  <1>12. Whole(m, imported', losses)
    <2>1. /\ m.work = Tail(l.work) /\ m.committed = l.committed + Len(s)
          /\ m.inserted = l.inserted + d
      BY <1>11, Zenon DEF k, c, n
    <2>2. /\ s = Head(l.work) /\ imported \subseteq imported' /\ m.step = "inserting"
          /\ imported \in SUBSET Lines
      BY <1>1, <1>6, <1>7, <1>11 DEF s
    <2>3. /\ m.job = l.job /\ m.pos = l.pos /\ m.counts = l.counts
          /\ m.batch = l.batch /\ m.failed = l.failed
      BY <1>11
    <2>4. /\ l \in Imports!Local /\ l.job \in Jobs /\ losses \in Nat
          /\ Whole(l, imported, losses) /\ l.step = "inserting" /\ l.work # <<>>
          /\ d \in Nat /\ d <= Len(s)
      BY <1>1, <1>2, <1>7
    <2>5. QED
      BY <1>8, <2>1, <2>2, <2>3, <2>4, WholeInserts, Zenon
  <1>13. m.counts.imported + m.inserted = l.counts.imported + l.inserted + d
    BY <1>3, <1>7, <1>11 DEF n
  <1>14. /\ losses' \in {losses, losses + 1} /\ Whole(m, imported', losses')
         /\ m.step = "inserting" /\ imported \subseteq imported'
    BY <1>1, <1>6, <1>11, <1>12
  <1>15. m.step \notin {"idle", "found", "failing", "discarding"}
    BY <1>14
  <1>16. QED
    BY <1>1, <1>2, <1>6, <1>7, <1>11, <1>13, <1>14, <1>15, WorkerGoesOn DEF l

\* The rest of a failing step, once its locals are known.
LEMMA WorkerBisects ==
    ASSUME Imports!ImportInv, NEW w \in Worker, worker[w].step = "inserting",
           NEW m \in Imports!Local, m.step = "inserting", m.job = worker[w].job,
           m.counts = worker[w].counts, m.inserted = worker[w].inserted,
           worker' = [worker EXCEPT ![w] = m],
           UNCHANGED <<file, job, jobs, imported>>,
           losses' \in {losses, losses + 1}, Whole(m, imported, losses')
    PROVE  Imports!ImportInv'
  <1> DEFINE l == worker[w]
  <1>1. l \in Imports!Local /\ l.counts.imported \in Nat /\ l.inserted \in Nat
    BY ImportTypes, LocalFields
  <1>2. m.counts.imported + m.inserted = l.counts.imported + l.inserted + 0
    BY <1>1
  <1>3. /\ l.step \notin {"idle", "found"} /\ l.step \in Imports!Importing \cup {"failing"}
        /\ m.step \notin {"idle", "found", "failing", "discarding"}
    BY DEF Imports!Importing
  <1>4. Whole(m, imported', losses')
    OBVIOUS
  <1>5. /\ job' = job /\ file' = file /\ jobs' = jobs /\ imported' = imported
    OBVIOUS
  <1>6. QED
    BY <1>2, <1>3, <1>4, <1>5, NoneImported, WorkerGoesOn

\* A slice of one line fails.
LEMMA ImportSetsAside ==
    ASSUME Imports!ImportInv, NEW w \in Worker, Imports!InsertFails(w),
           Len(Head(worker[w].work)) = 1
    PROVE  Imports!ImportInv'
  <1> DEFINE l == worker[w]
             s == Head(l.work)
             e == s[1]
             k == Tail(l.work)
             f == Append(l.failed, e)
             m == SettingAside(l, k, f)
  <1>1. /\ l.step = "inserting" /\ l.work # <<>>
        /\ \/ Imports!ToSet(s) \cap {poison} # {} /\ losses' = losses
           \/ losses' = losses + 1
        /\ worker' = [worker EXCEPT ![w] = m]
        /\ UNCHANGED <<file, job, jobs, imported>>
    BY Zenon DEF Imports!InsertFails, Imports!Loses, Imports!Bisect, SettingAside
  <1>2. /\ l.step \notin {"idle", "found"} /\ l \in Imports!Local
        /\ l.job \in Jobs /\ Whole(l, imported, losses) /\ losses \in Nat
        /\ l.step \in Imports!Importing
    <2>1. l.step \in Imports!Importing
      BY <1>1 DEF Imports!Importing
    <2>2. QED
      BY <2>1, ImporterFacts
  <1>3. l.work \in Seq(Seq(Lines)) /\ l.failed \in Seq(Lines)
    BY <1>2, LocalFields
  <1>4. s \in Seq(Lines) /\ k \in Seq(Seq(Lines)) /\ Len(s) = 1
    BY <1>1, <1>3
  <1> HIDE DEF s
  <1>5. e \in Lines
    <2>1. 1 \in 1..Len(s)
      BY <1>4
    <2>2. QED
      BY <1>4, <2>1, ElementOfSeq, Zenon
  <1> HIDE DEF e, l
  <1>6. f \in Seq(Lines)
    BY <1>3, <1>5
  <1>7. (losses' = losses /\ e = poison) \/ losses' = losses + 1
    <2>1. Imports!ToSet(s) = {e}
      <3>1. Imports!ToSet(s) = {s[i] : i \in DOMAIN s}
        BY ImportCounts, Zenon
      <3>2. DOMAIN s = {1}
        BY <1>4
      <3>3. QED
        BY <3>1, <3>2 DEF e
    <2>2. QED
      BY <1>1, <2>1
  <1> HIDE DEF k, f
  <1>8. HasSetAside(m, l, k, f)
    BY <1>2, <1>4, <1>6, LocalSetsAside, Zenon
  <1>9. /\ m \in Imports!Local /\ m.work = k /\ m.failed = f /\ m.step = l.step
        /\ m.job = l.job /\ m.pos = l.pos /\ m.counts = l.counts /\ m.batch = l.batch
        /\ m.committed = l.committed /\ m.inserted = l.inserted
    BY <1>8, Zenon DEF HasSetAside
  <1> HIDE DEF m
  <1>10. Whole(m, imported, losses')
    <2>1. m.work = Tail(l.work) /\ m.failed = Append(l.failed, e)
      BY <1>9, Zenon DEF k, f
    <2>2. s = Head(l.work) /\ e = s[1] /\ m.step = "inserting"
      BY <1>1, <1>9 DEF s, e
    <2>3. QED
      BY <1>1, <1>2, <1>4, <1>5, <1>7, <1>9, <2>1, <2>2, WholeSetsAside
  <1>11. losses' \in {losses, losses + 1} /\ m.step = "inserting"
    BY <1>1, <1>9
  <1>12. QED
    BY <1>1, <1>9, <1>10, <1>11, WorkerBisects DEF l

\* A longer slice fails, and is cut in two.
LEMMA ImportHalves ==
    ASSUME Imports!ImportInv, NEW w \in Worker, Imports!InsertFails(w),
           Len(Head(worker[w].work)) # 1
    PROVE  Imports!ImportInv'
  <1> DEFINE l == worker[w]
             s == Head(l.work)
             half == Len(s) \div 2
             k == <<SubSeq(s, 1, half), SubSeq(s, half + 1, Len(s))>> \o Tail(l.work)
             m == Halving(l, k)
  <1>1. /\ l.step = "inserting" /\ l.work # <<>>
        /\ losses' \in {losses, losses + 1}
        /\ worker' = [worker EXCEPT ![w] = m]
        /\ UNCHANGED <<file, job, jobs, imported>>
    BY Zenon DEF Imports!InsertFails, Imports!Loses, Imports!Bisect, Imports!Halves,
        Halving
  <1>2. /\ l.step \notin {"idle", "found"} /\ l \in Imports!Local
        /\ l.job \in Jobs /\ Whole(l, imported, losses) /\ losses \in Nat
        /\ l.step \in Imports!Importing
    <2>1. l.step \in Imports!Importing
      BY <1>1 DEF Imports!Importing
    <2>2. QED
      BY <2>1, ImporterFacts
  <1>3. l.work \in Seq(Seq(Lines))
    BY <1>2, LocalFields
  <1>4. half \in 0..Len(s)
    <2> DEFINE n == Len(s)
    <2>1. s \in Seq(Lines)
      BY <1>1, <1>3
    <2>2. n \in Nat
      <3> HIDE DEF s
      <3>1. QED
        BY <2>1
    <2> HIDE DEF n, s
    <2>3. n \div 2 \in 0..n
      BY <2>2
    <2>4. QED
      BY <2>3 DEF n
  <1>5. k \in Seq(Seq(Lines)) /\ \A B : OccursIn(k, B) = OccursIn(l.work, B)
    <2>1. ASSUME NEW B
          PROVE  k \in Seq(Seq(Lines)) /\ OccursIn(k, B) = OccursIn(l.work, B)
      <3> HIDE DEF half, l
      <3>1. QED
        BY <1>1, <1>3, <1>4, OccursInHalves, Zenon
    <2>2. QED
      BY <2>1
  <1> HIDE DEF k, l
  <1>6. HasHalved(m, l, k)
    BY <1>2, <1>5, LocalHalves, Zenon
  <1>7. /\ m \in Imports!Local /\ m.work = k /\ m.step = l.step /\ m.job = l.job
        /\ m.pos = l.pos /\ m.counts = l.counts /\ m.batch = l.batch
        /\ m.failed = l.failed /\ m.committed = l.committed /\ m.inserted = l.inserted
    BY <1>6, Zenon DEF HasHalved
  <1> HIDE DEF m
  <1>8. m.step = "inserting" /\ \A B : OccursIn(m.work, B) = OccursIn(l.work, B)
    BY <1>1, <1>5, <1>7
  <1>9. Whole(m, imported, losses)
    BY <1>1, <1>2, <1>7, <1>8, WholeHalves
  <1>10. Whole(m, imported, losses')
    <2>1. losses' \in Nat /\ losses <= losses' /\ m.job \in Jobs
      BY <1>1, <1>2, <1>7
    <2>2. imported \subseteq imported
      OBVIOUS
    <2>3. QED
      BY <1>2, <1>7, <1>9, <2>1, <2>2, WholeStays
  <1>11. QED
    BY <1>1, <1>7, <1>8, <1>10, WorkerBisects DEF l

-----------------------------------------------------------------------------
LEMMA ImportInit ==
    ASSUME Imports!Init
    PROVE  Imports!ImportInv
  <1>1. /\ file = {} /\ job = [j \in Jobs |-> NULL] /\ jobs = <<>> /\ imported = {}
        /\ worker = [w \in Worker |-> Imports!IdleWorker] /\ losses = 0
    BY Zenon DEF Imports!Init, Jobs
  <1>2. /\ \A j \in Jobs : job[j] = NULL
        /\ \A w \in Worker : worker[w] = Imports!IdleWorker /\ worker[w].step = "idle"
    BY <1>1 DEF Imports!IdleWorker
  <1>3. Imports!TypeOK
    <2>1. job \in [Jobs -> Imports!JobRow \cup {NULL}]
      BY <1>1
    <2>2. worker \in [Worker -> Imports!Local]
      BY <1>1, IdleLocal
    <2>3. file \subseteq Jobs /\ imported \subseteq Lines /\ losses \in Nat
      BY <1>1
    <2>4. jobs \in Seq(Jobs)
      BY <1>1
    <2>5. QED
      BY <2>1, <2>2, <2>3, <2>4, Zenon DEF Imports!TypeOK, Jobs
  <1>4. Imports!JobsAreOwned
    <2>1. \A i \in DOMAIN jobs : FALSE
      BY <1>1
    <2>2. \A w \in Worker : ~Imports!Owns(w)
      BY <1>2 DEF Imports!Owns
    <2>3. \A w \in Worker : /\ worker[w].step # "found"
                            /\ worker[w].step \notin Imports!Importing \cup {"failing"}
      BY <1>2 DEF Imports!Importing
    <2>4. QED
      BY <1>2, <2>1, <2>2, <2>3, Zenon DEF Imports!JobsAreOwned, Jobs
  <1>5. \A w \in Worker : worker[w].step \in Imports!Importing
                             => Imports!LinesAccountedFor(worker[w])
    BY <1>2 DEF Imports!Importing
  <1>6. Imports!RowsFollowWorkers
    BY <1>2 DEF Imports!RowsFollowWorkers, Imports!Owns
  <1>7. Imports!ImportsAccountedFor
    <2> DEFINE f == [j \in Jobs |-> CreditIn(job, worker, j)]
    <2>1. \A j \in Jobs : f[j] = 0
      BY <1>2 DEF CreditIn
    <2>2. CreditsIn(job, worker) = SumFunctionOnSet(f, Jobs)
      BY Zenon DEF CreditsIn
    <2>3. IsFiniteSet(Jobs)
      BY ImportParameters
    <2> HIDE DEF f
    <2>4. SumFunctionOnSet(f, Jobs) = 0
      BY <2>1, <2>3, SumZero
    <2>5. Cardinality(imported) = 0
      BY <1>1, FS_EmptySet
    <2>6. AccountedIn(job, worker, imported, losses)
      BY <2>2, <2>4, <2>5 DEF AccountedIn
    <2>7. QED
      BY <2>6, SameAccounts, Zenon
  <1>8. Imports!OnlyBadRowsFail
    BY <1>2, SameCompletions
  <1>9. QED
    BY <1>3, <1>4, <1>5, <1>6, <1>7, <1>8, Zenon DEF Imports!ImportInv

LEMMA ImportNext ==
    ASSUME Imports!ImportInv, Imports!Next
    PROVE  Imports!ImportInv'
  <1>1. ASSUME NEW j \in Jobs,
               Imports!Spool(j) \/ Imports!Enqueue(j) \/ Imports!EnqueueFails(j)
        PROVE  Imports!ImportInv'
    BY <1>1, ImportSpool, ImportEnqueue
  <1>2. ASSUME NEW w \in Worker,
               \/ Imports!Find(w) \/ Imports!Claim(w) \/ Imports!Open(w)
               \/ Imports!ReadRow(w) \/ Imports!LastFlush(w) \/ Imports!Flush(w)
               \/ Imports!Insert(w) \/ Imports!InsertFails(w) \/ Imports!FlushDone(w)
               \/ Imports!Complete(w) \/ Imports!ImportFails(w) \/ Imports!Fail(w)
               \/ Imports!Discard(w) \/ Imports!Crash(w)
        PROVE  Imports!ImportInv'
    BY <1>2, ImportFind, ImportClaim, ImportOpen, ImportReadRow, ImportFlush,
       ImportInsert, ImportSetsAside, ImportHalves, ImportFlushDone, ImportComplete,
       ImportGivesUp, ImportFailed, ImportDiscard
  <1>3. QED
    BY <1>1, <1>2, Zenon DEF Imports!Next, Jobs

\* Nobody else writes the jobs.
LEMMA ImportsAlone ==
    ASSUME [ServicesNext]_lossVars
    PROVE  Imports!Next \/ UNCHANGED importVars
  BY Zenon DEF ServicesNext, lossVars

LEMMA ImportStep ==
    ASSUME Imports!ImportInv, [ServicesNext]_lossVars
    PROVE  Imports!ImportInv'
  <1>1. CASE Imports!Next
    BY <1>1, ImportNext
  <1>2. CASE UNCHANGED importVars
    <2>1. /\ file' = file /\ imported' = imported /\ job' = job /\ worker' = worker
          /\ jobs' = jobs
      BY <1>2, Zenon DEF importVars
    <2>2. losses' \in {losses, losses + 1} /\ file' \subseteq Jobs
      BY <2>1, LossesGrow, ImportTypes
    <2>3. QED
      BY <2>1, <2>2, ImportQuiet
  <1>3. QED
    BY <1>1, <1>2, ImportsAlone

\* Whatever the files have in common and however the workers overlap, every
\* conversion is counted by one job, and a job that completes has imported or
\* skipped every line but those that cannot be (workers/import.worker.ts).
THEOREM ImportsAreAccounted == ServicesSpec => []ImportsAccountedFor
  <1>1. ServicesInit => Imports!ImportInv
    BY ImportInit DEF ServicesInit
  <1>2. Imports!ImportInv /\ [ServicesNext]_lossVars => Imports!ImportInv'
    BY ImportStep
  <1>3. Imports!ImportInv => ImportsAccountedFor
    BY Zenon DEF Imports!ImportInv, ImportsAccountedFor
  <1>4. QED
    BY <1>1, <1>2, <1>3, PTL DEF ServicesSpec, lossVars

-----------------------------------------------------------------------------
(* The shape of every row, list and request, of all services at once. *)

LEMMA IntakeStep ==
    ASSUME IntakeInv, [ServicesNext]_lossVars
    PROVE  IntakeInv'
  <1>1. CASE Next
    BY <1>1, IntakeNext, ServicesAssumption DEF ServicesAssumption
  <1>2. CASE UNCHANGED intakeVars
    <2>1. losses' \in Nat
      BY LossesGrow DEF IntakeInv, TallyInv
    <2>2. /\ campaign' = campaign /\ clicks' = clicks /\ conversion' = conversion
          /\ subscription' = subscription /\ request' = request
          /\ sales' = sales /\ renewals' = renewals
      BY <1>2, Zenon DEF intakeVars
    <2>3. CounterInv'
      BY <2>2 DEF IntakeInv, CounterInv, ShapeInv, MatchInv, BillingInv, PeriodId
    <2>4. AttributionInv' /\ SaleShapeInv' /\ TallyInv'
      BY <2>1, <2>2 DEF IntakeInv, AttributionInv, SaleShapeInv, TallyInv
    <2>5. QED
      BY <2>3, <2>4 DEF IntakeInv
  <1>3. QED
    BY <1>1, <1>2, Zenon DEF ServicesNext, lossVars

ServicesInv ==
    /\ IntakeInv
    /\ Clicks!ClickInv
    /\ Keys!KeyInv
    /\ Imports!ImportInv
    /\ Notes!NoteInv
    /\ Limiter!LimiterInv

\* Whichever handler, worker or script runs, and whatever is lost, every list, row
\* and answer has the shape that those who read it next rely on.
THEOREM ServicesAreTyped == ServicesSpec => []ServicesTypeOK
  <1>1. ServicesInit => ServicesInv
    BY IntakeInit, ClickInit, KeyInit, ImportInit, NoteInit, LimiterInitial, Zenon
    DEF ServicesInit, ServicesInv
  <1>2. ServicesInv /\ [ServicesNext]_lossVars => ServicesInv'
    BY IntakeStep, ClickStep, KeyStep, ImportStep, NoteStep, LimiterStep, Zenon
    DEF ServicesInv
  <1>3. ServicesInv => ServicesTypeOK
    BY IntakeTypes, Zenon
    DEF ServicesInv, ServicesTypeOK, Clicks!ClickInv, Keys!KeyInv, Imports!ImportInv,
        Notes!NoteInv, Limiter!LimiterInv
  <1>4. QED
    BY <1>1, <1>2, <1>3, PTL DEF ServicesSpec, lossVars
===============================================================================
