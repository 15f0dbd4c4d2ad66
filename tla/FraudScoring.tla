---------------------------- MODULE FraudScoring ----------------------------
(***************************************************************************)
(* The scoring of conversions: fraud.service.ts, as the report of a sale   *)
(* in conversion.service.ts calls it. A sale's conversions are committed   *)
(* together and scored afterwards, each by its own queries, alongside each *)
(* other and alongside other sales, and nothing scores them again.         *)
(***************************************************************************)
EXTENDS Naturals, FiniteSets, Functions

CONSTANTS
    Sale, Cookie,
    Affiliate,      \* LINEAR makes a conversion per affiliate with a click
    Day,            \* 24 hours, in ticks
    MaxTime,        \* bound: ticks
    MaxConversions, \* bound: conversions
    Latencies,      \* from click to sale, in milliseconds
    HIGH_RISK_THRESHOLD,
    NULL

Committed == [cookie : Cookie, at : Nat]
Reviews == [riskScore : Nat, decision : {"PENDING", "FLAGGED"}]

FraudAssumption ==
    /\ {Day, MaxTime, MaxConversions, HIGH_RISK_THRESHOLD} \subseteq Nat
    /\ Latencies \subseteq Nat
    /\ NULL \notin Nat \cup Committed \cup Reviews

Conversion == Sale \X Affiliate

VARIABLES
    now,
    row,        \* per conversion: its cookie and createdAt, NULL before commit
    scoring,    \* per conversion: the next rule, "done" or "died"
    counted,    \* per conversion: when rule 3 counted, NULL before
    signals,    \* per conversion: the rules that spoke
    review      \* per conversion: its FraudReview, NULL for none

vars == <<now, row, scoring, counted, signals, review>>

Init ==
    /\ now = 0
    /\ row = [c \in Conversion |-> NULL]
    /\ scoring = [c \in Conversion |-> "none"]
    /\ counted = [c \in Conversion |-> NULL]
    /\ signals = [c \in Conversion |-> {}]
    /\ review = [c \in Conversion |-> NULL]

-----------------------------------------------------------------------------
Signal(rule, score) == [rule |-> rule, score |-> score]

\* Rule 1, in milliseconds from the last click.
lowLatency(latency) ==
    CASE latency < 5000                       -> {Signal("low_latency", 40)}
      [] latency >= 5000 /\ latency < 60000   -> {Signal("low_latency", 20)}
      [] OTHER                                -> {}

\* Rule 2, of the clicks and addresses of one cookie in one query.
concentration(clicks, ips) ==
    IF clicks > 5 /\ ips <= 1 THEN {Signal("cookie_ip_concentration", 30)} ELSE {}

\* Rule 3: the cookie's other conversions of the last day.
Earlier(c) ==
    {d \in Conversion : /\ row[d] # NULL
                        /\ row[d].cookie = row[c].cookie
                        /\ row[d].at + Day >= now
                        /\ row[d].at < row[c].at}
Others(c) ==
    {d \in Conversion \ {c} : /\ row[d] # NULL
                              /\ row[d].cookie = row[c].cookie
                              /\ row[d].at + Day >= now}

duplicates(c) ==
    IF Others(c) # {} THEN {Signal("duplicate_cookie", 30)} ELSE {}

riskScore(found) ==
    LET total == SumFunctionOnSet([s \in found |-> s.score], found) IN
        IF total > 100 THEN 100 ELSE total

-----------------------------------------------------------------------------
\* report: the conversions of a sale are committed in one transaction, one per
\* affiliate the sale is shared among.
Report(sale) ==
    /\ \A a \in Affiliate : row[<<sale, a>>] = NULL
    /\ \E cookie \in Cookie, shares \in SUBSET Affiliate \ {{}} :
           LET made == {<<sale, a>> : a \in shares} IN
               /\ Cardinality({c \in Conversion : row[c] # NULL} \cup made)
                      <= MaxConversions
               /\ row' = [c \in Conversion |->
                             IF c \in made THEN [cookie |-> cookie, at |-> now]
                             ELSE row[c]]
               /\ scoring' = [c \in Conversion |->
                                 IF c \in made THEN "latency" ELSE scoring[c]]
    /\ UNCHANGED <<now, counted, signals, review>>

Speak(c, found, next) ==
    /\ signals' = [signals EXCEPT ![c] = @ \cup found]
    /\ scoring' = [scoring EXCEPT ![c] = next]

ScoreLatency(c) ==
    /\ scoring[c] = "latency"
    /\ \E latency \in Latencies : Speak(c, lowLatency(latency), "clicks")
    /\ UNCHANGED <<now, row, counted, review>>

ScoreClicks(c) ==
    /\ scoring[c] = "clicks"
    /\ \E clicks \in {5, 6}, ips \in {1, 2} :
           Speak(c, concentration(clicks, ips), "duplicates")
    /\ UNCHANGED <<now, row, counted, review>>

ScoreDuplicates(c) ==
    /\ scoring[c] = "duplicates"
    /\ Speak(c, duplicates(c), "write")
    /\ counted' = [counted EXCEPT ![c] = now]
    /\ UNCHANGED <<now, row, review>>

\* evaluate: without a signal there is no review.
Evaluate(c) ==
    /\ scoring[c] = "write"
    /\ review' = IF signals[c] = {} THEN review
                 ELSE [review EXCEPT ![c] =
                          [riskScore |-> riskScore(signals[c]),
                           decision |-> IF riskScore(signals[c]) >= HIGH_RISK_THRESHOLD
                                        THEN "FLAGGED" ELSE "PENDING"]]
    /\ scoring' = [scoring EXCEPT ![c] = "done"]
    /\ UNCHANGED <<now, row, counted, signals>>

\* A query fails, or the process stops: the conversion stays, unscored.
Dies(c) ==
    /\ scoring[c] \notin {"none", "done", "died"}
    /\ scoring' = [scoring EXCEPT ![c] = "died"]
    /\ UNCHANGED <<now, row, counted, signals, review>>

Tick ==
    /\ now < MaxTime
    /\ now' = now + 1
    /\ UNCHANGED <<row, scoring, counted, signals, review>>

Next ==
    \/ \E sale \in Sale : Report(sale)
    \/ \E c \in Conversion :
           \/ ScoreLatency(c) \/ ScoreClicks(c) \/ ScoreDuplicates(c)
           \/ Evaluate(c) \/ Dies(c)
    \/ Tick

Spec == Init /\ [][Next]_vars

-----------------------------------------------------------------------------
\* Types, over fraud.service.ts.
TypeOK ==
    /\ now \in 0..MaxTime
    /\ \A c \in Conversion :
           /\ row[c] \in [cookie : Cookie, at : 0..MaxTime] \cup {NULL}
           /\ scoring[c] \in {"none", "latency", "clicks", "duplicates", "write",
                              "done", "died"}
           /\ counted[c] \in 0..MaxTime \cup {NULL}
           /\ review[c] \in [riskScore : 1..100, decision : {"PENDING", "FLAGGED"}]
                            \cup {NULL}

\* A cookie that converts twice within a day is seen by a person, however the
\* scoring of the two is interleaved: one of them at least gets a review that
\* counts it, unless its scoring died (fraud.service.ts rule 3).
DuplicateIsSeen ==
    \A c, d \in Conversion :
        /\ c # d
        /\ scoring[c] = "done" /\ scoring[d] = "done"
        /\ row[c].cookie = row[d].cookie
        /\ \A e, f \in {c, d} : row[e].at + Day >= counted[f]
        => \E e \in {c, d} : /\ review[e] # NULL
                             /\ review[e].riskScore >= 30
                             /\ Signal("duplicate_cookie", 30) \in signals[e]

-----------------------------------------------------------------------------
\* What the proof of it carries along: a conversion counts once, after its
\* commit, and of two that have counted the later one counted the other ...
Signals == {Signal("low_latency", 40), Signal("low_latency", 20),
            Signal("cookie_ip_concentration", 30), Signal("duplicate_cookie", 30)}

ScoringInv ==
    /\ now \in Nat
    /\ row \in [Conversion -> Committed \cup {NULL}]
    /\ scoring \in [Conversion -> {"none", "latency", "clicks", "duplicates",
                                   "write", "done", "died"}]
    /\ counted \in [Conversion -> Nat \cup {NULL}]
    /\ signals \in [Conversion -> SUBSET Signals]
    /\ review \in [Conversion -> Reviews \cup {NULL}]
    /\ \A c \in Conversion :
           /\ scoring[c] # "none" => row[c] # NULL
           /\ counted[c] # NULL => scoring[c] \in {"write", "done", "died"}
           /\ scoring[c] \in {"write", "done"} => counted[c] # NULL

CountedInv ==
    \A c, d \in Conversion :
        /\ c # d
        /\ counted[c] # NULL /\ counted[d] # NULL
        /\ row[c].cookie = row[d].cookie
        /\ \A e, f \in {c, d} : row[e].at + Day >= counted[f]
        => \E e \in {c, d} : Signal("duplicate_cookie", 30) \in signals[e]

\* ... and what it found was written.
ReviewInv ==
    \A c \in Conversion :
        scoring[c] = "done" /\ signals[c] # {} =>
            review[c] # NULL /\ review[c].riskScore = riskScore(signals[c])

FraudInv == ScoringInv /\ CountedInv /\ ReviewInv
=============================================================================
