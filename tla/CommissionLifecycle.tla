------------------------ MODULE CommissionLifecycle ------------------------
(***************************************************************************)
(* What the platform promises about a commission: it is earned locked,     *)
(* becomes payable, is committed to a payout together with everything else *)
(* its affiliate is owed, and is then either paid or owed again.  A        *)
(* commission in REJECTED, CLAWED_BACK or PAID stays there, and a payout   *)
(* takes commissions once, when it is created.                             *)
(***************************************************************************)
CONSTANTS Conversion, Affiliate, AffiliateOf, Payout, NULL

VARIABLES
    status,     \* status of the commission of each conversion
    owner,      \* the payout it is attached to
    created     \* payouts created so far

vars == <<status, owner, created>>

Init ==
    /\ status = [c \in Conversion |-> "NONE"]
    /\ owner = [c \in Conversion |-> NULL]
    /\ created = {}

\* The commissions in S move to status s.
Move(S, s) ==
    status' = [c \in Conversion |-> IF c \in S THEN s ELSE status[c]]

Attach(S, p) ==
    owner' = [c \in Conversion |-> IF c \in S THEN p ELSE owner[c]]

Earn(c) ==
    /\ status[c] = "NONE"
    /\ Move({c}, "LOCKED")
    /\ UNCHANGED <<owner, created>>

Unlock(S) ==
    /\ \A c \in S : status[c] = "LOCKED"
    /\ Move(S, "APPROVED")
    /\ UNCHANGED <<owner, created>>

Reject(c) ==
    /\ status[c] = "LOCKED"
    /\ Move({c}, "REJECTED")
    /\ UNCHANGED <<owner, created>>

ClawBack(c) ==
    /\ status[c] \in {"LOCKED", "APPROVED"}
    /\ Move({c}, "CLAWED_BACK")
    /\ UNCHANGED <<owner, created>>

\* A new payout takes all its affiliate is owed.
Include(p, a) ==
    LET owed == {c \in Conversion :
                    AffiliateOf[c] = a /\ status[c] = "APPROVED"}
    IN
    /\ p \notin created
    /\ owed # {}
    /\ Move(owed, "INCLUDED_IN_PAYOUT")
    /\ Attach(owed, p)
    /\ created' = created \cup {p}

Included(p) ==
    {c \in Conversion : owner[c] = p /\ status[c] = "INCLUDED_IN_PAYOUT"}

Settle(p) ==
    /\ Move(Included(p), "PAID")
    /\ UNCHANGED <<owner, created>>

Release(p) ==
    /\ Move(Included(p), "APPROVED")
    /\ Attach(Included(p), NULL)
    /\ UNCHANGED created

Next ==
    \/ \E c \in Conversion : Earn(c) \/ Reject(c) \/ ClawBack(c)
    \/ \E S \in SUBSET Conversion : Unlock(S)
    \/ \E p \in Payout : \/ \E a \in Affiliate : Include(p, a)
                         \/ Settle(p)
                         \/ Release(p)

Spec == Init /\ [][Next]_vars
=============================================================================
