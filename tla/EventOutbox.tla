---------------------------- MODULE EventOutbox ----------------------------
(***************************************************************************)
(* What an outbox promises, message by message: a message that is owed     *)
(* stays owed until its receiver has it or the sender has given up, and it *)
(* is never marked delivered before the receiver has it.  The receiver may *)
(* get it more than once.  A message given up on may be owed again, and    *)
(* messages are deleted with their receiver.                               *)
(***************************************************************************)
CONSTANTS Message

VARIABLES
    status,     \* of each message
    received    \* messages their receiver has got at least once

outboxVars == <<status, received>>

Init ==
    /\ status = [m \in Message |-> "NONE"]
    /\ received = {}

\* One transaction owes any number of messages.
Owe == \E S \in SUBSET Message :
    /\ \A m \in S : status[m] = "NONE"
    /\ status' = [m \in Message |-> IF m \in S THEN "PENDING" ELSE status[m]]
    /\ UNCHANGED received

Receive(m) ==
    /\ status[m] # "NONE"
    /\ received' = received \cup {m}
    /\ UNCHANGED status

Deliver(m) ==
    /\ status[m] = "PENDING"
    /\ m \in received
    /\ status' = [status EXCEPT ![m] = "DELIVERED"]
    /\ UNCHANGED received

GiveUp == \E S \in SUBSET Message :
    /\ \A m \in S : status[m] = "PENDING"
    /\ status' = [m \in Message |-> IF m \in S THEN "FAILED" ELSE status[m]]
    /\ UNCHANGED received

Replay(m) ==
    /\ status[m] = "FAILED"
    /\ status' = [status EXCEPT ![m] = "PENDING"]
    /\ UNCHANGED received

Delete == \E S \in SUBSET Message :
    /\ status' = [m \in Message |-> IF m \in S THEN "DELETED" ELSE status[m]]
    /\ UNCHANGED received

Next ==
    \/ Owe
    \/ Delete
    \/ GiveUp
    \/ \E m \in Message : Receive(m) \/ Deliver(m) \/ Replay(m)

Spec == Init /\ [][Next]_outboxVars
=============================================================================
