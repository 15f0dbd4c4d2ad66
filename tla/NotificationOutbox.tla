------------------------- MODULE NotificationOutbox --------------------------
(***************************************************************************)
(* Notifications: rows written in the transaction that causes them, which  *)
(* a worker under a lease sends one after another.  Preferences are looked *)
(* up when a notification is about to be sent; a mandatory type has none.  *)
(***************************************************************************)
EXTENDS Integers, FiniteSets, Functions, SchedulerLease

CONSTANTS
    Note,           \* notifications
    Optional,       \* those of a type that its user may switch off
    MaxAttempts,    \* MAX_ATTEMPTS
    Limit,          \* rows a pass reads
    MaxLosses       \* bound on crashes, lost leases and failing statements

NoteAssumption ==
    /\ IsFiniteSet(Instance)
    /\ NULL \notin Instance \cup Note
    /\ Optional \subseteq Note
    /\ MaxAttempts \in Nat \ {0}
    /\ Limit \in Nat \ {0}
    /\ MaxLosses \in Nat

VARIABLES
    createdAt,      \* of the rows: the first is created at 1, the next at 2
    status,
    attempts,
    suppressed,     \* rows whose lastError is the preference
    optedOut,       \* notifications whose type is switched off
    backedOff,      \* rows tried before whose next attempt is not due
    pass,           \* what each process is delivering
    tries,          \* history: sends of each notification
    received,       \* history: notifications that were sent
    everOff,        \* history: notifications whose type was once switched off
    overlaps,       \* history: leases lost by a pass at work
    losses

rowVars == <<createdAt, status, attempts, suppressed>>
sentVars == <<tries, received>>
faultVars == <<overlaps, losses>>
vars == <<lease, rowVars, optedOut, backedOff, pass, tries, received, everOff,
          overlaps, losses>>

IdlePass == [step |-> "idle", todo |-> {}, at |-> NULL, read |-> [n \in Note |-> 0]]

\* A pass has rows of its batch left, is at one of them, and has read what
\* their attempts were.
Pass ==
    [step : {"idle", "checking", "sending", "sent", "failed"},
     todo : SUBSET Note, at : Note \cup {NULL},
     read : [Note -> 0..MaxAttempts]]

TypeOK ==
    /\ LeaseTypeOK
    /\ createdAt \in [Note -> Nat]
    /\ status \in [Note -> {"NONE", "PENDING", "SENT", "FAILED"}]
    /\ attempts \in [Note -> 0..MaxAttempts]
    /\ suppressed \subseteq Note
    /\ optedOut \subseteq Optional
    /\ backedOff \subseteq Note
    /\ pass \in [Instance -> Pass]
    /\ tries \in [Note -> Nat]
    /\ received \subseteq Note
    /\ everOff \subseteq Optional
    /\ overlaps \in Nat
    /\ losses \in Nat

Init ==
    /\ LeaseInit
    /\ createdAt = [n \in Note |-> 0]
    /\ status = [n \in Note |-> "NONE"]
    /\ attempts = [n \in Note |-> 0]
    /\ suppressed = {}
    /\ optedOut = {}
    /\ backedOff = {}
    /\ pass = [i \in Instance |-> IdlePass]
    /\ tries = [n \in Note |-> 0]
    /\ received = {}
    /\ everOff = {}
    /\ overlaps = 0
    /\ losses = 0

Loses == losses < MaxLosses /\ losses' = losses + 1

-----------------------------------------------------------------------------
\* enqueueNotification, in its caller's transaction.
Enqueue(n) ==
    /\ status[n] = "NONE"
    /\ status' = [status EXCEPT ![n] = "PENDING"]
    /\ createdAt' = [createdAt EXCEPT ![n] =
          1 + Cardinality({m \in Note : status[m] # "NONE"})]
    /\ UNCHANGED <<lease, attempts, suppressed, optedOut, backedOff, pass,
                   sentVars, everOff, faultVars>>

\* Mutant: a mandatory type is switched off as well.
SwitchAnyOff(n) ==
    /\ optedOut' = optedOut \cup {n}
    /\ everOff' = everOff \cup ({n} \cap Optional)
    /\ UNCHANGED <<lease, rowVars, backedOff, pass, sentVars, faultVars>>

\* setPreference refuses to switch a mandatory type off.
SwitchOff(n) ==
    /\ n \in Optional
    /\ optedOut' = optedOut \cup {n}
    /\ everOff' = everOff \cup {n}
    /\ UNCHANGED <<lease, rowVars, backedOff, pass, sentVars, faultVars>>

SwitchOn(n) ==
    /\ n \in optedOut
    /\ optedOut' = optedOut \ {n}
    /\ UNCHANGED <<lease, rowVars, backedOff, pass, sentVars, everOff,
                   faultVars>>

\* nextAttemptDue comes.
BackoffEnds(n) ==
    /\ n \in backedOff
    /\ backedOff' = backedOff \ {n}
    /\ UNCHANGED <<lease, rowVars, optedOut, pass, sentVars, everOff,
                   faultVars>>

\* The lease is renewed while its holder works, unless the renewals fail.
LeaseLapses ==
    /\ Lapse
    /\ IF pass[lease] = IdlePass THEN UNCHANGED <<faultVars>>
       ELSE overlaps' = overlaps + 1 /\ Loses
    /\ UNCHANGED <<rowVars, optedOut, backedOff, pass, sentVars, everOff>>

-----------------------------------------------------------------------------
\* deliverPending.

\* The oldest rows that are PENDING; those that back off fill the batch too.
Batch ==
    LET pending == {n \in Note : status[n] = "PENDING"}
    IN  {n \in pending :
            Cardinality({m \in pending : createdAt[m] < createdAt[n]}) < Limit}

Begin(i) ==
    /\ pass[i] = IdlePass
    /\ Acquire(i)
    /\ pass' = [pass EXCEPT ![i] =
          [step |-> "checking", todo |-> Batch \ backedOff, at |-> NULL,
           read |-> attempts]]
    /\ UNCHANGED <<rowVars, optedOut, backedOff, sentVars, everOff,
                   faultVars>>

Step(i, step) == pass' = [pass EXCEPT ![i].step = step]
DoneWith(i, n) ==
    pass' = [pass EXCEPT ![i].step = "checking", ![i].todo = @ \ {n},
                         ![i].at = NULL]

\* The rows of a batch are tried one after another, the oldest first.
Oldest(notes) == {n \in notes : \A m \in notes : createdAt[n] <= createdAt[m]}

\* The preference is looked up: a notification that is not wanted is done.
CheckPreference(i) ==
    /\ pass[i].step = "checking"
    /\ \E n \in Oldest(pass[i].todo) :
          IF n \in optedOut
          THEN /\ status' = [status EXCEPT ![n] = "SENT"]
               /\ suppressed' = suppressed \cup {n}
               /\ DoneWith(i, n)
          ELSE /\ pass' = [pass EXCEPT ![i].step = "sending", ![i].at = n]
               /\ UNCHANGED <<status, suppressed>>
    /\ UNCHANGED <<lease, createdAt, attempts, optedOut, backedOff, sentVars,
                   everOff, faultVars>>

\* The provider takes the notification, or throws.
Send(i) ==
    LET n == pass[i].at
    IN
    /\ pass[i].step = "sending"
    /\ tries' = [tries EXCEPT ![n] = @ + 1]
    /\ \/ Step(i, "sent") /\ received' = received \cup {n}
       \/ Step(i, "failed") /\ UNCHANGED received
    /\ UNCHANGED <<lease, rowVars, optedOut, backedOff, everOff, faultVars>>

MarkSent(i) ==
    LET n == pass[i].at
    IN
    /\ pass[i].step = "sent"
    /\ status' = [status EXCEPT ![n] = "SENT"]
    /\ DoneWith(i, n)
    /\ UNCHANGED <<lease, createdAt, attempts, suppressed, optedOut, backedOff,
                   sentVars, everOff, faultVars>>

\* That update throws inside the same try.
MarkSentFails(i) ==
    /\ pass[i].step = "sent"
    /\ Loses
    /\ Step(i, "failed")
    /\ UNCHANGED <<lease, rowVars, optedOut, backedOff, sentVars, everOff,
                   overlaps>>

Counted(i) == pass[i].read[pass[i].at] + 1

\* The catch.  The backoff counts from the creation: an old row is due at once.
RecordFailure(i) ==
    LET n == pass[i].at
    IN
    /\ pass[i].step = "failed"
    /\ attempts' = [attempts EXCEPT ![n] = Counted(i)]
    /\ status' = [status EXCEPT ![n] =
          IF Counted(i) >= MaxAttempts THEN "FAILED" ELSE "PENDING"]
    /\ backedOff' \in {backedOff, backedOff \cup {n}}
    /\ DoneWith(i, n)
    /\ UNCHANGED <<lease, createdAt, suppressed, optedOut, sentVars, everOff,
                   faultVars>>

\* The pass is over, or a query outside the try throws.
End(i) ==
    /\ \/ pass[i].step = "checking" /\ pass[i].todo = {} /\ UNCHANGED losses
       \/ pass[i].step \in {"checking", "failed"} /\ Loses
    /\ pass' = [pass EXCEPT ![i] = IdlePass]
    /\ Release(i) \/ ReleaseFails
    /\ UNCHANGED <<rowVars, optedOut, backedOff, sentVars, everOff, overlaps>>

\* The process dies; its lease stays until it lapses.
Crash(i) ==
    /\ pass[i] # IdlePass
    /\ Loses
    /\ pass' = [pass EXCEPT ![i] = IdlePass]
    /\ UNCHANGED <<lease, rowVars, optedOut, backedOff, sentVars, everOff,
                   overlaps>>

-----------------------------------------------------------------------------
Next ==
    \/ \E n \in Note :
          Enqueue(n) \/ SwitchOff(n) \/ SwitchOn(n) \/ BackoffEnds(n)
    \/ LeaseLapses
    \/ \E i \in Instance :
          \/ Begin(i) \/ CheckPreference(i) \/ Send(i) \/ MarkSent(i)
          \/ MarkSentFails(i) \/ RecordFailure(i) \/ End(i) \/ Crash(i)

Spec == Init /\ [][Next]_vars

-----------------------------------------------------------------------------
\* A notification is tried MAX_ATTEMPTS times, and once more for each crash or
\* failing statement.  Only a pass that has lost its lease can do worse: what it
\* read is stale, and it sets the attempts back when it records a failure.
TriesAreBounded ==
    \A n \in Note : tries[n] <= MaxAttempts * (1 + overlaps) + losses

\* What is marked SENT was sent, unless its user did not want it; what is given
\* up on was tried that often.
SentMeansReceived ==
    \A n \in Note :
        /\ status[n] = "SENT" => n \in received \cup everOff
        /\ status[n] = "FAILED" => tries[n] >= MaxAttempts

-----------------------------------------------------------------------------
\* The invariants that the proofs in ServicesProofs use.

\* A pass that is not idle works on the rows it has left, and read what they
\* were before the limit.
PassInv ==
    \A i \in Instance :
        /\ pass[i].step \in {"sending", "sent", "failed"} =>
              pass[i].at \in pass[i].todo
        /\ \A n \in pass[i].todo : pass[i].read[n] < MaxAttempts

\* The pass has sent the notification, and has not recorded what came of it.
Unrecorded(i, n) ==
    pass[i].step \in {"sent", "failed"} /\ pass[i].at = n

\* SentMeansReceived, and what a pass knows before it marks a row.
SentInv ==
    /\ SentMeansReceived
    /\ optedOut \subseteq everOff
    /\ \A n \in Note : attempts[n] <= tries[n]
    /\ \A i \in Instance :
          /\ pass[i].step = "sent" => pass[i].at \in received
          /\ \A n \in pass[i].todo :
                pass[i].read[n] + (IF Unrecorded(i, n) THEN 1 ELSE 0) <= tries[n]

\* What a pass without the lease may still spend on a notification, of the
\* MaxAttempts that were set aside when it lost it.
Allowance(n) ==
    [i \in Instance |->
        IF lease = i \/ n \notin pass[i].todo THEN 0
        ELSE IF Unrecorded(i, n) THEN MaxAttempts - 1
        ELSE MaxAttempts]

Owed(n) == SumFunctionOnSet(Allowance(n), Instance)

\* The tries that neither the counter nor the limit accounts for.
Budget == MaxAttempts * overlaps + losses

\* Tries and what is owed stay within the limit and the budget.  While a row is
\* PENDING they are within its counter, and while the pass with the lease has it
\* to do, within the counter that this pass has read and is about to write.
Within(n) ==
    LET spent == tries[n] + Owed(n)
        sent == IF lease # NULL /\ Unrecorded(lease, n) THEN 1 ELSE 0
    IN
    /\ spent <= MaxAttempts + Budget
    /\ status[n] \in {"NONE", "PENDING"} =>
          attempts[n] < MaxAttempts /\ spent <= attempts[n] + sent + Budget
    /\ lease # NULL /\ n \in pass[lease].todo =>
          spent <= pass[lease].read[n] + sent + Budget

BudgetInv == \A n \in Note : Within(n)

\* However many notifications there may be, the rows can be counted.
Rows == {n \in Note : status[n] # "NONE"}

NoteInv == TypeOK /\ IsFiniteSet(Rows) /\ PassInv /\ SentInv /\ BudgetInv
=============================================================================
