---------------------------- MODULE ConversionDesk ----------------------------
(***************************************************************************)
(* The page on which a brand reviews and reverses its conversions          *)
(* (brand/conversions/page.tsx), over what review and reverse of           *)
(* conversion.service.ts make of its requests: one dialog whose fields     *)
(* stay when it closes, and answers that come when another one is open.    *)
(***************************************************************************)
EXTENDS Naturals

CONSTANTS
    Conversion,
    Price,      \* conversionValue of each
    Typed,      \* amounts that are typed into the refund field
    Mutation,   \* requests that may overlap
    MaxPresses, \* bound: reversals asked for
    NULL

DeskAssumption ==
    /\ Price \in Nat \ {0}
    /\ Typed \subseteq 1 .. Price
    /\ MaxPresses \in Nat
    /\ NULL \notin Conversion \cup Mutation \cup Nat
    /\ NULL \notin {"approve", "reject", "reverse"}

VARIABLES
    status,     \* per conversion: status of the row
    refunded,   \* per conversion: what reversals have taken of its value
    shown,      \* per conversion: the status the list shows
    dialog,     \* the open dialog: its kind, conversion, and what was sent from it
    reason,     \* the reason field: the dialog it was typed in, or NULL
    refund,     \* the refund field: its amount and the conversion it is of, or NULL
    call,       \* per request: its step and what it asks for
    pending,    \* per useMutation: the request it waits for, or NULL
    asked,      \* per conversion: what the brand asked to be taken of it
    presses,
    lost        \* a request was given up that the server had done, or would do

vars == <<status, refunded, shown, dialog, reason, refund, call, pending, asked,
          presses, lost>>

-----------------------------------------------------------------------------
Hooks == {"review", "reverse"}

Idle == [pc |-> "idle", kind |-> NULL, conversion |-> NULL, reason |-> NULL,
         refund |-> NULL]

Init ==
    /\ status \in [Conversion -> {"PENDING", "APPROVED"}]
    /\ refunded = [c \in Conversion |-> 0]
    /\ shown = status
    /\ dialog = NULL
    /\ reason = NULL
    /\ refund = NULL
    /\ call = [m \in Mutation |-> Idle]
    /\ pending = [hook \in Hooks |-> NULL]
    /\ asked = [c \in Conversion |-> 0]
    /\ presses = 0
    /\ lost = FALSE

\* mutate: a hook waits for the last request it made, and for no other.
Mutate(m, hook, kind, c, typed, amount) ==
    /\ call[m] = Idle
    /\ call' = [call EXCEPT ![m] = [pc |-> "sent", kind |-> kind, conversion |-> c,
                                    reason |-> typed, refund |-> amount]]
    /\ pending' = [pending EXCEPT ![hook] = m]

-----------------------------------------------------------------------------
\* The buttons of a row are those of the status it is shown with, which the
\* row may have no longer. A dialog covers them and does not disable them.

Approve(m, c) ==
    /\ shown[c] = "PENDING"
    /\ Mutate(m, "review", "approve", c, NULL, NULL)
    /\ UNCHANGED <<status, refunded, shown, dialog, reason, refund, asked, presses,
                   lost>>

Open(kind, c) ==
    /\ dialog' = [kind |-> kind, conversion |-> c, pressed |-> NULL]
    /\ reason' = NULL
    /\ UNCHANGED <<status, refunded, shown, call, pending, asked, presses, lost>>

OpenReject(c) ==
    /\ shown[c] = "PENDING"
    /\ Open("reject", c)
    /\ UNCHANGED refund

\* setRefundAmount(''): nothing is left of an earlier dialog.
AsItWas(field) == field
Emptied(field) == NULL

OpenReverse(c) ==
    /\ shown[c] = "APPROVED"
    /\ Open("reverse", c)
    /\ refund' = Emptied(refund)

TypeReason ==
    /\ dialog # NULL
    /\ reason' = [kind |-> dialog.kind, conversion |-> dialog.conversion]
    /\ UNCHANGED <<status, refunded, shown, dialog, refund, call, pending, asked,
                   presses, lost>>

TypeRefund(n) ==
    /\ dialog # NULL /\ dialog.kind = "reverse"
    /\ refund' = [of |-> dialog.conversion, amount |-> n]
    /\ UNCHANGED <<status, refunded, shown, dialog, reason, call, pending, asked,
                   presses, lost>>

Cancel ==
    /\ dialog # NULL
    /\ dialog' = NULL
    /\ UNCHANGED <<status, refunded, shown, reason, refund, call, pending, asked,
                   presses, lost>>

\* The button of the dialog is disabled without a reason, and while a request
\* of either hook is waited for.
AlwaysEnabled == TRUE
Enabled == \A hook \in Hooks : pending[hook] = NULL

Reject(m) ==
    /\ dialog # NULL /\ dialog.kind = "reject"
    /\ reason # NULL /\ Enabled
    /\ Mutate(m, "review", "reject", dialog.conversion, reason, NULL)
    /\ UNCHANGED <<status, refunded, shown, dialog, reason, refund, asked, presses,
                   lost>>

\* A blank field asks for all of it. The same amount from the same dialog once
\* more is the same wish, tried again after it failed.
Amount(field) == IF field = NULL THEN Price ELSE field.amount

Reverse(m) ==
    /\ dialog # NULL /\ dialog.kind = "reverse"
    /\ reason # NULL /\ Enabled
    /\ presses < MaxPresses
    /\ presses' = presses + 1
    /\ LET c == dialog.conversion
           n == Amount(refund) IN
           /\ Mutate(m, "reverse", "reverse", c, reason, refund)
           /\ asked' = [asked EXCEPT ![c] = IF dialog.pressed = n THEN asked[c]
                                            ELSE asked[c] + n]
           /\ dialog' = [dialog EXCEPT !.pressed = n]
    /\ UNCHANGED <<status, refunded, shown, reason, refund, lost>>

-----------------------------------------------------------------------------
\* What the server makes of a request, as it finds the row. It may refuse a
\* reversal for a payout as well.

Left(c) == Price - refunded[c]

\* reverse: no refundAmount means what is left.
Taken(m) ==
    IF call[m].refund = NULL THEN Left(call[m].conversion) ELSE call[m].refund.amount

AllowedAnyAmount(m) ==
    status[call[m].conversion] = IF call[m].kind = "reverse" THEN "APPROVED" ELSE "PENDING"

Allowed(m) ==
    LET c == call[m].conversion IN
        IF call[m].kind = "reverse"
        THEN status[c] = "APPROVED" /\ Taken(m) <= Left(c)
        ELSE status[c] = "PENDING"

\* The writes of review and of reverse. Reversed in full a row is REJECTED.
Write(m) ==
    LET c == call[m].conversion IN
    CASE call[m].kind = "approve" ->
             /\ status' = [status EXCEPT ![c] = "APPROVED"]
             /\ UNCHANGED refunded
      [] call[m].kind = "reject" ->
             /\ status' = [status EXCEPT ![c] = "REJECTED"]
             /\ UNCHANGED refunded
      [] call[m].kind = "reverse" ->
             /\ refunded' = [refunded EXCEPT ![c] = @ + Taken(m)]
             /\ status' = IF Taken(m) = Left(c)
                          THEN [status EXCEPT ![c] = "REJECTED"] ELSE status

Serve(m) ==
    /\ call[m].pc = "sent"
    /\ Allowed(m)
    /\ Write(m)
    /\ call' = [call EXCEPT ![m].pc = "done"]
    /\ UNCHANGED <<shown, dialog, reason, refund, pending, asked, presses, lost>>

Refuse(m) ==
    /\ call[m].pc = "sent"
    /\ ~Allowed(m) \/ call[m].kind = "reverse"
    /\ call' = [call EXCEPT ![m].pc = "refused"]
    /\ UNCHANGED <<status, refunded, shown, dialog, reason, refund, pending, asked,
                   presses, lost>>

\* The request of a hook that waits for a newer one ends unnoticed by isPending.
NoLongerWaited(m) ==
    pending' = [hook \in Hooks |-> IF pending[hook] = m THEN NULL ELSE pending[hook]]

\* onSuccess: the dialog is closed, whichever it is by now, and the list is
\* asked for again.
Success(m) ==
    /\ call[m].pc = "done"
    /\ call' = [call EXCEPT ![m] = Idle]
    /\ NoLongerWaited(m)
    /\ dialog' = NULL
    /\ UNCHANGED <<status, refunded, shown, reason, refund, asked, presses, lost>>

\* onError: the dialog stays, with what was typed.
Error(m) ==
    /\ call[m].pc = "refused"
    /\ call' = [call EXCEPT ![m] = Idle]
    /\ NoLongerWaited(m)
    /\ UNCHANGED <<status, refunded, shown, dialog, reason, refund, asked, presses,
                   lost>>

\* The same, of an answer that is lost or a connection that breaks: the server
\* has done it, or does it after all.
Lose(m) ==
    /\ \/ call[m].pc = "done" /\ call' = [call EXCEPT ![m] = Idle]
       \/ call[m].pc = "sent" /\ call' = [call EXCEPT ![m].pc = "late"]
    /\ NoLongerWaited(m)
    /\ lost' = TRUE
    /\ UNCHANGED <<status, refunded, shown, dialog, reason, refund, asked, presses>>

ServeLate(m) ==
    /\ call[m].pc = "late"
    /\ IF Allowed(m) THEN Write(m) ELSE UNCHANGED <<status, refunded>>
    /\ call' = [call EXCEPT ![m] = Idle]
    /\ UNCHANGED <<shown, dialog, reason, refund, pending, asked, presses, lost>>

\* The list comes, after a success or by itself.
List ==
    /\ shown # status
    /\ shown' = status
    /\ UNCHANGED <<status, refunded, dialog, reason, refund, call, pending, asked,
                   presses, lost>>

-----------------------------------------------------------------------------
Next ==
    \/ \E c \in Conversion : OpenReject(c) \/ OpenReverse(c)
    \/ TypeReason \/ Cancel \/ List
    \/ \E n \in Typed : TypeRefund(n)
    \/ \E m \in Mutation :
           \/ \E c \in Conversion : Approve(m, c)
           \/ Reject(m) \/ Reverse(m)
           \/ Serve(m) \/ Refuse(m) \/ Success(m) \/ Error(m) \/ Lose(m) \/ ServeLate(m)

Spec == Init /\ [][Next]_vars

-----------------------------------------------------------------------------
\* Types, over the state of the page and the rows behind it.
TypeOK ==
    /\ status \in [Conversion -> {"PENDING", "APPROVED", "REJECTED"}]
    /\ refunded \in [Conversion -> 0 .. Price]
    /\ shown \in [Conversion -> {"PENDING", "APPROVED", "REJECTED"}]
    /\ reason \in [kind : {"reject", "reverse"}, conversion : Conversion] \cup {NULL}
    /\ refund \in [of : Conversion, amount : Typed] \cup {NULL}
    /\ \A m \in Mutation : call[m].pc \in {"idle", "sent", "done", "refused", "late"}
    /\ pending \in [Hooks -> Mutation \cup {NULL}]

\* What a conversion is rejected or reversed with was typed for it: the fields
\* are shared by all dialogs, and no reason or amount of another conversion is
\* sent, however dialogs are opened, left and closed by answers (page.tsx).
SentAsTyped ==
    \A m \in Mutation :
        call[m].kind \in {"reject", "reverse"} =>
            /\ call[m].reason = [kind |-> call[m].kind,
                                 conversion |-> call[m].conversion]
            /\ call[m].refund # NULL => call[m].refund.of = call[m].conversion

\* A reversal that is asked for once is taken once ...
TakenOnce == \A c \in Conversion : refunded[c] <= asked[c]

\* ... unless the answer to one was lost: whatever overlaps, no button of the
\* page sends a second one before the first was answered (page.tsx isPending,
\* conversion.service.ts reverse).
TakenAsAsked == lost \/ TakenOnce

-----------------------------------------------------------------------------
\* What the proof of the two carries along: the fields are of the open dialog,
\* Open having emptied them ...
FilledReason == [kind : {"reject", "reverse"}, conversion : Conversion]
FilledRefund == [of : Conversion, amount : Typed]

DialogInv ==
    /\ dialog \in [kind : {"reject", "reverse"}, conversion : Conversion,
                   pressed : Typed \cup {Price, NULL}] \cup {NULL}
    /\ dialog # NULL /\ reason # NULL =>
           reason = [kind |-> dialog.kind, conversion |-> dialog.conversion]
    /\ dialog # NULL /\ dialog.kind = "reverse" /\ refund # NULL =>
           refund.of = dialog.conversion

CallInv ==
    /\ call \in [Mutation -> [pc : {"idle", "sent", "done", "refused", "late"},
                             kind : {"approve", "reject", "reverse", NULL},
                             conversion : Conversion \cup {NULL},
                             reason : FilledReason \cup {NULL},
                             refund : FilledRefund \cup {NULL}]]
    /\ \A m \in Mutation : call[m].kind # NULL => call[m].conversion \in Conversion
    /\ \A m \in Mutation : call[m].pc # "idle" => call[m].kind # NULL

\* ... a reversal is the one that is waited for, and until it has been taken
\* there is room for it in what was asked, or again for the open dialog's.
RoomInv ==
    /\ \A m \in Mutation :
           /\ call[m].pc # "late"
           /\ call[m].kind = "reverse" => pending["reverse"] = m
           /\ call[m].kind = "reverse" /\ call[m].pc \in {"sent", "refused"} =>
                  refunded[call[m].conversion] + Amount(call[m].refund)
                      <= asked[call[m].conversion]
    /\ dialog # NULL /\ dialog.pressed # NULL =>
           \/ refunded[dialog.conversion] + dialog.pressed <= asked[dialog.conversion]
           \/ \E m \in Mutation : call[m].kind = "reverse" /\ call[m].pc = "done"

DeskInv ==
    /\ TypeOK
    /\ asked \in [Conversion -> Nat]
    /\ DialogInv
    /\ CallInv
    /\ SentAsTyped
    /\ lost \/ (TakenOnce /\ RoomInv)
=============================================================================
