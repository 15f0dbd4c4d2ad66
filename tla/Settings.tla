------------------------------- MODULE Settings -------------------------------
(***************************************************************************)
(* The settings of an affiliate: profile.service.ts behind the form of     *)
(* SettingsForm.tsx. The form is filled from a query of the profile, which *)
(* is asked for again after every save; the answer replaces what stands in *)
(* the form, and may be older than what was saved elsewhere since.         *)
(***************************************************************************)
EXTENDS FiniteSets

CONSTANTS
    Bio,        \* what an affiliate may say of itself
    NULL

SettingsAssumption == NULL \notin Bio

Method == {"paypal", "stripe_connect", "manual"}

VARIABLES
    user,       \* the row: its bio, its method, details per method
    form,       \* what the tab shows: bio, method, and a value for the method
    profile,    \* the query's data, NULL before the first answer
    query,      \* the running query: whether it was answered, and with what
    saving,     \* per mutation of the form: whether it is sent or answered
    request,    \* a payout request: NULL or the method that was checked
    payout      \* the last payout's method, and whose details had been there

vars == <<user, form, profile, query, saving, request, payout>>

-----------------------------------------------------------------------------
NoQuery == [pc |-> "none", data |-> NULL]
Asked == [pc |-> "asked", data |-> NULL]
NotSaving == [pc |-> "none", method |-> NULL, value |-> NULL]
Nothing == [m \in Method |-> NULL]

Init ==
    /\ \E b \in Bio : user = [bio |-> b, method |-> NULL, details |-> Nothing]
    /\ form = [bio |-> NULL, method |-> "paypal", value |-> NULL]
    /\ profile = NULL
    /\ query = Asked
    /\ saving = [bio |-> NotSaving, payout |-> NotSaving]
    /\ request = NULL
    /\ payout = NULL

\* Details are told apart by the method they are for: no address of PayPal is
\* an account of Stripe. The schema refuses an address that is none; the other
\* two are free text.
Accepts(m, value) == m = "paypal" => value = "paypal"

\* setPayoutSettings: the other methods' details are cleared with the write.
Only(details, m, value) == [Nothing EXCEPT ![m] = value]

setPayoutSettings(m, value) ==
    user' = [user EXCEPT !.method = m, !.details = Only(user.details, m, value)]

\* update: the fields of the role, and nothing else.
update(bio) == user' = [user EXCEPT !.bio = bio]

-----------------------------------------------------------------------------
\* The query: useQuery asks, the server reads, and the data comes back.
ReadProfile ==
    /\ query = Asked
    /\ query' = [pc |-> "answered", data |-> user]
    /\ UNCHANGED <<user, form, profile, saving, request, payout>>

\* The effects of both forms run when the data is not what it was. The method
\* and its value are set together, and stay if there is none on file.
Shown(data) ==
    [bio |-> data.bio,
     method |-> IF data.method = NULL THEN form.method ELSE data.method,
     value |-> IF data.method = NULL THEN form.value ELSE data.details[data.method]]

ProfileComes ==
    /\ query.pc = "answered"
    /\ profile' = query.data
    /\ form' = IF query.data = profile THEN form ELSE Shown(query.data)
    /\ query' = NoQuery
    /\ UNCHANGED <<user, saving, request, payout>>

\* After a failure the data stays what it was.
QueryFails ==
    /\ query # NoQuery
    /\ query' = NoQuery
    /\ UNCHANGED <<user, form, profile, saving, request, payout>>

EditBio(b) ==
    /\ form.bio # b
    /\ form' = [form EXCEPT !.bio = b]
    /\ UNCHANGED <<user, profile, query, saving, request, payout>>

\* Choosing a method empties the field, so that nothing typed for one is saved
\* for another.
Kept(value) == value
Emptied(value) == NULL

ChooseMethod(m) ==
    /\ form' = [form EXCEPT !.method = m, !.value = Emptied(form.value)]
    /\ UNCHANGED <<user, profile, query, saving, request, payout>>

\* The label says whose details are asked for.
TypeDetails ==
    /\ form' = [form EXCEPT !.value = form.method]
    /\ UNCHANGED <<user, profile, query, saving, request, payout>>

-----------------------------------------------------------------------------
\* A button is disabled while its mutation is pending, and without a value.
SaveProfile ==
    /\ saving.bio = NotSaving
    /\ form.bio # NULL
    /\ saving' = [saving EXCEPT !.bio = [NotSaving EXCEPT !.pc = "sent",
                                                         !.value = form.bio]]
    /\ UNCHANGED <<user, form, profile, query, request, payout>>

SavePayout ==
    /\ saving.payout = NotSaving
    /\ form.value # NULL
    /\ saving' = [saving EXCEPT !.payout = [pc |-> "sent", method |-> form.method,
                                            value |-> form.value]]
    /\ UNCHANGED <<user, form, profile, query, request, payout>>

ProfileSaved ==
    /\ saving.bio.pc = "sent"
    /\ update(saving.bio.value)
    /\ saving' = [saving EXCEPT !.bio.pc = "answered"]
    /\ UNCHANGED <<form, profile, query, request, payout>>

PayoutSaved ==
    /\ saving.payout.pc = "sent"
    /\ Accepts(saving.payout.method, saving.payout.value)
    /\ setPayoutSettings(saving.payout.method, saving.payout.value)
    /\ saving' = [saving EXCEPT !.payout.pc = "answered"]
    /\ UNCHANGED <<form, profile, query, request, payout>>

\* onSuccess: the profile is asked for again, and a running query given up.
Answered(part) ==
    /\ saving[part].pc = "answered"
    /\ saving' = [saving EXCEPT ![part] = NotSaving]
    /\ query' = Asked
    /\ UNCHANGED <<user, form, profile, request, payout>>

\* onError: of a request that was refused or never came, or of an answer that
\* was lost: what the form shows stays.
SaveFails(part) ==
    /\ saving[part] # NotSaving
    /\ saving' = [saving EXCEPT ![part] = NotSaving]
    /\ UNCHANGED <<user, form, profile, query, request, payout>>

\* Another tab saves what its own form says.
SavedElsewhere ==
    /\ \/ \E b \in Bio : update(b)
       \/ \E m \in Method : setPayoutSettings(m, m)
    /\ UNCHANGED <<form, profile, query, saving, request, payout>>

-----------------------------------------------------------------------------
\* assertCanReceive
Missing(details, m) == details[m] = NULL

\* requestPayout: the details are asked for before the transaction ...
CheckDetails(m) ==
    /\ request = NULL
    /\ ~Missing(user.details, m)
    /\ request' = [method |-> m, details |-> user.details]
    /\ UNCHANGED <<user, form, profile, query, saving, payout>>

\* ... which makes a payout by that method, or finds a reason not to.
CreatePayout ==
    /\ request # NULL
    /\ payout' \in {payout, request}
    /\ request' = NULL
    /\ UNCHANGED <<user, form, profile, query, saving>>

Next ==
    \/ ReadProfile \/ ProfileComes \/ QueryFails
    \/ \E b \in Bio : EditBio(b)
    \/ \E m \in Method : ChooseMethod(m) \/ CheckDetails(m)
    \/ TypeDetails \/ SaveProfile \/ SavePayout \/ ProfileSaved \/ PayoutSaved
    \/ \E part \in {"bio", "payout"} : Answered(part) \/ SaveFails(part)
    \/ SavedElsewhere \/ CreatePayout

Spec == Init /\ [][Next]_vars

-----------------------------------------------------------------------------
\* Types, over the row, the form and its mutations.
TypeOK ==
    /\ user.bio \in Bio
    /\ user.method \in Method \cup {NULL}
    /\ user.details \in [Method -> Method \cup {NULL}]
    /\ form.method \in Method
    /\ \A part \in {"bio", "payout"} : saving[part].pc \in {"none", "sent", "answered"}

\* Money goes where its owner said: what is on file are the details of the
\* method on file, they were given as that method's, whatever query answered
\* while they were typed, whatever was saved elsewhere; and a payout is only
\* made by a method that had its details when it was asked for
\* (profile.service.ts setPayoutSettings, assertCanReceive; SettingsForm.tsx).
DetailsOfTheirMethod ==
    /\ \A m \in Method :
           user.details[m] = IF m = user.method THEN m ELSE NULL
    /\ payout # NULL => payout.details[payout.method] = payout.method

-----------------------------------------------------------------------------
\* What the proof of it carries along: the rows a query has read are as true
\* as the row, and a value in the form or on its way is its method's.
Row == [bio : Bio, method : Method \cup {NULL},
        details : [Method -> Method \cup {NULL}]]

OfItsMethod(row) ==
    \A m \in Method : row.details[m] = IF m = row.method THEN m ELSE NULL

FormInv ==
    /\ form \in [bio : Bio \cup {NULL}, method : Method, value : Method \cup {NULL}]
    /\ form.value \in {form.method, NULL}

SavingInv ==
    /\ saving \in [{"bio", "payout"} -> [pc : {"none", "sent", "answered"},
                                         method : Method \cup {NULL},
                                         value : Bio \cup Method \cup {NULL}]]
    /\ saving["bio"].pc = "sent" => saving["bio"].value \in Bio
    /\ saving["payout"].pc = "sent" =>
           /\ saving["payout"].method \in Method
           /\ saving["payout"].value = saving["payout"].method

RowsInv ==
    /\ user \in Row
    /\ OfItsMethod(user)
    /\ query \in {NoQuery, Asked} \cup [pc : {"answered"}, data : Row]
    /\ query.pc = "answered" => OfItsMethod(query.data)

PayoutInv ==
    /\ request # NULL => request.details[request.method] = request.method
    /\ payout # NULL => payout.details[payout.method] = payout.method

SettingsInv == RowsInv /\ FormInv /\ SavingInv /\ PayoutInv
=============================================================================
