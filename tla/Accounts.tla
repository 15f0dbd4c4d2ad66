------------------------------- MODULE Accounts -------------------------------
(***************************************************************************)
(* The addresses accounts are found by: register of auth.service.ts and    *)
(* changeEmail of profile.service.ts. Both look an address up, hash or     *)
(* verify a password, which takes its time, and then write; the unique     *)
(* index of the database is on the address as it is written.               *)
(***************************************************************************)
EXTENDS FiniteSets

CONSTANTS
    User,       \* accounts, registered or not yet
    Mailbox,    \* addresses, as the mail system tells them apart
    Request,    \* requests that may overlap
    NULL

AccountAssumption == NULL \notin User \cup Mailbox

VARIABLES
    email,      \* per account: its address, NULL before it is registered
    request,    \* per request: its step, its account and the address it asks for
    entered     \* per request to log in that failed: the address and account

vars == <<email, request, entered>>

-----------------------------------------------------------------------------
\* People write an address in capitals or not.
Spelling == [mailbox : Mailbox, written : {"lower", "mixed"}]

toLowerCase(e) == [e EXCEPT !.written = "lower"]
\* findByEmail of user.repository.ts, and the write of it.
findByEmail(e) == {u \in User : email[u] = toLowerCase(e)}

Filed(e) == toLowerCase(e)

\* The unique index.
Free(e, u) == \A v \in User \ {u} : email[v] # e

Idle == [pc |-> "idle"]

Init ==
    /\ email = [u \in User |-> NULL]
    /\ request = [q \in Request |-> Idle]
    /\ entered = NULL

Finish(q) == request' = [request EXCEPT ![q] = Idle]

-----------------------------------------------------------------------------
\* register: the address is looked for, and the password hashed.
Register(q, u, e) ==
    /\ request[q] = Idle
    /\ email[u] = NULL
    /\ \A p \in Request : request[p] # Idle => request[p].user # u
    /\ findByEmail(e) = {}
    /\ request' = [request EXCEPT ![q] = [pc |-> "create", user |-> u, email |-> e]]
    /\ UNCHANGED <<email, entered>>

\* changeEmail: the password is verified, and then the address looked for.
ChangeEmail(q, u, e) ==
    /\ request[q] = Idle
    /\ email[u] # NULL
    /\ request' = [request EXCEPT ![q] = [pc |-> "look", user |-> u, email |-> e]]
    /\ UNCHANGED <<email, entered>>

Look(q) ==
    /\ request[q].pc = "look"
    /\ IF findByEmail(request[q].email) \subseteq {request[q].user}
       THEN request' = [request EXCEPT ![q].pc = "update"]
       ELSE Finish(q)
    /\ UNCHANGED <<email, entered>>

\* create and update: an address that was taken since is refused by the index.
Write(q) ==
    /\ request[q].pc \in {"create", "update"}
    /\ LET u == request[q].user
           e == Filed(request[q].email) IN
           email' = IF Free(e, u) THEN [email EXCEPT ![u] = e] ELSE email
    /\ Finish(q)
    /\ UNCHANGED entered

\* login, of somebody who knows the account's address and password.
Login(u, written) ==
    /\ email[u] # NULL
    /\ LET found == findByEmail([email[u] EXCEPT !.written = written]) IN
           entered' = [user |-> u, found |-> found]
    /\ UNCHANGED <<email, request>>

\* What the login answered is past.
Past ==
    /\ entered # NULL
    /\ entered' = NULL
    /\ UNCHANGED <<email, request>>

Next ==
    \/ \E q \in Request :
           \/ \E u \in User, e \in Spelling : Register(q, u, e) \/ ChangeEmail(q, u, e)
           \/ Look(q) \/ Write(q)
    \/ \E u \in User, written \in {"lower", "mixed"} : Login(u, written)
    \/ Past

Spec == Init /\ [][Next]_vars

-----------------------------------------------------------------------------
\* Types, over user.repository.ts and the requests.
TypeOK ==
    /\ email \in [User -> Spelling \cup {NULL}]
    /\ \A q \in Request : request[q].pc \in {"idle", "look", "create", "update"}
    /\ entered \in [user : User, found : SUBSET User] \cup {NULL}

\* Nobody is locked out and nobody gets into another's account: however the
\* address was written when it was registered or changed, and however it is
\* written now, a login finds the one account of that mailbox, whatever
\* registrations and changes overlapped (user.repository.ts, auth.service.ts
\* register and login, profile.service.ts changeEmail).
MailboxHasOneAccount ==
    /\ entered # NULL => entered.found = {entered.user}
    /\ \A u, v \in User :
           (u # v /\ email[u] # NULL /\ email[v] # NULL) =>
               email[u].mailbox # email[v].mailbox

-----------------------------------------------------------------------------
\* What the proof of it carries along: every address on file is in lower case
\* and no two accounts have the same one.
AddressesInv ==
    /\ email \in [User -> Spelling \cup {NULL}]
    /\ \A u \in User : email[u] # NULL => email[u].written = "lower"
    /\ \A u, v \in User : u # v /\ email[u] # NULL => email[u] # email[v]

AsksInv ==
    request \in [Request -> {Idle} \cup [pc : {"look", "create", "update"},
                                         user : User, email : Spelling]]

AccountInv ==
    /\ AddressesInv
    /\ AsksInv
    /\ entered # NULL => entered.found = {entered.user}
=============================================================================
