------------------------------- MODULE Sessions -------------------------------
(***************************************************************************)
(* The sessions of one user: refresh-token families on the server          *)
(* (auth.service.ts, lib/auth.ts) and the tabs of one browser that share   *)
(* its localStorage (web/lib/api.ts, store.ts). An access token and the    *)
(* refresh token minted with it are one element of Token: they are issued, *)
(* stored and dropped together. A tab makes one call at a time; the calls  *)
(* that join a refresh in flight are the call that started it.             *)
(***************************************************************************)
EXTENDS Naturals, Sequences

CONSTANTS
    Tab,            \* tabs of the browser
    MaxTokens,      \* bound: token pairs minted
    MaxLogins,      \* bound: logins, each of which begins a family
    MaxVersion,     \* bound: how often tokenVersion is bumped
    Faults          \* {"lost"} when a refresh may die on the way

ASSUME SessionAssumption ==
    /\ MaxTokens \in Nat
    /\ MaxLogins \in Nat
    /\ MaxVersion \in Nat

VARIABLES
    token,      \* the pairs minted, in order: family, version, row, expiries
    logins,     \* how many families have begun: the next one's name
    version,    \* the user's tokenVersion
    rotations,  \* the clock of rotatedAt
    stored,     \* localStorage
    memory,     \* per tab: the accessToken variable of api.ts
    call        \* per tab: where its call is, and with which pair or family

vars == <<token, logins, version, rotations, stored, memory, call>>

-----------------------------------------------------------------------------
\* Pairs are named by their place in token, and 0 is no pair.
Token == 1 .. Len(token)
Family == 1 .. MaxLogins

Pairs ==
    [family : Family, version : 0 .. MaxVersion, rotated : Nat,
     revoked : BOOLEAN, swept : BOOLEAN, stale : BOOLEAN, expired : BOOLEAN]

Rows == {t \in Token : ~token[t].swept}

\* requireAuth: the access token is fresh, of the user's version, and its
\* family has a row that is not revoked.
Authorised(t) ==
    /\ t # 0
    /\ ~token[t].stale
    /\ token[t].version = version
    /\ \E u \in Rows : token[u].family = token[t].family /\ ~token[u].revoked

\* tokenStore.get: the tab's own copy, or the one in localStorage.
Held(i) == IF memory[i] # 0 THEN memory[i] ELSE stored

Revoked(S) ==
    [t \in Token |-> IF t \in S THEN [token[t] EXCEPT !.revoked = TRUE]
                                ELSE token[t]]

RowsOf(f) == {t \in Rows : token[t].family = f}

\* countRotationsAfter
MovedOn(t) ==
    \E u \in RowsOf(token[t].family) : token[u].rotated > token[t].rotated

At(i, pc) == call[i].pc = pc
Go(i, pc) == call' = [call EXCEPT ![i].pc = pc]

\* The pages a tab shows when no call of its is under way.
Pages == {"closed", "login", "idle"}
Page(pc) == [pc |-> pc, pair |-> 0, family |-> 0, version |-> 0]
Show(i, pc) == call' = [call EXCEPT ![i] = Page(pc)]

\* issueTokens is about to be called; `after` is what the tab does with them.
Issue(i, f, after) ==
    call' = [call EXCEPT ![i] = [pc |-> after, pair |-> 0, family |-> f,
                                 version |-> version]]

-----------------------------------------------------------------------------
Init ==
    /\ token = <<>>
    /\ logins = 0
    /\ version = 0
    /\ rotations = 0
    /\ stored = 0
    /\ memory = [i \in Tab |-> 0]
    /\ call = [i \in Tab |-> Page("closed")]

\* A page load: hydrate asks /api/auth/me with what localStorage holds. A
\* refusal there is not refreshed past, and RequireRole shows the login page.
Load(i) ==
    /\ At(i, "closed") \/ At(i, "idle")
    /\ memory' = [memory EXCEPT ![i] = 0]
    /\ Show(i, IF Authorised(stored) THEN "idle" ELSE "login")
    /\ UNCHANGED <<logins, token, version, rotations, stored>>

\* login: the user is read and the password verified, then a family begins.
Login(i) ==
    /\ At(i, "login")
    /\ logins < MaxLogins
    /\ logins' = logins + 1
    /\ Issue(i, logins + 1, "entering")
    /\ UNCHANGED <<token, version, rotations, stored, memory>>

\* api(): the call is sent with the token the tab holds ...
Call(i) ==
    /\ At(i, "idle")
    /\ call' = [call EXCEPT ![i].pc = "sent", ![i].pair = Held(i)]
    /\ UNCHANGED <<logins, token, version, rotations, stored, memory>>

\* ... and a 401 is refreshed past once.
Answered(i) ==
    /\ At(i, "sent")
    /\ IF Authorised(call[i].pair) THEN Show(i, "idle") ELSE Go(i, "refused")
    /\ UNCHANGED <<logins, token, version, rotations, stored, memory>>

\* sharedRefresh: present the refresh token localStorage holds by now.
StartRefresh(i) ==
    /\ At(i, "refused")
    /\ call' = [call EXCEPT ![i].pc = IF stored = 0 THEN "over" ELSE "found",
                            ![i].pair = stored]
    /\ UNCHANGED <<logins, token, version, rotations, stored, memory>>

\* refresh: the row is read. It may be unknown, revoked, expired or rotated.
Find(i) ==
    /\ At(i, "found")
    /\ LET t == call[i].pair
           settled == t \notin Rows \/ token[t].revoked
       IN  \/ settled /\ Go(i, "over")
           \/ ~settled /\ token[t].rotated > 0 /\ Go(i, "replayed")
           \/ ~settled /\ token[t].rotated = 0 /\ token[t].expired /\ Go(i, "over")
           \/ ~settled /\ token[t].rotated = 0 /\ ~token[t].expired
              /\ Go(i, "claiming")
    /\ UNCHANGED <<logins, token, version, rotations, stored, memory>>

\* A rotated token: a race while its rotation is the newest, reuse otherwise.
Judge(i) ==
    /\ At(i, "replayed")
    /\ Go(i, IF MovedOn(call[i].pair) THEN "reused" ELSE "over")
    /\ UNCHANGED <<logins, token, version, rotations, stored, memory>>

PunishReuse(i) ==
    /\ At(i, "reused")
    /\ token' = Revoked(RowsOf(token[call[i].pair].family))
    /\ Go(i, "over")
    /\ UNCHANGED <<logins, version, rotations, stored, memory>>

ClaimableAsRead(t) == t \in Rows

\* claimForRotation: an update conditional on the row as it is now.
Claimable(t) == t \in Rows /\ token[t].rotated = 0 /\ ~token[t].revoked

Claim(i) ==
    /\ At(i, "claiming")
    /\ LET t == call[i].pair IN
           \/ /\ Claimable(t)
              /\ token' = [token EXCEPT ![t].rotated = rotations + 1]
              /\ rotations' = rotations + 1
              /\ Go(i, "claimed")
           \/ /\ ~Claimable(t)
              /\ Go(i, "over")
              /\ UNCHANGED <<token, rotations>>
    /\ UNCHANGED <<logins, version, stored, memory>>

\* The user is read again: a token of an older version goes no further.
CheckUser(i) ==
    /\ At(i, "claimed")
    /\ LET t == call[i].pair IN
           IF token[t].version = version
           THEN Issue(i, token[t].family, "continuing")
           ELSE Go(i, "over")
    /\ UNCHANGED <<logins, token, version, rotations, stored, memory>>

\* issueTokens: the successor's row, by a statement of its own.
Mint(i) ==
    /\ At(i, "entering") \/ At(i, "continuing")
    /\ Len(token) < MaxTokens
    /\ token' = Append(token,
           [family |-> call[i].family, version |-> call[i].version,
            rotated |-> 0, revoked |-> FALSE, swept |-> FALSE,
            stale |-> FALSE, expired |-> FALSE])
    /\ call' = [call EXCEPT ![i] =
           [Page(IF At(i, "entering") THEN "entered" ELSE "continued")
                EXCEPT !.pair = Len(token) + 1]]
    /\ UNCHANGED <<logins, version, rotations, stored, memory>>

\* tokenStore.set; a call that was refused is sent again with the new token.
Store(i) ==
    /\ At(i, "entered") \/ At(i, "continued")
    /\ stored' = call[i].pair
    /\ memory' = [memory EXCEPT ![i] = call[i].pair]
    /\ IF At(i, "entered") THEN Show(i, "idle") ELSE Go(i, "again")
    /\ UNCHANGED <<logins, token, version, rotations>>

AnsweredAgain(i) ==
    /\ At(i, "again")
    /\ IF Authorised(call[i].pair) THEN Show(i, "idle") ELSE Go(i, "over")
    /\ UNCHANGED <<logins, token, version, rotations, stored, memory>>

\* redirectToLogin: the browser's tokens are dropped, whoever stored them.
Redirect(i) ==
    /\ At(i, "over")
    /\ stored' = 0
    /\ memory' = [memory EXCEPT ![i] = 0]
    /\ Show(i, "login")
    /\ UNCHANGED <<logins, token, version, rotations>>

\* The API dies during the refresh, or its answer is lost: the call rejects.
Lose(i) ==
    /\ "lost" \in Faults
    /\ call[i].pc \in {"found", "replayed", "reused", "claiming", "claimed",
                       "continuing", "continued"}
    /\ Show(i, "idle")
    /\ UNCHANGED <<logins, token, version, rotations, stored, memory>>

-----------------------------------------------------------------------------
\* logout: the family of the token the tab holds is revoked, if the API takes
\* the call, and the browser forgets its tokens either way.
LogOut(i) ==
    /\ At(i, "idle")
    /\ token' = IF Authorised(Held(i))
                THEN Revoked(RowsOf(token[Held(i)].family)) ELSE token
    /\ Go(i, "leaving")
    /\ UNCHANGED <<logins, version, rotations, stored, memory>>

LoggedOut(i) ==
    /\ At(i, "leaving")
    /\ stored' = 0
    /\ memory' = [memory EXCEPT ![i] = 0]
    /\ Show(i, "login")
    /\ UNCHANGED <<logins, token, version, rotations>>

\* revokeSession: any family of the user's.
RevokeSession(i) ==
    /\ At(i, "idle")
    /\ Authorised(Held(i))
    /\ \E f \in Family :
           /\ RowsOf(f) # {}
           /\ token' = Revoked(RowsOf(f))
    /\ UNCHANGED <<logins, version, rotations, stored, memory, call>>

\* logoutAll revokes every row, and bumps the version by another statement.
LogOutAll(i) ==
    /\ At(i, "idle")
    /\ Authorised(Held(i))
    /\ token' = Revoked(Rows)
    /\ Go(i, "bumping")
    /\ UNCHANGED <<logins, version, rotations, stored, memory>>

BumpVersion(i) ==
    /\ At(i, "bumping")
    /\ version < MaxVersion
    /\ version' = version + 1
    /\ Show(i, "idle")
    /\ UNCHANGED <<logins, token, rotations, stored, memory>>

\* changePassword bumps the version and revokes no row; the form signs out.
ChangePassword(i) ==
    /\ At(i, "idle")
    /\ Authorised(Held(i))
    /\ version < MaxVersion
    /\ version' = version + 1
    /\ Go(i, "leaving")
    /\ UNCHANGED <<logins, token, rotations, stored, memory>>

\* JWT_ACCESS_TTL, JWT_REFRESH_TTL and the sweep of what is settled.
\* No call takes as long as an access token lasts, or a refresh token.
AccessExpires(t) ==
    /\ ~token[t].stale
    /\ \A i \in Tab : call[i].pair = t => call[i].pc = "sent"
    /\ token' = [token EXCEPT ![t].stale = TRUE]
    /\ UNCHANGED <<logins, version, rotations, stored, memory, call>>

RefreshExpires(t) ==
    /\ token[t].stale /\ ~token[t].expired
    /\ \A i \in Tab : call[i].pc \in Pages
    /\ token' = [token EXCEPT ![t].expired = TRUE]
    /\ UNCHANGED <<logins, version, rotations, stored, memory, call>>

Sweep(t) ==
    /\ t \in Rows
    /\ token[t].expired \/ token[t].revoked
    /\ \A i \in Tab : call[i].pc \in Pages
    /\ token' = [token EXCEPT ![t].swept = TRUE]
    /\ UNCHANGED <<logins, version, rotations, stored, memory, call>>

-----------------------------------------------------------------------------
Refresh(i) ==
    \/ StartRefresh(i) \/ Find(i) \/ Judge(i) \/ PunishReuse(i) \/ Claim(i)
    \/ CheckUser(i) \/ Mint(i) \/ Store(i)

Next ==
    \/ \E i \in Tab :
           \/ Load(i) \/ Login(i) \/ Call(i) \/ Answered(i) \/ Refresh(i)
           \/ AnsweredAgain(i) \/ Redirect(i) \/ Lose(i)
           \/ LogOut(i) \/ LoggedOut(i) \/ RevokeSession(i)
           \/ LogOutAll(i) \/ BumpVersion(i) \/ ChangePassword(i)
    \/ \E t \in Token : AccessExpires(t) \/ RefreshExpires(t) \/ Sweep(t)

Spec == Init /\ [][Next]_vars

-----------------------------------------------------------------------------
TypeOK ==
    /\ token \in Seq(Pairs)
    /\ logins \in 0 .. MaxLogins
    /\ version \in 0 .. MaxVersion
    /\ rotations \in Nat
    /\ stored \in Token \cup {0}
    /\ memory \in [Tab -> Token \cup {0}]
    /\ call \in [Tab ->
           [pc : Pages \cup {"sent", "refused", "found", "replayed", "reused",
                             "claiming", "claimed", "continuing", "continued",
                             "entering", "entered", "again", "over", "leaving",
                             "bumping"},
            pair : Token \cup {0}, family : Family \cup {0},
            version : 0 .. MaxVersion]]

\* The refresh that is about to continue family f, between claim and mint.
Continues(i, f) ==
    \/ At(i, "claimed") /\ token[call[i].pair].family = f
    \/ call[i].pc \in {"entering", "continuing"} /\ call[i].family = f

Unrotated(t) == token[t].rotated = 0

OneOf(f) ==
    /\ \A t, u \in Token :
           Unrotated(t) /\ Unrotated(u) /\ token[t].family = f
           /\ token[u].family = f => t = u
    /\ \A i, j \in Tab : Continues(i, f) /\ Continues(j, f) => i = j
    /\ \A i \in Tab, t \in Token :
           Continues(i, f) /\ Unrotated(t) => token[t].family # f

\* From one login there is never more than one token to refresh with: two
\* refreshes with the same token, in any interleaving, make one successor.
OneTokenPerFamily == \A f \in Family : OneOf(f)

\* "The family check is what makes logging out take effect immediately"
\* (lib/auth.ts): once a family is revoked, no row of it authorises anything.
EndedStaysEnded ==
    \A t, u \in Rows :
        token[t].family = token[u].family /\ token[t].revoked
            => token[u].revoked

\* The browser holds a token that a refresh would take.
Refreshable ==
    /\ stored \in Rows /\ Unrotated(stored)
    /\ ~token[stored].revoked /\ ~token[stored].expired
    /\ token[stored].version = version

\* "Where to send someone whose session is genuinely over" (web/lib/api.ts):
\* no tab is about to drop tokens that would still refresh. auth.service.ts
\* names two tabs sharing localStorage as the race that must not log out.
RedirectedOnlyWhenOver ==
    \A i \in Tab : At(i, "over") => ~Refreshable

-----------------------------------------------------------------------------
\* What the proof of it carries along: a family that has not begun has no
\* token and nobody who would continue it.
Steps == Pages \cup {"sent", "refused", "found", "replayed", "reused", "claiming",
                     "claimed", "continuing", "continued", "entering", "entered",
                     "again", "over", "leaving", "bumping"}

HandsInv ==
    /\ logins \in Nat
    /\ stored \in Nat
    /\ memory \in [Tab -> Nat]
    /\ call \in [Tab -> [pc : Steps, pair : Nat, family : Nat, version : Nat]]
    /\ \A i \in Tab :
           /\ At(i, "claimed") => call[i].pair \in Token
           /\ call[i].pc \in {"entering", "continuing"} =>
                  call[i].family \in 1 .. logins

TokensInv ==
    /\ token \in Seq([family : Nat, version : Nat, rotated : Nat,
                      revoked : BOOLEAN, swept : BOOLEAN, stale : BOOLEAN,
                      expired : BOOLEAN])
    /\ rotations \in Nat /\ version \in Nat
    /\ \A t \in Token : token[t].family \in 1 .. logins

SessionInv ==
    /\ TokensInv
    /\ HandsInv
    /\ \A f \in Nat : OneOf(f)
=============================================================================
