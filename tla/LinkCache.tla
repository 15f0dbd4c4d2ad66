------------------------------ MODULE LinkCache ------------------------------
(***************************************************************************)
(* A tracking link in the database and in the Redis cache in front of it.  *)
(* The redirect service reads the cache and, on a miss, asks the API and   *)
(* writes what it answers back (link-resolver.ts). Creating and toggling a *)
(* link write the row and then the cache (tracking.service.ts); a campaign *)
(* transition writes the campaign and no cache entry (campaign.service.ts).*)
(* What an entry is, is abstracted to what a redirect tells apart: whether *)
(* the link is active and whether its campaign is ENDED.                   *)
(***************************************************************************)
EXTENDS Naturals, CampaignLifecycle

CONSTANTS
    Resolver,       \* clicks that may be resolved at the same time
    Toggler,        \* requests of the affiliate that may overlap
    Faults,         \* what may fail: subset of {"redis", "api"}
    MaxChanges,     \* bound: toggles and campaign transitions
    NULL

LinkAssumption ==
    /\ Faults \subseteq {"redis", "api"}
    /\ MaxChanges \in Nat

VARIABLES
    link,       \* the row's isActive; NULL until the link is created
    program,    \* the status of the link's campaign
    entry,      \* what Redis holds under link:<code>; NULL when nothing
    fill,       \* per resolver: where it is and what it fetched
    edit,       \* per toggler: where it is and what it wants
    creation,   \* how far the link's creation has come
    changes

vars == <<link, program, entry, fill, edit, creation, changes>>

-----------------------------------------------------------------------------
\* "UNKNOWN": written by create or toggle, which leave campaignStatus out.
Known == [active : BOOLEAN, status : Statuses \cup {"UNKNOWN"}]
\* The sentinel that remembers that a code does not exist.
Missing == [active |-> FALSE, status |-> "MISSING"]

\* cacheLink of create and toggleActive.
WithoutStatus(active) == [active |-> active, status |-> "UNKNOWN"]

StatusForgotten ==
    IF link = NULL THEN Missing ELSE WithoutStatus(link)

\* resolveForRedirect: what the API says of the code now.
Lookup ==
    IF link = NULL THEN Missing ELSE [active |-> link, status |-> program]

\* Where a click on the short code goes.
Redirect(e) ==
    IF ~e.active THEN "fallback"
    ELSE IF ~ServesTraffic(e.status) THEN "landing page"
    ELSE "destination"

-----------------------------------------------------------------------------
Init ==
    /\ link = NULL
    /\ program = "ACTIVE"
    /\ entry = NULL
    /\ fill = [r \in Resolver |-> [pc |-> "idle", got |-> NULL]]
    /\ edit = [t \in Toggler |-> [pc |-> "idle", want |-> NULL]]
    /\ creation = "none"
    /\ changes = 0

\* A click finds no entry (or Redis does not answer): ask the API.
Miss(r) ==
    /\ fill[r].pc = "idle"
    /\ entry = NULL \/ "redis" \in Faults
    /\ fill' = [fill EXCEPT ![r].pc = "fetching"]
    /\ UNCHANGED <<link, program, entry, edit, creation, changes>>

Fetch(r) ==
    /\ fill[r].pc = "fetching"
    /\ fill' = [fill EXCEPT ![r] = [pc |-> "filling", got |-> Lookup]]
    /\ UNCHANGED <<link, program, entry, edit, creation, changes>>

\* The API does not answer in time: nothing may be cached.
FetchFails(r) ==
    /\ "api" \in Faults
    /\ fill[r].pc = "fetching"
    /\ fill' = [fill EXCEPT ![r].pc = "idle"]
    /\ UNCHANGED <<link, program, entry, edit, creation, changes>>

Fill(r) ==
    /\ fill[r].pc = "filling"
    /\ entry' = fill[r].got
    /\ fill' = [fill EXCEPT ![r] = [pc |-> "idle", got |-> NULL]]
    /\ UNCHANGED <<link, program, edit, creation, changes>>

FillFails(r) ==
    /\ "redis" \in Faults
    /\ fill[r].pc = "filling"
    /\ fill' = [fill EXCEPT ![r] = [pc |-> "idle", got |-> NULL]]
    /\ UNCHANGED <<link, program, entry, edit, creation, changes>>

-----------------------------------------------------------------------------
\* create: the campaign is checked, the row inserted, the entry written.
CheckCampaign ==
    /\ creation = "none"
    /\ AcceptsNewAffiliates(program)
    /\ creation' = "checked"
    /\ UNCHANGED <<link, program, entry, fill, edit, changes>>

Create ==
    /\ creation = "checked"
    /\ link' = TRUE
    /\ creation' = "created"
    /\ UNCHANGED <<program, entry, fill, edit, changes>>

CacheCreated ==
    /\ creation = "created"
    /\ entry' = WithoutStatus(TRUE)
    /\ creation' = "done"
    /\ UNCHANGED <<link, program, fill, edit, changes>>

CreatedUncached ==
    /\ "redis" \in Faults
    /\ creation = "created"
    /\ creation' = "done"
    /\ UNCHANGED <<link, program, entry, fill, edit, changes>>

\* toggleActive: the row, then (the campaign is never deleted) the entry.
Toggle(t) ==
    /\ edit[t].pc = "idle"
    /\ link # NULL
    /\ changes < MaxChanges
    /\ \E want \in BOOLEAN :
           /\ link' = want
           /\ edit' = [edit EXCEPT ![t] = [pc |-> "written", want |-> want]]
    /\ changes' = changes + 1
    /\ UNCHANGED <<program, entry, fill, creation>>

CacheToggled(t) ==
    /\ edit[t].pc = "written"
    /\ entry' = WithoutStatus(edit[t].want)
    /\ edit' = [edit EXCEPT ![t] = [pc |-> "idle", want |-> NULL]]
    /\ UNCHANGED <<link, program, fill, creation, changes>>

ToggledUncached(t) ==
    /\ "redis" \in Faults
    /\ edit[t].pc = "written"
    /\ edit' = [edit EXCEPT ![t] = [pc |-> "idle", want |-> NULL]]
    /\ UNCHANGED <<link, program, entry, fill, creation, changes>>

\* The brand moves the campaign on; no cached link hears of it.
MoveCampaign ==
    /\ changes < MaxChanges
    /\ \E to \in Statuses :
           /\ CanTransition(program, to)
           /\ program' = to
    /\ changes' = changes + 1
    /\ UNCHANGED <<link, entry, fill, edit, creation>>

\* POSITIVE_TTL_SECONDS, or NEGATIVE_TTL_SECONDS, run out.
Expire ==
    /\ entry # NULL
    /\ entry' = NULL
    /\ UNCHANGED <<link, program, fill, edit, creation, changes>>

-----------------------------------------------------------------------------
Next ==
    \/ \E r \in Resolver :
           Miss(r) \/ Fetch(r) \/ FetchFails(r) \/ Fill(r) \/ FillFails(r)
    \/ CheckCampaign \/ Create \/ CacheCreated \/ CreatedUncached
    \/ \E t \in Toggler : Toggle(t) \/ CacheToggled(t) \/ ToggledUncached(t)
    \/ MoveCampaign
    \/ Expire

\* A click that missed is answered, a request that wrote the row goes on to
\* the cache, and Redis drops what has expired.
Fairness ==
    /\ \A r \in Resolver : WF_vars(Fetch(r)) /\ WF_vars(Fill(r))
    /\ WF_vars(CacheCreated)
    /\ \A t \in Toggler : WF_vars(CacheToggled(t))
    /\ WF_vars(Expire)

-----------------------------------------------------------------------------
TypeOK ==
    /\ link \in BOOLEAN \cup {NULL}
    /\ program \in Statuses
    /\ entry \in Known \cup {Missing, NULL}
    /\ fill \in [Resolver -> [pc : {"idle", "fetching", "filling"},
                              got : Known \cup {Missing, NULL}]]
    /\ edit \in [Toggler -> [pc : {"idle", "written"},
                             want : BOOLEAN \cup {NULL}]]
    /\ creation \in {"none", "checked", "created", "done"}
    /\ changes \in 0 .. MaxChanges

\* Where the row and the campaign, as they are, want a click to go.
Wanted ==
    CASE link \in {NULL, FALSE} -> "fallback"
      [] link = TRUE /\ program = "ENDED" -> "landing page"
      [] OTHER -> "destination"

CacheAgrees == entry # NULL => Redirect(entry) = Wanted

Quiet ==
    /\ creation \in {"none", "done"}
    /\ \A r \in Resolver : fill[r].pc = "idle"
    /\ \A t \in Toggler : edit[t].pc = "idle"

\* Once the link and its campaign are left alone, clicks go where the database
\* says and never elsewhere again: whatever a crossed write or a late fill
\* left in the cache is out of it within the time to live.
CacheCatchesUp == <>[]CacheAgrees

\* What link-resolver.ts says of the time to live: it "is not what keeps the
\* cache correct -- explicit invalidation on write does that". With nothing in
\* flight, a cached link then redirects as its row and campaign say.
InvalidatedOnWrite == Quiet => CacheAgrees
=============================================================================
