------------------------------ MODULE LinkToggles ------------------------------
(***************************************************************************)
(* The switches of the links page (affiliate/links/page.tsx): a switch is  *)
(* flipped on the page before the server has agreed, flipped back when the *)
(* server refuses, and the list is asked for again either way. Switches    *)
(* overlap, and so do the answers.                                         *)
(***************************************************************************)
EXTENDS Naturals

CONSTANTS
    Link,
    Toggle,     \* mutations that may overlap
    NULL

ToggleAssumption == NULL \notin Link

VARIABLES
    active,     \* per link: isActive of the row
    shown,      \* the list in the query's cache
    stale,      \* the list was invalidated and no answer came since
    query,      \* the running query: whether it was answered, and with what
    toggle,     \* per mutation: its step, link, value and the previous list
    missed      \* links written for nobody since the list was last read

vars == <<active, shown, stale, query, toggle, missed>>

-----------------------------------------------------------------------------
NoQuery == [pc |-> "none", list |-> NULL]
Asked == [pc |-> "asked", list |-> NULL]

Idle == [pc |-> "idle", link |-> NULL, isActive |-> FALSE, previous |-> NULL]

Init ==
    /\ active \in [Link -> BOOLEAN]
    /\ shown = active
    /\ stale = FALSE
    /\ query = NoQuery
    /\ toggle = [m \in Toggle |-> Idle]
    /\ missed = {}

\* A click on a switch: it asks for the opposite of what it shows. onMutate
\* gives up a running query, remembers the list, and flips the switch in it.
Mutate(m, l) ==
    /\ toggle[m] = Idle
    /\ toggle' = [toggle EXCEPT ![m] = [pc |-> "sent", link |-> l,
                                        isActive |-> ~shown[l], previous |-> shown]]
    /\ shown' = [shown EXCEPT ![l] = ~shown[l]]
    /\ query' = NoQuery
    /\ UNCHANGED <<active, stale, missed>>

\* The server writes, and its answer is on its way.
Patch(m) ==
    /\ toggle[m].pc = "sent"
    /\ active' = [active EXCEPT ![toggle[m].link] = toggle[m].isActive]
    /\ toggle' = [toggle EXCEPT ![m].pc = "written"]
    /\ UNCHANGED <<shown, stale, query, missed>>

\* onSettled: the list is invalidated and asked for again, and a query that
\* was running already is given up, for it may have read before the write.
Restarted(running) == Asked

Settled ==
    /\ stale' = TRUE
    /\ query' = Restarted(query)
    /\ UNCHANGED <<active, missed>>

Success(m) ==
    /\ toggle[m].pc = "written"
    /\ toggle' = [toggle EXCEPT ![m] = Idle]
    /\ Settled
    /\ UNCHANGED shown

\* onError: of a refusal, of an answer that was lost, or of a connection that
\* broke while the server is still at it. The remembered list is put back,
\* other switches flipped since included.
Error(m) ==
    /\ toggle[m].pc \in {"sent", "written"}
    /\ \/ toggle' = [toggle EXCEPT ![m] = Idle]
       \/ /\ toggle[m].pc = "sent"
          /\ toggle' = [toggle EXCEPT ![m].pc = "late"]
    /\ shown' = toggle[m].previous
    /\ Settled

\* The write of a request nobody waits for any more.
PatchLate(m) ==
    /\ toggle[m].pc = "late"
    /\ active' = [active EXCEPT ![toggle[m].link] = toggle[m].isActive]
    /\ missed' = missed \cup {toggle[m].link}
    /\ toggle' = [toggle EXCEPT ![m] = Idle]
    /\ UNCHANGED <<shown, stale, query>>

-----------------------------------------------------------------------------
Read ==
    /\ query = Asked
    /\ query' = [pc |-> "answered", list |-> active]
    /\ missed' = {}
    /\ UNCHANGED <<active, shown, stale, toggle>>

ListComes ==
    /\ query.pc = "answered"
    /\ shown' = query.list
    /\ stale' = FALSE
    /\ query' = NoQuery
    /\ UNCHANGED <<active, toggle, missed>>

\* After its one retry a query fails, and the list stays invalidated.
QueryFails ==
    /\ query # NoQuery
    /\ query' = NoQuery
    /\ UNCHANGED <<active, shown, stale, toggle, missed>>

\* The page is visited again: a stale list is asked for.
Visit ==
    /\ query = NoQuery
    /\ stale
    /\ query' = Asked
    /\ UNCHANGED <<active, shown, stale, toggle, missed>>

Next ==
    \/ \E m \in Toggle :
           \/ \E l \in Link : Mutate(m, l)
           \/ Patch(m) \/ Success(m) \/ Error(m) \/ PatchLate(m)
    \/ Read \/ ListComes \/ QueryFails \/ Visit

Spec == Init /\ [][Next]_vars

-----------------------------------------------------------------------------
\* Types, over the query's cache and the mutations of the page.
TypeOK ==
    /\ active \in [Link -> BOOLEAN]
    /\ shown \in [Link -> BOOLEAN]
    /\ stale \in BOOLEAN
    /\ \A m \in Toggle : toggle[m].pc \in {"idle", "sent", "written", "late"}
    /\ missed \subseteq Link

\* A page at rest shows what is: when no switch is on its way and the list is
\* not waiting to be asked for again, every switch shows its row, whatever
\* order the writes, refusals and lists of overlapping switches came in; but
\* for a row written by a request the page had given up (links/page.tsx toggle).
PageAtRestIsTrue ==
    ((\A m \in Toggle : toggle[m].pc \in {"idle", "late"}) /\ ~stale) =>
        \A l \in Link \ missed : shown[l] = active[l]

-----------------------------------------------------------------------------
\* What the proof of it carries along: where a list that was read, or is shown
\* and not stale, differs from the rows, a switch on its way makes up for it.
Toggling(l, steps) == \E m \in Toggle : toggle[m].link = l /\ toggle[m].pc \in steps

Lists == [Link -> BOOLEAN]

ToggleTypeInv ==
    /\ active \in Lists /\ shown \in Lists
    /\ stale \in BOOLEAN
    /\ query \in {NoQuery, Asked} \cup [pc : {"answered"}, list : Lists]
    /\ toggle \in [Toggle -> {Idle} \cup [pc : {"sent", "written", "late"},
                                          link : Link, isActive : BOOLEAN,
                                          previous : Lists]]
    /\ missed \subseteq Link

AnsweredInv ==
    query.pc = "answered" =>
        \A l \in Link \ missed :
            query.list[l] = active[l] \/ Toggling(l, {"written"})

ShownInv ==
    ~stale => \A l \in Link \ missed :
                  shown[l] = active[l] \/ Toggling(l, {"sent", "written"})

ToggleInv ==
    /\ ToggleTypeInv
    /\ query # NoQuery => stale
    /\ AnsweredInv
    /\ ShownInv
=============================================================================
