------------------------------- MODULE Paging -------------------------------
(***************************************************************************)
(* A brand's conversions read page by page while others report and review  *)
(* conversions: by cursor, as the review list does, and by offset, as the  *)
(* exports do.                                                             *)
(***************************************************************************)
EXTENDS Integers, FiniteSets, SequencesExt

CONSTANTS
    Id,         \* the ids of conversions, which are not in the order of time
    Time,       \* when a conversion may have occurred
    PageSize,
    MaxReviews, \* bound on the reviews
    NULL

Statuses == {"PENDING", "APPROVED"}
Cursor == [occurredAt : Time, id : Id]

\* A conversion, a reader by cursor and one by offset.
Row == [occurredAt : Time, status : Statuses]
Seeker == [filter : Statuses \cup {NULL}, after : Cursor \cup {NULL},
           seen : Seq(Id), steady : SUBSET Id, hasMore : BOOLEAN]
Exporter == [skip : Nat, seen : Seq(Id), quiet : BOOLEAN, more : BOOLEAN]

PagingAssumption ==
    /\ Id \subseteq Nat /\ IsFiniteSet(Id) /\ Time \subseteq Nat
    /\ PageSize \in Nat \ {0} /\ MaxReviews \in Nat
    /\ NULL \notin Statuses /\ NULL \notin Cursor
    /\ NULL \notin Row /\ NULL \notin Seeker /\ NULL \notin Exporter

VARIABLES
    table,      \* the conversions: when they occurred and their status, or NULL
    reviews,
    seek,       \* the reader by cursor, or NULL
    export      \* the reader by offset, or NULL

vars == <<table, reviews, seek, export>>

TypeOK ==
    /\ table \in [Id -> Row \cup {NULL}]
    /\ reviews \in 0..MaxReviews
    /\ seek \in Seeker \cup {NULL}
    /\ export \in Exporter \cup {NULL}

Init ==
    /\ table = [i \in Id |-> NULL]
    /\ reviews = 0
    /\ seek = NULL
    /\ export = NULL

Matching(filter) ==
    {i \in Id : /\ table[i] # NULL
                /\ filter = NULL \/ table[i].status = filter}

-----------------------------------------------------------------------------
\* The table changes under its readers.

\* What the readers' promises are about: the rows that match all the time, a
\* table that does not change.
Disturbed(i) ==
    /\ seek' = IF seek = NULL THEN NULL
               ELSE [seek EXCEPT !.steady = @ \ {i}]
    /\ export' = IF export = NULL THEN NULL
                 ELSE [export EXCEPT !.quiet = FALSE]

\* A conversion is reported, with the time the brand gives for it.
Insert(i, occurredAt) ==
    /\ table[i] = NULL
    /\ table' = [table EXCEPT ![i] =
                    [occurredAt |-> occurredAt, status |-> "PENDING"]]
    /\ Disturbed(i)
    /\ UNCHANGED reviews

Review(i) ==
    /\ reviews < MaxReviews
    /\ table[i] # NULL
    /\ table[i].status = "PENDING"
    /\ table' = [table EXCEPT ![i].status = "APPROVED"]
    /\ reviews' = reviews + 1
    /\ Disturbed(i)

-----------------------------------------------------------------------------
\* seekForBrand, by cursor.

\* The readers do not see each other, so one at a time is enough.
NoReader == seek = NULL /\ export = NULL

SeekStart(filter) ==
    /\ NoReader
    /\ seek' = [filter |-> filter, after |-> NULL, seen |-> <<>>,
                steady |-> Matching(filter), hasMore |-> TRUE]
    /\ UNCHANGED <<table, reviews, export>>

\* Mutant: the tie-breaker is left out of the condition.
LaterThan(i, after) == after = NULL \/ table[i].occurredAt < after.occurredAt

\* The row comes after the cursor in the order of the list.
Beyond(i, after) ==
    \/ after = NULL
    \/ table[i].occurredAt < after.occurredAt
    \/ table[i].occurredAt = after.occurredAt /\ i < after.id

\* orderBy occurredAt desc, id desc.
Precedes(i, j) ==
    \/ table[i].occurredAt > table[j].occurredAt
    \/ table[i].occurredAt = table[j].occurredAt /\ i > j

\* The n-th row of a list is the one with n - 1 before it.
Ordered(S, n) ==
    CHOOSE i \in S : Cardinality({j \in S : Precedes(j, i)}) = n - 1

\* seekForBrandReview: one row more than the page.
Rows(filter, after) ==
    LET found == {i \in Matching(filter) : Beyond(i, after)}
        left == Cardinality(found)
    IN  [n \in 1..(IF left > PageSize THEN PageSize + 1 ELSE left) |->
           Ordered(found, n)]

\* toCursorPage: the extra row only says that there are more.
toCursorPage(rows) ==
    LET hasMore == Len(rows) > PageSize
        data == IF hasMore THEN SubSeq(rows, 1, PageSize) ELSE rows
    IN  [data |-> data, hasMore |-> hasMore,
         nextCursor |-> IF hasMore
                        THEN [occurredAt |-> table[Last(data)].occurredAt,
                              id |-> Last(data)]
                        ELSE NULL]

SeekPage ==
    /\ seek # NULL
    /\ seek.hasMore
    /\ LET page == toCursorPage(Rows(seek.filter, seek.after)) IN
       seek' = [seek EXCEPT !.seen = @ \o page.data,
                            !.after = page.nextCursor,
                            !.hasMore = page.hasMore]
    /\ UNCHANGED <<table, reviews, export>>

-----------------------------------------------------------------------------
\* paginate, by offset.

ExportStart ==
    /\ NoReader
    /\ export' = [skip |-> 0, seen |-> <<>>, quiet |-> TRUE, more |-> TRUE]
    /\ UNCHANGED <<table, reviews, seek>>

\* The pages a query by offset may return: the order is by occurredAt alone,
\* and rows of the same time come in any order, another one each time.
NotAfter(s, t) ==
    \A i \in s, j \in t : table[i].occurredAt >= table[j].occurredAt

OffsetPages(skip) ==
    LET rows == Matching(NULL)
        left == Cardinality(rows) - skip
        size == IF left < 0 THEN 0 ELSE IF left < PageSize THEN left ELSE PageSize
    IN  {page \in SUBSET rows :
            /\ Cardinality(page) = size
            /\ size > 0 =>
                 \E skipped \in SUBSET (rows \ page) :
                    /\ Cardinality(skipped) = skip
                    /\ NotAfter(skipped, page)
                    /\ NotAfter(page, rows \ (page \cup skipped))
                    /\ NotAfter(skipped, rows \ skipped)}

\* A page that is not full is the last one.
ExportPage ==
    /\ export # NULL
    /\ export.more
    /\ \E page \in OffsetPages(export.skip) :
          export' = [export EXCEPT
              !.seen = @ \o SetToSeq(page),
              !.more = Cardinality(page) = PageSize,
              !.skip = @ + PageSize]
    /\ UNCHANGED <<table, reviews, seek>>

Next ==
    \/ \E i \in Id : Review(i) \/ \E t \in Time : Insert(i, t)
    \/ \E filter \in {NULL, "PENDING"} : SeekStart(filter)
    \/ SeekPage
    \/ ExportStart
    \/ ExportPage

-----------------------------------------------------------------------------
TotallyOrdered == \A i, j \in Matching(NULL) :
    table[i].occurredAt = table[j].occurredAt => i = j

\* A reader by cursor sees no row twice, and when it is done it has seen every
\* row that matched from its first page to its last, whatever was reported and
\* reviewed in between (pagination.ts and seekForBrand say why an offset does
\* not do that).  An export does so only while nothing changes and no two rows
\* have the same time.
EachRowOnce ==
    /\ seek # NULL =>
          /\ IsInjective(seek.seen)
          /\ ~seek.hasMore => seek.steady \subseteq Range(seek.seen)
    /\ export # NULL =>
          (export.quiet /\ ~export.more /\ TotallyOrdered =>
              /\ IsInjective(export.seen)
              /\ Range(export.seen) = Matching(NULL))

\* lib/csv.ts: an export is "Keyed on an opaque cursor rather than OFFSET", so
\* no row is in it twice.
ExportedOnce == export # NULL => IsInjective(export.seen)
-----------------------------------------------------------------------------
\* The invariant of the proofs.

\* What was seen is what the cursor is past; of the rows that match all the
\* time none is skipped.
SeekInv ==
    seek # NULL =>
        /\ IsInjective(seek.seen)
        /\ seek.steady \subseteq Matching(seek.filter)
        /\ \A i \in Range(seek.seen) : table[i] # NULL
        /\ ~seek.hasMore => seek.steady \subseteq Range(seek.seen)
        /\ seek.hasMore /\ seek.after = NULL => seek.seen = <<>>
        /\ seek.hasMore /\ seek.after # NULL =>
              /\ \A i \in Range(seek.seen) : ~Beyond(i, seek.after)
              /\ \A i \in seek.steady \ Range(seek.seen) : Beyond(i, seek.after)

\* What an export of a table at rest has read is the newest rows of it, as many
\* as it will skip.
ExportInv ==
    export # NULL /\ export.quiet /\ TotallyOrdered =>
        LET read == Range(export.seen) IN
        /\ IsInjective(export.seen)
        /\ read \subseteq Matching(NULL)
        /\ NotAfter(read, Matching(NULL) \ read)
        /\ IF export.more THEN Cardinality(read) = export.skip
           ELSE read = Matching(NULL)

PageInv == TypeOK /\ SeekInv /\ ExportInv
=============================================================================
