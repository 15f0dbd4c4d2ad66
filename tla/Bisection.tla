------------------------------ MODULE Bisection ------------------------------
\* bisectCommit halves a slice that could not be committed, until what fails
\* is a single item.
EXTENDS Integers, FiniteSets, SequencesExt

\* Mutant: the right half keeps the last item of the left one.
OverlappingHalves(slice) ==
    LET mid == Len(slice) \div 2
    IN  <<SubSeq(slice, 1, mid), SubSeq(slice, mid, Len(slice))>>

Halves(slice) ==
    LET mid == Len(slice) \div 2
    IN  <<SubSeq(slice, 1, mid), SubSeq(slice, mid + 1, Len(slice))>>

\* The first slice of d.work fails: it is halved, and a slice of one is given
\* up on.
Bisect(d) ==
    LET slice == Head(d.work)
    IN  IF Len(slice) = 1
        THEN [d EXCEPT !.work = Tail(@), !.failed = Append(@, slice[1])]
        ELSE [d EXCEPT !.work = Halves(slice) \o Tail(@)]

-----------------------------------------------------------------------------
\* How many entries of a slice, and of the slices to do, are in B.
Occurs(slice, B) == Cardinality({i \in DOMAIN slice : slice[i] \in B})

OccursIn(work, B) ==
    SumFunctionOnSet([k \in DOMAIN work |-> Occurs(work[k], B)], DOMAIN work)
=============================================================================
