------------------------------ MODULE CsvFiles ------------------------------
(***************************************************************************)
(* CSV files, character by character: what the exports write (lib/csv.ts   *)
(* of the API), edited by a program that may add a byte-order mark, end    *)
(* its lines with LF, leave blank lines or drop the last line end, and     *)
(* what the import's parser (csv-parse.ts) makes of it, in chunks that     *)
(* are cut anywhere.                                                       *)
(***************************************************************************)
EXTENDS Naturals, Sequences, SequencesExt

CONSTANTS
    Quote, Comma, LF, CR, BOM, Apostrophe,  \* the characters that matter
    FormulaPrefixes,                        \* = + - @ and CR
    Values,                                 \* what cells may hold
    Width, Length,                          \* the size of a file
    MaxChunk

CsvAssumption ==
    /\ Cardinality({Quote, Comma, LF, CR, BOM, Apostrophe}) = 6
    /\ CR \in FormulaPrefixes
    /\ {Quote, Comma, LF, BOM, Apostrophe} \cap FormulaPrefixes = {}
    /\ \A v \in Values : BOM \notin Range(v)
    /\ Width \in Nat \ {0, 1} /\ Length \in Nat \ {0} /\ MaxChunk \in Nat \ {0}

VARIABLES
    rows,       \* the rows that were written
    layout,     \* how they were laid out
    rest,       \* the characters that were not read yet
    parser,     \* the parser's fields
    records,    \* what it returned so far
    ended

vars == <<rows, layout, rest, parser, records, ended>>

-----------------------------------------------------------------------------
\* The writer.

\* escapeCsvValue: a formula is neutralised, and then quoted if need be.
Neutralised(v) ==
    IF v # <<>> /\ Head(v) \in FormulaPrefixes THEN <<Apostrophe>> \o v ELSE v

Doubled(v) == FlattenSeq([i \in DOMAIN v |->
                 IF v[i] = Quote THEN <<Quote, Quote>> ELSE <<v[i]>>])

escapeCsvValue(value) ==
    LET v == Neutralised(value) IN
    IF Range(v) \cap {Quote, Comma, LF, CR} # {}
    THEN <<Quote>> \o Doubled(v) \o <<Quote>>
    ELSE v

\* csvRow, without its line end.
csvRow(values) ==
    FlattenSeq([i \in DOMAIN values |->
        (IF i = 1 THEN <<>> ELSE <<Comma>>) \o escapeCsvValue(values[i])])

Layouts == [mark : BOOLEAN, lineEnd : {<<CR, LF>>, <<LF>>}, blanks : {0, 1},
            lastEnd : BOOLEAN]

\* The file: a blank line may come before a row.
Blanks(l) == IF l.blanks = 0 THEN <<>> ELSE l.lineEnd
FileOf(data, l) ==
    (IF l.mark THEN <<BOM>> ELSE <<>>)
    \o FlattenSeq([i \in DOMAIN data |->
          Blanks(l) \o csvRow(data[i])
          \o (IF i < Len(data) \/ l.lastEnd THEN l.lineEnd ELSE <<>>)])

-----------------------------------------------------------------------------
\* The parser.

NewParser == [inQuotes |-> FALSE, pendingQuote |-> FALSE, field |-> <<>>,
              fields |-> <<>>, started |-> FALSE, physicalLine |-> 1,
              recordLine |-> 1, atFileStart |-> TRUE, out |-> <<>>]

Init ==
    /\ rows \in [1..Length -> [1..Width -> Values]]
    /\ layout \in Layouts
    /\ rest = FileOf(rows, layout)
    /\ parser = NewParser
    /\ records = <<>>
    /\ ended = FALSE

begin(p) ==
    IF p.started THEN p
    ELSE [p EXCEPT !.started = TRUE, !.recordLine = p.physicalLine]

\* A blank line is no record.
finish(p) ==
    [p EXCEPT !.fields = <<>>, !.field = <<>>, !.started = FALSE,
              !.out = IF ~p.started THEN @
                      ELSE Append(@, [line |-> p.recordLine,
                                      values |-> Append(p.fields, p.field)])]

\* A character inside quotes: a quote is not understood before the next one.
Quoted(p, ch) ==
    IF ch = Quote THEN [p EXCEPT !.pendingQuote = TRUE]
    ELSE [p EXCEPT !.field = Append(@, ch),
                   !.physicalLine = IF ch = LF THEN @ + 1 ELSE @]

Unquoted(p, ch) ==
    CASE ch = Quote /\ p.field = <<>> -> [begin(p) EXCEPT !.inQuotes = TRUE]
      [] ch = Comma -> [begin(p) EXCEPT !.fields = Append(@, p.field),
                                        !.field = <<>>]
      [] ch = LF -> [finish(p) EXCEPT !.physicalLine = @ + 1]
      [] ch = CR -> p
      [] OTHER -> [begin(p) EXCEPT !.field = Append(@, ch)]

Character(p, ch) ==
    CASE p.pendingQuote /\ ch = Quote ->
            [p EXCEPT !.pendingQuote = FALSE, !.field = Append(@, Quote)]
      [] p.pendingQuote /\ ch # Quote ->
            Unquoted([p EXCEPT !.pendingQuote = FALSE, !.inQuotes = FALSE], ch)
      [] ~p.pendingQuote /\ p.inQuotes -> Quoted(p, ch)
      [] OTHER -> Unquoted(p, ch)

\* The mark is only looked for at the start of the first chunk.
Unmarked(p, chunk) ==
    IF p.atFileStart /\ Head(chunk) = BOM THEN Tail(chunk) ELSE chunk

push(p, chunk) ==
    FoldLeft(Character, [p EXCEPT !.atFileStart = FALSE, !.out = <<>>],
             Unmarked(p, chunk))

Push(n) ==
    /\ n <= Len(rest)
    /\ parser' = push(parser, SubSeq(rest, 1, n))
    /\ records' = records \o parser'.out
    /\ rest' = SubSeq(rest, n + 1, Len(rest))
    /\ UNCHANGED <<rows, layout, ended>>

\* end: a quote that was never closed is an error, which a written file has not.
Unterminated(p) == p.inQuotes /\ ~p.pendingQuote

End ==
    /\ rest = <<>>
    /\ ~ended
    /\ ended' = TRUE
    /\ IF Unterminated(parser)
       THEN UNCHANGED <<parser, records>>
       ELSE /\ parser' = finish([parser EXCEPT !.pendingQuote = FALSE,
                                               !.inQuotes = FALSE, !.out = <<>>])
            /\ records' = records \o parser'.out
    /\ UNCHANGED <<rows, layout, rest>>

Next == End \/ \E n \in 1..MaxChunk : Push(n)

TypeOK ==
    /\ DOMAIN rows = 1..Length
    /\ layout \in Layouts
    /\ parser.physicalLine \in Nat /\ parser.recordLine \in Nat
    /\ parser.pendingQuote => parser.inQuotes
    /\ ended \in BOOLEAN

-----------------------------------------------------------------------------
LinesIn(values) ==
    1 + Len(SelectSeq(FlattenSeq(values), LAMBDA ch : ch = LF))

\* The line of the file a row begins on.
RowLine[i \in 1..Length] ==
    IF i = 1 THEN 1 + layout.blanks
    ELSE RowLine[i - 1] + LinesIn(rows[i - 1]) + layout.blanks

Written(i) == [line |-> RowLine[i],
               values |-> [c \in 1..Width |-> Neutralised(rows[i][c])]]

\* Wherever the chunks are cut, the parser returns the rows that were written,
\* in order, every value as it was but for the apostrophe that disarms a
\* formula, and each with the line of the file it begins on ("honest line
\* numbers", csv-parse.ts); at the end all of them.
FileReadsBack ==
    /\ \A i \in DOMAIN records : records[i] = Written(i)
    /\ ended => Len(records) = Length
=============================================================================
