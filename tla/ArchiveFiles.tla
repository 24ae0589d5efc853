----------------------------- MODULE ArchiveFiles -----------------------------
(***************************************************************************)
(* What is made of a file of the bulk archive: extractZip reads its only   *)
(* entry in chunks, parseCandlesCsv and parseFundingRateCsv keep the first *)
(* record per timestamp of the wanted instrument                           *)
(* (src/src/okx_market_data_utils.cpp).  A file is a sequence of lines; of *)
(* a line only what decides about it is kept.                              *)
(***************************************************************************)
EXTENDS Integers, Sequences, SequencesExt

\* Any instrument.
AnyName == ""

(***************************************************************************)
(* A line: empty, or the instrument's name (of a header, the column's),    *)
(* whether it starts with a digit, the number of fields, the timestamp     *)
(* (0 when it does not parse), whether the prices parse, whether the       *)
(* funding rate is there, and which of several copies of a record it is.   *)
(***************************************************************************)
EmptyLine == [empty |-> TRUE]

Line(name, digit, fields, ts, number, rate, copy) ==
    [empty |-> FALSE, name |-> name, digit |-> digit, fields |-> fields, ts |-> ts,
     number |-> number, rate |-> rate, copy |-> copy]

Lines ==
    {EmptyLine} \cup [empty : {FALSE}, name : STRING, digit : BOOLEAN, fields : Nat,
                      ts : Nat, number : BOOLEAN, rate : BOOLEAN, copy : Nat]

Record(line) == [name |-> line.name, ts |-> line.ts, copy |-> line.copy]

----------------------------------------------------------------------------

\* A candle needs ten fields, and every price a number; confirm is not looked at.
CandleLine(line) == line.fields >= 10 /\ line.number

\* A funding rate needs three, and a rate.
RateLine(line) == line.fields >= 3 /\ line.rate /\ line.number

Wanted(line, expected) == expected = AnyName \/ line.name = expected

\* Mutant: a timestamp is taken as seen before the instrument is looked at.
ParseLineSeenFirst(acc, line, expected, usable) ==
    IF line.empty THEN acc
    ELSE IF acc.first /\ ~line.digit THEN [acc EXCEPT !.first = FALSE]
    ELSE LET now == [acc EXCEPT !.first = FALSE, !.seen = @ \cup {line.ts}]
         IN  IF ~usable \/ ~Wanted(line, expected) \/ line.ts \in acc.seen THEN now
             ELSE [now EXCEPT !.out = Append(@, Record(line))]

\* One round of the loop: what has been kept so far, and whether a line has been read.
ParseLine(acc, line, expected, usable) ==
    IF line.empty THEN acc
    ELSE IF acc.first /\ ~line.digit THEN [acc EXCEPT !.first = FALSE]
    ELSE LET now == [acc EXCEPT !.first = FALSE]
         IN  IF ~usable \/ ~Wanted(line, expected) \/ line.ts \in acc.seen THEN now
             ELSE [now EXCEPT !.seen = @ \cup {line.ts}, !.out = Append(@, Record(line))]

NothingRead == [first |-> TRUE, seen |-> {}, out |-> <<>>]

Usable(line, kind) ==
    ~line.empty /\ IF kind = "candles" THEN CandleLine(line) ELSE RateLine(line)

\* The loop, which the two parsers have in common.
ParseCsv(lines, kind, expected) ==
    FoldLeft(LAMBDA acc, line : ParseLine(acc, line, expected, Usable(line, kind)),
             NothingRead, lines).out

ParseCandlesCsv(lines, expected) == ParseCsv(lines, "candles", expected)

ParseFundingRateCsv(lines, expected) == ParseCsv(lines, "funding", expected)

----------------------------------------------------------------------------
(* What a file holds, said without reading it from top to bottom *)

\* The lines that count among the first n: below the header, usable, of the instrument.
Body(lines, n, kind, expected) ==
    {i \in 1..n : /\ Usable(lines[i], kind) /\ Wanted(lines[i], expected)
                  /\ lines[i].digit \/ \E h \in 1..i - 1 : ~lines[h].empty}

AllOf(lines, kind, expected) == Body(lines, Len(lines), kind, expected)

\* The records of a file: the first of each instrument and time.
Holds(lines, kind, expected) ==
    LET body == AllOf(lines, kind, expected)
        first(j) == \A k \in body : lines[k].name = lines[j].name
                                    /\ lines[k].ts = lines[j].ts => j <= k
    IN  {Record(lines[i]) : i \in {j \in body : first(j)}}

\* No two contracts of a family in what is wanted of the file.
OneInstrument(lines, kind, expected) ==
    \A i, k \in AllOf(lines, kind, expected) : lines[i].name = lines[k].name

=============================================================================
