------------------------------ MODULE MCArchive ------------------------------
(***************************************************************************)
(* A small instance of Archive for TLC: two workers behind a limiter of    *)
(* one request; lists of no file and of two; files with a header, copies   *)
(* of a record, a contract of the same family, and lines that are empty,   *)
(* too short or no numbers.                                                *)
(***************************************************************************)
EXTENDS Archive

CONSTANTS w1, w2

TwoWorkers == {w1, w2}

Header == Line("instrument_name", FALSE, 10, 0, FALSE, TRUE, 1)
Row(name, ts, copy) == Line(name, FALSE, 10, ts, TRUE, TRUE, copy)

\* Two contracts of a family with bars of the same minute, and a record twice.
Family == <<Header, Row("B", 1, 1), Row("A", 1, 1), Row("A", 1, 2)>>

\* One contract, not in the order of time.
Single == <<Header, Row("A", 2, 1), Row("A", 1, 1)>>

\* A file that declares more than it has.
Short == <<Header>>

\* A legacy file: an empty line, a line cut short with a rate that is "None", a name
\* that starts with a digit.
Legacy ==
    << EmptyLine, Header, Line("A", FALSE, 3, 4, TRUE, FALSE, 1),
       Line("1A", TRUE, 10, 3, TRUE, TRUE, 1) >>

ZipFile(lines, declared) == [lines |-> lines, declared |-> declared]

Lists == { <<>>, <<ZipFile(Legacy, 0), ZipFile(Family, 4)>>,
           <<ZipFile(Single, 3)>>, <<ZipFile(Short, 2)>> }

TwoCalls ==
    { [kind |-> "candles", expected |-> AnyName, sorts |-> TRUE],
      [kind |-> "funding", expected |-> "A", sorts |-> FALSE] }

=============================================================================
