------------------------------- MODULE History -------------------------------
(***************************************************************************)
(* Downloads of candles and of funding rates, page by page                 *)
(* (src/src/okx_rest_client.cpp: getHistoricalPrices, getFundingRates),    *)
(* into the file the code's comments describe: append-only, and resumed    *)
(* after its last record.  The venue answers newest first and its list     *)
(* grows meanwhile; the newest candle is still forming.  A bar is named by *)
(* the minute it begins in.                                                *)
(***************************************************************************)
EXTENDS Integers, Sequences, FiniteSets, SequencesExt

CONSTANTS
    Kinds,          \* what is downloaded: among "candles" and "funding"
    Starts,         \* `from' of the first download
    MaxMinute,      \* bound: how long the venue's list grows
    MaxPages,       \* bound: pages of one download
    MaxCalls        \* bound: downloads

ASSUME HistoryAssumption ==
    /\ Kinds \subseteq {"candles", "funding"} /\ Starts \subseteq Int
    /\ MaxMinute \in Nat \ {0} /\ MaxPages \in Nat /\ MaxCalls \in Nat

VARIABLES
    kind,       \* which of the two functions is called
    minute,     \* the venue's clock
    listed,     \* the bars (funding: settlements) the venue lists
    csv,        \* the caller's file, oldest first
    calls,      \* how many downloads have begun
    download    \* the call: its bounds, retVal, and what its writer was given

venue == <<minute, listed>>
vars == <<kind, venue, csv, calls, download>>

Unlimited == -1
NoCall == [at |-> "idle"]

----------------------------------------------------------------------------
(* The venue *)

\* Mutant: a bar is named by the minute it ends in.
BarByEnd(b) == [ts |-> b + 1, confirm |-> kind = "funding" \/ b < minute]

Bar(b) == [ts |-> b, confirm |-> kind = "funding" \/ b < minute]

\* Something trades, or a rate is settled, in the minute that runs.
Lists == listed' = listed \cup {minute} /\ UNCHANGED <<kind, minute, csv, calls, download>>

Grows ==
    /\ minute < MaxMinute /\ minute' = minute + 1
    /\ UNCHANGED <<kind, listed, csv, calls, download>>

Newer(bars, b) == {c \in bars : c > b}

\* A page: the newest n of the bars between the two bounds, newest first.
PageOf(bars, n) ==
    [i \in 1..n |-> CHOOSE b \in bars : Cardinality(Newer(bars, b)) = i - 1]

----------------------------------------------------------------------------
(* P::getHistoricalPrices and P::getFundingRates: one request *)

\* Mutant: the bar the last page ended with is asked for again.
InRangeAgain(b, from, to) == b <= to /\ b > from

\* `after' is sent unless from is -1, `before' unless to is: both bounds are strict.
InRange(b, from, to) ==
    /\ from # Unlimited => b < to
    /\ to # Unlimited => b > from

Bars(from, to) == {b \in listed : InRange(b, from, to)}

----------------------------------------------------------------------------
(* RESTClient::getHistoricalPrices and RESTClient::getFundingRates *)

\* The caller goes on after the last record it has, up to now.
Start(from, to) ==
    /\ download.at = "idle" /\ calls < MaxCalls
    /\ IF csv = <<>> THEN from \in Starts ELSE from = Last(csv).ts
    /\ to \in {minute, minute + 1}
    /\ calls' = calls + 1
    /\ download' = [at |-> "asks", from |-> from, to |-> to, retVal |-> <<>>, pages |-> <<>>]
    /\ UNCHANGED <<kind, venue, csv>>

\* Mutant: the last bar is taken for the one that forms.
WriterPageBack(page) ==
    IF kind = "candles" /\ ~Last(page).confirm THEN Front(page) ELSE page

\* The writer is given the page without a bar that forms, which can only be the first.
WriterPage(page) ==
    IF kind = "candles" /\ ~Head(page).confirm THEN Tail(page) ELSE page

\* One more page, up to the oldest bar of the last one.
Fetch(n) ==
    /\ download.at = "asks" /\ download.from < download.to
    /\ Len(download.pages) < MaxPages
    /\ LET bars == PageOf(Bars(download.from, download.to), n)
           page == [i \in 1..Len(bars) |-> Bar(bars[i])]
       IN  download' = IF page = <<>> THEN [download EXCEPT !.at = "ends"]
                       ELSE [download EXCEPT !.to = Last(page).ts,
                                             !.retVal = @ \o page,
                                             !.pages = Append(@, WriterPage(page))]
    /\ UNCHANGED <<kind, venue, csv, calls>>

\* The venue gives at least one bar, if there is any.
FetchPage ==
    /\ download.at = "asks"
    /\ LET bars == Bars(download.from, download.to)
       IN  IF bars = {} THEN Fetch(0) ELSE \E n \in 1..Cardinality(bars) : Fetch(n)

\* Nothing can be left between the bounds.
Exhausted ==
    /\ download.at = "asks" /\ ~ download.from < download.to
    /\ download' = [download EXCEPT !.at = "ends"]
    /\ UNCHANGED <<kind, venue, csv, calls>>

\* A request throws: what was collected is lost, what the writer was given is not.
FetchFails ==
    /\ download.at = "asks" /\ download.from < download.to
    /\ download' = NoCall
    /\ UNCHANGED <<kind, venue, csv, calls>>

\* Mutant: the oldest bar is dropped when it is the one that forms.
ResultBack(retVal) ==
    Reverse(IF kind = "candles" /\ retVal # <<>> /\ ~Last(retVal).confirm
            THEN Front(retVal) ELSE retVal)

\* What is returned: oldest first, without the candle that forms.
Result(retVal) ==
    Reverse(IF kind = "candles" /\ retVal # <<>> /\ ~Head(retVal).confirm
            THEN Tail(retVal) ELSE retVal)

\* The call returns, and the caller appends what it got.
Return ==
    /\ download.at = "ends"
    /\ csv' = csv \o Result(download.retVal)
    /\ download' = NoCall
    /\ UNCHANGED <<kind, venue, calls>>

----------------------------------------------------------------------------
(* Specification *)

Init ==
    /\ kind \in Kinds
    /\ minute = 1 /\ listed = {}
    /\ csv = <<>> /\ calls = 0 /\ download = NoCall

Next ==
    \/ Lists \/ Grows
    \/ \E from \in Starts \cup 1..MaxMinute, to \in 1..MaxMinute + 1 : Start(from, to)
    \/ FetchPage \/ Exhausted \/ FetchFails \/ Return

\* A request is answered in the end, or fails (httpSession).
Spec == Init /\ [][Next]_vars /\ WF_vars(FetchPage \/ Exhausted \/ Return)

----------------------------------------------------------------------------
(* Properties *)

BarRecords == [ts : 1..MaxMinute, confirm : BOOLEAN]

\* The types of the variables.
HistoryTypeOK ==
    /\ kind \in Kinds /\ minute \in 1..MaxMinute /\ listed \subseteq 1..MaxMinute
    /\ csv \in Seq(BarRecords) /\ calls \in 0..MaxCalls
    /\ download.at \in {"idle", "asks", "ends"}
    /\ download.at # "idle" =>
          /\ download.retVal \in Seq(BarRecords)
          /\ download.pages \in Seq(Seq(BarRecords))

\* The file has no hole, nothing twice and no bar that was still forming ("Writing it
\* would freeze a partial bar: the CSV is append-only and resumes after its last
\* record, so no later run can correct it"), whatever fails and is resumed, and
\* however the venue's list grows between two pages.
CsvComplete ==
    /\ \A i, j \in 1..Len(csv) : i < j => csv[i].ts < csv[j].ts
    /\ \A i \in 1..Len(csv) : csv[i].confirm
    /\ csv # <<>> => \A b \in listed : b <= Last(csv).ts => \E i \in 1..Len(csv) : csv[i].ts = b

\* The writer has seen, page by page, exactly what the call returns ("Popping back()
\* discarded the oldest, a complete, wanted candle, from every page").
WriterMatches ==
    download.at = "ends" => Reverse(FlattenSeq(download.pages)) = Result(download.retVal)

\* A download comes to its end while the venue's list grows under it.
DownloadEnds == download.at # "idle" ~> download.at = "idle"

=============================================================================
