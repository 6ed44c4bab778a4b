------------------------------ MODULE EventCompare ------------------------------
(***************************************************************************)
(* compare_signals: the first difference of two recorded signals, found    *)
(* over event pages of bounded size.  Each side is read page by page       *)
(* (VcdEventReader); a GroupCursor folds the records of one instant, which *)
(* may lie on several pages, into one value; _compare_pages walks the      *)
(* instants of both sides and collects the reasons why its answer may be   *)
(* incomplete.  The files may be replaced at any moment.                   *)
(*                                                                         *)
(* A record is [t |-> femtoseconds, v |-> value].  The values "0" and "1"  *)
(* are short and known, "W" is known and long, "x" is unknown and "?" is   *)
(* no digital value.  None stands for a missing value.                     *)
(***************************************************************************)
EXTENDS Integers, Sequences, FiniteSets, FiniteSetsExt

CONSTANTS FsPerPs     \* femtoseconds in a picosecond: 1000 in the code

ASSUME FsPerPsAssumption == FsPerPs \in Nat \ {0}

VARIABLES
    evWave,     \* the two recordings: rows, end (NoTime: unknown), width
    evAsk,      \* the request: start and end in ps (end -1: all), page limits
    evGen,      \* generation of each file on disk
    evOpened,   \* generation each parser has opened
    evCursor,   \* the two group cursors
    evPc, evSide, evAt, evValue, evGaps, evExamined, evResult

eventVars == <<evWave, evAsk, evGen, evOpened, evCursor, evPc, evSide, evAt,
               evValue, evGaps, evExamined, evResult>>

EvSides == {"a", "b"}
EvNone  == "none"
NoTime  == -1

EvRecordSize(v) == IF v = "W" THEN 2 ELSE 1

\* bit_value: a text that is no digital value is unavailable.
EvBits(v) == IF v = "?" THEN EvNone ELSE v

EvKnown(v) == v \notin {EvNone, "x"}

EvOrdered(rows) == \A i \in 1..(Len(rows) - 1) : rows[i].t <= rows[i + 1].t

\* The window in femtoseconds: up to the end both sides have recorded.
EvFrom == evAsk.start * FsPerPs
EvEnds == {evWave[s].end : s \in EvSides} \ {NoTime}
EvStop ==
    LET recorded == IF EvEnds = {} THEN EvFrom - 1 ELSE Min(EvEnds)
    IN  IF evAsk.end >= 0 THEN Min({recorded, evAsk.end * FsPerPs}) ELSE recorded
EvRequestedStop ==
    IF evAsk.end >= 0 THEN evAsk.end * FsPerPs
    ELSE IF EvEnds = {} THEN EvStop ELSE Max(EvEnds)

EvToPs(t) == (t + FsPerPs - 1) \div FsPerPs

\* The rows a reader serves: index of the first, and of the one behind the last.
EvFirstRow(s) == 1 + Cardinality({i \in DOMAIN evWave[s].rows : evWave[s].rows[i].t < EvFrom})
EvRowLimit(s) ==
    LET end == IF evAsk.end < 0 THEN evWave[s].end ELSE evAsk.end * FsPerPs
    IN  1 + Cardinality({i \in DOMAIN evWave[s].rows :
                            end = NoTime \/ evWave[s].rows[i].t <= end})

\* How many of the rows from index on fit on a page, beside what is on it.
EvFits(rows, index, limit, events, bytes) ==
    LET Bytes(n) == UNION {{i} \X (1..EvRecordSize(rows[i].v)) : i \in index..(index + n - 1)}
    IN  Max({n \in 0..(limit - index) : n <= events /\ Cardinality(Bytes(n)) <= bytes} \cup {0})

EvHuge(v) == EvRecordSize(v) >= evAsk.maxBytes

\* Not even one record fits on a page of its own.
EvCutShort(complete, n, previous) == ~complete /\ n = 0 /\ ~previous

\* VcdEventReader.read_page: a page and the reader behind it.
EvReadPage(s, reader) ==
    LET rows     == evWave[s].rows
        limit    == EvRowLimit(s)
        index    == reader.index
        previous == reader.first /\ index > 1
        used     == IF previous THEN EvRecordSize(rows[index - 1].v) ELSE 0
        n        == EvFits(rows, index, limit, evAsk.maxEvents - (IF previous THEN 1 ELSE 0),
                           evAsk.maxBytes - used)
        behind   == index + n
        complete == behind >= limit
    IN  IF previous /\ EvHuge(rows[index - 1].v)
          THEN [reader |-> reader,
                page |-> [events |-> <<>>, predecessor |-> EvNone, next |-> rows[index - 1].t,
                          complete |-> FALSE, truncated |-> TRUE]]
          ELSE [reader |-> [index |-> behind, first |-> FALSE],
                page |-> [events |-> SubSeq(rows, index, behind - 1),
                          predecessor |-> IF previous THEN rows[index - 1].v ELSE EvNone,
                          next |-> IF complete THEN NoTime ELSE rows[behind].t,
                          complete |-> complete,
                          truncated |-> EvCutShort(complete, n, previous)]]

\* The time of the next unread record, on this page or known to lie on the next.
\* (Mutant: the page counts as all there is.)
EvPeekOnPage(c) == IF c.pos <= Len(c.page.events) THEN c.page.events[c.pos].t ELSE NoTime

EvPeek(c) == IF c.pos <= Len(c.page.events) THEN c.page.events[c.pos].t ELSE c.page.next

\* A gap is noted once for each reason and side, at its first instant.
EvNote(gaps, why, side, at) ==
    IF \E g \in gaps : g.why = why /\ g.side = side THEN gaps
    ELSE gaps \cup {[why |-> why, side |-> side, at |-> at]}

EvNoAnswer == [status |-> "inconclusive", fs |-> NoTime, ps |-> NoTime, proven |-> FALSE,
               coverage |-> "none"]

EventInit(loads) ==
    /\ \E load \in loads : evWave = load.wave /\ evAsk = load.ask
    /\ evGen = [s \in EvSides |-> 0]
    /\ evOpened = [s \in EvSides |-> 0]
    /\ evCursor = [s \in EvSides |-> EvNone]
    /\ evPc = "open"
    /\ evSide = "a"
    /\ evAt = EvFrom
    /\ evValue = [s \in EvSides |-> EvNone]
    /\ evGaps = {}
    /\ evExamined = FALSE
    /\ evResult = EvNoAnswer

EvRangeGaps ==
    {[why |-> "recorded_range_unavailable", side |-> s, at |-> EvFrom] :
        s \in {q \in EvSides : evWave[q].end = NoTime}}
    \cup {[why |-> "outside_recorded_range", side |-> s, at |-> evWave[s].end] :
        s \in {q \in EvSides : evWave[q].end # NoTime /\ EvRequestedStop > evWave[q].end}}

\* get_parser opens what is on disk now; readers are made, the window is settled.
OpenComparison ==
    /\ evPc = "open"
    /\ evOpened' = evGen
    /\ IF \E s \in EvSides : ~EvOrdered(evWave[s].rows)
         THEN evPc' = "failed" /\ evGaps' = evGaps
         ELSE LET width == evWave["a"].width # evWave["b"].width
                  empty == EvStop < EvFrom
              IN  /\ evGaps' = EvRangeGaps \cup
                       (IF empty THEN {[why |-> "empty_window", side |-> "both", at |-> EvFrom]}
                        ELSE IF width THEN {[why |-> "width_mismatch", side |-> "both", at |-> EvFrom]}
                        ELSE {})
                  /\ evPc' = IF empty \/ width THEN "check" ELSE "first"
    /\ UNCHANGED <<evWave, evAsk, evGen, evCursor, evSide, evAt, evValue, evExamined, evResult>>

Unchanged(s) == evGen[s] = evOpened[s]

\* Every page is read only while the file is the one that was opened.
ReadFails ==
    /\ evPc \in {"first", "fold"}
    /\ ~Unchanged(evSide)
    /\ evPc = "fold" => evCursor[evSide].pos > Len(evCursor[evSide].page.events)
                        /\ evCursor[evSide].page.next = evAt
                        /\ ~(evCursor[evSide].page.truncated \/ evCursor[evSide].page.complete)
    /\ evPc' = "failed"
    /\ UNCHANGED <<evWave, evAsk, evGen, evOpened, evCursor, evSide, evAt, evValue, evGaps,
                   evExamined, evResult>>

\* GroupCursor.__init__ reads the first page; its predecessor is the value at
\* the start of the window.
FirstPage ==
    /\ evPc = "first"
    /\ Unchanged(evSide)
    /\ LET read == EvReadPage(evSide, [index |-> EvFirstRow(evSide), first |-> TRUE])
       IN  /\ evCursor' = [evCursor EXCEPT ![evSide] =
                             [reader |-> read.reader, page |-> read.page, pos |-> 1]]
           /\ evValue' = [evValue EXCEPT ![evSide] = EvBits(read.page.predecessor)]
    /\ evPc' = IF evSide = "a" THEN "first" ELSE "fold"
    /\ evSide' = IF evSide = "a" THEN "b" ELSE "a"
    /\ UNCHANGED <<evWave, evAsk, evGen, evOpened, evAt, evGaps, evExamined, evResult>>

Incomplete(why) ==
    /\ evGaps' = EvNote(evGaps, why, "both", evAt)
    /\ evPc' = "check"
    /\ UNCHANGED <<evWave, evAsk, evGen, evOpened, evCursor, evSide, evAt, evValue,
                   evExamined, evResult>>

\* take_group on the current page: the last record of the instant counts.
FoldOnPage ==
    /\ evPc = "fold"
    /\ LET c    == evCursor[evSide]
           last == Max({i \in c.pos..Len(c.page.events) : c.page.events[i].t = evAt} \cup {0})
       IN  /\ c.pos <= Len(c.page.events)
           /\ EvPeek(c) = evAt
           /\ evCursor' = [evCursor EXCEPT ![evSide].pos = last + 1]
           /\ evValue' = [evValue EXCEPT ![evSide] = EvBits(c.page.events[last].v)]
    /\ UNCHANGED <<evWave, evAsk, evGen, evOpened, evPc, evSide, evAt, evGaps, evExamined, evResult>>

\* take_group at the end of a page whose next record belongs to the instant.
FoldNextPage ==
    /\ evPc = "fold"
    /\ LET c    == evCursor[evSide]
           read == EvReadPage(evSide, c.reader)
       IN  /\ c.pos > Len(c.page.events)
           /\ EvPeek(c) = evAt
           /\ \/ /\ c.page.truncated \/ c.page.complete
                 /\ Incomplete("transition_data_truncated")
              \/ /\ ~(c.page.truncated \/ c.page.complete)
                 /\ Unchanged(evSide)
                 /\ read.page.events = <<>> /\ read.page.next = evAt
                 /\ Incomplete("transition_data_truncated")
              \/ /\ ~(c.page.truncated \/ c.page.complete)
                 /\ Unchanged(evSide)
                 /\ ~(read.page.events = <<>> /\ read.page.next = evAt)
                 /\ evCursor' = [evCursor EXCEPT ![evSide] =
                                   [reader |-> read.reader, page |-> read.page, pos |-> 1]]
                 /\ UNCHANGED <<evWave, evAsk, evGen, evOpened, evPc, evSide, evAt, evValue,
                                evGaps, evExamined, evResult>>

\* An unread record before the instant: a predecessor too large for a page.
FoldBlocked ==
    /\ evPc = "fold"
    /\ EvPeek(evCursor[evSide]) # NoTime
    /\ EvPeek(evCursor[evSide]) < evAt
    /\ Incomplete(IF evCursor[evSide].page.truncated THEN "transition_data_truncated"
                  ELSE "transition_order_invalid")

GroupDone(c) == EvPeek(c) = NoTime \/ EvPeek(c) > evAt

\* The instant of this side is folded; the other side, or the comparison, follows.
FoldDone ==
    /\ evPc = "fold"
    /\ GroupDone(evCursor[evSide])
    /\ evPc' = IF evSide = "a" THEN "fold" ELSE "compare"
    /\ evSide' = IF evSide = "a" THEN "b" ELSE "a"
    /\ UNCHANGED <<evWave, evAsk, evGen, evOpened, evCursor, evAt, evValue, evGaps,
                   evExamined, evResult>>

EvValueGaps ==
    LET Add(gaps, s) ==
          IF evValue[s] = EvNone THEN EvNote(gaps, "value_unavailable", s, evAt)
          ELSE IF ~EvKnown(evValue[s]) THEN EvNote(gaps, "value_unknown", s, evAt)
          ELSE gaps
    IN  Add(Add(evGaps, "a"), "b")

Differs == EvKnown(evValue["a"]) /\ EvKnown(evValue["b"]) /\ evValue["a"] # evValue["b"]

Proven(gaps) == ~\E g \in gaps : g.at <= evAt

Upcoming == {EvPeek(evCursor[s]) : s \in EvSides} \ {NoTime}

\* One instant of _compare_pages: a difference ends the search, otherwise the
\* next instant at which either side has a record follows.
CompareInstant ==
    /\ evPc = "compare"
    /\ evExamined' = TRUE
    /\ evGaps' = EvValueGaps
    /\ IF Differs
         THEN /\ evResult' = [evResult EXCEPT !.status = "different", !.fs = evAt,
                                              !.ps = EvToPs(evAt), !.proven = Proven(evGaps')]
              /\ evPc' = "check"
              /\ UNCHANGED evAt
         ELSE /\ UNCHANGED evResult
              /\ IF Upcoming = {} \/ Min(Upcoming) > EvStop
                   THEN evPc' = "check" /\ UNCHANGED evAt
                   ELSE evPc' = "fold" /\ evAt' = Min(Upcoming)
    /\ UNCHANGED <<evWave, evAsk, evGen, evOpened, evCursor, evSide, evValue>>

Settled ==
    LET equal == evResult.status # "different" /\ evExamined /\ evGaps = {}
    IN  [evResult EXCEPT !.status = IF equal THEN "equal" ELSE @,
                         !.coverage = IF ~evExamined THEN "none"
                                      ELSE IF \/ evGaps # {}
                                              \/ evResult.status = "different" /\ evAt < EvStop
                                      THEN "partial" ELSE "complete"]

\* compare_signals: a file that changed since the request began takes the
\* answer back.
FinishComparison ==
    /\ evPc \in {"check", "failed"}
    /\ evPc' = "done"
    /\ LET result == IF evPc = "failed" THEN EvNoAnswer ELSE Settled
       IN  evResult' = IF \E s \in EvSides : evGen[s] # 0
                         THEN [EvNoAnswer EXCEPT !.coverage = "partial"]
                         ELSE result
    /\ UNCHANGED <<evWave, evAsk, evGen, evOpened, evCursor, evSide, evAt, evValue, evGaps,
                   evExamined>>

\* Someone replaces a recording.
ReplaceWave ==
    /\ evPc # "done"
    /\ \E s \in EvSides : evGen[s] = 0 /\ evGen' = [evGen EXCEPT ![s] = 1]
    /\ UNCHANGED <<evWave, evAsk, evOpened, evCursor, evPc, evSide, evAt, evValue, evGaps,
                   evExamined, evResult>>

EventStep ==
    \/ OpenComparison \/ ReadFails \/ FirstPage \/ FoldOnPage \/ FoldNextPage
    \/ FoldBlocked \/ FoldDone \/ CompareInstant \/ FinishComparison

EventNext == EventStep \/ ReplaceWave

\* Every two recordings and every request there can be.
EvRow == [t : Nat, v : {"0", "1", "W", "x", "?"}]
EvRecordings == [rows : Seq(EvRow), end : Nat \cup {NoTime}, width : Nat]
EvRequests == [start : Nat, end : Nat \cup {-1}, maxEvents : Nat \ {0}, maxBytes : Nat \ {0}]

EventSpec ==
    EventInit([wave : [EvSides -> EvRecordings], ask : EvRequests]) /\ [][EventNext]_eventVars

(***************************************************************************)
(* What the comparison means, over the whole recordings.                   *)
(***************************************************************************)
EvValueAt(s, t) ==
    LET upto == {i \in DOMAIN evWave[s].rows : evWave[s].rows[i].t <= t}
    IN  IF upto = {} THEN EvNone ELSE EvBits(evWave[s].rows[Max(upto)].v)

EvAgree(t) == EvKnown(EvValueAt("a", t)) /\ EvValueAt("a", t) = EvValueAt("b", t)

EvDisagree(t) ==
    /\ \A s \in EvSides : EvKnown(EvValueAt(s, t))
    /\ EvValueAt("a", t) # EvValueAt("b", t)

\* Whatever the page size, an answer of compare_signals is true of the whole
\* recordings: "equal" means that both are known and agree throughout the
\* requested window, a difference exists where it is reported, it is the
\* earliest one when that is claimed, and no answer survives a replaced file.
ComparisonSound ==
    evPc = "done" =>
        /\ evResult.status = "equal" =>
               EvStop = EvRequestedStop /\ \A t \in EvFrom..EvStop : EvAgree(t)
        /\ evResult.status = "different" =>
               /\ evResult.fs \in EvFrom..EvStop /\ EvDisagree(evResult.fs)
               /\ \A t \in EvFrom..(evResult.fs - 1) : ~EvDisagree(t)
               /\ evResult.proven => \A t \in EvFrom..(evResult.fs - 1) : EvAgree(t)
        /\ (\E s \in EvSides : evGen[s] # 0) => evResult.status = "inconclusive"

\* The page limits alone never make compare_signals undecided: when every
\* record fits on a page and both signals are known throughout a window both
\* have recorded, the answer is "equal" or a proven first difference.
ComparisonDecides ==
    /\ evPc = "done"
    /\ \A s \in EvSides : evGen[s] = 0 /\ evWave[s].end # NoTime
    /\ evWave["a"].width = evWave["b"].width
    /\ EvFrom <= EvStop /\ EvStop = EvRequestedStop
    /\ \A s \in EvSides : /\ EvOrdered(evWave[s].rows)
                          /\ \A i \in DOMAIN evWave[s].rows : ~EvHuge(evWave[s].rows[i].v)
                          /\ \A t \in EvFrom..EvStop : EvKnown(EvValueAt(s, t))
    => evResult.status = "equal" \/ (evResult.status = "different" /\ evResult.proven)

\* Pages, instants and replaced files together: compare_signals answers truly and
\* does not give up without a reason.
ComparisonTrue == ComparisonSound /\ ComparisonDecides
================================================================================
