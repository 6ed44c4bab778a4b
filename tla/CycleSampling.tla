------------------------------ MODULE CycleSampling ------------------------------
(***************************************************************************)
(* Sampling signals on clock edges, with exact times and one budget of     *)
(* records for the whole request (TransactionBudget).                      *)
(*                                                                         *)
(* "window": sample_signals_on_edges over a time window.  The clock is     *)
(* read once; what lies behind an unknown value, an ambiguous instant or   *)
(* the end of the budget is cut off, and limit_to_budget_prefix cuts the   *)
(* rows that a truncated column does not reach.                            *)
(* "local": sample_local_cycles from a time onwards.  _discover reads the  *)
(* clock in windows that double in length and overlap in one instant.      *)
(*                                                                         *)
(* A record is [t |-> femtoseconds, v |-> "0", "1" or "x"].  One window    *)
(* holds fewer records than an event page (EventCompare has the pages).    *)
(***************************************************************************)
EXTENDS Integers, Sequences, FiniteSets, FiniteSetsExt, SequencesExt

CONSTANTS CyFs,          \* femtoseconds in a picosecond: 1000 in the code
          CySpan,        \* WINDOW_PS
          CyMaxWindows   \* MAX_WINDOWS

ASSUME CycleAssumption == CyFs \in Nat \ {0} /\ CySpan \in Nat \ {0} /\ CyMaxWindows \in Nat \ {0}

VARIABLES
    cyWave,      \* clock, data (two recordings), eof
    cyAsk,       \* op, edge, phase, offset, start, end (-1: open), count, budget
    cyUsed,      \* records admitted so far
    cySpent,     \* budget.stop_reason is set
    cyPc, cyAt, cySize, cyWindows,
    cyScanned,   \* end of the last window, -1 before the first
    cyEdges, cyFound, cyReason, cyComplete,
    cyColumns, cyShort  \* sampled columns, and which of them were truncated

cycleVars == <<cyWave, cyAsk, cyUsed, cySpent, cyPc, cyAt, cySize, cyWindows, cyScanned,
               cyEdges, cyFound, cyReason, cyComplete, cyColumns, cyShort>>

CyNone  == "none"
CyKnown == {"0", "1"}
CyTimes(rows) == {rows[i].t : i \in DOMAIN rows}
CyCeil(t) == (t + CyFs - 1) \div CyFs

\* The records of a window of picoseconds as the budget admits them.
CyRead(rows, from, to) ==
    LET before == SelectSeq(rows, LAMBDA r : r.t < from * CyFs)
        inside == SelectSeq(rows, LAMBDA r : r.t >= from * CyFs /\ (to < 0 \/ r.t <= to * CyFs))
        seed   == IF before = <<>> THEN <<>> ELSE <<Last(before)>>
        all    == seed \o inside
        n      == IF cySpent THEN 0 ELSE Min({Len(all), cyAsk.budget - cyUsed})
    IN  [anchor |-> IF seed = <<>> \/ n = 0 THEN CyNone ELSE seed[1].v,
         rows |-> SubSeq(all, Len(seed) + 1, n),
         next |-> IF n < Len(all) THEN all[n + 1].t ELSE -1,
         used |-> cyUsed + n,
         truncated |-> cySpent \/ n < Len(all)]

CyGroup(rows, t) == SelectSeq(rows, LAMBDA r : r.t = t)
CyChanged(group) == \E i \in 1..(Len(group) - 1) : group[i].v # group[i + 1].v

\* _extract_edge_times for one pair of values.
IsEdge(previous, current) ==
    IF cyAsk.edge = "posedge" THEN previous = "0" /\ current = "1"
                              ELSE previous = "1" /\ current = "0"

CyEdgesOf(anchor, rows) ==
    LET Previous(i) == IF i = 1 THEN anchor ELSE rows[i - 1].v
        at == SetToSortSeq({i \in DOMAIN rows : IsEdge(Previous(i), rows[i].v)}, <)
    IN  [k \in DOMAIN at |-> rows[at[k]].t]

CycleInit(loads) ==
    /\ \E load \in loads : cyWave = load.wave /\ cyAsk = load.ask
    /\ cyUsed = 0 /\ cySpent = FALSE
    /\ cyPc = (IF cyAsk.op = "local" THEN "discover" ELSE "clock")
    /\ cyAt = cyAsk.start /\ cySize = CySpan /\ cyWindows = 0 /\ cyScanned = -1
    /\ cyEdges = <<>> /\ cyFound = 0 /\ cyReason = CyNone /\ cyComplete = FALSE
    /\ cyColumns = <<>> /\ cyShort = {}

(***************************************************************************)
(* sample_signals_on_edges                                                 *)
(***************************************************************************)
\* _before_clock_prefix: the first unknown or ambiguous instant of the clock.
UnsafeAt(read) ==
    IF read.anchor = "x" THEN cyAsk.start * CyFs
    ELSE LET bad == {t \in CyTimes(read.rows) :
                       LET g == CyGroup(read.rows, t)
                       IN  CyChanged(g) \/ \E i \in DOMAIN g : g[i].v = "x"}
         IN  IF bad = {} THEN -1 ELSE Min(bad)

\* The rows of the prefix, and the instant from which on nothing is certain.
ClockPrefix(read) ==
    LET unsafe == UnsafeAt(read)
        rows   == IF unsafe < 0 THEN read.rows ELSE SelectSeq(read.rows, LAMBDA r : r.t < unsafe)
    IN  [rows |-> rows,
         cut |-> unsafe >= 0 \/ read.truncated,
         safe |-> IF unsafe >= 0 THEN unsafe ELSE IF rows = <<>> THEN -1 ELSE Last(rows).t]

SampleTime(t) == t + cyAsk.offset * CyFs

WithinSafe(edges, prefix) ==
    IF prefix.cut THEN SelectSeq(edges, LAMBDA t : SampleTime(t) < prefix.safe) ELSE edges

ReadWindowClock ==
    /\ cyPc = "clock"
    /\ LET read   == CyRead(cyWave.clock, cyAsk.start, cyAsk.end)
           prefix == ClockPrefix(read)
           edges  == WithinSafe(CyEdgesOf(read.anchor, prefix.rows), prefix)
       IN  /\ cyUsed' = read.used
           /\ cySpent' = read.truncated
           /\ cyFound' = Len(edges)
           /\ cyEdges' = SubSeq(edges, 1, Min({cyAsk.count, Len(edges)}))
           /\ cyReason' = IF prefix.cut THEN "clock_cut"
                          ELSE IF Len(edges) > cyAsk.count THEN "cycle_limit" ELSE CyNone
           /\ cyComplete' = (cyReason' = CyNone)
    /\ cyPc' = "columns"
    /\ UNCHANGED <<cyWave, cyAsk, cyAt, cySize, cyWindows, cyScanned, cyColumns, cyShort>>

(***************************************************************************)
(* _discover                                                               *)
(***************************************************************************)
Wanted == cyAsk.count + (IF cyAsk.end >= 0 THEN 1 ELSE 0)

\* Fold the groups of a window in order: an unknown or ambiguous one, or one
\* that the budget cuts through, ends the search; so does the last edge wanted.
FoldGroups(read) ==
    LET times == SetToSortSeq(CyTimes(read.rows) \cup ({read.next} \ {-1}), <)
        Step(s, t) ==
          LET group == CyGroup(read.rows, t)
              value == Last(group).v
          IN  IF s.reason # CyNone \/ Len(s.edges) >= Wanted THEN s
              ELSE IF t = read.next THEN [s EXCEPT !.reason = "budget"]
              ELSE IF t <= cyScanned THEN [s EXCEPT !.value = value]
              ELSE IF value \notin CyKnown \/ CyChanged(group)
                THEN [s EXCEPT !.reason = "clock_unclear"]
              ELSE [s EXCEPT !.value = value,
                             !.edges = IF IsEdge(s.value, value) THEN Append(@, t) ELSE @]
        seedless == /\ cyScanned = -1
                    /\ read.anchor \notin CyKnown
                    /\ \/ read.anchor # CyNone
                       \/ cyAsk.start # 0
                       \/ times = <<>> \/ Head(times) # 0
        start == [value |-> read.anchor, edges |-> cyEdges,
                  reason |-> IF seedless THEN "no_seed" ELSE CyNone]
    IN  FoldLeft(Step, start, times)

Until == IF cyAsk.end < 0 THEN cyAt + cySize ELSE Min({cyAt + cySize, cyAsk.end})

OutsideRecording ==
    /\ cyPc = "discover"
    /\ cyAsk.start * CyFs > cyWave.eof
    /\ cyReason' = "outside"
    /\ cyPc' = "columns"
    /\ UNCHANGED <<cyWave, cyAsk, cyUsed, cySpent, cyAt, cySize, cyWindows, cyScanned, cyEdges,
                   cyFound, cyComplete, cyColumns, cyShort>>

\* What a window without trouble leads to: the end of the recording or of the
\* request, the next window, or the end of the windows.
AfterWindow ==
    LET scanned == Until * CyFs
    IN  IF scanned >= cyWave.eof
          THEN LET whole == cyAsk.end >= 0 /\ cyAsk.end * CyFs <= cyWave.eof
               IN  [pc |-> "columns", complete |-> whole,
                    reason |-> IF whole THEN CyNone ELSE "waveform_end"]
        ELSE IF cyAsk.end >= 0 /\ Until = cyAsk.end
          THEN [pc |-> "columns", complete |-> TRUE, reason |-> CyNone]
        ELSE IF cyWindows + 1 = CyMaxWindows
          THEN [pc |-> "columns", complete |-> FALSE, reason |-> "window_budget"]
        ELSE [pc |-> "discover", complete |-> FALSE, reason |-> CyNone]

\* The edges a local request keeps: at most count of them, and after-phase ones
\* only while their sample lies in the recording.
Kept(edges) ==
    LET n == Min({cyAsk.count, Len(edges)})
    IN  SelectSeq(SubSeq(edges, 1, n),
                  LAMBDA t : cyAsk.phase = "before" \/ SampleTime(t) <= cyWave.eof)

\* The next window begins with the instant the last one ended with, which is not
\* looked at again.  (Mutant: it is.)
NextRepeats == cyAt' = Until /\ cyScanned' = -1

NextOverlaps == cyAt' = Until /\ cyScanned' = Until * CyFs

DiscoverWindow ==
    /\ cyPc = "discover"
    /\ cyAsk.start * CyFs <= cyWave.eof
    /\ LET read == CyRead(cyWave.clock, cyAt, Until)
           fold == FoldGroups(read)
           enough == fold.reason = CyNone /\ Len(fold.edges) >= Wanted
           after  == IF fold.reason # CyNone
                       THEN [pc |-> "columns", complete |-> FALSE, reason |-> fold.reason]
                     ELSE IF enough THEN [pc |-> "columns", complete |-> FALSE, reason |-> CyNone]
                     ELSE AfterWindow
           kept   == Kept(fold.edges)
           capped == cyAsk.end >= 0 /\ Len(fold.edges) > cyAsk.count
       IN  /\ cyUsed' = read.used
           /\ cySpent' = read.truncated
           /\ cyPc' = after.pc
           /\ cyComplete' = after.complete
           /\ IF after.pc = "columns"
                THEN /\ cyEdges' = kept
                     /\ cyFound' = Len(fold.edges)
                     /\ cyReason' = IF Len(kept) < Min({cyAsk.count, Len(fold.edges)}) THEN "sample_outside"
                                    ELSE IF capped THEN "cycle_limit" ELSE after.reason
                     /\ UNCHANGED <<cyAt, cyScanned>>
                ELSE /\ cyEdges' = fold.edges
                     /\ NextOverlaps
                     /\ UNCHANGED <<cyFound, cyReason>>
    /\ cySize' = cySize * 2
    /\ cyWindows' = cyWindows + 1
    /\ UNCHANGED <<cyWave, cyAsk, cyColumns, cyShort>>

(***************************************************************************)
(* _sample_signal_columns_impl and _lookup_signal_values                   *)
(***************************************************************************)
RangeStart == Head(cyEdges) \div CyFs
RangeEnd   == CyCeil(Last(cyEdges)) + (IF cyAsk.phase = "before" THEN 0 ELSE cyAsk.offset + 1)

Precedes(t, sample) == IF cyAsk.phase = "before" THEN t < sample ELSE t <= sample

LookupValue(anchor, rows, sample) ==
    LET upto == {i \in DOMAIN rows : Precedes(rows[i].t, sample)}
    IN  IF upto = {} THEN anchor ELSE rows[Max(upto)].v

\* A truncated column is certain only before its last record.
Masked(read, sample) ==
    read.truncated /\ (read.rows = <<>> \/ sample >= Last(read.rows).t)

SampleColumn ==
    /\ cyPc = "columns"
    /\ cyEdges # <<>>
    /\ Len(cyColumns) < Len(cyWave.data)
    /\ LET signal == Len(cyColumns) + 1
           read   == CyRead(cyWave.data[signal], RangeStart, RangeEnd)
           column == [k \in DOMAIN cyEdges |->
                        LET sample == SampleTime(cyEdges[k])
                        IN  IF Masked(read, sample) THEN CyNone
                            ELSE LookupValue(read.anchor, read.rows, sample)]
       IN  /\ cyUsed' = read.used
           /\ cySpent' = read.truncated
           /\ cyColumns' = Append(cyColumns, column)
           /\ cyShort' = IF read.truncated THEN cyShort \cup {signal} ELSE cyShort
    /\ UNCHANGED <<cyWave, cyAsk, cyPc, cyAt, cySize, cyWindows, cyScanned, cyEdges, cyFound,
                   cyReason, cyComplete>>

\* limit_to_budget_prefix: rows up to the first value a truncated column lacks.
PrefixLength ==
    Min({Len(cyEdges)} \cup
        {k - 1 : k \in {j \in DOMAIN cyEdges : \E s \in cyShort : cyColumns[s][j] = CyNone}})

SampledAll == cyEdges = <<>> \/ Len(cyColumns) = Len(cyWave.data)

FinishSampling ==
    /\ cyPc = "columns"
    /\ SampledAll
    /\ cyPc' = "done"
    /\ LET n == IF cyAsk.op = "window" /\ cySpent THEN PrefixLength ELSE Len(cyEdges)
       IN  /\ cyEdges' = SubSeq(cyEdges, 1, n)
           /\ cyColumns' = [s \in DOMAIN cyColumns |-> SubSeq(cyColumns[s], 1, n)]
    /\ UNCHANGED <<cyWave, cyAsk, cyUsed, cySpent, cyAt, cySize, cyWindows, cyScanned, cyFound,
                   cyReason, cyComplete, cyShort>>

CycleNext ==
    \/ ReadWindowClock \/ OutsideRecording \/ DiscoverWindow \/ SampleColumn \/ FinishSampling

(***************************************************************************)
(* The edges and values of the recordings themselves.                      *)
(***************************************************************************)
CyValueBefore(rows, t) ==
    LET upto == {i \in DOMAIN rows : rows[i].t < t}
    IN  IF upto = {} THEN CyNone ELSE rows[Max(upto)].v

CyValueAt(rows, t) == CyValueBefore(rows, t + 1)

CyClear(t) ==
    LET g == CyGroup(cyWave.clock, t)
    IN  ~CyChanged(g) /\ \A i \in DOMAIN g : g[i].v \in CyKnown

InWindow(t) == t >= cyAsk.start * CyFs /\ (cyAsk.end < 0 \/ t <= cyAsk.end * CyFs)

\* The clock's edges in the window up to its first unclear instant.
TrueEdges ==
    LET times   == {t \in CyTimes(cyWave.clock) : InWindow(t)}
        unclear == {t \in times : ~CyClear(t)}
                   \cup {t \in {cyAsk.start * CyFs} : CyValueBefore(cyWave.clock, t) = "x"}
        clean   == {t \in times : \A u \in unclear : t < u}
    IN  SetToSortSeq({t \in clean : IsEdge(CyValueBefore(cyWave.clock, t), CyValueAt(cyWave.clock, t))}, <)

TrueValue(signal, t) ==
    IF cyAsk.phase = "before" THEN CyValueBefore(cyWave.data[signal], t)
    ELSE CyValueAt(cyWave.data[signal], SampleTime(t))

\* Whatever the budget and however the windows fall, the cycles returned are the
\* first edges of the clock, none skipped, repeated or taken from an unclear
\* instant; a window called complete has all of them; an open request without a
\* reason has as many as it asked for; and a sampled value is the signal's value
\* at that edge, or missing where the budget ended, never an older one.
CyclesTrue ==
    cyPc = "done" =>
        /\ IsPrefix(cyEdges, TrueEdges)
        /\ cyComplete /\ cyReason = CyNone /\ cyShort = {} => cyEdges = TrueEdges
        /\ cyAsk.op = "local" /\ cyAsk.end < 0 /\ cyReason = CyNone => Len(cyEdges) = cyAsk.count
        /\ \A s \in DOMAIN cyColumns, k \in DOMAIN cyEdges :
               \/ cyColumns[s][k] = TrueValue(s, cyEdges[k])
               \/ cyColumns[s][k] = CyNone /\ s \in cyShort /\ cyAsk.op = "local"
===================================================================================
