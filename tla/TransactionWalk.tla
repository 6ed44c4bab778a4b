----------------------------- MODULE TransactionWalk -----------------------------
(***************************************************************************)
(* txn_reconstruct._walk: requests, write data and completions, sampled on *)
(* clock edges, are correlated into transactions.  Completions match the   *)
(* oldest request of their id; data beats go to the oldest request whose   *)
(* data is not complete and wait when there is none; a reset, certain or   *)
(* not, forgets all that is pending.  Every edge is admitted as a whole    *)
(* against the limits before any state changes; the first edge that does   *)
(* not fit ends the walk.                                                  *)
(*                                                                         *)
(* An edge is [reset |-> "no", "yes" or "unknown", req, data, cmp]: TxNone *)
(* or [id, len] of a request, [last] of a data beat, [id, last] of a       *)
(* completion beat.  The id "?" is unknown; len -1 is not captured; vague  *)
(* says that the valid, ready or last of some channel is unknown.          *)
(***************************************************************************)
EXTENDS Integers, Sequences, FiniteSets, FiniteSetsExt, SequencesExt

CONSTANTS TxPending, TxEarly, TxStateBytes,  \* limits of the budget
          TxMaxEdges,                        \* bound: edges of one behaviour
          TxNone                             \* nothing on a channel, no reason

VARIABLES
    txCfg,   \* hasLast, hasData, hasDataLast, capture, and the edges that can occur
    txLog,   \* the edges walked over
    txAcc,   \* the walk's accumulators
    txStop

walkVars == <<txCfg, txLog, txAcc, txStop>>

\* Sizes, relative to one another as in the code: a request, a captured beat, a
\* beat, the entry of an id, the entry of a beat counter.
RequestSize == 4
BeatSize    == IF txCfg.capture THEN 3 ELSE 2
IdSize      == 1
CounterSize == 1
LatencySize == 1

WalkInit(loads) ==
    /\ txCfg \in loads
    /\ txLog = <<>>
    /\ txStop = TxNone
    /\ txAcc = [order |-> <<>>, early |-> <<>>, counters |-> <<>>, bytes |-> 0, idBytes |-> 0,
                counterBytes |-> 0, seen |-> {}, seq |-> 0, requests |-> 0, completions |-> 0,
                matched |-> <<>>, unmatched |-> 0, reorder |-> 0, mismatches |-> 0,
                unknownIds |-> 0, vague |-> 0, resets |-> 0, lost |-> 0, maxOut |-> 0]

Idx == Len(txLog) + 1

\* data_targets: the requests in flight whose data is not complete, oldest first.
Targets(order) == SelectSeq(order, LAMBDA r : ~r.dataDone)

At(order, seq) == CHOOSE i \in DOMAIN order : order[i].seq = seq

\* One beat of attach(): it goes to the oldest target, or stays.
AttachBeat(acc, beat) ==
    IF Targets(acc.order) = <<>> THEN [acc EXCEPT !.early = Append(@, beat)]
    ELSE LET i == At(acc.order, Head(Targets(acc.order)).seq)
         IN  [acc EXCEPT !.order[i] = [@ EXCEPT !.beats = @ + 1,
                                                !.bytes = @ + (IF txCfg.capture THEN beat.size ELSE 0),
                                                !.dataDone = beat.last],
                         !.bytes = @ - (IF txCfg.capture THEN 0 ELSE beat.size)]

Attach(acc) == FoldLeft(AttachBeat, [acc EXCEPT !.early = <<>>], acc.early)

KnownRequest(e) == e.req # TxNone /\ e.req.id # "?"

\* Preflight of one edge.
NewIdBytes(e) == IF KnownRequest(e) /\ e.req.id \notin txAcc.seen THEN IdSize ELSE 0
NewCounterBytes(e) ==
    IF e.cmp # TxNone /\ e.cmp.id # "?" /\ ~\E i \in DOMAIN txAcc.counters : txAcc.counters[i].id = e.cmp.id
    THEN CounterSize ELSE 0
Reserve(e) ==
    txAcc.bytes + (IF KnownRequest(e) THEN RequestSize ELSE 0) + (IF e.data # TxNone THEN BeatSize ELSE 0)
    + txAcc.idBytes + NewIdBytes(e) + txAcc.counterBytes + NewCounterBytes(e)
    + LatencySize * (Cardinality({m.to - m.from : m \in Range(txAcc.matched)}) + 3)

RefusalOf(e) ==
    IF KnownRequest(e) /\ Len(txAcc.order) >= TxPending THEN "pending_budget"
    ELSE IF /\ e.data # TxNone /\ Targets(txAcc.order) = <<>> /\ ~KnownRequest(e)
            /\ Len(txAcc.early) >= TxEarly THEN "early_data_budget"
    ELSE IF Reserve(e) > TxStateBytes THEN "state_byte_budget"
    ELSE TxNone

AddRequest(acc, e) ==
    IF e.req = TxNone THEN acc
    ELSE IF ~KnownRequest(e) THEN [acc EXCEPT !.unknownIds = @ + 1]
    ELSE LET rec == [id |-> e.req.id, seq |-> acc.seq, idx |-> Idx, len |-> e.req.len,
                     dataDone |-> ~txCfg.hasData, beats |-> 0, bytes |-> RequestSize]
         IN  Attach([acc EXCEPT !.requests = @ + 1,
                                !.seq = @ + 1,
                                !.idBytes = @ + NewIdBytes(e),
                                !.seen = @ \cup {e.req.id},
                                !.order = Append(@, rec),
                                !.bytes = @ + RequestSize,
                                !.maxOut = Max({@, Len(acc.order) + 1})])

AddData(acc, e) ==
    IF e.data = TxNone THEN acc
    ELSE Attach([acc EXCEPT !.early = Append(@, [last |-> ~txCfg.hasDataLast \/ e.data.last,
                                                 size |-> BeatSize]),
                            !.bytes = @ + BeatSize])

\* beat_ctr: beats of an id since its last completion.
CounterOf(acc, id) ==
    LET c == SelectSeq(acc.counters, LAMBDA x : x.id = id) IN IF c = <<>> THEN 0 ELSE Head(c).n
WithoutCounter(acc, id) == SelectSeq(acc.counters, LAMBDA x : x.id # id)

Oldest(order, id) == Min({i \in DOMAIN order : order[i].id = id})

NoteVague(acc, e) == [acc EXCEPT !.vague = @ + (IF e.vague THEN 1 ELSE 0)]

\* The completion of the oldest request of its id.
Complete(acc, id, beats) ==
    LET i    == Oldest(acc.order, id)
        req  == acc.order[i]
        rest == RemoveAt(acc.order, i)
        n    == IF txCfg.hasData THEN req.beats ELSE beats
        late == rest # <<>> /\ Head(rest).seq < req.seq
    IN  [acc EXCEPT !.order = rest,
                    !.bytes = @ - req.bytes,
                    !.reorder = @ + (IF late THEN 1 ELSE 0),
                    !.mismatches = @ + (IF req.len >= 0 /\ n # req.len + 1 THEN 1 ELSE 0),
                    !.matched = Append(@, [id |-> id, from |-> req.idx, to |-> Idx, beats |-> n,
                                           dataDone |-> req.dataDone, late |-> late])]

AddCompletion(acc, e) ==
    IF e.cmp = TxNone THEN acc
    ELSE IF e.cmp.id = "?" THEN [acc EXCEPT !.unknownIds = @ + 1]
    ELSE LET id      == e.cmp.id
             beats   == CounterOf(acc, id) + 1
             counted == [acc EXCEPT !.counters = Append(WithoutCounter(acc, id), [id |-> id, n |-> beats]),
                                    !.counterBytes = @ + NewCounterBytes(e)]
             ended   == [acc EXCEPT !.counters = WithoutCounter(acc, id),
                                    !.counterBytes = @ + NewCounterBytes(e) - CounterSize,
                                    !.completions = @ + 1]
         IN  IF txCfg.hasLast /\ ~e.cmp.last THEN counted
             ELSE IF ~\E i \in DOMAIN acc.order : acc.order[i].id = id
                    THEN [ended EXCEPT !.unmatched = @ + 1]
             ELSE Complete(ended, id, beats)

\* A reset, or one that may be: everything pending is forgotten.  (Mutant: the
\* bytes of the beat counters stay charged.)
ForgetRecords(acc, e) ==
    [acc EXCEPT !.order = <<>>, !.early = <<>>, !.counters = <<>>, !.bytes = 0]

Forget(acc, e) ==
    LET busy == acc.order # <<>> \/ acc.early # <<>>
    IN  [acc EXCEPT !.order = <<>>, !.early = <<>>, !.counters = <<>>,
                    !.bytes = 0, !.counterBytes = 0,
                    !.resets = @ + (IF busy /\ e.reset = "yes" THEN 1 ELSE 0),
                    !.vague = @ + (IF e.reset = "unknown" THEN 1 ELSE 0),
                    !.lost = @ + (IF busy /\ e.reset = "unknown" THEN 1 ELSE 0)]

WalkBoundary ==
    /\ txStop = TxNone /\ Len(txLog) < TxMaxEdges
    /\ \E e \in txCfg.edges :
         /\ e.reset # "no"
         /\ txAcc' = Forget(txAcc, e)
         /\ txLog' = Append(txLog, e)
    /\ UNCHANGED <<txCfg, txStop>>

WalkEdge ==
    /\ txStop = TxNone /\ Len(txLog) < TxMaxEdges
    /\ \E e \in txCfg.edges :
         /\ e.reset = "no"
         /\ RefusalOf(e) = TxNone
         /\ txAcc' = AddCompletion(AddData(AddRequest(NoteVague(txAcc, e), e), e), e)
         /\ txLog' = Append(txLog, e)
    /\ UNCHANGED <<txCfg, txStop>>

WalkRefused ==
    /\ txStop = TxNone /\ Len(txLog) < TxMaxEdges
    /\ \E e \in txCfg.edges : e.reset = "no" /\ RefusalOf(e) # TxNone /\ txStop' = RefusalOf(e)
    /\ UNCHANGED <<txCfg, txLog, txAcc>>

WalkNext == WalkBoundary \/ WalkEdge \/ WalkRefused

(***************************************************************************)
(* The transactions of a log, without a correlator.                        *)
(***************************************************************************)
\* The stretch of the log without a reset that index i lies in begins after this.
SinceReset(i) == Max({0} \cup {k \in 1..i : txLog[k].reset # "no"})

RequestsOf(id, from, to) ==
    {k \in (from + 1)..to : txLog[k].reset = "no" /\ txLog[k].req # TxNone /\ txLog[k].req.id = id}

EndsOf(k, id) ==
    /\ txLog[k].reset = "no" /\ txLog[k].cmp # TxNone /\ txLog[k].cmp.id = id
    /\ ~txCfg.hasLast \/ txLog[k].cmp.last

\* How many requests of the id are in flight after edge k of the stretch: a
\* completion without one matches nothing.
InFlight(id, to) ==
    LET from == SinceReset(to)
        N[k \in from..to] ==
          IF k = from THEN 0
          ELSE LET n == N[k - 1] + Cardinality(RequestsOf(id, k - 1, k))
               IN  IF EndsOf(k, id) /\ n > 0 THEN n - 1 ELSE n
    IN  N[to]

WalkIds == {e.req.id : e \in {x \in txCfg.edges : x.req # TxNone}} \ {"?"}

\* Among the completions of an id in one stretch, the n-th to match something
\* belongs to the n-th request.
Matches(id) == SelectSeq(txAcc.matched, LAMBDA m : m.id = id)
PairedInOrder(id) ==
    \A i, j \in DOMAIN Matches(id) :
        i < j => Matches(id)[i].from < Matches(id)[j].from /\ Matches(id)[i].to < Matches(id)[j].to

\* The bursts of write data in a stretch, in order; a request whose data was
\* complete has the burst of its own place in the order of issue, as long as
\* no request before it completed without its data.
BurstEnds(from, to) ==
    SetToSortSeq({k \in (from + 1)..to : /\ txLog[k].data # TxNone
                                         /\ ~txCfg.hasDataLast \/ txLog[k].data.last}, <)
BeatsOf(from, n, ends) ==
    Cardinality({k \in ((IF n = 1 THEN from ELSE ends[n - 1]) + 1)..ends[n] : txLog[k].data # TxNone})
Place(m) ==
    LET from == SinceReset(m.from)
    IN  Cardinality({k \in (from + 1)..m.from :
                        txLog[k].req # TxNone /\ txLog[k].req.id # "?"})
DataKeptUp(m) ==
    \A x \in Range(txAcc.matched) :
        SinceReset(x.from) = SinceReset(m.from) /\ x.to <= m.to => x.dataDone
OwnBurst(m) ==
    LET from == SinceReset(m.from)
        ends == BurstEnds(from, m.to)
    IN  Place(m) <= Len(ends) /\ m.beats = BeatsOf(from, Place(m), ends)

\* The transactions _walk reports are those of the sampled edges: requests in
\* flight are exactly the unanswered ones since the last reset, completions of
\* an id pair with its requests in order of issue and never across a reset, and
\* each write has the beats of its own burst, early ones included.
TransactionsTrue ==
    /\ \A id \in WalkIds :
           /\ PairedInOrder(id)
           /\ Cardinality({i \in DOMAIN txAcc.order : txAcc.order[i].id = id}) = InFlight(id, Len(txLog))
    /\ \A i \in DOMAIN txAcc.matched :
           LET m == txAcc.matched[i]
           IN  /\ m.from <= m.to /\ SinceReset(m.from) = SinceReset(m.to)
               /\ m.late <=> \E k \in (SinceReset(m.from) + 1)..(m.from - 1) :
                     /\ txLog[k].req # TxNone /\ txLog[k].req.id # "?"
                     /\ ~\E j \in 1..i : txAcc.matched[j].from = k
               /\ txCfg.hasData /\ DataKeptUp(m) => OwnBurst(m)
    /\ txAcc.requests >= Len(txAcc.matched) + Len(txAcc.order)

\* The bytes that admit or refuse an edge are what the walk holds, after any
\* mixture of early data, captured beats, completions and resets, and never
\* more than the limit.
WalkAccounted ==
    LET Sum(s, Size(_)) == FoldLeft(LAMBDA n, x : n + Size(x), 0, s)
    IN  /\ txAcc.bytes = Sum(txAcc.order, LAMBDA r : r.bytes) + Sum(txAcc.early, LAMBDA b : b.size)
        /\ txAcc.counterBytes = CounterSize * Len(txAcc.counters)
        /\ txAcc.idBytes = IdSize * Cardinality(txAcc.seen)
        /\ txAcc.bytes + txAcc.counterBytes + txAcc.idBytes <= TxStateBytes
        /\ Len(txAcc.order) <= TxPending /\ Len(txAcc.early) <= TxEarly

\* The walk reports the transactions of the edges and accounts for what it holds.
WalkTrue == TransactionsTrue /\ WalkAccounted
===================================================================================
