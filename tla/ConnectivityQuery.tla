---------------------------- MODULE ConnectivityQuery ----------------------------
(***************************************************************************)
(* ConnectivityQueryEngine.query_driver and query_loads: a depth-first     *)
(* walk over the projected connectivity facts, bit by bit, under limits on *)
(* depth, states, edges, assignments, matches, retained evidence and       *)
(* frontiers, and _finish_result, which decides for every requested bit    *)
(* whether its set of drivers is complete.                                 *)
(*                                                                         *)
(* A fact is [kind, at, map, to, id, named]: at is the signal it is found  *)
(* at, the domain of map the bits of it that the fact is about.  A "write" *)
(* (an assignment), a "const" binding and a "read" end the walk; a "seg"   *)
(* (a port binding) leads bit b of at to bit map[b] of to; an "open" one   *)
(* is a port segment of unknown source.  cqWorld.facts is what was         *)
(* projected; cqWorld.missing is what the design has beyond it, which the  *)
(* projector reports as gaps at the signals concerned (external).          *)
(***************************************************************************)
EXTENDS Integers, Sequences, FiniteSets, FiniteSetsExt, SequencesExt

VARIABLES
    cqWorld,     \* facts, missing, gapped signals, whether all files were projected
    cqAsk,       \* operation, signal, bits, limits
    cqStack, cqVisited, cqEdges, cqAssigns, cqCut,
    cqKeys,      \* admitted driver keys
    cqStructural, cqMatches, cqFrontiers, cqOpenBits, cqDepthBits, cqEvidenceBits,
    cqDone, cqResult

connVars == <<cqWorld, cqAsk, cqStack, cqVisited, cqEdges, cqAssigns, cqCut, cqKeys,
              cqStructural, cqMatches, cqFrontiers, cqOpenBits, cqDepthBits, cqEvidenceBits,
              cqDone, cqResult>>

CqNone == "none"

Driver == cqAsk.op = "driver"

\* _build_indexes: the facts at a signal, in the order in which visit reads them.
FactOrder == IF Driver THEN <<"write", "const", "open", "seg">> ELSE <<"read", "load">>
FactsAt(sig) ==
    FlattenSeq([k \in DOMAIN FactOrder |->
        SelectSeq(cqWorld.facts, LAMBDA f : f.at = sig /\ f.kind = FactOrder[k])])

IsSegment(f) == f.kind \in {"seg", "load"}

\* _aligned_overlap and _map_selection, on sequences of bits.
Positions(bits, f) == {k \in DOMAIN bits : bits[k] \in DOMAIN f.map}
Pick(bits, positions) ==
    LET order == SetToSortSeq(positions, <) IN [k \in DOMAIN order |-> bits[order[k]]]
Mapped(bits, f) == [k \in DOMAIN bits |-> f.map[bits[k]]]
Bits(seq) == {seq[k] : k \in DOMAIN seq}

CqFrame(sig, bits, target, depth) ==
    [sig |-> sig, bits |-> bits, target |-> target, depth |-> depth,
     todo |-> FactsAt(sig), covered |-> {}]

\* visited holds states, not signals: the same signal may be reached for other
\* bits.  (Mutant: one visit of each signal.)
CqStateOfSignal(f) == [sig |-> f.sig, bits |-> cqAsk.bits, target |-> cqAsk.bits]

CqState(f) == [sig |-> f.sig, bits |-> f.bits, target |-> f.target]

ConnInit(loads) ==
    /\ \E load \in loads : cqWorld = load.world /\ cqAsk = load.ask
    /\ LET frame == CqFrame(cqAsk.sig, cqAsk.bits, cqAsk.bits, 0)
       IN  cqStack = <<frame>> /\ cqVisited = {CqState(frame)}
    /\ cqEdges = 0 /\ cqAssigns = 0
    /\ cqCut = {}
    /\ cqKeys = {} /\ cqStructural = {} /\ cqMatches = {} /\ cqFrontiers = {}
    /\ cqOpenBits = {} /\ cqDepthBits = {} /\ cqEvidenceBits = {}
    /\ cqDone = FALSE
    /\ cqResult = CqNone

\* _QueryWorkBudget.truncated: retained evidence alone does not stop the walk.
Truncated == cqCut \ {"evidence"} # {}

Walking == cqStack # <<>> /\ ~Truncated
Top     == Last(cqStack)
Fact    == Head(Top.todo)
Covered(f) == Pick(Top.target, Positions(Top.bits, f))
Selected(f) == Pick(Top.bits, Positions(Top.bits, f))
Overlaps(f) == Positions(Top.bits, f) # {}

\* The fact is done with; its positions count as covered.
NextFact ==
    [cqStack EXCEPT ![Len(cqStack)] =
        [@ EXCEPT !.todo = Tail(@), !.covered = @ \cup Positions(Top.bits, Fact)]]

\* inspect_assignment, inspect_edge
WorkLimit ==
    IF Fact.kind = "write" /\ cqAssigns >= cqAsk.assignLimit THEN "assignment"
    ELSE IF cqEdges >= cqAsk.edgeLimit THEN "edge"
    ELSE CqNone

InspectRefused ==
    /\ Walking /\ Top.todo # <<>>
    /\ WorkLimit # CqNone
    /\ cqCut' = cqCut \cup {WorkLimit}
    /\ UNCHANGED <<cqWorld, cqAsk, cqStack, cqVisited, cqEdges, cqAssigns, cqKeys, cqStructural,
                   cqMatches, cqFrontiers, cqOpenBits, cqDepthBits, cqEvidenceBits, cqDone, cqResult>>

Inspect ==
    /\ Walking /\ Top.todo # <<>>
    /\ WorkLimit = CqNone
    /\ cqEdges' = cqEdges + 1
    /\ cqAssigns' = cqAssigns + (IF Fact.kind = "write" THEN 1 ELSE 0)
    /\ UNCHANGED <<cqWorld, cqAsk, cqDone, cqResult>>

SkipFact ==
    /\ Inspect
    /\ ~Overlaps(Fact)
    /\ cqStack' = NextFact
    /\ UNCHANGED <<cqVisited, cqCut, cqKeys, cqStructural, cqMatches, cqFrontiers, cqOpenBits,
                   cqDepthBits, cqEvidenceBits>>

\* _structural_driver_key: a procedural write may have no known identity.
FactId(f) == IF f.kind = "const" THEN <<f.id, Selected(f)>> ELSE <<f.id>>
MatchKey(f) == [id |-> FactId(f), covered |-> Covered(f), named |-> f.named]
Admitted == IF Driver THEN Cardinality(cqKeys) ELSE Cardinality(cqMatches)
IsNew(f) == ~Driver \/ <<FactId(f), f.named>> \notin cqKeys

\* _BoundedQueryCollector.add_match
AddMatch ==
    /\ Inspect
    /\ Overlaps(Fact)
    /\ Fact.kind \in {"write", "const", "read"}
    /\ LET key == MatchKey(Fact)
       IN  \/ /\ key \in cqMatches
              /\ UNCHANGED <<cqCut, cqKeys, cqStructural, cqMatches, cqEvidenceBits>>
           \/ /\ key \notin cqMatches
              /\ IsNew(Fact) /\ Admitted >= cqAsk.matchLimit
              /\ cqCut' = cqCut \cup {"match"}
              /\ UNCHANGED <<cqKeys, cqStructural, cqMatches, cqEvidenceBits>>
           \/ /\ key \notin cqMatches
              /\ ~(IsNew(Fact) /\ Admitted >= cqAsk.matchLimit)
              /\ cqKeys' = IF Driver THEN cqKeys \cup {<<FactId(Fact), Fact.named>>} ELSE cqKeys
              /\ cqStructural' = IF Driver THEN cqStructural \cup {key} ELSE cqStructural
              /\ IF Driver /\ Cardinality(cqMatches) >= cqAsk.evidenceLimit
                   THEN /\ cqCut' = cqCut \cup {"evidence"}
                        /\ cqEvidenceBits' = cqEvidenceBits \cup Bits(key.covered)
                        /\ UNCHANGED cqMatches
                   ELSE /\ cqMatches' = cqMatches \cup {key}
                        /\ UNCHANGED <<cqCut, cqEvidenceBits>>
    /\ cqStack' = NextFact
    /\ UNCHANGED <<cqVisited, cqFrontiers, cqOpenBits, cqDepthBits>>

\* A segment of unknown source is a gap at its own bits and at the requested ones.
OpenSegment ==
    /\ Inspect
    /\ Overlaps(Fact)
    /\ Fact.kind = "open"
    /\ cqOpenBits' = cqOpenBits
          \cup {<<Top.sig, b>> : b \in Bits(Selected(Fact))}
          \cup {<<cqAsk.sig, b>> : b \in Bits(Covered(Fact))}
    /\ cqStack' = NextFact
    /\ UNCHANGED <<cqVisited, cqCut, cqKeys, cqStructural, cqMatches, cqFrontiers, cqDepthBits,
                   cqEvidenceBits>>

\* add_frontier
AddFrontier(frontier) ==
    IF frontier \in cqFrontiers THEN UNCHANGED <<cqFrontiers, cqCut>>
    ELSE IF Cardinality(cqFrontiers) >= cqAsk.frontierLimit
           THEN cqCut' = cqCut \cup {"frontier"} /\ UNCHANGED cqFrontiers
           ELSE cqFrontiers' = cqFrontiers \cup {frontier} /\ UNCHANGED cqCut

AtDepthLimit == Top.depth >= cqAsk.maxDepth

DepthLimited ==
    /\ Inspect
    /\ Overlaps(Fact)
    /\ IsSegment(Fact)
    /\ AtDepthLimit
    /\ cqDepthBits' = cqDepthBits \cup Bits(Covered(Fact))
    /\ AddFrontier([sig |-> Fact.to, bits |-> Mapped(Selected(Fact), Fact), target |-> Covered(Fact)])
    /\ cqStack' = NextFact
    /\ UNCHANGED <<cqVisited, cqKeys, cqStructural, cqMatches, cqOpenBits, cqEvidenceBits>>

AlreadyVisited(frame) == CqState(frame) \in cqVisited

\* visit, at the other end of a segment.
Follow ==
    /\ Inspect
    /\ Overlaps(Fact)
    /\ IsSegment(Fact)
    /\ ~AtDepthLimit
    /\ LET frame == CqFrame(Fact.to, Mapped(Selected(Fact), Fact), Covered(Fact), Top.depth + 1)
       IN  IF AlreadyVisited(frame)
             THEN cqStack' = NextFact /\ UNCHANGED <<cqVisited, cqCut>>
             ELSE IF Cardinality(cqVisited) >= cqAsk.stateLimit
             THEN cqStack' = NextFact /\ cqCut' = cqCut \cup {"state"} /\ UNCHANGED cqVisited
             ELSE /\ cqStack' = Append(NextFact, frame)
                  /\ cqVisited' = cqVisited \cup {CqState(frame)}
                  /\ UNCHANGED cqCut
    /\ UNCHANGED <<cqKeys, cqStructural, cqMatches, cqFrontiers, cqOpenBits, cqDepthBits,
                   cqEvidenceBits>>

\* The bits of a signal that no fact covered stay as a frontier.
LeaveSignal ==
    /\ Walking /\ Top.todo = <<>>
    /\ LET residual == DOMAIN Top.bits \ Top.covered
       IN  IF residual = {} THEN UNCHANGED <<cqFrontiers, cqCut>>
           ELSE AddFrontier([sig |-> Top.sig, bits |-> Pick(Top.bits, residual),
                             target |-> Pick(Top.target, residual)])
    /\ cqStack' = Front(cqStack)
    /\ UNCHANGED <<cqWorld, cqAsk, cqVisited, cqEdges, cqAssigns, cqKeys, cqStructural, cqMatches,
                   cqOpenBits, cqDepthBits, cqEvidenceBits, cqDone, cqResult>>

\* The gaps of the projection at the signals the walk visited.
ProjectionGaps == cqWorld.gapped \cap {s.sig : s \in cqVisited}

\* _query_coverage
CoverageOf(inconclusive, partial) ==
    IF inconclusive THEN "inconclusive"
    ELSE IF partial THEN "partial"
    ELSE IF cqWorld.whole THEN "complete" ELSE "partial"

Inconclusive == cqCut # {} \/ cqDepthBits # {} \/ cqOpenBits # {}

\* Why the drivers of one requested bit may be incomplete.
ReasonsAt(bit) ==
    LET walked == UNION {{<<s.sig, s.bits[k]>> : k \in {j \in DOMAIN s.bits : s.target[j] = bit}} :
                            s \in cqVisited} \cup {<<cqAsk.sig, bit>>}
    IN  {"gap" : p \in {q \in walked : q[1] \in cqWorld.gapped}}
        \cup {"open" : p \in walked \cap cqOpenBits}
        \cup {"limit" : c \in cqCut \ {"evidence"}}
        \cup {"identity" : m \in {x \in cqStructural : ~x.named /\ bit \in Bits(x.covered)}}
        \cup (IF cqWorld.whole THEN {} ELSE {"projection"})
        \cup (IF bit \in cqDepthBits THEN {"depth"} ELSE {})

Found(bit) == \E m \in cqStructural : bit \in Bits(m.covered)

Resolution(bit) ==
    [resolution |-> IF Found(bit) THEN "found"
                    ELSE IF ReasonsAt(bit) = {} THEN "proved_no_driver" ELSE "unknown",
     complete |-> ReasonsAt(bit) = {}]

\* _finish_result
FinishQuery ==
    /\ ~cqDone
    /\ ~Walking
    /\ cqDone' = TRUE
    /\ LET unresolved == Driver /\ cqMatches # {} /\ \E b \in Bits(cqAsk.bits) : ~Found(b)
           partial    == ProjectionGaps # {} \/ \E m \in cqStructural : ~m.named
           base       == CoverageOf(Inconclusive, partial)
           coverage   == IF ~unresolved THEN base
                         ELSE IF base = "complete" THEN "partial" ELSE "inconclusive"
       IN  cqResult' =
             [coverage |-> coverage,
              status |-> IF cqMatches # {} THEN "found"
                         ELSE IF coverage = "complete" THEN "not_connected" ELSE "inconclusive",
              bits |-> [b \in Bits(cqAsk.bits) |-> IF Driver THEN Resolution(b) ELSE CqNone]]
    /\ UNCHANGED <<cqWorld, cqAsk, cqStack, cqVisited, cqEdges, cqAssigns, cqCut, cqKeys,
                   cqStructural, cqMatches, cqFrontiers, cqOpenBits, cqDepthBits, cqEvidenceBits>>

ConnNext ==
    \/ InspectRefused \/ SkipFact \/ AddMatch \/ OpenSegment \/ DepthLimited \/ Follow
    \/ LeaveSignal \/ FinishQuery

(***************************************************************************)
(* The meaning of a query: reachability of single bits in the whole        *)
(* design, what was not projected included.                                *)
(***************************************************************************)
Design == Bits(cqWorld.facts) \cup cqWorld.missing

EndKinds == IF Driver THEN {"write", "const", "open"} ELSE {"read"}

Reaches(bit) ==
    LET Step(S) == S \cup {<<f.to, f.map[p[2]]>> :
                            <<f, p>> \in {fp \in Design \X S :
                                /\ fp[1].kind = (IF Driver THEN "seg" ELSE "load")
                                /\ fp[1].at = fp[2][1] /\ fp[2][2] \in DOMAIN fp[1].map}}
        R[n \in 0..6] == IF n = 0 THEN {<<cqAsk.sig, bit>>} ELSE Step(R[n - 1])
    IN  R[6]

Ends(bit) ==
    {f \in Design : f.kind \in EndKinds /\ \E p \in Reaches(bit) : f.at = p[1] /\ p[2] \in DOMAIN f.map}

MatchedEnds(bit) ==
    {f \in Design : \E m \in (IF Driver THEN cqStructural ELSE cqMatches) :
                        bit \in Bits(m.covered) /\ m.id[1] = f.id}

\* Whatever the limits and the gaps of the projection, a driver or load query
\* claims no more than the design bears out: what it found is there, "not
\* connected" means that nothing drives or reads any requested bit, and a
\* driver set called complete is the whole set for that bit.
QueryClaimsTrue ==
    cqDone =>
        /\ \A b \in Bits(cqAsk.bits) : MatchedEnds(b) \subseteq Ends(b)
        /\ cqResult.status = "not_connected" => \A b \in Bits(cqAsk.bits) : Ends(b) = {}
        /\ Driver => \A b \in Bits(cqAsk.bits) :
               /\ cqResult.bits[b].complete => MatchedEnds(b) = Ends(b)
               /\ cqResult.bits[b].resolution = "proved_no_driver" => Ends(b) = {}

\* When nothing is missing and no limit was met the query is decisive: the walk
\* finds every end, the first time a cycle or a shared net leads to it.
QueryDecides ==
    /\ cqDone
    /\ cqWorld.whole /\ cqWorld.gapped = {} /\ cqCut = {} /\ cqDepthBits = {}
    => \A b \in Bits(cqAsk.bits) :
           MatchedEnds(b) = {f \in Ends(b) : f.kind # "open"}

\* A driver or load query claims nothing false and misses nothing it could find.
QueryTrue == QueryClaimsTrue /\ QueryDecides
===================================================================================
