-------------------------------- MODULE PathQuery --------------------------------
(***************************************************************************)
(* ConnectivityQueryEngine.query_path: a breadth-first search for the      *)
(* shortest structural path between two selections of bits, with a limit   *)
(* on the edges it may follow and on the length of the path it may return. *)
(*                                                                         *)
(* An edge is [at, map, to, bits, exact, sound]: from the bits DOMAIN map  *)
(* of signal at to the bits of signal to, bit b to map[b] when exact and   *)
(* any to all otherwise; sound is false where the evidence is unresolved.  *)
(* pqWorld.excluded are dependencies through a register or a condition,    *)
(* which the search never crosses but reports.  pqWorld.missing is what    *)
(* the projection lacks, with gaps at the signals concerned (external).    *)
(***************************************************************************)
EXTENDS Integers, Sequences, FiniteSets

VARIABLES
    pqWorld, pqAsk,
    pqQueue,      \* selections to expand, the first one in progress
    pqAt,         \* position in pqWorld.edges of the first edge still to be followed from it
    pqSeen,       \* visited states
    pqBack,       \* predecessors: state, the state before it, the edge
    pqTouched, pqGaps, pqCount, pqPc, pqStatus, pqPath

pathVars == <<pqWorld, pqAsk, pqQueue, pqAt, pqSeen, pqBack, pqTouched, pqGaps, pqCount,
              pqPc, pqStatus, pqPath>>

PqBits(seq) == {seq[k] : k \in DOMAIN seq}

\* _same_path_endpoint: the same signal and a bit in common.
Meets(p, q) == p.sig = q.sig /\ PqBits(p.bits) \cap PqBits(q.bits) # {}

PqOverlaps(e, sel) == e.at = sel.sig /\ DOMAIN e.map \cap PqBits(sel.bits) # {}

\* The positions of sel's bits that e maps, and the k-th of some positions.
Taken(e, sel) == {k \in DOMAIN sel.bits : sel.bits[k] \in DOMAIN e.map}
KthOf(P, k) == CHOOSE i \in P : Cardinality({j \in P : j <= i}) = k

\* _follow_path_edge
FollowEdge(e, sel) ==
    [sig |-> e.to,
     bits |-> IF e.exact
                THEN [k \in 1 .. Cardinality(Taken(e, sel)) |-> e.map[sel.bits[KthOf(Taken(e, sel), k)]]]
                ELSE e.bits]

PathInit(loads) ==
    /\ \E load \in loads : pqWorld = load.world /\ pqAsk = load.ask
    /\ pqQueue = <<>> /\ pqAt = 1 /\ pqSeen = {} /\ pqBack = {}
    /\ pqTouched = {} /\ pqGaps = {} /\ pqCount = 0
    /\ pqPc = "start" /\ pqStatus = "none" /\ pqPath = <<>>

Declared(sel) == sel.sig \in pqWorld.declared

\* _query_coverage over the gaps at the touched signals and the search's own.
PqComplete(touched, gaps) ==
    gaps = {} /\ pqWorld.gapped \cap touched = {} /\ pqWorld.whole

PathAnswer(status) == pqPc' = "done" /\ pqStatus' = status

StartPath ==
    /\ pqPc = "start"
    /\ LET ends == {s \in {"from", "to"} : ~Declared(pqAsk[s])}
       IN  \/ /\ ends # {}
              /\ PathAnswer(IF Cardinality(ends) = 2 THEN "endpoints_unresolved"
                            ELSE IF "from" \in ends THEN "from_unresolved" ELSE "to_unresolved")
              /\ UNCHANGED <<pqQueue, pqSeen, pqTouched>>
           \/ /\ ends = {} /\ Meets(pqAsk.from, pqAsk.to)
              /\ PathAnswer("found")
              /\ UNCHANGED <<pqQueue, pqSeen, pqTouched>>
           \/ /\ ends = {} /\ ~Meets(pqAsk.from, pqAsk.to)
              /\ pqQueue' = <<pqAsk.from>>
              /\ pqSeen' = {pqAsk.from}
              /\ pqTouched' = {pqAsk.from.sig, pqAsk.to.sig}
              /\ pqPc' = "expand"
              /\ UNCHANGED pqStatus
    /\ UNCHANGED <<pqWorld, pqAsk, pqAt, pqBack, pqGaps, pqCount, pqPath>>

\* The next selection of the queue: its exclusions are noted, its edges follow.
Expand ==
    /\ pqPc = "expand"
    /\ pqQueue # <<>>
    /\ LET current == Head(pqQueue)
       IN  /\ pqTouched' = pqTouched \cup {current.sig}
           /\ pqGaps' = pqGaps \cup {x.id : x \in {y \in pqWorld.excluded : PqOverlaps(y, current)}}
    /\ pqAt' = 1
    /\ pqPc' = "edges"
    /\ UNCHANGED <<pqWorld, pqAsk, pqQueue, pqSeen, pqBack, pqCount, pqStatus, pqPath>>

\* The edges that lead on from the first selection, at their positions.
Ahead == {k \in DOMAIN pqWorld.edges : k >= pqAt /\ PqOverlaps(pqWorld.edges[k], Head(pqQueue))}

ExpandDone ==
    /\ pqPc = "edges"
    /\ Ahead = {}
    /\ pqQueue' = Tail(pqQueue)
    /\ pqPc' = "expand"
    /\ UNCHANGED <<pqWorld, pqAsk, pqAt, pqSeen, pqBack, pqTouched, pqGaps, pqCount, pqStatus, pqPath>>

AtTraversalLimit == pqCount >= pqAsk.traversalLimit

PathCut ==
    /\ pqPc = "edges"
    /\ Ahead # {}
    /\ AtTraversalLimit
    /\ PathAnswer("truncated")
    /\ UNCHANGED <<pqWorld, pqAsk, pqQueue, pqAt, pqSeen, pqBack, pqTouched, pqGaps, pqCount, pqPath>>

\* _reconstruct_path: back along the predecessors, never longer than they are many.
BackStep(back, from, at) ==
    IF at.state = from THEN at
    ELSE LET hop == CHOOSE h \in back : h.state = at.state
         IN  [state |-> hop.from, path |-> <<hop.edge>> \o at.path]

PathBack(back, from, state) ==
    LET R[n \in Nat] == IF n = 0 THEN [state |-> state, path |-> <<>>]
                        ELSE BackStep(back, from, R[n - 1])
    IN  R[Cardinality(back)].path

\* predecessors.setdefault: the first way to a state is kept.
AddBack(state, hop) ==
    IF \E h \in pqBack : h.state = state THEN pqBack ELSE pqBack \cup {hop}

\* A state is a signal and its bits.  (Mutant: the signal alone.)
NewSignal(state) == state.sig \notin {s.sig : s \in pqSeen}

NewState(state) == state \notin pqSeen

\* The edge at position k is followed.
FollowAt(k) ==
    LET e     == pqWorld.edges[k]
        state == FollowEdge(e, Head(pqQueue))
        hop   == [state |-> state, from |-> Head(pqQueue), edge |-> e]
        path  == PathBack(AddBack(state, hop), pqAsk.from, state)
    IN  /\ pqAt' = k + 1
        /\ pqTouched' = pqTouched \cup {state.sig}
        /\ pqGaps' = pqGaps \cup (IF e.sound THEN {} ELSE {e.id})
        /\ \/ /\ Meets(state, pqAsk.to)
              /\ pqBack' = AddBack(state, hop)
              /\ IF Len(path) > pqAsk.outputLimit
                   THEN PathAnswer("truncated") /\ UNCHANGED pqPath
                   ELSE PathAnswer("found") /\ pqPath' = path
              /\ UNCHANGED <<pqQueue, pqSeen>>
           \/ /\ ~Meets(state, pqAsk.to)
              /\ IF NewState(state)
                   THEN /\ pqSeen' = pqSeen \cup {state}
                        /\ pqBack' = pqBack \cup {hop}
                        /\ pqQueue' = Append(pqQueue, state)
                   ELSE UNCHANGED <<pqSeen, pqBack, pqQueue>>
              /\ UNCHANGED <<pqPc, pqStatus, pqPath>>

FollowPathEdge ==
    /\ pqPc = "edges"
    /\ ~AtTraversalLimit
    /\ \E k \in Ahead : (\A j \in Ahead : k <= j) /\ FollowAt(k)
    /\ pqCount' = pqCount + 1
    /\ UNCHANGED <<pqWorld, pqAsk>>

PathExhausted ==
    /\ pqPc = "expand"
    /\ pqQueue = <<>>
    /\ PathAnswer(IF PqComplete(pqTouched, pqGaps) THEN "not_connected" ELSE "inconclusive")
    /\ UNCHANGED <<pqWorld, pqAsk, pqQueue, pqAt, pqSeen, pqBack, pqTouched, pqGaps, pqCount, pqPath>>

PathNext ==
    \/ StartPath \/ Expand \/ ExpandDone \/ PathCut \/ FollowPathEdge \/ PathExhausted

PathSpec(loads) == PathInit(loads) /\ [][PathNext]_pathVars

(***************************************************************************)
(* What a design and a question are (for any load of PathInit): selections *)
(* are sequences of bits, and where the projection lacks a dependency it   *)
(* reports a gap at the signal that the dependency leads on from.          *)
(***************************************************************************)
SelectionOK(sel) == sel = [sig |-> sel.sig, bits |-> sel.bits] /\ sel.bits \in Seq(Nat)

EdgeOK(e) ==
    /\ e.exact \in BOOLEAN /\ e.sound \in BOOLEAN
    /\ e.bits \in Seq(Nat)
    /\ IsFiniteSet(DOMAIN e.map)
    /\ \A b \in DOMAIN e.map : e.map[b] \in Nat

PathLoadOK(load) ==
    /\ load.world.edges \in Seq(PqBits(load.world.edges))
    /\ IsFiniteSet(load.world.missing) /\ IsFiniteSet(load.world.excluded)
    /\ \A e \in PqBits(load.world.edges) \cup load.world.missing \cup load.world.excluded : EdgeOK(e)
    /\ \A e \in load.world.missing : e.at \in load.world.gapped
    /\ SelectionOK(load.ask.from) /\ SelectionOK(load.ask.to)
    /\ load.ask.traversalLimit \in Nat /\ load.ask.outputLimit \in Nat

(***************************************************************************)
(* Reachability of single bits, by the number of edges.  A bit is reached  *)
(* within as many edges as there are bits, or never.                       *)
(***************************************************************************)
PqAll == PqBits(pqWorld.edges) \cup pqWorld.missing

PqPoints(sel) == {sel.sig} \X PqBits(sel.bits)

HitBy(e, points) == {b \in DOMAIN e.map : <<e.at, b>> \in points}

Lands(e, hit) == {e.to} \X (IF e.exact THEN {e.map[b] : b \in hit} ELSE PqBits(e.bits))

OneStep(edges, points) ==
    points \cup UNION {Lands(e, HitBy(e, points)) : e \in {f \in edges : HitBy(f, points) # {}}}

BitsWithin(ask, edges, steps) ==
    LET R[n \in Nat] == IF n = 0 THEN PqPoints(ask.from) ELSE OneStep(edges, R[n - 1])
    IN  R[steps]

Arrives(ask, edges, steps) == PqPoints(ask.to) \cap BitsWithin(ask, edges, steps) # {}

AllPoints(ask, edges) == PqPoints(ask.from) \cup UNION {Lands(e, DOMAIN e.map) : e \in edges}

Connected(ask, edges) == Arrives(ask, edges, Cardinality(AllPoints(ask, edges)))

\* A path that query_path returns leads from the one endpoint to the other, edge
\* by edge, and no shorter one exists; "not connected" means that the whole
\* design, unprojected and excluded dependencies included, has none.
PathClaimsTrue ==
    pqPc = "done" =>
        /\ pqStatus = "found" =>
               /\ Arrives(pqAsk, PqBits(pqPath), Len(pqPath))
               /\ pqPath # <<>> => ~Arrives(pqAsk, PqBits(pqWorld.edges), Len(pqPath) - 1)
               /\ Len(pqPath) <= pqAsk.outputLimit
        /\ pqStatus = "not_connected" => ~Connected(pqAsk, PqAll \cup pqWorld.excluded)

\* Without gaps, exclusions and limits query_path decides: it finds a path when
\* there is one and otherwise says that there is none.
PathDecides ==
    /\ pqPc = "done"
    /\ pqWorld.whole /\ pqWorld.gapped = {} /\ pqWorld.excluded = {}
    /\ \A e \in PqAll : e.sound
    /\ Declared(pqAsk.from) /\ Declared(pqAsk.to)
    /\ pqStatus # "truncated"
    => pqStatus = IF Connected(pqAsk, PqAll) THEN "found" ELSE "not_connected"

\* A path query claims nothing false and decides whenever nothing is in its way.
PathTrue == PathClaimsTrue /\ PathDecides
===================================================================================
