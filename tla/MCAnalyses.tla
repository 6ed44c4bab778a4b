------------------------------- MODULE MCAnalyses -------------------------------
(***************************************************************************)
(* The analyses that answer questions about waveforms, connectivity and    *)
(* constants.                                                              *)
(* They share no state here: a behaviour exercises one of them, chosen at  *)
(* the start, on one input of its load, and leaves the others alone, so    *)
(* the state space is the sum of theirs.  The loads are recordings,        *)
(* designs, requests and limits that bring page boundaries, unknown        *)
(* values, gaps and exhausted budgets together.                            *)
(***************************************************************************)
EXTENDS EventCompare, WaveObservations, ConnectivityQuery, PathQuery, CycleSampling,
        TransactionWalk, WindowVerify, TraceHistory, HandshakeInspect, StructuralPropagation, TLC

VARIABLE focus

UpTo(S, n) == UNION {[1..k -> S] : k \in 0..n}

(***************************************************************************)
(* Two recordings: one of up to three records, several at one instant, a   *)
(* long value among them; one with an unknown value, no digital value,     *)
(* records out of order, no known end or another width.                    *)
(***************************************************************************)
Recording(rows, end, width) == [rows |-> rows, end |-> end, width |-> width]
EvRecord(V) == [t : 0..2, v : V]
Left  == {Recording(r, 3, 1) : r \in {q \in UpTo(EvRecord({"0", "W"}), 3) : EvOrdered(q)}}
Right == {Recording(r, 3, 1) : r \in UpTo(EvRecord({"0", "x"}), 1)}
Odd   == {Recording(<<>>, NoTime, 1), Recording(<<[t |-> 0, v |-> "0"]>>, 3, 2),
          Recording(<<[t |-> 1, v |-> "?"]>>, 2, 1),
          Recording(<<[t |-> 2, v |-> "0"], [t |-> 0, v |-> "1"]>>, 3, 1)}
TwoSides(a, b) == [s \in EvSides |-> IF s = "a" THEN a ELSE b]
EvAsks == [start : 0..1, end : {-1, 1}, maxEvents : 1..2, maxBytes : {2, 3}]
Plain  == {[start |-> 0, end |-> -1, maxEvents |-> 1, maxBytes |-> 3]}
EventLoad ==
    {[wave |-> TwoSides(a, b), ask |-> k] :
        a \in {q \in Left : Len(q.rows) <= 2}, b \in Right, k \in EvAsks}
    \cup {[wave |-> TwoSides(a, b), ask |-> k] : a \in Left, b \in Right, k \in Plain}
    \cup {[wave |-> TwoSides(a, b), ask |-> k] :
        a \in {q \in Left : Len(q.rows) <= 1}, b \in Odd, k \in EvAsks}

\* A recording, and the one that replaces it.
ObRow(t, n, k) == [t |-> t, size |-> n, kind |-> k]
MCObRows ==
    (0 :> <<ObRow(0, 1, "transition"), ObRow(1, 1, "transition"), ObRow(1, 1, "boundary"),
            ObRow(2, 1, "transition")>>)
    @@ (1 :> <<ObRow(0, 1, "transition"), ObRow(1, 2, "transition")>>)
MCObWindows == [from : 0..1, to : {-1, 1, 2}]
MCObInstants == [from : 0..1, to : {2}, at : {1}]

(***************************************************************************)
(* Designs: every subset of a pool of facts that holds a cycle, two ways   *)
(* to one signal, a swap of bits and an unnamed write; one fact at a time  *)
(* missing from the projection.                                            *)
(***************************************************************************)
Same == (0 :> 0) @@ (1 :> 1)
Swap == (0 :> 1) @@ (1 :> 0)
CqFact(kind, at, map, to, id, named) ==
    [kind |-> kind, at |-> at, map |-> map, to |-> to, id |-> id, named |-> named]
DriverPool ==
    << CqFact("write", "s", 0 :> 0, "", "d1", TRUE), CqFact("write", "u", Same, "", "d2", TRUE),
       CqFact("write", "u", 1 :> 1, "", "d3", FALSE), CqFact("const", "v", Same, "", "c1", TRUE),
       CqFact("open", "u", 0 :> 0, "", "o1", TRUE), CqFact("seg", "s", Same, "u", "b1", TRUE),
       CqFact("seg", "u", Swap, "v", "b2", TRUE), CqFact("seg", "v", Same, "s", "b3", TRUE),
       CqFact("seg", "s", 1 :> 0, "v", "b4", TRUE) >>
LoadPool ==
    << CqFact("read", "s", 0 :> 0, "", "r1", TRUE), CqFact("read", "u", Same, "", "r2", TRUE),
       CqFact("load", "s", Swap, "u", "l1", TRUE), CqFact("load", "u", 0 :> 1, "s", "l2", TRUE),
       CqFact("read", "u", 1 :> 1, "", "r3", TRUE) >>
Wide == [maxDepth |-> 4, stateLimit |-> 9, edgeLimit |-> 30, assignLimit |-> 9, matchLimit |-> 9,
         frontierLimit |-> 9, evidenceLimit |-> 9]
Limits ==
    {Wide, [Wide EXCEPT !.maxDepth = 1], [Wide EXCEPT !.stateLimit = 2],
     [Wide EXCEPT !.edgeLimit = 3], [Wide EXCEPT !.assignLimit = 1], [Wide EXCEPT !.matchLimit = 1],
     [Wide EXCEPT !.frontierLimit = 1], [Wide EXCEPT !.evidenceLimit = 1]}
CqDesign(pool, S, gone, whole) ==
    [facts |-> SelectSeq(pool, LAMBDA f : f \in S \ gone), missing |-> S \cap gone,
     gapped |-> {f.at : f \in S \cap gone}, whole |-> whole]
Question(op, limits) == limits @@ [op |-> op, sig |-> "s", bits |-> <<1, 0>>]
ConnLoad(pool, op) ==
    {[world |-> CqDesign(pool, S, {}, TRUE), ask |-> Question(op, l)] :
        S \in SUBSET Bits(pool), l \in Limits}
    \cup {[world |-> CqDesign(pool, S, {g}, TRUE), ask |-> Question(op, Wide)] :
        S \in {T \in SUBSET Bits(pool) : Cardinality(T) <= 5}, g \in Bits(pool)}
    \cup {[world |-> CqDesign(pool, S, {}, FALSE), ask |-> Question(op, Wide)] :
        S \in {T \in SUBSET Bits(pool) : Cardinality(T) <= 2}}

PqEdge(id, at, map, to, bits, exact, sound) ==
    [id |-> id, at |-> at, map |-> map, to |-> to, bits |-> bits, exact |-> exact, sound |-> sound]
PathPool ==
    << PqEdge(1, "s", Same, "u", <<0, 1>>, TRUE, TRUE), PqEdge(2, "s", 1 :> 0, "v", <<0>>, TRUE, TRUE),
       PqEdge(3, "u", Swap, "v", <<0, 1>>, TRUE, TRUE), PqEdge(4, "v", 0 :> 1, "t", <<0>>, FALSE, TRUE),
       PqEdge(5, "v", 1 :> 1, "t", <<1>>, TRUE, FALSE), PqEdge(6, "v", Same, "u", <<0, 1>>, TRUE, TRUE),
       PqEdge(7, "u", 0 :> 0, "s", <<1>>, FALSE, TRUE), PqEdge(8, "s", 0 :> 0, "t", <<1>>, TRUE, TRUE) >>
PqDesign(S, gone, ex) ==
    [edges |-> SelectSeq(PathPool, LAMBDA e : e \in S \ (gone \cup ex)), missing |-> S \cap gone,
     excluded |-> S \cap ex, gapped |-> {e.at : e \in S \cap gone}, whole |-> TRUE,
     declared |-> {"s", "u", "v", "t"}]
PqQuestion(from, to, traversal, output) ==
    [from |-> [sig |-> "s", bits |-> from], to |-> [sig |-> "t", bits |-> to],
     traversalLimit |-> traversal, outputLimit |-> output]
PqAsks == {PqQuestion(<<0>>, <<1>>, 20, 4), PqQuestion(<<0, 1>>, <<0>>, 20, 4),
           PqQuestion(<<1>>, <<0, 1>>, 3, 4), PqQuestion(<<0>>, <<1>>, 20, 2)}
PathLoad ==
    {[world |-> PqDesign(S, g, {}), ask |-> a] :
        S \in SUBSET PqBits(PathPool), g \in {{}, {PathPool[4]}, {PathPool[8]}}, a \in PqAsks}
    \cup {[world |-> PqDesign(S, {}, {x}), ask |-> a] :
        S \in SUBSET PqBits(PathPool), x \in {PathPool[8], PathPool[3]}, a \in PqAsks}
    \cup {[world |-> [PqDesign({}, {}, {}) EXCEPT !.declared = d], ask |-> a] :
        d \in SUBSET {"s", "t"}, a \in PqAsks}
    \cup {[world |-> PqDesign(PqBits(PathPool), {}, {}),
           ask |-> [PqQuestion(<<0>>, <<1>>, 20, 4) EXCEPT !.to = [sig |-> "s", bits |-> <<1, 0>>]]]}

ASSUME PathLoadsOK == \A load \in PathLoad : PathLoadOK(load)

(***************************************************************************)
(* Clocks: regular, sparse, with two records at one instant, unknown once; *)
(* windows, budgets that end in the middle of a read, both phases.         *)
(***************************************************************************)
Toggle(times, first) ==
    [k \in DOMAIN times |-> [t |-> times[k], v |-> IF (k % 2 = 1) = (first = "0") THEN "0" ELSE "1"]]
Unclear(r) == {r} \cup {[r EXCEPT ![i].v = "x"] : i \in DOMAIN r \cap {1, 3, 4}}
Clocks ==
    UNION {Unclear(Toggle(l, f)) :
        l \in {<<0, 1, 2, 3, 5, 6, 7>>, <<0, 2, 4, 6, 8, 9>>, <<1, 4, 5, 8>>, <<2, 4, 6>>, <<>>,
               <<0, 2, 3, 3, 6, 7>>},
        f \in {"0", "1"}}
Data ==
    << <<[t |-> 0, v |-> "0"], [t |-> 3, v |-> "1"], [t |-> 4, v |-> "0"], [t |-> 8, v |-> "1"]>>,
       <<[t |-> 4, v |-> "1"], [t |-> 4, v |-> "0"], [t |-> 6, v |-> "1"]>> >>
CycleLoad ==
    {[wave |-> [clock |-> c, data |-> Data, eof |-> e], ask |-> k] :
        c \in Clocks, e \in {1, 10},
        k \in [op : {"window", "local"}, edge : {"posedge", "negedge"}, phase : {"before"},
               offset : {0}, start : {0, 1, 2}, end : {-1, 3, 4}, count : {1, 3}, budget : {4, 9, 30}]
              \cup [op : {"window", "local"}, edge : {"posedge"}, phase : {"after"}, offset : {1},
                    start : {0, 1}, end : {-1, 4}, count : {3}, budget : {7, 30}]}

(***************************************************************************)
(* Channels: reads with several beats, writes with early and late data,    *)
(* unknown ids and lengths, certain and uncertain resets.                  *)
(***************************************************************************)
OnEdge(reset, req, data, cmp) == [reset |-> reset, req |-> req, data |-> data, cmp |-> cmp, vague |-> FALSE]
Req(id, len)   == [id |-> id, len |-> len]
Beat(last)     == [last |-> last]
Cmp(id, last)  == [id |-> id, last |-> last]
ReadEdges ==
    {OnEdge("no", Req("a", 1), TxNone, TxNone), OnEdge("no", Req("b", -1), TxNone, TxNone),
     OnEdge("no", TxNone, TxNone, Cmp("a", FALSE)), OnEdge("no", TxNone, TxNone, Cmp("a", TRUE)),
     OnEdge("no", Req("a", 0), TxNone, Cmp("b", TRUE)), OnEdge("no", Req("?", 0), TxNone, Cmp("?", TRUE)),
     OnEdge("yes", Req("a", 0), TxNone, TxNone), OnEdge("unknown", TxNone, TxNone, TxNone)}
WriteEdges ==
    {[OnEdge("no", TxNone, TxNone, TxNone) EXCEPT !.vague = TRUE],
     OnEdge("no", Req("a", 1), TxNone, TxNone), OnEdge("no", Req("b", 0), Beat(TRUE), TxNone),
     OnEdge("no", TxNone, Beat(FALSE), TxNone), OnEdge("no", TxNone, Beat(TRUE), Cmp("a", TRUE)),
     OnEdge("no", TxNone, Beat(TRUE), TxNone), OnEdge("no", TxNone, TxNone, Cmp("a", TRUE)),
     OnEdge("no", TxNone, TxNone, Cmp("b", TRUE)), OnEdge("yes", TxNone, Beat(TRUE), TxNone)}
Channels(last, data, dataLast, capture, edges) ==
    [hasLast |-> last, hasData |-> data, hasDataLast |-> dataLast, capture |-> capture, edges |-> edges]
WalkLoad ==
    {Channels(TRUE, FALSE, FALSE, FALSE, ReadEdges), Channels(FALSE, FALSE, FALSE, FALSE, ReadEdges),
     Channels(FALSE, TRUE, TRUE, TRUE, WriteEdges), Channels(FALSE, TRUE, TRUE, FALSE, WriteEdges)}

(***************************************************************************)
(* Sampled windows of up to three cycles, with unknown terms.              *)
(***************************************************************************)
WvSample(p, c, v, r) == [p |-> p, c |-> c, value |-> v, restart |-> r]
WvRequest(mode, within, overlap, target, modulo) ==
    [mode |-> mode, within |-> within, overlap |-> overlap, target |-> target, modulo |-> modulo,
     short |-> FALSE]
ImplicationSamples ==
    {WvSample(p, c, 0, {"f"}) : p \in {{"t"}, {"f"}, {"t", "u"}}, c \in {{"t"}, {"f"}, {"u"}, {"u", "f"}}}
SequenceSamples ==
    {WvSample({"f"}, {"f"}, 0, {"f"}), WvSample({"u"}, {"f"}, 0, {"f"})}
    \cup {WvSample({"t"}, {"f"}, v, r) : v \in {-1, 0, 1, 3}, r \in {{"t"}, {"f"}, {"u"}}}
SimpleSamples == {WvSample(p, {"f"}, 0, {"f"}) : p \in {{"t"}, {"f"}, {"u", "t"}, {"u", "f"}}}
VerifyLoad ==
    {[ask |-> WvRequest("implication", w[1], w[2], 0, 0), samples |-> s] :
        w \in {<<0, TRUE>>, <<1, TRUE>>, <<1, FALSE>>, <<2, FALSE>>}, s \in UpTo(ImplicationSamples, 3)}
    \cup {[ask |-> WvRequest("sequence", 0, TRUE, 1, m), samples |-> s] :
        m \in {0, 2}, s \in UpTo(SequenceSamples, 3)}
    \cup {[ask |-> WvRequest(m, 0, TRUE, 1, 0), samples |-> s] :
        m \in {"always", "never", "eventually"}, s \in UpTo(SimpleSamples, 3)}

(***************************************************************************)
(* A literal valid with a two-signal payload, an AHB address phase with    *)
(* unknown fields, and AHB writes with wait states.                        *)
(***************************************************************************)
HsEdge(trans, ready, p, q) ==
    [off |-> FALSE, trans |-> trans, ready |-> ready, pay |-> [p |-> p, q |-> q], hwrite |-> "f",
     wdata |-> "x"]
HsReset == [HsEdge("active", "t", "x", "x") EXCEPT !.off = TRUE]
HsWrite(trans, ready, hwrite, d) ==
    [HsEdge(trans, ready, "A", "A") EXCEPT !.hwrite = hwrite, !.wdata = d]
HsStream ==
    {HsReset, HsEdge("active", "f", "A", "A"), HsEdge("active", "f", "B", "A"), HsEdge("active", "f", "x", "B"),
     HsEdge("active", "t", "A", "A"), HsEdge("idle", "f", "A", "A"), HsEdge("idle", "t", "A", "A"),
     HsEdge("u", "f", "A", "A")}
HsAddress ==
    {HsReset, HsEdge("active", "f", "x", "A"), HsEdge("active", "f", "A", "B"), HsEdge("busy", "f", "A", "x"),
     HsEdge("active", "t", "x", "x"), HsEdge("idle", "u", "x", "A"), HsEdge("active", "u", "x", "B")}
HsWrites ==
    {[HsReset EXCEPT !.hwrite = "t"], HsWrite("active", "t", "t", "B"), HsWrite("active", "t", "f", "A"),
     HsWrite("busy", "f", "f", "A"), HsWrite("idle", "f", "f", "B"), HsWrite("idle", "f", "f", "x"),
     HsWrite("active", "t", "t", "A"), HsWrite("idle", "u", "f", "B"), HsWrite("u", "t", "t", "A")}
HsRequest(edges, ahb, write) ==
    [ahb |-> ahb, nonIdle |-> ahb, holdPayload |-> TRUE, holdValid |-> TRUE, payload |-> <<"p", "q">>,
     unresolved |-> {}, write |-> write, missing |-> FALSE, edges |-> edges]
HandshakeLoad ==
    {HsRequest(HsStream, FALSE, "off"), HsRequest(HsAddress, TRUE, "unresolved"),
     [HsRequest(HsWrites, TRUE, "on") EXCEPT !.nonIdle = FALSE, !.payload = <<"p">>, !.unresolved = {"q"}],
     [HsRequest({}, FALSE, "off") EXCEPT !.missing = TRUE]}

(***************************************************************************)
(* Designs over two nets and a vector: constants, feedback, ports in both  *)
(* directions, second writers, boundaries and constructs not modelled; and *)
(* every operator on a vector that is known in part.                       *)
(***************************************************************************)
SpConst(bits) == [kind |-> "constant", width |-> Len(bits), bits |-> bits]
SpSignal(n, w) == [kind |-> "signal", width |-> w, name |-> n]
SpAt(i) == [kind |-> "select", width |-> 1, arg |-> SpSignal("w", 2), at |-> <<i>>]
SpUnary(op, w, e) == [kind |-> "unary", width |-> w, op |-> op, arg |-> e]
SpBinary(op, w, e, f, s) == [kind |-> "binary", width |-> w, op |-> op, left |-> e, right |-> f, signed |-> s]
SpMux(c, e, f) == [kind |-> "mux", width |-> e.width, cond |-> c, left |-> e, right |-> f]
SpConvert(e, w, s, four) == [kind |-> "convert", width |-> w, arg |-> e, signed |-> s, fourState |-> four]
SpItem(kind, targets, e) == [kind |-> kind, targets |-> targets, expr |-> e, port |-> "no"]
SpDrive(targets, e) == SpItem("drive", targets, e)
A == <<<<"a", 1>>>>
P == <<<<"p", 1>>>>
W == <<<<"w", 1>>, <<"w", 2>>>>
NoExpr == [kind |-> "unknown", width |-> 0]
ItemPool ==
    << SpDrive(A, SpConst(<<"1">>)),
       [SpDrive(P, SpSignal("a", 1)) EXCEPT !.port = "in"],
       SpDrive(P, SpConst(<<"0">>)),
       SpDrive(W, [kind |-> "concat", width |-> 2, left |-> SpSignal("a", 1),
                   right |-> SpUnary("BitwiseNot", 1, SpSignal("p", 1))]),
       SpDrive(A, SpBinary("And", 1, SpAt(1), SpSignal("p", 1), FALSE)),
       SpItem("block", P, NoExpr),
       SpDrive(P, SpMux(SpSignal("a", 1), SpAt(2), SpAt(2))),
       SpDrive(<<<<"w", 2>>>>, SpMux(SpSignal("a", 1), SpConst(<<"z">>), SpAt(1))),
       SpItem("stop", <<>>, NoExpr),
       SpDrive(W, SpConst(<<"1">>)),
       SpDrive(W, SpConvert(SpSignal("a", 1), 2, TRUE, FALSE)),
       SpDrive(P \o P, SpSignal("w", 2)),
       [SpDrive(A, SpSignal("p", 1)) EXCEPT !.port = "out"],
       SpDrive(A, SpBinary("Or", 1, [kind |-> "unknown", width |-> 1], SpSignal("p", 1), FALSE)) >>
SpDesignOf(items, limited) ==
    [widths |-> [a |-> 1, p |-> 1, w |-> 2], order |-> <<"a", "p", "w">>, special |-> {}, items |-> items,
     controls |-> <<SpBinary("Equality", 1, SpSignal("w", 2), SpConst(<<"0", "x">>), FALSE),
                    SpBinary("LogicalOr", 1, SpSignal("w", 2), SpSignal("p", 1), FALSE)>>,
     admitted |-> {"a", "p", "w"}, maxFacts |-> 9, limited |-> limited]
Chosen(n) ==
    {SelectSeq(ItemPool, LAMBDA i : i \in S) :
        S \in {T \in SUBSET Range(ItemPool) : Cardinality(T) <= n}}
SpOperators ==
    {SpUnary(op, 1, SpSignal("w", 2)) :
        op \in {"LogicalNot", "BitwiseAnd", "BitwiseNand", "BitwiseOr", "BitwiseNor", "BitwiseXor",
                "BitwiseXnor"}}
    \cup {SpUnary(op, 2, SpSignal("w", 2)) : op \in {"Plus", "Minus", "BitwiseNot"}}
    \cup {SpBinary(op, 2, SpSignal("w", 2), SpConst(c), FALSE) :
        op \in {"And", "Or", "Xor", "Xnor", "Add", "Subtract", "Multiply"},
        c \in {<<"0", "1">>, <<"0", "0">>}}
    \cup {SpBinary(op, 1, SpSignal("w", 2), SpConst(<<"1", "0">>), s) :
        op \in {"LogicalAnd", "LogicalOr", "Equality", "Inequality", "CaseEquality", "CaseInequality",
                "LessThan", "LessThanEqual", "GreaterThan", "GreaterThanEqual"}, s \in BOOLEAN}
OperatorDesign(e, c) ==
    [SpDesignOf(<<SpDrive(<<<<"w", 1>>>>, SpConst(c)),
                  SpDrive(<<<<"q", 1>>, <<"q", 2>>>>, SpConvert(e, 2, FALSE, TRUE))>>, FALSE)
        EXCEPT !.widths = [q |-> 2, w |-> 2], !.order = <<"q", "w">>, !.admitted = {"q"}, !.controls = <<>>]
PropagationLoad ==
    {SpDesignOf(items, FALSE) : items \in Chosen(4)}
    \cup {SpDesignOf(Reverse(items), FALSE) : items \in Chosen(3)}
    \cup {SpDesignOf(items, TRUE) : items \in Chosen(2)}
    \cup {[SpDesignOf(items, FALSE) EXCEPT !.special = {"p"}] : items \in Chosen(2)}
    \cup {[SpDesignOf(items, FALSE) EXCEPT !.maxFacts = 1, !.admitted = {"a", "w"}] : items \in Chosen(2)}
    \cup {OperatorDesign(e, c) : e \in SpOperators, c \in {<<"0">>, <<"1">>, <<"x">>}}

\* Unknown values in a cycle, with a known signal behind one of them.
MCThDeps ==
    [s \in ThSignals |-> CASE s = "s" -> {"u", "v"} [] s = "u" -> {"v", "s"}
                           [] s = "v" -> {"k"} [] s = "k" -> {}]

Loads ==
    [compare |-> EventLoad, observe |-> ObNamespaces,
     connectivity |-> ConnLoad(DriverPool, "driver") \cup ConnLoad(LoadPool, "load"),
     path |-> PathLoad, cycles |-> CycleLoad, transactions |-> WalkLoad, verify |-> VerifyLoad,
     trace |-> {"design"}, handshake |-> HandshakeLoad,
     constants |-> PropagationLoad]

\* An analysis that is not exercised stays at one input.
Idle == [name \in DOMAIN Loads |-> {CHOOSE load \in Loads[name] : TRUE}]
Load(name) == IF focus = name THEN Loads[name] ELSE Idle[name]

AnalysesInit ==
    /\ focus \in DOMAIN Loads
    /\ EventInit(Load("compare")) /\ ObsInit(Load("observe"))
    /\ ConnInit(Load("connectivity")) /\ PathInit(Load("path"))
    /\ CycleInit(Load("cycles")) /\ WalkInit(Load("transactions"))
    /\ VerifyInit(Load("verify")) /\ TraceInit /\ HandshakeInit(Load("handshake"))
    /\ PropagationInit(Load("constants"))

AnalysesNext ==
    /\ UNCHANGED focus
    /\ \/ /\ focus = "compare" /\ EventNext
          /\ UNCHANGED <<obsVars, connVars, pathVars, cycleVars, walkVars, verifyVars, traceVars,
                         handshakeVars, propagationVars>>
       \/ /\ focus = "observe" /\ ObsNext
          /\ UNCHANGED <<eventVars, connVars, pathVars, cycleVars, walkVars, verifyVars,
                         traceVars, handshakeVars, propagationVars>>
       \/ /\ focus = "connectivity" /\ ConnNext
          /\ UNCHANGED <<eventVars, obsVars, pathVars, cycleVars, walkVars, verifyVars,
                         traceVars, handshakeVars, propagationVars>>
       \/ /\ focus = "path" /\ PathNext
          /\ UNCHANGED <<eventVars, obsVars, connVars, cycleVars, walkVars, verifyVars,
                         traceVars, handshakeVars, propagationVars>>
       \/ /\ focus = "cycles" /\ CycleNext
          /\ UNCHANGED <<eventVars, obsVars, connVars, pathVars, walkVars, verifyVars, traceVars,
                         handshakeVars, propagationVars>>
       \/ /\ focus = "transactions" /\ WalkNext
          /\ UNCHANGED <<eventVars, obsVars, connVars, pathVars, cycleVars, verifyVars,
                         traceVars, handshakeVars, propagationVars>>
       \/ /\ focus = "verify" /\ VerifyNext
          /\ UNCHANGED <<eventVars, obsVars, connVars, pathVars, cycleVars, walkVars, traceVars,
                         handshakeVars, propagationVars>>
       \/ /\ focus = "trace" /\ TraceNext
          /\ UNCHANGED <<eventVars, obsVars, connVars, pathVars, cycleVars, walkVars, verifyVars,
                         handshakeVars, propagationVars>>
       \/ /\ focus = "handshake" /\ HandshakeNext
          /\ UNCHANGED <<eventVars, obsVars, connVars, pathVars, cycleVars, walkVars, verifyVars,
                         traceVars, propagationVars>>
       \/ /\ focus = "constants" /\ PropagationNext
          /\ UNCHANGED <<eventVars, obsVars, connVars, pathVars, cycleVars, walkVars, verifyVars,
                         traceVars, handshakeVars>>

analysesVars ==
    <<focus, eventVars, obsVars, connVars, pathVars, cycleVars, walkVars,
      verifyVars, traceVars, handshakeVars, propagationVars>>

AnalysesSpec == AnalysesInit /\ [][AnalysesNext]_analysesVars
=================================================================================
