--------------------------- MODULE HandshakeInspect ---------------------------
(***************************************************************************)
(* inspect_handshake: one pass over the sampled edges of a valid/ready     *)
(* pair, in which several state machines advance side by side: the stall   *)
(* in progress with the payload latched at its start, the unknown-value    *)
(* episodes of an AHB address phase, and the write data phase that trails  *)
(* the accepted address by one edge.                                       *)
(*                                                                         *)
(* An edge is [off |-> in reset, trans, ready, pay, hwrite, wdata]: trans  *)
(* is "idle", "busy", "active" or "u" (unknown; a literal valid is "idle"  *)
(* or "active"), ready and hwrite are "t", "f" or "u", a data value is     *)
(* "A", "B" or "x".  The time of an edge is its number, 0 is no edge.      *)
(***************************************************************************)
EXTENDS Integers, Sequences, FiniteSets, FiniteSetsExt, SequencesExt

CONSTANTS HsMaxWait,      \* max_wait_cycles
          HsMaxFindings,  \* max_findings
          HsMaxEdges      \* bound: edges in one window

ASSUME HandshakeAssumption == HsMaxWait \in Nat /\ HsMaxFindings \in Nat /\ HsMaxEdges \in Nat

VARIABLES
    hsAsk,   \* ahb, nonIdle, holdPayload, holdValid, payload (resolved, in
             \* order), unresolved, write ("off", "on", "unresolved"), missing,
             \* edges (the values the wires take)
    hsPast,  \* the edges sampled so far
    hsScan,  \* the state of the pass
    hsOut,   \* the result, once there is one
    hsPc

handshakeVars == <<hsAsk, hsPast, hsScan, hsOut, hsPc>>

HsNone == "none"
HsKnown(v) == v \notin {"x", "u", HsNone}

\* _ahb_valid_truth and _hs_truth of the valid signal.
ValidAt(e) ==
    CASE e.trans = "u" -> "u"
      [] e.trans = "active" \/ (e.trans = "busy" /\ hsAsk.nonIdle) -> "t"
      [] OTHER -> "f"

NoStall == [on |-> FALSE, begin |-> 0, cycles |-> 0, latched |-> <<>>]
NoWrite == [out |-> FALSE, open |-> FALSE, latched |-> HsNone]

StartScan ==
    [stall |-> NoStall, write |-> NoWrite, unclear |-> {}, findings |-> <<>>, writeFindings |-> <<>>,
     transfers |-> 0, stalls |-> 0, maxStall |-> 0, maxBegin |-> 0, idleReady |-> 0,
     unknown |-> 0, payloadHold |-> 0, validDrop |-> 0, xWhileValid |-> 0, writeHold |-> 0]

HandshakeInit(loads) ==
    /\ hsAsk \in loads
    /\ hsPast = <<>> /\ hsScan = StartScan /\ hsOut = HsNone /\ hsPc = "resolve"

Finding(type, at, signal) == [type |-> type, at |-> at, signal |-> signal]
WithinLimit(findings, f) == IF Len(findings) < HsMaxFindings THEN Append(findings, f) ELSE findings

\* _close_stall
CloseStall(s) ==
    IF ~s.stall.on THEN s
    ELSE [s EXCEPT
            !.maxStall = IF s.stall.cycles > @ THEN s.stall.cycles ELSE @,
            !.maxBegin = IF s.stall.cycles > s.maxStall THEN s.stall.begin ELSE @,
            !.findings = IF s.stall.cycles > HsMaxWait
                         THEN WithinLimit(@, Finding("long_stall", s.stall.begin, HsNone)) ELSE @,
            !.stall = [@ EXCEPT !.on = FALSE, !.cycles = 0, !.begin = 0]]

(***************************************************************************)
(* The stages of one edge, in the order of the code                        *)
(***************************************************************************)
\* The live data phase is inspected first, then advanced by the address that
\* this edge accepts.
InspectWrite(s, e) ==
    LET w == s.write
    IN  CASE ~w.out  -> [s EXCEPT !.write.open = FALSE, !.write.latched = HsNone]
          [] w.out /\ ~w.open -> [s EXCEPT !.write.open = TRUE, !.write.latched = e.wdata]
          [] w.out /\ w.open /\ HsKnown(w.latched) /\ HsKnown(e.wdata) /\ e.wdata # w.latched ->
               [s EXCEPT !.writeHold = @ + 1,
                         !.writeFindings = WithinLimit(@, Finding("write_hold", Len(hsPast) + 1, "wdata")),
                         !.write.latched = e.wdata]
          [] OTHER -> s

\* Mutant: the phase begins with the accepted address itself.
AdvanceEarly(s, e) ==
    IF e.ready # "t" THEN s
    ELSE [s EXCEPT !.write = [out |-> e.trans = "active" /\ e.hwrite = "t", open |-> TRUE,
                              latched |-> e.wdata]]

AdvanceWrite(s, e) ==
    CASE e.ready = "t" -> [s EXCEPT !.write = [NoWrite EXCEPT !.out = e.trans = "active" /\ e.hwrite = "t"]]
      [] e.ready = "u" -> [s EXCEPT !.write = NoWrite]
      [] OTHER -> s

WriteData(s, e) == IF hsAsk.write = "on" THEN AdvanceWrite(InspectWrite(s, e), e) ELSE s

\* Wait-state hold: a stalled beat must persist until it is accepted.
ValidHold(s, e) ==
    IF s.stall.on /\ hsAsk.holdValid /\ ValidAt(e) = "f"
    THEN [s EXCEPT !.validDrop = @ + 1,
                   !.findings = WithinLimit(@, Finding("valid_drop", Len(hsPast) + 1, "valid"))]
    ELSE s

\* One finding for each episode of an unknown control field under valid.
UnclearField(s, e, p) ==
    CASE HsKnown(e.pay[p]) -> [s EXCEPT !.unclear = @ \ {p}]
      [] ~HsKnown(e.pay[p]) /\ p \notin s.unclear ->
           [s EXCEPT !.unclear = @ \cup {p}, !.xWhileValid = @ + 1,
                     !.findings = WithinLimit(@, Finding("x_while_valid", Len(hsPast) + 1, p))]
      [] OTHER -> s
XWhileValid(s, e) ==
    IF ~hsAsk.ahb \/ hsAsk.payload = <<>> THEN s
    ELSE IF ValidAt(e) = "t"
      THEN FoldLeft(LAMBDA t, p : UnclearField(t, e, p), s, hsAsk.payload)
      ELSE [s EXCEPT !.unclear = {}]

\* A stall goes on: every payload signal is compared with the value latched,
\* which follows a change so that each change counts once.
HeldField(s, e, p) ==
    LET before == s.stall.latched[p]
    IN  IF HsKnown(before) /\ HsKnown(e.pay[p]) /\ e.pay[p] # before
        THEN [s EXCEPT !.payloadHold = @ + 1, !.stall.latched[p] = e.pay[p],
                       !.findings = WithinLimit(@, Finding("payload_hold", Len(hsPast) + 1, p))]
        ELSE s
StallOn(s, e) ==
    LET longer == [s EXCEPT !.stalls = @ + 1, !.stall.cycles = @ + 1]
    IN  IF hsAsk.holdPayload THEN FoldLeft(LAMBDA t, p : HeldField(t, e, p), longer, hsAsk.payload)
                             ELSE longer
StallBegins(s, e) ==
    [s EXCEPT !.stalls = @ + 1,
              !.stall = [on |-> TRUE, begin |-> Len(hsPast) + 1, cycles |-> 1, latched |-> e.pay]]

Classify(s, e) ==
    LET v == ValidAt(e)
    IN  CASE v = "u" \/ e.ready = "u"   -> CloseStall([s EXCEPT !.unknown = @ + 1])
          [] v = "t" /\ e.ready = "t"   -> CloseStall([s EXCEPT !.transfers = @ + 1])
          [] v = "f" /\ e.ready = "t"   -> CloseStall([s EXCEPT !.idleReady = @ + 1])
          [] v = "f" /\ e.ready = "f"   -> CloseStall(s)
          [] v = "t" /\ e.ready = "f"   -> IF s.stall.on THEN StallOn(s, e) ELSE StallBegins(s, e)

\* A reset edge breaks every history without making up a dropped valid.
AtReset(s) == [CloseStall(s) EXCEPT !.write = [@ EXCEPT !.open = FALSE, !.out = FALSE], !.unclear = {}]

ScanEdge(s, e) ==
    IF e.off THEN AtReset(s) ELSE Classify(XWhileValid(ValidHold(WriteData(s, e), e), e), e)

(***************************************************************************)
(* The result                                                              *)
(***************************************************************************)
\* _attach_handshake_attribution and the cursor: the first finding of the
\* most telling kind that is listed.
Ranking == <<"x_while_valid", "payload_hold", "write_hold", "valid_drop">>
OfKind(findings, type) == SelectSeq(findings, LAMBDA f : f.type = type)
Side(findings, stalled) ==
    IF \E i \in DOMAIN findings : findings[i].type \in Range(Ranking) THEN "valid_driver"
    ELSE IF stalled THEN "two_sided" ELSE HsNone
Anchor(s, findings) ==
    LET listed == SelectSeq(Ranking \o <<"long_stall">>, LAMBDA k : OfKind(findings, k) # <<>>)
    IN  IF listed = <<>> THEN s.maxBegin ELSE Head(OfKind(findings, Head(listed))).at

Result(s, ended) ==
    LET findings == s.findings \o s.writeFindings
    IN  [transfers |-> s.transfers, stalls |-> s.stalls, maxStall |-> s.maxStall, maxBegin |-> s.maxBegin,
         ended |-> ended, idleReady |-> s.idleReady, unknown |-> s.unknown,
         payloadHold |-> s.payloadHold, validDrop |-> s.validDrop, xWhileValid |-> s.xWhileValid,
         writeHold |-> s.writeHold, findings |-> findings,
         side |-> Side(findings, ended > 0 \/ OfKind(s.findings, "long_stall") # <<>>),
         anchor |-> Anchor(s, findings),
         holdChecked |-> hsAsk.holdPayload /\ hsAsk.payload # <<>> /\ hsAsk.unresolved = {}]

ResolveSignals ==
    /\ hsPc = "resolve"
    /\ IF hsAsk.missing THEN hsPc' = "done" /\ hsOut' = "signal not found"
                        ELSE hsPc' = "scan" /\ UNCHANGED hsOut
    /\ UNCHANGED <<hsAsk, hsPast, hsScan>>

SampleEdge ==
    /\ hsPc = "scan" /\ Len(hsPast) < HsMaxEdges
    /\ \E e \in hsAsk.edges :
         /\ hsScan' = ScanEdge(hsScan, e)
         /\ hsPast' = Append(hsPast, e)
    /\ UNCHANGED <<hsAsk, hsOut, hsPc>>

EndWindow ==
    /\ hsPc = "scan"
    /\ hsScan' = CloseStall(hsScan)
    /\ hsOut' = IF hsPast = <<>> THEN "no edges"
                ELSE Result(hsScan', IF hsScan.stall.on THEN hsScan.stall.cycles ELSE 0)
    /\ hsPc' = "done"
    /\ UNCHANGED <<hsAsk, hsPast>>

HandshakeNext == ResolveSignals \/ SampleEdge \/ EndWindow

(***************************************************************************)
(* What the result should be, from the whole window at once                *)
(***************************************************************************)
Live(i) == i \in DOMAIN hsPast /\ ~hsPast[i].off
Edges(v, r) == {i \in DOMAIN hsPast : Live(i) /\ ValidAt(hsPast[i]) \in v /\ hsPast[i].ready \in r}
Stalled == Edges({"t"}, {"f"})
\* The maximal runs of stalled edges.
Runs ==
    {<<a, b>> \in Stalled \X Stalled :
        a <= b /\ a..b \subseteq Stalled /\ a - 1 \notin Stalled /\ b + 1 \notin Stalled}
Length(run) == run[2] - run[1] + 1
\* The edges at which a value that was known at first has changed since it
\* was last known.
Changes(values, a, b) ==
    IF a > b \/ ~HsKnown(values[a]) THEN {}
    ELSE {i \in (a + 1)..b :
            /\ HsKnown(values[i])
            /\ values[i] # values[Max({j \in a..(i - 1) : HsKnown(values[j])})]}
Pay(p)  == [i \in DOMAIN hsPast |-> hsPast[i].pay[p]]
WData   == [i \in DOMAIN hsPast |-> hsPast[i].wdata]

\* The data phase of a write accepted at edge i lasts through the next edge
\* that is not a known wait state, and ends before a reset.
Accepted == {i \in DOMAIN hsPast : Live(i) /\ hsPast[i].ready = "t" /\ hsPast[i].trans = "active"
                                    /\ hsPast[i].hwrite = "t"}
PhaseEnd(i) ==
    Max({i} \cup {j \in (i + 1)..Len(hsPast) :
                    \A k \in (i + 1)..j : Live(k) /\ (k < j => hsPast[k].ready = "f")})
WriteChanges ==
    IF hsAsk.write # "on" THEN {} ELSE UNION {Changes(WData, i + 1, PhaseEnd(i)) : i \in Accepted}

\* Every event in the order of the pass: edge, stage, place in the payload.
Event(at, stage, k, finding) == [at |-> at, stage |-> stage, k |-> k, f |-> finding]
Dropped == IF hsAsk.holdValid THEN {i \in Edges({"f"}, {"t", "f", "u"}) : i - 1 \in Stalled} ELSE {}
UnclearAt(k) ==
    {i \in Edges({"t"}, {"t", "f", "u"}) :
        /\ hsAsk.ahb /\ ~HsKnown(Pay(hsAsk.payload[k])[i])
        /\ ~(i - 1 \in Edges({"t"}, {"t", "f", "u"}) /\ ~HsKnown(Pay(hsAsk.payload[k])[i - 1]))}
ChangedAt(k) ==
    IF ~hsAsk.holdPayload THEN {}
    ELSE UNION {Changes(Pay(hsAsk.payload[k]), r[1], r[2]) : r \in Runs}
Events ==
    {Event(i, 1, 0, Finding("valid_drop", i, "valid")) : i \in Dropped}
    \cup UNION {{Event(i, 2, k, Finding("x_while_valid", i, hsAsk.payload[k])) : i \in UnclearAt(k)} :
                  k \in DOMAIN hsAsk.payload}
    \cup UNION {{Event(i, 3, k, Finding("payload_hold", i, hsAsk.payload[k])) : i \in ChangedAt(k)} :
                  k \in DOMAIN hsAsk.payload}
    \cup {Event(r[2] + 1, 3, 0, Finding("long_stall", r[1], HsNone)) :
            r \in {q \in Runs : Length(q) > HsMaxWait}}
Earlier(x, y) ==
    x.at < y.at \/ (x.at = y.at /\ (x.stage < y.stage \/ (x.stage = y.stage /\ x.k < y.k)))
Listed(set, order(_, _)) ==
    [i \in 1..Min({HsMaxFindings, Cardinality(set)}) |->
        CHOOSE x \in set : Cardinality({y \in set : order(y, x)}) = i - 1]

(***************************************************************************)
(* The property                                                            *)
(***************************************************************************)
\* The pass counts what a reader of the whole window would count, whatever
\* order stalls, unknown values, resets and phases come in: transfers and
\* stalls, the first longest stall, whether the window ends in one, dropped
\* valids, unknown control fields, changed payload and write data.  The list
\* holds the first findings in order, a noisy kind takes no room from the
\* write data, and a side is blamed only for an event that did happen.
InspectTrue ==
    hsPc = "done" /\ hsPast # <<>> =>
        LET kinds(t) == Cardinality({x \in Events : x.f.type = t})
            longest == Max({0} \cup {Length(r) : r \in Runs})
            main == Listed(Events, Earlier)
        IN  /\ hsOut.transfers = Cardinality(Edges({"t"}, {"t"}))
            /\ hsOut.stalls = Cardinality(Stalled)
            /\ hsOut.idleReady = Cardinality(Edges({"f"}, {"t"}))
            /\ hsOut.unknown = Cardinality(Edges({"u"}, {"t", "f", "u"}) \cup Edges({"t", "f"}, {"u"}))
            /\ hsOut.maxStall = longest
            /\ hsOut.maxBegin = IF Runs = {} THEN 0
                                ELSE Min({r[1] : r \in {q \in Runs : Length(q) = longest}})
            /\ hsOut.ended = Max({0} \cup {Length(r) : r \in {q \in Runs : q[2] = Len(hsPast)}})
            /\ hsOut.validDrop = kinds("valid_drop")
            /\ hsOut.xWhileValid = kinds("x_while_valid")
            /\ hsOut.payloadHold = kinds("payload_hold")
            /\ hsOut.writeHold = Cardinality(WriteChanges)
            /\ hsOut.findings = [i \in DOMAIN main |-> main[i].f]
                                \o LET late == Listed(WriteChanges, <)
                                   IN  [i \in DOMAIN late |-> Finding("write_hold", late[i], "wdata")]
            /\ hsOut.side = "valid_driver" => Dropped # {} \/ WriteChanges # {} \/ \E x \in Events : x.stage > 1 /\ x.k > 0
            /\ hsOut.anchor # 0 => hsOut.anchor \in DOMAIN hsPast
            /\ hsOut.holdChecked /\ hsOut.payloadHold = 0 =>
                  \A p \in Range(hsAsk.payload), r \in Runs : Changes(Pay(p), r[1], r[2]) = {}
===============================================================================
