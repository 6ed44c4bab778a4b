----------------------------- MODULE AnalysisProofs -----------------------------
(***************************************************************************)
(* Proofs about analyses.  Two go on while their inputs change: the trace  *)
(* of an X through a design that is rebuilt (TraceHistory), and the        *)
(* streams and samples kept of a waveform that is replaced                 *)
(* (WaveObservations), for any history, recording, window and limits.  The *)
(* third is the verdict on a window whose samples may be unknown, cut off  *)
(* or capped (WindowVerify), for any number of them; the fourth the paged  *)
(* comparison of two recordings (EventCompare), for any of them; the fifth *)
(* the search for a shortest path (PathQuery), in any design.              *)
(***************************************************************************)
EXTENDS TraceHistory, WaveObservations, WindowVerify, EventCompare, PathQuery, OrderedDictProofs

(***************************************************************************)
(* TraceHistory                                                            *)
(*                                                                         *)
(* A graph has structure from one artifact only, the one of this walk,     *)
(* which the receipt names (GraphInv); the inputs that artifact was made   *)
(* from lie between those the trace was bound to and those on disk         *)
(* (ArtifactInv).  The inputs may go on changing until the end; the        *)
(* closing checks then squeeze both bounds together (ClosingInv).          *)
(***************************************************************************)
\* Records of these fields.
IsArtifact(a) ==
    a = [stage |-> a.stage, kdb |-> a.kdb, compile |-> a.compile, targets |-> a.targets]
IsNode(n) == n = [sig |-> n.sig, wave |-> n.wave, made |-> n.made] /\ n.wave \in Nat

TraceType ==
    /\ thDisk \in [wave : Nat, compile : Nat, kdb : Nat]
    /\ thStage \in {NoStage, "npi", "source_graph", "static"}
    /\ thGuard \in BOOLEAN
    /\ \A n \in thNodes : IsNode(n)

\* While it walks, a trace is bound to compile inputs no newer than those on disk;
\* it has no stage before it is bound.
BindingInv ==
    /\ (thPc \in {"begin", "walk", "query"} \/ thStage # NoStage) => thBound \in 0..thDisk.compile
    /\ thPc = "resolve" => thStage = NoStage /\ thNodes = {}
    /\ thStage = NoStage => ~thGuard

\* The stage has an artifact to answer from.
HasArtifact == thStage \in {"npi", "static"} \/ (thStage = "source_graph" /\ thGuard)

\* An artifact was made from inputs between those the trace was bound to and those
\* on disk.
ArtifactInv ==
    HasArtifact =>
        /\ IsArtifact(thArtifact)
        /\ thArtifact.compile \in thBound..thDisk.compile
        /\ IF thStage = "npi" THEN thArtifact.kdb = thKdb /\ thKdb \in 0..thDisk.kdb
                              ELSE thArtifact.kdb = ThNothing

\* Every structure in the graph came from the artifact of this walk, which the
\* receipt names; one that NPI answered saw a KDB no older than the bound one.
GraphInv ==
    \A n \in Structured :
        /\ HasArtifact
        /\ thReceipt = thArtifact /\ thWalked = thArtifact
        /\ IF thStage = "npi" THEN \E k \in thKdb..thDisk.kdb : n.made = [thArtifact EXCEPT !.kdb = k]
                              ELSE n.made = thArtifact

\* What each of the closing checks has established.
ClosingInv ==
    /\ \A n \in thNodes : n.wave <= thDisk.wave
    /\ thPc \in {"final_compile", "final_route", "done"} => \A n \in thNodes : n.wave = 0
    /\ thPc \in {"final_route", "done"} => \A n \in Structured : thArtifact.compile = thBound
    /\ thPc = "done" => \A n \in Structured : thStage = "npi" => thKdb = thDisk.kdb

TraceInv == TraceType /\ BindingInv /\ ArtifactInv /\ GraphInv /\ ClosingInv


\* A trace starts unbound, with an empty graph.
LEMMA TraceStarts == TraceInit => TraceInv
<1> SUFFICES ASSUME TraceInit PROVE TraceInv
  OBVIOUS
<1>1. thDisk = [wave |-> 0, compile |-> 0, kdb |-> 0] /\ thPc = "resolve" /\ thNodes = {}
      /\ thStage = NoStage /\ thGuard = FALSE
  BY DEF TraceInit
<1>2. TraceType /\ BindingInv
  BY <1>1 DEF TraceType, BindingInv
<1>3. ArtifactInv
  BY <1>1 DEF ArtifactInv, HasArtifact, NoStage
<1>4. GraphInv /\ ClosingInv
  BY <1>1 DEF GraphInv, ClosingInv, Structured
<1> QED
  BY <1>2, <1>3, <1>4 DEF TraceInv

\* An empty graph satisfies whatever is said of its nodes.
LEMMA EmptyGraph ==
    ASSUME thNodes' = {}
    PROVE  /\ GraphInv' /\ ClosingInv'
           /\ \A n \in thNodes' : IsNode(n)
  BY DEF GraphInv, ClosingInv, Structured

\* A step that leaves the route, the disk and the graph alone keeps all but what the
\* closing checks say.
LEMMA RouteKept ==
    ASSUME TraceInv, UNCHANGED <<thDisk, thBound, routeVars, thNodes, thWalked>>,
           thPc' \in {"begin", "walk", "query"} => thBound \in 0..thDisk.compile,
           thPc' # "resolve"
    PROVE  TraceType' /\ BindingInv' /\ ArtifactInv' /\ GraphInv'
<1>1. TraceType' /\ BindingInv'
  BY DEF TraceInv, TraceType, BindingInv, routeVars
<1>2. ArtifactInv' /\ GraphInv'
  BY DEF TraceInv, ArtifactInv, GraphInv, HasArtifact, Structured, routeVars
<1> QED
  BY <1>1, <1>2

\* Inputs only get newer.
LEMMA ChangeStep == ASSUME TraceInv, InputChanges PROVE TraceInv'
<1> USE DEF InputChanges
<1>0. TraceType /\ BindingInv /\ ArtifactInv /\ GraphInv /\ ClosingInv
  BY DEF TraceInv
<1>1. /\ thDisk' \in [wave : Nat, compile : Nat, kdb : Nat]
      /\ thDisk.wave \in Nat /\ thDisk.compile \in Nat /\ thDisk.kdb \in Nat
      /\ thDisk.wave <= thDisk'.wave /\ thDisk.compile <= thDisk'.compile
      /\ thDisk.kdb <= thDisk'.kdb
  BY <1>0 DEF TraceType
<1>2. /\ UNCHANGED <<thPc, thBound, thNodes, thWalked>>
      /\ UNCHANGED <<thStage, thArtifact, thGuard, thKdb, thReceipt>>
      /\ thPc # "done"
  BY DEF routeVars, graphVars
<1>3. TraceType' /\ BindingInv'
  BY <1>0, <1>1, <1>2 DEF TraceType, BindingInv
<1>4. ArtifactInv'
  <2> SUFFICES ASSUME HasArtifact PROVE ArtifactInv'
    BY <1>2 DEF ArtifactInv, HasArtifact
  <2>1. /\ thBound \in Nat /\ IsArtifact(thArtifact)
        /\ thArtifact.compile \in thBound..thDisk.compile
        /\ IF thStage = "npi" THEN thArtifact.kdb = thKdb /\ thKdb \in 0..thDisk.kdb
                              ELSE thArtifact.kdb = ThNothing
    BY <1>0, <1>1 DEF ArtifactInv, BindingInv, HasArtifact, NoStage
  <2>2. thArtifact.compile \in thBound..thDisk'.compile
        /\ (thKdb \in 0..thDisk.kdb => thKdb \in 0..thDisk'.kdb)
    BY <1>1, <2>1
  <2> HIDE DEF InputChanges
  <2> QED
    BY <1>2, <2>1, <2>2 DEF ArtifactInv, IsArtifact
<1>5. GraphInv'
  <2>1. Structured' = Structured
    BY <1>2 DEF Structured
  <2> SUFFICES ASSUME NEW n \in Structured
               PROVE  /\ HasArtifact'
                      /\ thReceipt' = thArtifact' /\ thWalked' = thArtifact'
                      /\ IF thStage' = "npi"
                           THEN \E k \in thKdb'..thDisk'.kdb : n.made = [thArtifact' EXCEPT !.kdb = k]
                           ELSE n.made = thArtifact'
    BY <2>1 DEF GraphInv
  <2>2. /\ HasArtifact /\ thReceipt = thArtifact /\ thWalked = thArtifact
        /\ IF thStage = "npi" THEN \E k \in thKdb..thDisk.kdb : n.made = [thArtifact EXCEPT !.kdb = k]
                              ELSE n.made = thArtifact
    BY <1>0 DEF GraphInv
  <2>3. HasArtifact' /\ (thStage = "npi" => thKdb \in Nat)
    BY <1>0, <1>1, <1>2, <2>2 DEF HasArtifact, ArtifactInv
  <2> HIDE DEF InputChanges
  <2>4. CASE thStage = "npi"
    <3>1. PICK k \in thKdb..thDisk.kdb : n.made = [thArtifact EXCEPT !.kdb = k]
      BY <2>2, <2>4
    <3>2. k \in thKdb..thDisk'.kdb
      BY <1>1, <2>3, <2>4
    <3> QED
      BY <1>2, <2>2, <2>3, <2>4, <3>1, <3>2
  <2> QED
    BY <1>2, <2>2, <2>3, <2>4
<1>6. ClosingInv'
  BY <1>0, <1>1, <1>2 DEF ClosingInv, TraceType, IsNode, Structured
<1> QED
  BY <1>3, <1>4, <1>5, <1>6 DEF TraceInv

\* Before it walks.
LEMMA ResolveStep == ASSUME TraceInv, ResolveContext PROVE TraceInv'
<1> USE DEF ResolveContext
<1>0. TraceType /\ BindingInv /\ thDisk.compile \in Nat
  BY DEF TraceInv, TraceType
<1>1. thStage = NoStage /\ thNodes = {} /\ UNCHANGED <<thDisk, thNodes, thStage, thGuard>>
  BY <1>0 DEF BindingInv, routeVars
<1>2. thPc' = "begin" => thBound' \in 0..thDisk.compile
  BY <1>0
<1>3. TraceType' /\ BindingInv'
  BY <1>0, <1>1, <1>2 DEF TraceType, BindingInv
<1>4. ArtifactInv'
  BY <1>1 DEF ArtifactInv, HasArtifact, NoStage
<1> QED
  BY <1>1, <1>3, <1>4, EmptyGraph DEF TraceInv

\* A walk begins with an empty graph.
LEMMA BeginWalkStep == ASSUME TraceInv, BeginWalk PROVE TraceInv'
<1> USE DEF BeginWalk
<1>0. TraceType /\ BindingInv /\ ArtifactInv
  BY DEF TraceInv
<1>1. thNodes' = {} /\ UNCHANGED <<thDisk, thBound, thStage, thArtifact, thGuard, thKdb>>
      /\ thPc = "begin" /\ thPc' = "walk"
  BY DEF routeVars
<1>2. TraceType' /\ BindingInv'
  BY <1>0, <1>1 DEF TraceType, BindingInv
<1>3. ArtifactInv'
  BY <1>0, <1>1 DEF ArtifactInv, HasArtifact
<1> QED
  BY <1>1, <1>2, <1>3, EmptyGraph DEF TraceInv

\* A node is read from the waveform that is on disk and has no structure yet.
LEMMA ReadSignalStep == ASSUME TraceInv, ReadSignal PROVE TraceInv'
<1> USE DEF ReadSignal
<1>0. TraceType /\ BindingInv /\ ArtifactInv /\ GraphInv /\ ClosingInv /\ thDisk.wave \in Nat
  BY DEF TraceInv, TraceType
<1>1. /\ UNCHANGED <<thDisk, thBound, thStage, thArtifact, thGuard, thKdb, thReceipt, thWalked>>
      /\ thPc = "walk" /\ thPc' \in {"walk", "query", "final"}
  BY DEF routeVars, Exceeded
<1>2. \/ thNodes' \in {{}, thNodes}
      \/ \E s : thNodes' = thNodes \cup {[sig |-> s, wave |-> thDisk.wave, made |-> ThNothing]}
  OBVIOUS
<1>3. \A n \in thNodes' : \/ n \in thNodes
                          \/ IsNode(n) /\ n.wave = thDisk.wave /\ n.made = ThNothing
  BY <1>0, <1>2 DEF IsNode
<1>4. TraceType' /\ BindingInv'
  BY <1>0, <1>1, <1>3 DEF TraceType, BindingInv
<1>5. ArtifactInv'
  BY <1>0, <1>1 DEF ArtifactInv, HasArtifact
<1>6. \A n \in Structured' : n \in Structured
  BY <1>3 DEF Structured
<1>7. GraphInv'
  BY <1>0, <1>1, <1>6 DEF GraphInv, HasArtifact
<1>8. ClosingInv'
  BY <1>0, <1>1, <1>3 DEF ClosingInv
<1> QED
  BY <1>4, <1>5, <1>7, <1>8 DEF TraceInv

\* As long as its stage has no artifact, nothing in the graph has a structure.
LEMMA NothingStructured == ASSUME GraphInv, ~HasArtifact PROVE Structured = {}
  BY DEF GraphInv

\* The route takes its first stage: a KDB's identity, or the sources.
LEMMA InitializeStep == ASSUME TraceInv, InitializeRoute PROVE TraceInv'
<1> USE DEF InitializeRoute
<1>0. TraceType /\ BindingInv /\ ArtifactInv /\ GraphInv /\ ClosingInv
      /\ thDisk.kdb \in Nat /\ thDisk.compile \in Nat
  BY DEF TraceInv, TraceType
<1>1. /\ UNCHANGED <<thDisk, thPc, thBound, thGuard, thReceipt, thNodes, thWalked>>
      /\ thPc = "query" /\ thStage = NoStage /\ thStage' \in {"npi", "source_graph"}
      /\ thBound \in 0..thDisk.compile
  BY <1>0 DEF graphVars, BindingInv
<1>2. Structured = {} /\ Structured' = {}
  BY <1>0, <1>1, NothingStructured DEF HasArtifact, NoStage, Structured
<1>3. TraceType' /\ BindingInv'
  BY <1>0, <1>1 DEF TraceType, BindingInv
<1>4. ArtifactInv'
  <2>1. CASE thStage' = "npi"
    <3>1. thKdb' = thDisk.kdb
          /\ thArtifact' = [stage |-> "npi", kdb |-> thDisk.kdb, compile |-> thBound, targets |-> {}]
      BY <2>1
    <3> QED
      BY <1>0, <1>1, <2>1, <3>1 DEF ArtifactInv, IsArtifact
  <2>2. CASE thStage' = "source_graph"
    BY <1>0, <1>1, <2>2 DEF BindingInv, ArtifactInv, HasArtifact
  <2> QED
    BY <1>1, <2>1, <2>2
<1>5. GraphInv' /\ ClosingInv'
  BY <1>0, <1>1, <1>2 DEF GraphInv, ClosingInv
<1> QED
  BY <1>3, <1>4, <1>5 DEF TraceInv

\* The source graph is made for the targets so far, or given up.
LEMMA PrepareStep == ASSUME TraceInv, PrepareSource PROVE TraceInv'
<1> USE DEF PrepareSource
<1>0. TraceType /\ BindingInv /\ ArtifactInv /\ GraphInv /\ ClosingInv
      /\ thDisk.kdb \in Nat /\ thDisk.compile \in Nat
  BY DEF TraceInv, TraceType
<1>1. /\ UNCHANGED <<thDisk, thPc, thBound, thReceipt, thNodes, thWalked, thKdb>>
      /\ thPc = "query" /\ thStage = "source_graph" /\ ~thGuard
      /\ thBound \in 0..thDisk.compile
  BY <1>0 DEF graphVars, BindingInv
<1>2. Structured = {} /\ Structured' = {}
  BY <1>0, <1>1, NothingStructured DEF HasArtifact, Structured
<1>3. /\ thStage' \in {"source_graph", "static"} /\ thGuard' \in BOOLEAN
      /\ IsArtifact(thArtifact') /\ thArtifact'.kdb = ThNothing
      /\ thArtifact'.compile \in thBound..thDisk.compile
  <2>1. CASE thStage' = "static" /\ thArtifact' = StaticArtifact /\ UNCHANGED thGuard
    <3>1. thArtifact' = [stage |-> "static", kdb |-> ThNothing, compile |-> thBound, targets |-> {}]
      BY <2>1 DEF StaticArtifact
    <3> HIDE DEF PrepareSource
    <3>2. IsArtifact(thArtifact') /\ thArtifact'.kdb = ThNothing /\ thArtifact'.compile = thBound
      BY <3>1 DEF IsArtifact
    <3>3. thBound \in thBound..thDisk.compile
      BY <1>0, <1>1
    <3>4. thGuard' \in BOOLEAN
      BY <1>0, <2>1 DEF TraceType
    <3> QED
      BY <2>1, <3>2, <3>3, <3>4
  <2>2. CASE /\ thGuard' = TRUE /\ UNCHANGED thStage
             /\ thArtifact' = [stage |-> "source_graph", kdb |-> ThNothing,
                               compile |-> thDisk.compile, targets |-> thTargets]
    BY <1>0, <1>1, <2>2 DEF IsArtifact
  <2> QED
    BY <2>1, <2>2
<1>4. TraceType' /\ BindingInv'
  BY <1>0, <1>1, <1>3 DEF TraceType, BindingInv, NoStage
<1>5. ArtifactInv'
  BY <1>1, <1>3 DEF ArtifactInv
<1>6. GraphInv' /\ ClosingInv'
  BY <1>0, <1>1, <1>2 DEF GraphInv, ClosingInv
<1> QED
  BY <1>4, <1>5, <1>6 DEF TraceInv

\* A restart leaves an empty graph, and ends the trace or begins another walk.
LEMMA RestartStep ==
    ASSUME TraceInv, thPc = "query", Restart, UNCHANGED <<thDisk, thBound>>,
           thStage' \in {"npi", "source_graph", "static"}, thGuard' \in BOOLEAN,
           ArtifactInv'
    PROVE  TraceInv'
<1>1. TraceType /\ BindingInv /\ thNodes' = {} /\ thPc' \in {"begin", "final"}
  BY DEF TraceInv, Restart
<1>2. TraceType' /\ BindingInv'
  BY <1>1 DEF TraceType, BindingInv, NoStage
<1> QED
  BY <1>1, <1>2, EmptyGraph DEF TraceInv

\* Giving up for the static stage.
LEMMA StaticArtifactFits ==
    ASSUME TraceInv, thPc = "query", UNCHANGED <<thDisk, thBound>>,
           thStage' = "static", thArtifact' = StaticArtifact
    PROVE  ArtifactInv'
<1>1. thBound \in 0..thDisk.compile /\ thDisk.compile \in Nat
  BY DEF TraceInv, BindingInv, TraceType
<1> QED
  BY <1>1 DEF ArtifactInv, StaticArtifact, IsArtifact

\* The graph is given up and another stage tried.
LEMMA NpiFallbackStep == ASSUME TraceInv, NpiFallback PROVE TraceInv'
<1>1. /\ thPc = "query" /\ Restart /\ UNCHANGED <<thDisk, thBound>>
      /\ thStage' = "source_graph" /\ thGuard' = FALSE
  BY DEF NpiFallback, Ready
<1> QED
  BY <1>1, RestartStep DEF ArtifactInv, HasArtifact

LEMMA SourceFallbackStep == ASSUME TraceInv, SourceFallback PROVE TraceInv'
<1>1. /\ thPc = "query" /\ Restart /\ UNCHANGED <<thDisk, thBound, thGuard>>
      /\ thStage' = "static" /\ thArtifact' = StaticArtifact
  BY DEF SourceFallback, Ready
<1>2. thGuard' \in BOOLEAN
  BY <1>1 DEF TraceInv, TraceType
<1> QED
  BY <1>1, <1>2, RestartStep, StaticArtifactFits

LEMMA ExpandScopeStep == ASSUME TraceInv, ExpandScope PROVE TraceInv'
<1>0. thPc = "query" /\ thStage = "source_graph" /\ thGuard \in BOOLEAN
      /\ UNCHANGED <<thDisk, thBound, thKdb>>
  BY DEF ExpandScope, Ready, TraceInv, TraceType
<1>1. CASE thStage' = "static" /\ thArtifact' = StaticArtifact /\ Restart /\ UNCHANGED thGuard
  BY <1>0, <1>1, RestartStep, StaticArtifactFits
<1>2. CASE thGuard' = FALSE /\ Restart /\ UNCHANGED <<thStage, thArtifact>>
  BY <1>0, <1>2, RestartStep DEF ArtifactInv, HasArtifact
<1>3. CASE /\ Exceeded(thNodes)
           /\ UNCHANGED <<thStage, thArtifact, thGuard, thTargets, thReceipt, graphVars>>
  <2>1. thPc' = "final" /\ UNCHANGED <<routeVars, thNodes, thWalked>>
    BY <1>0, <1>3 DEF Exceeded, routeVars, graphVars
  <2>2. TraceType' /\ BindingInv' /\ ArtifactInv' /\ GraphInv'
    BY <1>0, <2>1, RouteKept
  <2>3. ClosingInv'
    BY <1>0, <2>1 DEF TraceInv, ClosingInv
  <2> QED
    BY <2>2, <2>3 DEF TraceInv
<1> QED
  BY <1>1, <1>2, <1>3 DEF ExpandScope

\* An answer becomes a node's structure: the walk has one artifact, or restarts.
LEMMA UseAnswerStep == ASSUME TraceInv, UseAnswer PROVE TraceInv'
<1>0. /\ TraceType /\ BindingInv /\ ArtifactInv /\ GraphInv /\ ClosingInv /\ HasArtifact
      /\ thDisk.wave \in Nat /\ thDisk.compile \in Nat /\ thDisk.kdb \in Nat
  BY DEF TraceInv, TraceType, UseAnswer, Ready, HasArtifact
<1>1. /\ thPc = "query"
      /\ UNCHANGED <<thDisk, thBound, thParser, thStage, thArtifact, thGuard, thTargets, thKdb>>
  BY DEF UseAnswer, Ready
<1>2. CASE Restart
  <2>1. ArtifactInv'
    BY <1>0, <1>1 DEF ArtifactInv, HasArtifact
  <2>2. thStage' \in {"npi", "source_graph", "static"} /\ thGuard' \in BOOLEAN
    BY <1>0, <1>1 DEF TraceType, HasArtifact
  <2> QED
    BY <1>1, <1>2, <2>1, <2>2, RestartStep
<1>3. CASE thWalked \in {ThNothing, thArtifact} /\ ~Restart
  <2>1. /\ thWalked' = thArtifact /\ thReceipt' = thArtifact /\ thPc' = "walk"
        /\ thNodes' = {n \in thNodes : n.sig # thItem.sig} \cup
             {[n EXCEPT !.made = AnswerFrom] : n \in {m \in thNodes : m.sig = thItem.sig}}
    BY <1>3 DEF UseAnswer
  <2>2. \A n \in thNodes' :
           \/ n \in thNodes
           \/ n.made = AnswerFrom /\ \E m \in thNodes : IsNode(n) /\ n.wave = m.wave
    BY <1>0, <2>1 DEF TraceType, IsNode
  <2>3. TraceType' /\ BindingInv'
    BY <1>0, <1>1, <2>1, <2>2 DEF TraceType, BindingInv
  <2>4. ArtifactInv'
    BY <1>0, <1>1 DEF ArtifactInv, HasArtifact
  <2>5. IF thStage = "npi"
          THEN \E k \in thKdb..thDisk.kdb : AnswerFrom = [thArtifact EXCEPT !.kdb = k]
          ELSE AnswerFrom = thArtifact
    <3>1. CASE thStage = "npi"
      <4>1. thDisk.kdb \in thKdb..thDisk.kdb
        BY <1>0, <3>1 DEF ArtifactInv
      <4> QED
        BY <3>1, <4>1 DEF AnswerFrom
    <3> QED
      BY <3>1 DEF AnswerFrom
  <2>6. GraphInv'
    <3> SUFFICES ASSUME NEW n \in Structured'
                 PROVE  IF thStage = "npi"
                          THEN \E k \in thKdb..thDisk.kdb : n.made = [thArtifact EXCEPT !.kdb = k]
                          ELSE n.made = thArtifact
      BY <1>0, <1>1, <2>1 DEF GraphInv, HasArtifact
    <3>1. n \in Structured \/ n.made = AnswerFrom
      BY <2>2 DEF Structured
    <3> QED
      BY <1>0, <2>5, <3>1 DEF GraphInv
  <2>7. ClosingInv'
    BY <1>0, <1>1, <2>1, <2>2 DEF ClosingInv
  <2> QED
    BY <2>3, <2>4, <2>6, <2>7 DEF TraceInv
<1> QED
  BY <1>2, <1>3 DEF UseAnswer

\* Ending a walk, at its end or at an await.
LEMMA EndStep ==
    ASSUME TraceInv, WalkDone \/ TraceTimeout \/ TraceCancelled
    PROVE  TraceInv'
<1>1. thPc' \in {"final", "cancelled"}
      /\ UNCHANGED <<thDisk, thBound, routeVars, thNodes, thWalked>>
  BY DEF WalkDone, TraceTimeout, TraceCancelled, Exceeded, graphVars
<1>2. TraceType' /\ BindingInv' /\ ArtifactInv' /\ GraphInv'
  BY <1>1, RouteKept
<1>3. ClosingInv'
  BY <1>1 DEF TraceInv, ClosingInv
<1> QED
  BY <1>2, <1>3 DEF TraceInv

\* The closing checks: a graph that outlives one fits what it established.
LEMMA CheckingStep ==
    ASSUME TraceInv, CheckWave \/ CheckContext \/ CheckRoute
    PROVE  TraceInv'
<1>0. TraceType /\ BindingInv /\ ArtifactInv /\ GraphInv /\ ClosingInv
      /\ thDisk.wave \in Nat
  BY DEF TraceInv, TraceType
<1>1. /\ thPc' \in {"final_compile", "final_route", "done"}
      /\ UNCHANGED <<thDisk, thBound, thParser, thStage, thArtifact, thGuard, thKdb, thReceipt,
                     thWalked>>
  BY DEF CheckWave, CheckContext, CheckRoute, CheckStep, routeVars
<1>2. TraceType' /\ BindingInv' /\ ArtifactInv' /\ GraphInv' /\ ClosingInv'
  <2>1. CASE thNodes' = {}
    <3>1. TraceType' /\ BindingInv'
      BY <1>0, <1>1, <2>1 DEF TraceType, BindingInv
    <3>2. ArtifactInv'
      BY <1>0, <1>1 DEF ArtifactInv, HasArtifact
    <3> QED
      BY <2>1, <3>1, <3>2, EmptyGraph
  <2>2. CASE thNodes' = thNodes /\ thNodes' # {}
    <3>1. TraceType' /\ BindingInv' /\ ArtifactInv' /\ GraphInv'
      BY <1>0, <1>1, <2>2, RouteKept DEF routeVars, CheckWave, CheckContext, CheckRoute, CheckStep
    <3>2. CASE CheckWave
      <4>1. thPc' = "final_compile" /\ thDisk.wave = 0
        BY <2>2, <3>2 DEF CheckWave, CheckStep, WaveChanged
      <4>2. \A n \in thNodes : n.wave = 0
        BY <1>0, <4>1 DEF TraceType, IsNode, ClosingInv
      <4> QED
        BY <1>0, <1>1, <2>2, <3>1, <4>1, <4>2 DEF ClosingInv
    <3>3. CASE CheckContext
      <4>1. thPc = "final_compile" /\ thPc' = "final_route"
            /\ (thBound # ThNothing => thDisk.compile = thBound)
        BY <2>2, <3>3 DEF CheckContext, CheckStep, ContextChanged
      <4>2. \A n \in Structured : thArtifact.compile = thBound
        <5> SUFFICES ASSUME NEW n \in Structured PROVE thArtifact.compile = thBound
          OBVIOUS
        <5>1. HasArtifact /\ thBound \in Nat /\ thDisk.compile \in Nat
          BY <1>0 DEF GraphInv, HasArtifact, BindingInv, TraceType, NoStage
        <5>2. thBound = thDisk.compile
          BY <4>1, <5>1, TraceAssumption
        <5> QED
          BY <1>0, <5>1, <5>2 DEF ArtifactInv
      <4> QED
        BY <1>0, <1>1, <2>2, <3>1, <4>1, <4>2 DEF ClosingInv, Structured
    <3>4. CASE CheckRoute
      <4>1. thPc = "final_route" /\ thPc' = "done"
            /\ (thStage = "npi" => thKdb = thDisk.kdb)
        BY <2>2, <3>4 DEF CheckRoute, CheckStep, RouteChanged
      <4> QED
        BY <1>0, <1>1, <2>2, <3>1, <4>1 DEF ClosingInv, Structured
    <3> QED
      BY <3>2, <3>3, <3>4
  <2> QED
    BY <2>1, <2>2 DEF CheckWave, CheckContext, CheckRoute, CheckStep
<1> QED
  BY <1>2 DEF TraceInv

LEMMA TraceStep == ASSUME TraceInv, [TraceNext]_traceVars PROVE TraceInv'
<1>1. CASE TraceNext
  BY <1>1, ResolveStep, BeginWalkStep, ReadSignalStep, InitializeStep, PrepareStep, UseAnswerStep,
     NpiFallbackStep, SourceFallbackStep, ExpandScopeStep, EndStep, CheckingStep, ChangeStep
     DEF TraceNext
<1>2. CASE UNCHANGED traceVars
  BY <1>2 DEF traceVars, TraceInv, TraceType, BindingInv, ArtifactInv, GraphInv, ClosingInv,
     HasArtifact, Structured
<1> QED
  BY <1>1, <1>2

\* A checked graph has one artifact, of the inputs the trace was bound to.
LEMMA OneProvenance == TraceInv => SingleProvenance
<1> SUFFICES ASSUME TraceInv, thPc = "done" PROVE SingleProvenance
  BY DEF SingleProvenance
<1>0. TraceType /\ ArtifactInv /\ GraphInv /\ ClosingInv /\ thDisk.kdb \in Nat
  BY DEF TraceInv, TraceType
<1>1. ASSUME NEW n \in Structured
      PROVE  /\ n.made = thArtifact /\ n.made = thReceipt
             /\ n.made.compile = thBound /\ n.made.kdb \in {ThNothing, thKdb}
  <2>1. /\ IsArtifact(thArtifact) /\ thReceipt = thArtifact /\ thArtifact.compile = thBound
    BY <1>0, <1>1 DEF GraphInv, ArtifactInv, ClosingInv
  <2>2. CASE thStage = "npi"
    <3>1. thKdb = thDisk.kdb /\ thArtifact.kdb = thKdb
      BY <1>0, <1>1, <2>2 DEF GraphInv, ArtifactInv, ClosingInv
    <3>2. n.made = [thArtifact EXCEPT !.kdb = thKdb]
      BY <1>0, <1>1, <2>2, <3>1 DEF GraphInv
    <3>3. n.made = thArtifact
      BY <2>1, <3>1, <3>2 DEF IsArtifact
    <3> QED
      BY <2>1, <3>1, <3>3
  <2>3. CASE thStage # "npi"
    BY <1>0, <1>1, <2>1, <2>3 DEF GraphInv, ArtifactInv
  <2> QED
    BY <2>2, <2>3
<1>2. \A n \in thNodes : n.wave = 0
  BY <1>0 DEF ClosingInv
<1> QED
  BY <1>1, <1>2 DEF SingleProvenance

\* A graph that trace_x_history returns has one provenance: one waveform, one artifact
\* of one backend, the compile inputs and the KDB it was bound to, whatever fallbacks,
\* expansions and changes of the inputs came before.
THEOREM TraceHasOneProvenance == TraceSpec => []SingleProvenance
<1>1. TraceInit => TraceInv
  BY TraceStarts
<1>2. TraceInv /\ [TraceNext]_traceVars => TraceInv'
  BY TraceStep
<1>3. TraceInv => SingleProvenance
  BY OneProvenance
<1> QED
  BY <1>1, <1>2, <1>3, PTL DEF TraceSpec

(***************************************************************************)
(* WaveObservations                                                        *)
(*                                                                         *)
(* An entry is the fresh answer for its window from some generation        *)
(* (FreshEntry).  Which generation its key does not say: the file may be   *)
(* replaced between the parser's load and the key.  What protects a call   *)
(* is the epoch in the key: an entry with the parser's epoch came from     *)
(* that parser, which loaded a generation no older than the one on disk    *)
(* when the call asked for it (EntryInv, ParserInv).                       *)
(***************************************************************************)
ObKeyRecord == [ns : ObNamespaces, file : Int, epoch : Nat]
ObStream == [gen : DOMAIN ObRows, rows : Seq(ObRecord), predecessor : Seq(ObRecord)]
ObSample == [gen : DOMAIN ObRows, value : Seq(ObRecord)]
ObEntry ==
    [kind : {"stream", "sample"}, key : ObKeyRecord, from : Nat, to : Int, at : Int,
     value : ObStream \cup ObSample, events : Nat, bytes : Nat]
ObPhases == {"identity", "load", "lookup", "recheck", "sampled"}

\* The call in progress: its window, and what it has so far.
CallType ==
    /\ obPc \in ObPhases \cup {"idle"}
    /\ obPc # "idle" =>
          /\ obCall \in [kind : {"stream", "sample"}, from : Nat, to : Int, at : Int, begun : Int,
                         key : ObKeyRecord \cup {ObNothing}, sample : ObKeyRecord \cup {ObNothing},
                         stream : ObStream \cup {ObNothing}]
          /\ IsWindow(obCall.from, obCall.to)
    /\ obPc \in {"load", "lookup", "recheck"} =>
          obCall.key \in ObKeyRecord /\ obCall.key.epoch = obParser.epoch
    /\ obPc \in {"recheck", "sampled"} => obCall.stream \in ObStream /\ obCall.kind = "stream"
    /\ obPc = "sampled" => obCall.sample # ObNothing
    /\ (obPc # "idle" /\ obCall.sample # ObNothing) =>
          obCall.sample.epoch <= obParser.epoch /\ obCall.kind = "stream"

ObsType ==
    /\ obGen \in DOMAIN ObRows
    /\ obNamespace \in ObNamespaces
    /\ obParser \in [sig : Int, epoch : Nat, loaded : Int] /\ obParser.sig <= obGen

\* A parser loads a generation no older than the one it was made for; the call in
\* progress uses the parser that fits the file as the call began.
ParserInv ==
    /\ obParser.loaded # ObUnseen => obParser.loaded \in DOMAIN ObRows /\ obParser.loaded >= obParser.sig
    /\ obPc # "idle" => obCall.begun = obParser.sig
    /\ obPc \in {"lookup", "recheck", "sampled"} => obParser.loaded # ObUnseen
    /\ obPc \in {"recheck", "sampled"} =>
          /\ obCall.stream = ObRead(obCall.stream.gen, obCall.from, obCall.to)
          /\ obCall.stream.gen >= obParser.sig

FreshEntry(e) ==
    LET stream == ObRead(e.value.gen, e.from, e.to)
    IN  e.value = IF e.kind = "stream" THEN stream ELSE ObValueIn(stream, e.at)

EntryInv ==
    \A e \in ToSet(obEntries) :
        /\ FreshEntry(e)
        /\ e.kind = "stream" => e.to \in Nat
        /\ e.key.epoch <= obParser.epoch
        /\ e.key.epoch = obParser.epoch => e.value.gen >= obParser.sig

\* A key is held once, at one position.
KeysInv ==
    /\ Distinct(obEntries)
    /\ \A e, f \in ToSet(obEntries) : ObSameKey(e, f) => e = f

EntriesInv ==
    /\ obEntries \in Seq(ObEntry) /\ obEvents \in Int /\ obBytes \in Int
    /\ EntryInv /\ KeysInv /\ ObservationsAccounted

ObsInv == ObsType /\ CallType /\ ParserInv /\ EntriesInv /\ HitIsFresh

\* move_to_end, for an entry.
LEMMA TouchedEntries ==
    ASSUME NEW s \in Seq(ObEntry), NEW e \in ObEntry
    PROVE  /\ Touch(s, e) \in Seq(ObEntry) /\ ToSet(Touch(s, e)) = ToSet(s) \cup {e}
           /\ Distinct(s) => Distinct(Touch(s, e))
  BY TouchFacts

\* A set of positions that is not empty has a last one, and Max returns it.
LEMMA LastPosition ==
    ASSUME NEW n \in Nat, NEW I \in SUBSET (1 .. n), I # {}
    PROVE  Max(I) \in I /\ \A j \in I : Max(I) >= j
<1> DEFINE D == {k \in Nat : \A j \in I : j <= k}
<1>1. n \in D
  OBVIOUS
<1>2. Min(D) \in D /\ \A k \in D : Min(D) <= k
  <2> HIDE DEF D
  <2>1. D \in SUBSET Nat
    BY DEF D
  <2> QED
    BY <1>1, <2>1, LeastIn
<1> PICK m \in D : m = Min(D)
  BY <1>2
<1>3. m \in I
  <2> SUFFICES ASSUME m \notin I PROVE FALSE
    OBVIOUS
  <2>1. PICK j \in I : TRUE
    OBVIOUS
  <2>2. m - 1 \in Nat /\ \A i \in I : i <= m - 1
    BY <2>1
  <2>3. m <= m - 1
    BY <1>2, <2>2
  <2> QED
    BY <2>3
<1> QED
  BY <1>3 DEF Max

(***************************************************************************)
(* Sums over sets                                                          *)
(***************************************************************************)
\* As many units of each member as it weighs.
Units(S, w) == UNION {{e} \X (1 .. w[e]) : e \in S}

LEMMA UnitsFinite ==
    ASSUME NEW S, IsFiniteSet(S), NEW w, \A e \in S : w[e] \in Nat
    PROVE  IsFiniteSet(Units(S, w)) /\ Cardinality(Units(S, w)) \in Nat
<1> DEFINE Part(e) == {e} \X (1 .. w[e])
           Parts == {Part(e) : e \in S}
           f == [e \in S |-> Part(e)]
<1>1. f \in Surjection(S, Parts)
  BY DEF Surjection
<1>2. IsFiniteSet(Parts)
  <2> HIDE DEF f, Parts
  <2> QED
    BY <1>1, FS_Surjection
<1>3. ASSUME NEW P \in Parts PROVE IsFiniteSet(P)
  <2>1. PICK e \in S : P = Part(e)
    BY <1>3
  <2>2. w[e] \in Int /\ 1 \in Int
    OBVIOUS
  <2>3. IsFiniteSet({e}) /\ IsFiniteSet(1 .. w[e])
    BY <2>2, FS_Interval, FS_Singleton
  <2>4. IsFiniteSet(Part(e))
    BY <2>3, FS_Product
  <2> QED
    BY <2>1, <2>4
<1>4. IsFiniteSet(UNION Parts)
  <2> HIDE DEF Parts
  <2> QED
    BY <1>2, <1>3, FS_UNION
<1> QED
  BY <1>4, FS_CardinalityType DEF Units

LEMMA UnitsOfOne ==
    ASSUME NEW e, NEW w, w[e] \in Nat
    PROVE  Cardinality(Units({e}, w)) = w[e]
<1>1. Units({e}, w) = {e} \X (1 .. w[e])
  BY DEF Units
<1>2. IsFiniteSet({e}) /\ Cardinality({e}) = 1
  BY FS_Singleton
<1>3. IsFiniteSet(1 .. w[e]) /\ Cardinality(1 .. w[e]) = w[e]
  <2> PICK n \in Nat : n = w[e]
    OBVIOUS
  <2>1. IsFiniteSet(1 .. n) /\ Cardinality(1 .. n) = IF 1 > n THEN 0 ELSE n - 1 + 1
    BY ONLY n \in Nat, FS_Interval
  <2>2. Cardinality(1 .. n) = n
    BY ONLY <2>1, n \in Nat
  <2> QED
    BY <2>1, <2>2
<1>4. Cardinality({e} \X (1 .. w[e])) = Cardinality({e}) * Cardinality(1 .. w[e])
  BY <1>2, <1>3, FS_Product
<1>5. Cardinality(Units({e}, w)) = 1 * w[e]
  BY <1>1, <1>2, <1>3, <1>4, Zenon
<1> QED
  BY <1>5

LEMMA UnitsOfBoth ==
    ASSUME NEW S, IsFiniteSet(S), NEW T, IsFiniteSet(T), S \cap T = {},
           NEW w, \A e \in S \cup T : w[e] \in Nat
    PROVE  Cardinality(Units(S \cup T, w)) = Cardinality(Units(S, w)) + Cardinality(Units(T, w))
<1>1. IsFiniteSet(Units(S, w)) /\ IsFiniteSet(Units(T, w))
      /\ Cardinality(Units(S, w)) \in Nat /\ Cardinality(Units(T, w)) \in Nat
  BY UnitsFinite
<1>2. Units(S \cup T, w) = Units(S, w) \cup Units(T, w)
  BY DEF Units
<1>3. Units(S, w) \cap Units(T, w) = {}
  BY DEF Units
<1>4. Cardinality(Units(S, w) \cup Units(T, w))
        = Cardinality(Units(S, w)) + Cardinality(Units(T, w)) - Cardinality(Units(S, w) \cap Units(T, w))
  BY <1>1, FS_Union
<1>5. Cardinality(Units(S, w) \cap Units(T, w)) = 0
  BY <1>3, FS_EmptySet, Zenon
<1>6. Cardinality(Units(S \cup T, w)) = Cardinality(Units(S, w)) + Cardinality(Units(T, w)) - 0
  BY <1>2, <1>4, <1>5, Zenon
<1> QED
  BY <1>1, <1>6

\* The entries of a sequence are finitely many.
LEMMA ToSetFinite ==
    ASSUME NEW S, NEW s \in Seq(S)
    PROVE  IsFiniteSet(ToSet(s)) /\ ToSet(s) \subseteq S
<1>1. Len(s) \in Nat /\ DOMAIN s = 1 .. Len(s) /\ s \in [1 .. Len(s) -> S]
  BY LenProperties
<1>2. IsFiniteSet(1 .. Len(s))
  BY <1>1, FS_Interval
<1>3. s \in Surjection(1 .. Len(s), ToSet(s))
  BY <1>1 DEF Surjection, ToSet
<1>4. IsFiniteSet(ToSet(s))
  BY <1>2, <1>3, FS_Surjection
<1> QED
  BY <1>1, <1>4 DEF ToSet

\* Records and bytes of some entries, as sums.
LEMMA EntrySums ==
    ASSUME NEW S \in SUBSET ObEntry, IsFiniteSet(S), NEW T \in SUBSET ObEntry, IsFiniteSet(T),
           S \cap T = {}
    PROVE  /\ ObEvents(S \cup T) = ObEvents(S) + ObEvents(T)
           /\ ObBytes(S \cup T) = ObBytes(S) + ObBytes(T)
           /\ ObEvents(S) \in Nat /\ ObBytes(S) \in Nat
<1> DEFINE w == [e \in ObEntry |-> e.events]
           b == [e \in ObEntry |-> e.bytes]
<1>1. \A e \in ObEntry : w[e] = e.events /\ b[e] = e.bytes /\ w[e] \in Nat /\ b[e] \in Nat
  BY DEF ObEntry
<1>2. \A U \in SUBSET ObEntry : Units(U, w) = UNION {{e} \X (1..e.events) : e \in U}
                                /\ Units(U, b) = UNION {{e} \X (1..e.bytes) : e \in U}
  BY <1>1 DEF Units
<1> HIDE DEF w, b
<1>3. \A U \in SUBSET ObEntry : ObEvents(U) = Cardinality(Units(U, w))
                                /\ ObBytes(U) = Cardinality(Units(U, b))
  BY <1>2 DEF ObEvents, ObBytes
<1>4. S \cup T \in SUBSET ObEntry
  OBVIOUS
<1>5. /\ Cardinality(Units(S \cup T, w)) = Cardinality(Units(S, w)) + Cardinality(Units(T, w))
      /\ Cardinality(Units(S \cup T, b)) = Cardinality(Units(S, b)) + Cardinality(Units(T, b))
      /\ Cardinality(Units(S, w)) \in Nat /\ Cardinality(Units(S, b)) \in Nat
  <2>1. \A e \in S \cup T : w[e] \in Nat /\ b[e] \in Nat
    BY <1>1
  <2> QED
    BY <2>1, UnitsOfBoth, UnitsFinite
<1> QED
  BY <1>3, <1>4, <1>5

LEMMA EntryAlone ==
    ASSUME NEW e \in ObEntry
    PROVE  /\ ObEvents({e}) = e.events /\ ObBytes({e}) = e.bytes
           /\ ObEvents({}) = 0 /\ ObBytes({}) = 0
<1> DEFINE w == [x \in ObEntry |-> x.events]
           b == [x \in ObEntry |-> x.bytes]
<1>1. w[e] = e.events /\ b[e] = e.bytes /\ w[e] \in Nat /\ b[e] \in Nat
  BY DEF ObEntry
<1>2. /\ Units({e}, w) = UNION {{x} \X (1..x.events) : x \in {e}}
      /\ Units({e}, b) = UNION {{x} \X (1..x.bytes) : x \in {e}}
  BY <1>1 DEF Units
<1> HIDE DEF w, b
<1>3. ObEvents({e}) = e.events /\ ObBytes({e}) = e.bytes
  BY <1>1, <1>2, UnitsOfOne DEF ObEvents, ObBytes
<1>4. UNION {{x} \X (1..x.events) : x \in {}} = {} /\ UNION {{x} \X (1..x.bytes) : x \in {}} = {}
  OBVIOUS
<1> QED
  BY <1>3, <1>4, FS_EmptySet DEF ObEvents, ObBytes

(***************************************************************************)
(* Windows of a recording                                                  *)
(***************************************************************************)
InTime(rows) == \A i, j \in 1 .. Len(rows) : i <= j => rows[i].t <= rows[j].t

\* bisect_left returns the number of records before an instant.
LEMMA BelowFacts ==
    ASSUME NEW rows \in Seq(ObRecord), InTime(rows), NEW t \in Int
    PROVE  /\ ObBelow(rows, t) \in 0 .. Len(rows)
           /\ \A i \in 1 .. Len(rows) : i <= ObBelow(rows, t) <=> rows[i].t < t
<1>0. /\ Len(rows) \in Nat
      /\ \A i \in 1 .. Len(rows) : rows[i].t \in Int
  <2>1. Len(rows) \in Nat /\ \A i \in 1 .. Len(rows) : rows[i] \in ObRecord
    BY LenProperties
  <2> QED
    BY <2>1 DEF ObRecord
<1> DEFINE L == {n \in Nat : n <= Len(rows) /\ \A i \in 1 .. Len(rows) : rows[i].t < t => i <= n}
<1>1. Len(rows) \in L
  BY <1>0
<1>2. Min(L) \in L /\ \A k \in L : Min(L) <= k
  <2> HIDE DEF L
  <2>1. L \in SUBSET Nat
    BY DEF L
  <2> QED
    BY <1>1, <2>1, LeastIn
<1> PICK m \in L : m = Min(L)
  BY <1>2
<1>3. ASSUME NEW i \in 1 .. Len(rows), i <= m PROVE rows[i].t < t
  <2> SUFFICES ASSUME ~(rows[i].t < t) PROVE FALSE
    OBVIOUS
  <2>1. \A j \in 1 .. Len(rows) : rows[j].t < t => j <= i - 1
    <3> SUFFICES ASSUME NEW j \in 1 .. Len(rows), rows[j].t < t, i <= j PROVE FALSE
      BY <1>0
    <3>1. rows[i].t <= rows[j].t
      BY DEF InTime
    <3> QED
      BY <1>0, <3>1
  <2>2. i - 1 \in L
    BY <1>0, <2>1
  <2>3. m <= i - 1
    BY <1>2, <2>2
  <2> QED
    BY <1>0, <1>3, <2>3
<1>4. m \in 0 .. Len(rows) /\ \A i \in 1 .. Len(rows) : i <= m <=> rows[i].t < t
  BY <1>0, <1>3
<1>5. \E n \in 0 .. Len(rows) : \A i \in 1 .. Len(rows) : i <= n <=> rows[i].t < t
  BY <1>4
<1> HIDE DEF L
<1> QED
  BY <1>5 DEF ObBelow

\* Another instant has no fewer records before it if it is no earlier.
LEMMA BelowGrows ==
    ASSUME NEW rows \in Seq(ObRecord), InTime(rows), NEW s \in Int, NEW t \in Int, s <= t
    PROVE  ObBelow(rows, s) <= ObBelow(rows, t)
<1>1. PICK a \in 0 .. Len(rows) : a = ObBelow(rows, s)
                                  /\ \A i \in 1 .. Len(rows) : i <= a <=> rows[i].t < s
  BY BelowFacts
<1>2. PICK b \in 0 .. Len(rows) : b = ObBelow(rows, t)
                                  /\ \A i \in 1 .. Len(rows) : i <= b <=> rows[i].t < t
  BY BelowFacts
<1>3. Len(rows) \in Nat /\ \A i \in 1 .. Len(rows) : rows[i] \in ObRecord
  BY LenProperties
<1>4. CASE a = 0
  BY <1>1, <1>2, <1>3, <1>4
<1>5. CASE a # 0
  <2>1. a \in 1 .. Len(rows) /\ rows[a].t < s /\ rows[a].t \in Int
    BY <1>1, <1>3, <1>5 DEF ObRecord
  <2>2. rows[a].t < t
    BY <2>1
  <2>3. a <= b
    BY <1>2, <2>1, <2>2
  <2> QED
    BY <1>1, <1>2, <2>3
<1> QED
  BY <1>4, <1>5

\* The records of a window, one by one.
LEMMA InsideFacts ==
    ASSUME NEW rows \in Seq(ObRecord), InTime(rows), NEW f \in Int, NEW t \in Int
    PROVE  /\ ObInside(rows, f, t) \in Seq(ObRecord)
           /\ Len(ObInside(rows, f, t))
                = IF ObBelow(rows, f) <= ObBelow(rows, t + 1)
                    THEN ObBelow(rows, t + 1) - ObBelow(rows, f) ELSE 0
           /\ \A i \in 1 .. Len(ObInside(rows, f, t)) :
                 ObInside(rows, f, t)[i] = rows[ObBelow(rows, f) + i]
           /\ InTime(ObInside(rows, f, t))
<1> PICK r : r = ObInside(rows, f, t)
  OBVIOUS
<1> PICK a \in 0 .. Len(rows) : a = ObBelow(rows, f)
  BY BelowFacts
<1> PICK b \in 0 .. Len(rows) : b = ObBelow(rows, t + 1)
  BY BelowFacts
<1>1. a \in 0 .. Len(rows) /\ b \in 0 .. Len(rows) /\ Len(rows) \in Nat
  BY BelowFacts, LenProperties
<1>2. /\ a + 1 \in Int /\ b \in Int
      /\ \A i \in a + 1 .. b : rows[i] \in ObRecord
  BY <1>1, LenProperties
<1>3. /\ SubSeq(rows, a + 1, b) \in Seq(ObRecord)
      /\ Len(SubSeq(rows, a + 1, b)) = IF a + 1 <= b THEN b - (a + 1) + 1 ELSE 0
      /\ \A i \in 1 .. b - (a + 1) + 1 : SubSeq(rows, a + 1, b)[i] = rows[(a + 1) + i - 1]
  BY <1>2, SubSeqProperties
<1>4. r = SubSeq(rows, a + 1, b)
  BY DEF ObInside
<1>a. /\ r \in Seq(ObRecord)
      /\ Len(r) = IF a + 1 <= b THEN b - (a + 1) + 1 ELSE 0
      /\ \A i \in 1 .. b - (a + 1) + 1 : r[i] = rows[(a + 1) + i - 1]
  BY <1>3, <1>4, Zenon
<1>5. r \in Seq(ObRecord) /\ Len(r) = IF a <= b THEN b - a ELSE 0
  BY <1>1, <1>a
<1>6. \A i \in 1 .. Len(r) : r[i] = rows[a + i]
  <2> SUFFICES ASSUME NEW i \in 1 .. Len(r) PROVE r[i] = rows[a + i]
    OBVIOUS
  <2>1. i \in 1 .. b - (a + 1) + 1 /\ (a + 1) + i - 1 = a + i
    BY <1>1, <1>5
  <2> QED
    BY <1>a, <2>1
<1>7. \A i \in 1 .. Len(r) : a + i \in 1 .. Len(rows)
  BY <1>1, <1>5
<1>8. InTime(r)
  <2> SUFFICES ASSUME NEW i \in 1 .. Len(r), NEW j \in 1 .. Len(r), i <= j
               PROVE  r[i].t <= r[j].t
    BY DEF InTime
  <2>1. Len(r) \in Nat
    BY <1>1, <1>5
  <2>2. a + i \in 1 .. Len(rows) /\ a + j \in 1 .. Len(rows) /\ a + i <= a + j
    BY <1>1, <1>7, <2>1
  <2> QED
    BY <1>6, <2>2 DEF InTime
<1> QED
  BY <1>1, <1>5, <1>6, <1>8

\* How a window's records before an instant lie in the whole recording.
LEMMA InsideBelow ==
    ASSUME NEW rows \in Seq(ObRecord), InTime(rows), NEW f \in Int, NEW t \in Int,
           NEW u \in Int, f <= u, u <= t + 1
    PROVE  ObBelow(ObInside(rows, f, t), u) = ObBelow(rows, u) - ObBelow(rows, f)
<1> PICK r : r = ObInside(rows, f, t)
  OBVIOUS
<1>1. PICK a \in 0 .. Len(rows) : a = ObBelow(rows, f)
  BY BelowFacts
<1>2. PICK b \in 0 .. Len(rows) : b = ObBelow(rows, t + 1)
  BY BelowFacts
<1>3. PICK c \in 0 .. Len(rows) : c = ObBelow(rows, u)
                                  /\ \A i \in 1 .. Len(rows) : i <= c <=> rows[i].t < u
  BY BelowFacts
<1>4. a <= c /\ c <= b
  BY <1>1, <1>2, <1>3, BelowGrows
<1>5. /\ r \in Seq(ObRecord) /\ Len(r) = b - a /\ InTime(r)
      /\ \A i \in 1 .. Len(r) : r[i] = rows[a + i]
  BY <1>1, <1>2, <1>4, InsideFacts
<1>6. PICK d \in 0 .. Len(r) : d = ObBelow(r, u) /\ \A i \in 1 .. Len(r) : i <= d <=> r[i].t < u
  BY <1>5, BelowFacts
<1>7. Len(rows) \in Nat /\ Len(r) \in Nat
  BY <1>5, LenProperties
<1>8. \A i \in 1 .. Len(r) : i <= d <=> a + i <= c
  <2> SUFFICES ASSUME NEW i \in 1 .. Len(r) PROVE i <= d <=> a + i <= c
    OBVIOUS
  <2>1. a + i \in 1 .. Len(rows) /\ r[i] = rows[a + i]
    BY <1>5, <1>7
  <2> QED
    BY <1>3, <1>6, <2>1
<1>9. d = c - a
  <2>1. CASE d < c - a
    <3>1. d + 1 \in 1 .. Len(r) /\ a + (d + 1) <= c /\ ~(d + 1 <= d)
      BY <1>4, <1>5, <1>7, <2>1
    <3> QED
      BY <1>8, <3>1
  <2>2. CASE d > c - a
    <3>1. d \in 1 .. Len(r) /\ ~(a + d <= c)
      BY <1>4, <1>7, <2>2
    <3> QED
      BY <1>8, <3>1
  <2> QED
    BY <1>7, <2>1, <2>2
<1> QED
  BY <1>1, <1>3, <1>6, <1>9

\* What precedes a window is a record or nothing.
LEMMA PreviousFacts ==
    ASSUME NEW rows \in Seq(ObRecord), InTime(rows), NEW f \in Int, NEW q \in Seq(ObRecord)
    PROVE  ObPrevious(rows, f, q) \in Seq(ObRecord)
<1>1. PICK c \in 0 .. Len(rows) : c = ObBelow(rows, f)
  BY BelowFacts
<1>0. Len(rows) \in Nat /\ c \in Nat
  BY LenProperties
<1> DEFINE B == {i \in 1 .. c : rows[i].kind = "transition"}
<1>2. CASE B = {}
  BY <1>1, <1>2 DEF ObPrevious
<1>3. CASE B # {}
  <2>1. Max(B) \in B
    BY <1>0, <1>3, LastPosition
  <2>2. rows[Max(B)] \in ObRecord
    BY <1>0, <2>1, LenProperties
  <2> QED
    BY <1>1, <1>3, <2>2 DEF ObPrevious
<1> QED
  BY <1>2, <1>3

LEMMA RowsOf ==
    ASSUME NEW g \in DOMAIN ObRows
    PROVE  ObRows[g] \in Seq(ObRecord) /\ InTime(ObRows[g])
<1>1. ObRows[g] \in Seq(ObRecord) /\ DOMAIN ObRows[g] = 1 .. Len(ObRows[g])
  BY ObsAssumption, LenProperties
<1> QED
  BY <1>1, ObsAssumption DEF InTime

LEMMA ReadFacts ==
    ASSUME NEW g \in DOMAIN ObRows, NEW f \in Nat, NEW t \in Int
    PROVE  /\ ObUntil(t) \in Nat
           /\ ObRead(g, f, t) \in ObStream
           /\ InTime(ObRead(g, f, t).rows)
<1>1. ObUntil(t) \in Nat
  BY ObsAssumption DEF ObUntil
<1>2. ObInside(ObRows[g], f, ObUntil(t)) \in Seq(ObRecord)
      /\ InTime(ObInside(ObRows[g], f, ObUntil(t)))
  BY <1>1, RowsOf, InsideFacts
<1>3. ObPrevious(ObRows[g], f, <<>>) \in Seq(ObRecord)
  <2>1. <<>> \in Seq(ObRecord) /\ f \in Int
    BY EmptySeq
  <2> QED
    BY <2>1, RowsOf, PreviousFacts
<1> QED
  BY <1>1, <1>2, <1>3 DEF ObRead, ObStream

\* A value is the last record up to an instant, or what precedes the window.
LEMMA ValueFacts ==
    ASSUME NEW s \in ObStream, InTime(s.rows), NEW at \in Int
    PROVE  ObValueIn(s, at) \in ObSample /\ ObValueIn(s, at).gen = s.gen
<1>1. s.rows \in Seq(ObRecord) /\ s.predecessor \in Seq(ObRecord) /\ s.gen \in DOMAIN ObRows
  BY DEF ObStream
<1>2. PICK n \in 0 .. Len(s.rows) : n = ObBelow(s.rows, at + 1)
  <2> PICK t \in Int : t = at + 1
    OBVIOUS
  <2>1. s.rows \in Seq(ObRecord) /\ InTime(s.rows) /\ t \in Int
    BY <1>1, Zenon
  <2>2. ObBelow(s.rows, t) \in 0 .. Len(s.rows)
    BY ONLY <2>1, BelowFacts, Zenon
  <2> QED
    BY <2>2, Zenon
<1>3. n # 0 => <<s.rows[n]>> \in Seq(ObRecord)
  <2> SUFFICES ASSUME n # 0 PROVE <<s.rows[n]>> \in Seq(ObRecord)
    OBVIOUS
  <2>1. s.rows[n] \in ObRecord
    BY <1>1, LenProperties
  <2> QED
    BY <2>1
<1> QED
  BY <1>1, <1>2, <1>3 DEF ObValueIn, ObSample

\* How the records r of a window lie in R: a of R come before the window, c before
\* an instant in it and d before a later one.
Lies(R, r, u, v, a, c, d) ==
    /\ a \in Nat /\ c \in Nat /\ d \in Nat /\ a <= c /\ c <= d /\ d - a <= Len(r)
    /\ r \in Seq(ObRecord) /\ InTime(r) /\ Len(r) \in Nat
    /\ c = ObBelow(R, u) /\ d = ObBelow(R, v + 1)
    /\ c - a = ObBelow(r, u) /\ d - a = ObBelow(r, v + 1)
    /\ \A i \in 1 .. Len(r) : r[i] = R[a + i]

LEMMA CutLies ==
    ASSUME NEW R \in Seq(ObRecord), InTime(R),
           NEW f \in Int, NEW t \in Int, NEW u \in Int, NEW v \in Int, f <= u, u <= v, v <= t
    PROVE  Lies(R, ObInside(R, f, t), u, v, ObBelow(R, f), ObBelow(R, u), ObBelow(R, v + 1))
<1>0. v + 1 \in Int /\ t + 1 \in Int /\ u <= v + 1 /\ v + 1 <= t + 1 /\ u <= t + 1 /\ f <= v + 1
  OBVIOUS
<1>a. /\ \A w \in Int : ObBelow(R, w) \in Nat
      /\ \A w \in Int, z \in Int : w <= z => ObBelow(R, w) <= ObBelow(R, z)
  <2>1. Len(R) \in Nat
    BY LenProperties
  <2>2. \A w \in Int : ObBelow(R, w) \in 0 .. Len(R)
    BY BelowFacts
  <2>3. 0 .. Len(R) \subseteq Nat
    BY <2>1
  <2>4. \A w \in Int : ObBelow(R, w) \in Nat
    BY <2>2, <2>3, Zenon
  <2>5. \A w \in Int, z \in Int : w <= z => ObBelow(R, w) <= ObBelow(R, z)
    BY BelowGrows
  <2> QED
    BY <2>4, <2>5
<1>b. PICK r : r = ObInside(R, f, t)
  OBVIOUS
<1>c. /\ r \in Seq(ObRecord) /\ InTime(r)
      /\ Len(r) = IF ObBelow(R, f) <= ObBelow(R, t + 1) THEN ObBelow(R, t + 1) - ObBelow(R, f) ELSE 0
      /\ \A i \in 1 .. Len(r) : r[i] = R[ObBelow(R, f) + i]
  BY <1>b, InsideFacts
<1>d. /\ ObBelow(r, u) = ObBelow(R, u) - ObBelow(R, f)
      /\ ObBelow(r, v + 1) = ObBelow(R, v + 1) - ObBelow(R, f)
  BY <1>0, <1>b, InsideBelow
<1>1. PICK a \in Nat : a = ObBelow(R, f)
  BY <1>a, Zenon
<1>2. PICK c \in Nat : c = ObBelow(R, u)
  BY <1>a, Zenon
<1>3. PICK d \in Nat : d = ObBelow(R, v + 1)
  BY <1>0, <1>a, Zenon
<1>4. PICK e \in Nat : e = ObBelow(R, t + 1)
  BY <1>0, <1>a, Zenon
<1>5. a <= c /\ c <= d /\ d <= e
  BY <1>0, <1>a, <1>1, <1>2, <1>3, <1>4, Zenon
<1>6. Len(r) = IF a <= e THEN e - a ELSE 0
  BY <1>c, <1>1, <1>4, Zenon
<1>7. d - a <= Len(r)
  BY <1>5, <1>6
<1>8. Len(r) \in Nat
  BY <1>c, LenProperties
<1>9. /\ c - a = ObBelow(r, u) /\ d - a = ObBelow(r, v + 1)
      /\ \A i \in 1 .. Len(r) : r[i] = R[a + i]
  BY <1>c, <1>d, <1>1, <1>2, <1>3, Zenon
<1>10. Lies(R, r, u, v, a, c, d)
  BY <1>c, <1>2, <1>3, <1>5, <1>7, <1>8, <1>9 DEF Lies
<1> QED
  BY <1>b, <1>1, <1>2, <1>3, <1>10, Zenon

\* The records of a window inside a window are those of the inner one.
LEMMA CutRows ==
    ASSUME NEW R \in Seq(ObRecord), InTime(R), NEW u \in Int, NEW v \in Int,
           NEW r, NEW a, NEW c, NEW d, Lies(R, r, u, v, a, c, d)
    PROVE  ObInside(r, u, v) = ObInside(R, u, v)
<1>1. PICK x : x = ObInside(r, u, v)
  OBVIOUS
<1>2. PICK y : y = ObInside(R, u, v)
  OBVIOUS
<1>3. /\ a \in Nat /\ c \in Nat /\ d \in Nat /\ a <= c /\ c <= d /\ d - a <= Len(r)
      /\ Len(r) \in Nat
      /\ \A i \in 1 .. Len(r) : r[i] = R[a + i]
  BY DEF Lies
<1>4. /\ x \in Seq(ObRecord)
      /\ Len(x) = IF c - a <= d - a THEN (d - a) - (c - a) ELSE 0
      /\ \A i \in 1 .. Len(x) : x[i] = r[(c - a) + i]
  <2>1. r \in Seq(ObRecord) /\ InTime(r)
    BY DEF Lies
  <2>2. /\ x \in Seq(ObRecord)
        /\ Len(x) = IF ObBelow(r, u) <= ObBelow(r, v + 1)
                      THEN ObBelow(r, v + 1) - ObBelow(r, u) ELSE 0
        /\ \A i \in 1 .. Len(x) : x[i] = r[ObBelow(r, u) + i]
    BY <1>1, <2>1, InsideFacts
  <2>3. ObBelow(r, u) = c - a /\ ObBelow(r, v + 1) = d - a
    BY DEF Lies
  <2> QED
    BY <2>2, <2>3, Zenon
<1>5. /\ y \in Seq(ObRecord)
      /\ Len(y) = IF c <= d THEN d - c ELSE 0
      /\ \A i \in 1 .. Len(y) : y[i] = R[c + i]
  <2>1. /\ y \in Seq(ObRecord)
        /\ Len(y) = IF ObBelow(R, u) <= ObBelow(R, v + 1)
                      THEN ObBelow(R, v + 1) - ObBelow(R, u) ELSE 0
        /\ \A i \in 1 .. Len(y) : y[i] = R[ObBelow(R, u) + i]
    BY <1>2, InsideFacts
  <2>2. ObBelow(R, u) = c /\ ObBelow(R, v + 1) = d
    BY DEF Lies
  <2> QED
    BY <2>1, <2>2, Zenon
<1>6. Len(x) = d - c /\ Len(y) = d - c
  BY <1>3, <1>4, <1>5
<1>7. \A i \in 1 .. Len(x) : x[i] = y[i]
  <2> SUFFICES ASSUME NEW i \in 1 .. Len(x) PROVE x[i] = y[i]
    OBVIOUS
  <2>1. i \in 1 .. d - c
    BY <1>6
  <2>2. (c - a) + i \in 1 .. Len(r) /\ a + ((c - a) + i) = c + i
    BY <1>3, <2>1
  <2>3. r[(c - a) + i] = R[c + i]
    BY <1>3, <2>2
  <2>4. x[i] = r[(c - a) + i] /\ y[i] = R[c + i]
    BY <1>4, <1>5, <1>6
  <2> QED
    BY <2>3, <2>4
<1>8. x = y
  BY <1>4, <1>5, <1>6, <1>7, SeqEqual
<1> QED
  BY <1>1, <1>2, <1>8

\* The last transition among the first n of some records, or else q.
LastTransition(rows, n, q) ==
    LET before == {i \in 1 .. n : rows[i].kind = "transition"}
    IN  IF before = {} THEN q ELSE <<rows[Max(before)]>>

\* What precedes the inner window is in the outer one, or precedes that too.
LEMMA CutPrevious ==
    ASSUME NEW R, NEW r, NEW a \in Nat, NEW c \in Nat, a <= c, Len(r) \in Nat, c - a <= Len(r),
           \A i \in 1 .. Len(r) : r[i] = R[a + i]
    PROVE  LastTransition(r, c - a, LastTransition(R, a, <<>>)) = LastTransition(R, c, <<>>)
<1> DEFINE C == {i \in 1 .. c : R[i].kind = "transition"}
           D == {i \in 1 .. c - a : r[i].kind = "transition"}
           A == {i \in 1 .. a : R[i].kind = "transition"}
<1> PICK q : q = LastTransition(R, a, <<>>)
  OBVIOUS
<1>3. /\ LastTransition(R, c, <<>>) = IF C = {} THEN <<>> ELSE <<R[Max(C)]>>
      /\ LastTransition(r, c - a, q) = IF D = {} THEN q ELSE <<r[Max(D)]>>
      /\ q = IF A = {} THEN <<>> ELSE <<R[Max(A)]>>
  BY DEF LastTransition
<1>4. \A i \in 1 .. c - a : i \in 1 .. Len(r) /\ a + i \in 1 .. c
  OBVIOUS
<1>5. \A i \in 1 .. c - a : i \in D <=> a + i \in C
  BY <1>4
<1>6. \A i \in C : i > a => i - a \in 1 .. c - a /\ a + (i - a) = i
  OBVIOUS
<1>7. C \in SUBSET (1 .. c) /\ D \in SUBSET (1 .. c - a) /\ c - a \in Nat
  OBVIOUS
<1>8. CASE D = {}
  <2>1. \A i \in C : ~(i > a)
    BY <1>5, <1>6, <1>8
  <2>2. \A i : i \in C <=> i \in A
    BY <2>1
  <2>3. C = A
    BY <2>2
  <2> HIDE DEF C, D, A
  <2> QED
    BY <1>3, <1>8, <2>3
<1>9. CASE D # {}
  <2> HIDE DEF C, D, A
  <2>1. PICK m \in D : m = Max(D) /\ \A j \in D : m >= j
    BY <1>7, <1>9, LastPosition
  <2>2. a + m \in C /\ m \in 1 .. c - a
    BY <1>5, <1>7, <2>1
  <2>3. PICK M \in C : M = Max(C) /\ \A j \in C : M >= j
    BY <1>7, <2>2, LastPosition
  <2>4. M >= a + m /\ M \in 1 .. c
    BY <1>7, <2>2, <2>3
  <2>5. M > a
    BY <2>2, <2>4
  <2>6. M - a \in D
    BY <1>5, <1>6, <2>3, <2>5
  <2>7. m >= M - a
    BY <2>1, <2>6
  <2>8. M = a + m
    BY <2>2, <2>4, <2>7
  <2>9. r[m] = R[a + m]
    BY <1>4, <2>2
  <2>10. C # {}
    BY <2>2
  <2> QED
    BY <1>3, <1>9, <2>1, <2>3, <2>8, <2>9, <2>10
<1> QED
  BY <1>8, <1>9

\* ObCut, for a given window.
CutTo(s, u, v) ==
    [gen |-> s.gen, rows |-> ObInside(s.rows, u, v),
     predecessor |-> ObPrevious(s.rows, u, s.predecessor)]

\* A stream cut to a window inside its own is what a read of that window returns.
LEMMA CutIsRead ==
    ASSUME NEW g \in DOMAIN ObRows, NEW f \in Nat, NEW t \in Nat, NEW u \in Nat, NEW v \in Nat,
           f <= u, u <= v, v <= t,
           NEW s, s = ObRead(g, f, t)
    PROVE  CutTo(s, u, v) = ObRead(g, u, v)
<1>1. PICK R \in Seq(ObRecord) : R = ObRows[g] /\ InTime(R)
  BY RowsOf
<1>2. PICK r : r = ObInside(R, f, t)
  OBVIOUS
<1>3. PICK q : q = ObPrevious(R, f, <<>>)
  OBVIOUS
<1>4. s = [gen |-> g, rows |-> r, predecessor |-> q]
  BY <1>1, <1>2, <1>3 DEF ObRead, ObUntil
<1>5. PICK a, c, d : a = ObBelow(R, f) /\ c = ObBelow(R, u) /\ d = ObBelow(R, v + 1)
  OBVIOUS
<1>6. Lies(R, r, u, v, a, c, d)
  <2>1. f \in Int /\ t \in Int /\ u \in Int /\ v \in Int
    OBVIOUS
  <2>2. Lies(R, ObInside(R, f, t), u, v, ObBelow(R, f), ObBelow(R, u), ObBelow(R, v + 1))
    BY <1>1, <2>1, CutLies
  <2> QED
    BY <1>2, <1>5, <2>2, Zenon
<1>7. ObInside(r, u, v) = ObInside(R, u, v)
  <2>1. u \in Int /\ v \in Int
    OBVIOUS
  <2> QED
    BY <1>1, <1>6, <2>1, CutRows, Zenon
<1>8. ObPrevious(r, u, q) = ObPrevious(R, u, <<>>)
  <2>1. /\ a \in Nat /\ c \in Nat /\ a <= c /\ Len(r) \in Nat /\ c - a <= Len(r)
        /\ \A i \in 1 .. Len(r) : r[i] = R[a + i]
        /\ c - a = ObBelow(r, u)
    BY <1>6 DEF Lies
  <2>2. LastTransition(r, c - a, LastTransition(R, a, <<>>)) = LastTransition(R, c, <<>>)
    BY <2>1, CutPrevious
  <2>3. q = LastTransition(R, a, <<>>)
    BY <1>3, <1>5, Zenon DEF ObPrevious, LastTransition
  <2>4. ObPrevious(r, u, q) = LastTransition(r, c - a, q)
    BY <2>1, Zenon DEF ObPrevious, LastTransition
  <2>5. ObPrevious(R, u, <<>>) = LastTransition(R, c, <<>>)
    BY <1>5, Zenon DEF ObPrevious, LastTransition
  <2> QED
    BY <2>2, <2>3, <2>4, <2>5, Zenon
<1> DEFINE Stream(x, z) == [gen |-> g, rows |-> x, predecessor |-> z]
<1>9. ObRead(g, u, v) = Stream(ObInside(R, u, v), ObPrevious(R, u, <<>>))
  BY <1>1 DEF ObRead, ObUntil
<1>10. CutTo(s, u, v) = Stream(ObInside(r, u, v), ObPrevious(r, u, q))
  <2>1. s.gen = g /\ s.rows = r /\ s.predecessor = q
    BY <1>4
  <2> QED
    BY <2>1, Zenon DEF CutTo
<1> HIDE DEF Stream
<1> QED
  BY <1>7, <1>8, <1>9, <1>10, Zenon

(***************************************************************************)
(* The entries kept                                                        *)
(***************************************************************************)
\* The first n entries and the others are the whole, and none is in both.
LEMMA SplitFacts ==
    ASSUME NEW S, NEW s \in Seq(S), Distinct(s), NEW n \in 0 .. Len(s)
    PROVE  /\ SubSeq(s, 1, n) \in Seq(S) /\ SubSeq(s, n + 1, Len(s)) \in Seq(S)
           /\ ToSet(s) = ToSet(SubSeq(s, 1, n)) \cup ToSet(SubSeq(s, n + 1, Len(s)))
           /\ ToSet(SubSeq(s, 1, n)) \cap ToSet(SubSeq(s, n + 1, Len(s))) = {}
           /\ Distinct(SubSeq(s, n + 1, Len(s)))
           /\ n = Len(s) => ToSet(SubSeq(s, n + 1, Len(s))) = {}
<1>0. Len(s) \in Nat /\ DOMAIN s = 1 .. Len(s) /\ \A i \in 1 .. Len(s) : s[i] \in S
  BY LenProperties
<1>1. /\ SubSeq(s, 1, n) \in Seq(S)
      /\ Len(SubSeq(s, 1, n)) = n
      /\ \A i \in 1 .. n : SubSeq(s, 1, n)[i] = s[i]
  BY <1>0, SubSeqProperties
<1>a. n + 1 \in 1 .. Len(s) + 1
  BY <1>0
<1>2. /\ SubSeq(s, n + 1, Len(s)) \in Seq(S)
      /\ Distinct(SubSeq(s, n + 1, Len(s)))
  BY <1>a, SuffixFacts
<1>3. /\ Len(SubSeq(s, n + 1, Len(s))) = Len(s) - n
      /\ \A i \in 1 .. Len(s) - n : SubSeq(s, n + 1, Len(s))[i] = s[n + i]
  <2> PICK m \in Nat : m = n + 1
    BY <1>0
  <2> PICK L \in Nat : L = Len(s)
    BY <1>0
  <2>1. m \in Int /\ L \in Int /\ \A i \in m .. L : s[i] \in S
    BY <1>0
  <2>2. /\ Len(SubSeq(s, m, L)) = IF m <= L THEN L - m + 1 ELSE 0
        /\ \A i \in 1 .. L - m + 1 : SubSeq(s, m, L)[i] = s[m + i - 1]
    BY <2>1, SubSeqProperties
  <2>3. Len(SubSeq(s, m, L)) = L - n
    BY <2>2
  <2>4. ASSUME NEW i \in 1 .. L - n PROVE SubSeq(s, m, L)[i] = s[n + i]
    <3>1. i \in 1 .. L - m + 1 /\ m + i - 1 = n + i
      BY <1>0
    <3> QED
      BY <2>2, <3>1
  <2> QED
    BY <2>3, <2>4
<1>4. PICK p \in Seq(S) : p = SubSeq(s, 1, n)
  BY <1>1
<1>5. PICK q \in Seq(S) : q = SubSeq(s, n + 1, Len(s))
  BY <1>2
<1>6. /\ DOMAIN p = 1 .. n /\ \A i \in 1 .. n : p[i] = s[i]
      /\ DOMAIN q = 1 .. Len(s) - n /\ \A i \in 1 .. Len(s) - n : q[i] = s[n + i]
  BY <1>1, <1>3, <1>4, <1>5, LenProperties
<1>7. ToSet(s) \subseteq ToSet(p) \cup ToSet(q)
  <2> SUFFICES ASSUME NEW k \in DOMAIN s PROVE s[k] \in ToSet(p) \cup ToSet(q)
    BY DEF ToSet
  <2>1. CASE k <= n
    BY <1>0, <1>6, <2>1 DEF ToSet
  <2>2. CASE ~(k <= n)
    <3>1. k - n \in DOMAIN q /\ q[k - n] = s[k]
      BY <1>0, <1>6, <2>2
    <3> QED
      BY <3>1 DEF ToSet
  <2> QED
    BY <2>1, <2>2
<1>8. ToSet(p) \subseteq ToSet(s) /\ ToSet(q) \subseteq ToSet(s)
  <2>1. \A i \in DOMAIN p : i \in DOMAIN s /\ p[i] = s[i]
    BY <1>0, <1>6
  <2>2. \A i \in DOMAIN q : n + i \in DOMAIN s /\ q[i] = s[n + i]
    BY <1>0, <1>6
  <2> QED
    BY <2>1, <2>2 DEF ToSet
<1>9. ASSUME NEW e \in ToSet(p), e \in ToSet(q) PROVE FALSE
  <2>1. PICK i \in DOMAIN p : e = p[i]
    BY DEF ToSet
  <2>2. PICK j \in DOMAIN q : e = q[j]
    BY <1>9 DEF ToSet
  <2>a. i \in 1 .. n /\ j \in 1 .. Len(s) - n
    BY <1>6
  <2>b. i \in DOMAIN s /\ n + j \in DOMAIN s /\ i # n + j
    BY <1>0, <2>a
  <2>3. s[i] = s[n + j]
    BY <1>6, <2>a, <2>1, <2>2
  <2>4. i = n + j
    BY <2>b, <2>3 DEF Distinct
  <2> QED
    BY <2>b, <2>4
<1>10. n = Len(s) => ToSet(q) = {}
  BY <1>0, <1>6 DEF ToSet
<1>11. ToSet(s) = ToSet(p) \cup ToSet(q) /\ ToSet(p) \cap ToSet(q) = {}
  BY <1>7, <1>8, <1>9
<1> QED
  BY <1>2, <1>4, <1>5, <1>10, <1>11, Zenon

\* No two entries have the same key.
OneEach(S) == \A e, f \in S : ObSameKey(e, f) => e = f

\* _put: the positions of the key of new, what is left without them, what is gone
\* when n more entries are popped, and what is left then.
HeldOf(s, new)    == {i \in DOMAIN s : ObSameKey(s[i], new)}
OthersOf(s, new)  == Pop(s, HeldOf(s, new))
GoneOf(s, new, n) == {s[i] : i \in HeldOf(s, new)} \cup ToSet(SubSeq(OthersOf(s, new), 1, n))
RestOf(s, new, n) == SubSeq(OthersOf(s, new), n + 1, Len(OthersOf(s, new)))

LEMMA PoppedFacts ==
    ASSUME NEW s \in Seq(ObEntry), Distinct(s), OneEach(ToSet(s)), NEW new \in ObEntry,
           NEW n \in 0 .. Len(OthersOf(s, new))
    PROVE  /\ RestOf(s, new, n) \in Seq(ObEntry) /\ Distinct(RestOf(s, new, n))
           /\ ToSet(RestOf(s, new, n)) \subseteq ToSet(s)
           /\ \A e \in ToSet(RestOf(s, new, n)) : ~ ObSameKey(e, new)
           /\ ObEvents(ToSet(s)) - ObEvents(GoneOf(s, new, n)) = ObEvents(ToSet(RestOf(s, new, n)))
           /\ ObBytes(ToSet(s)) - ObBytes(GoneOf(s, new, n)) = ObBytes(ToSet(RestOf(s, new, n)))
           /\ ObEvents(ToSet(RestOf(s, new, n))) \in Nat /\ ObBytes(ToSet(RestOf(s, new, n))) \in Nat
           /\ n = Len(OthersOf(s, new)) => ToSet(RestOf(s, new, n)) = {}
<1> PICK held : held = HeldOf(s, new)
  OBVIOUS
<1> PICK others : others = OthersOf(s, new)
  OBVIOUS
<1> PICK popped : popped = GoneOf(s, new, n)
  OBVIOUS
<1> PICK rest : rest = RestOf(s, new, n)
  OBVIOUS
<1>a. held = {i \in DOMAIN s : ObSameKey(s[i], new)}
  BY DEF HeldOf
<1>b. /\ others = Pop(s, held)
      /\ popped = {s[i] : i \in held} \cup ToSet(SubSeq(others, 1, n))
      /\ rest = SubSeq(others, n + 1, Len(others))
      /\ n \in 0 .. Len(others)
  BY Zenon DEF OthersOf, GoneOf, RestOf
<1>0. DOMAIN s = 1 .. Len(s) /\ Len(s) \in Nat /\ \A i \in DOMAIN s : s[i] \in ToSet(s)
  BY LenProperties DEF ToSet
<1>1. ASSUME NEW i \in held, NEW j \in held PROVE i = j
  <2>1. ObSameKey(s[i], s[j])
    BY <1>a DEF ObSameKey
  <2>2. s[i] = s[j]
    BY <1>0, <1>a, <2>1 DEF OneEach
  <2> QED
    BY <1>0, <1>a, <2>2 DEF Distinct
<1>2. /\ others \in Seq(ObEntry)
      /\ ToSet(others) \subseteq ToSet(s)
      /\ ToSet(s) \subseteq ToSet(others) \cup {s[i] : i \in held}
      /\ Distinct(others)
      /\ \A i \in held : s[i] \notin ToSet(others)
  <2>1. held \in SUBSET DOMAIN s
    BY <1>a
  <2> QED
    BY <1>1, <1>b, <2>1, PopFacts
<1>3. PICK A : A = {s[i] : i \in held}
  OBVIOUS
<1>4. PICK P : P = ToSet(SubSeq(others, 1, n))
  OBVIOUS
<1>5. PICK Q : Q = ToSet(rest)
  OBVIOUS
<1>6. /\ SubSeq(others, 1, n) \in Seq(ObEntry) /\ rest \in Seq(ObEntry)
      /\ ToSet(others) = P \cup Q /\ P \cap Q = {}
      /\ Distinct(rest) /\ (n = Len(others) => Q = {})
  BY <1>2, <1>4, <1>5, <1>b, SplitFacts
<1>7. /\ P \in SUBSET ObEntry /\ IsFiniteSet(P) /\ Q \in SUBSET ObEntry /\ IsFiniteSet(Q)
      /\ ToSet(s) \in SUBSET ObEntry /\ IsFiniteSet(ToSet(s))
  <2>1. P \subseteq ObEntry /\ IsFiniteSet(P)
    BY <1>4, <1>6, ToSetFinite
  <2>2. Q \subseteq ObEntry /\ IsFiniteSet(Q)
    <3>1. rest \in Seq(ObEntry)
      BY <1>6
    <3>2. ToSet(rest) \subseteq ObEntry /\ IsFiniteSet(ToSet(rest))
      BY <3>1, ToSetFinite, Zenon
    <3> QED
      BY <1>5, <3>2, Zenon
  <2>3. ToSet(s) \subseteq ObEntry /\ IsFiniteSet(ToSet(s))
    BY ToSetFinite
  <2> QED
    BY <2>1, <2>2, <2>3
<1>8. A \subseteq ToSet(s)
  BY <1>0, <1>3, <1>a
<1>9. /\ ToSet(s) = (A \cup P) \cup Q /\ (A \cup P) \cap Q = {} /\ popped = A \cup P
      /\ Q \subseteq ToSet(s)
  <2>1. popped = A \cup P
    BY <1>3, <1>4, <1>b, Zenon
  <2>2. ToSet(s) \subseteq ToSet(others) \cup A /\ ToSet(others) \subseteq ToSet(s)
    BY <1>2, <1>3, Zenon
  <2>3. A \cap ToSet(others) = {}
    BY <1>2, <1>3
  <2> QED
    BY <1>6, <1>8, <2>1, <2>2, <2>3
<1>10. A \cup P \in SUBSET ObEntry /\ IsFiniteSet(A \cup P)
  BY <1>7, <1>9, FS_Subset
<1>11. /\ ObEvents(ToSet(s)) = ObEvents(popped) + ObEvents(Q)
       /\ ObBytes(ToSet(s)) = ObBytes(popped) + ObBytes(Q)
       /\ ObEvents(popped) \in Nat /\ ObBytes(popped) \in Nat
       /\ ObEvents(Q) \in Nat /\ ObBytes(Q) \in Nat
  <2>1. /\ ObEvents((A \cup P) \cup Q) = ObEvents(A \cup P) + ObEvents(Q)
        /\ ObBytes((A \cup P) \cup Q) = ObBytes(A \cup P) + ObBytes(Q)
        /\ ObEvents(A \cup P) \in Nat /\ ObBytes(A \cup P) \in Nat
    BY <1>7, <1>9, <1>10, EntrySums
  <2>2. ObEvents(Q) \in Nat /\ ObBytes(Q) \in Nat
    <3>1. {} \in SUBSET ObEntry /\ IsFiniteSet({}) /\ Q \cap {} = {}
      BY FS_EmptySet
    <3> QED
      BY <1>7, <3>1, EntrySums
  <2> QED
    BY <1>9, <2>1, <2>2, Zenon
<1>12. ASSUME NEW e \in Q, ObSameKey(e, new) PROVE FALSE
  <2>1. e \in ToSet(s) /\ e \in ToSet(others)
    BY <1>6, <1>9
  <2>2. PICK i \in DOMAIN s : e = s[i]
    BY <2>1 DEF ToSet
  <2>3. i \in held
    BY <1>12, <1>a, <2>2
  <2> QED
    BY <1>2, <2>1, <2>2, <2>3
<1>13. /\ ObEvents(ToSet(s)) - ObEvents(popped) = ObEvents(Q)
       /\ ObBytes(ToSet(s)) - ObBytes(popped) = ObBytes(Q)
  BY <1>11
<1> QED
  BY <1>5, <1>6, <1>9, <1>11, <1>12, <1>13, Zenon

\* _put keeps the entries it had and the new one, a key once, within both limits.
LEMMA PutFacts ==
    ASSUME obEntries \in Seq(ObEntry), obEvents \in Int, obBytes \in Int,
           KeysInv, ObservationsAccounted, NEW new \in ObEntry, ObPut(new)
    PROVE  /\ obEntries' \in Seq(ObEntry) /\ obEvents' \in Int /\ obBytes' \in Int
           /\ \A e \in ToSet(obEntries') : e \in ToSet(obEntries) \/ e = new
           /\ KeysInv' /\ ObservationsAccounted'
<1>1. CASE new.events > ObMaxEvents \/ new.bytes > ObMaxBytes
  <2>1. obEntries' = obEntries /\ obEvents' = obEvents /\ obBytes' = obBytes /\ obBudget' = obBudget
    BY <1>1 DEF ObPut, ObKeep
  <2> QED
    BY <2>1 DEF KeysInv, ObservationsAccounted
<1>2. CASE ~ (new.events > ObMaxEvents \/ new.bytes > ObMaxBytes)
  <2> PICK s \in Seq(ObEntry) : s = obEntries
    OBVIOUS
  <2> DEFINE held == {i \in DOMAIN obEntries : ObSameKey(obEntries[i], new)}
             others == Pop(obEntries, held)
             popped(n) == {obEntries[i] : i \in held} \cup ToSet(SubSeq(others, 1, n))
             events(n) == obEvents - ObEvents(popped(n))
             bytes(n)  == obBytes - ObBytes(popped(n))
             G == {n \in 0 .. Len(others) :
                     n = Len(others) \/ FitsNow(events(n), bytes(n), new)}
  <2>1. /\ obEntries' = Append(SubSeq(others, Min(G) + 1, Len(others)), new)
        /\ obEvents' = events(Min(G)) + new.events
        /\ obBytes' = bytes(Min(G)) + new.bytes
        /\ obBudget' = obBytes'
    BY <1>2, Zenon DEF ObPut
  <2>a. others = OthersOf(s, new)
    BY DEF OthersOf, HeldOf
  <2>b. \A n : popped(n) = GoneOf(s, new, n) /\ SubSeq(others, n + 1, Len(others)) = RestOf(s, new, n)
    BY DEF GoneOf, RestOf, OthersOf, HeldOf
  <2> HIDE DEF others, popped
  <2>2. Len(others) \in Nat
    <3>1. HeldOf(s, new) \in SUBSET DOMAIN s
      BY DEF HeldOf
    <3> QED
      BY <2>a, <3>1, PopFacts, LenProperties DEF OthersOf
  <2>3. Min(G) \in G
    <3>1. Len(others) \in G /\ G \in SUBSET Nat
      BY <2>2
    <3> HIDE DEF G
    <3> QED
      BY <3>1, LeastIn
  <2> PICK n \in 0 .. Len(others) :
         n = Min(G) /\ (n = Len(others) \/ FitsNow(events(n), bytes(n), new))
    BY <2>3
  <2> PICK rest : rest = RestOf(s, new, n)
    OBVIOUS
  <2> PICK gone : gone = GoneOf(s, new, n)
    OBVIOUS
  <2>4. /\ obEntries' = Append(rest, new)
        /\ obEvents' = (obEvents - ObEvents(gone)) + new.events
        /\ obBytes' = (obBytes - ObBytes(gone)) + new.bytes
    BY <2>1, <2>b, Zenon
  <2>5. n = Len(others) \/ FitsNow(obEvents - ObEvents(gone), obBytes - ObBytes(gone), new)
    BY <2>b, Zenon
  <2>6. Distinct(s) /\ OneEach(ToSet(s))
    BY DEF KeysInv, OneEach
  <2> HIDE DEF events, bytes, G
  <2>8. /\ rest \in Seq(ObEntry) /\ Distinct(rest) /\ ToSet(rest) \subseteq ToSet(s)
        /\ \A e \in ToSet(rest) : ~ ObSameKey(e, new)
        /\ ObEvents(ToSet(s)) - ObEvents(gone) = ObEvents(ToSet(rest))
        /\ ObBytes(ToSet(s)) - ObBytes(gone) = ObBytes(ToSet(rest))
        /\ ObEvents(ToSet(rest)) \in Nat /\ ObBytes(ToSet(rest)) \in Nat
        /\ n = Len(others) => ToSet(rest) = {}
    <3>1. n \in 0 .. Len(OthersOf(s, new))
      BY <2>a
    <3>2. /\ RestOf(s, new, n) \in Seq(ObEntry) /\ Distinct(RestOf(s, new, n))
          /\ ToSet(RestOf(s, new, n)) \subseteq ToSet(s)
          /\ \A e \in ToSet(RestOf(s, new, n)) : ~ ObSameKey(e, new)
          /\ ObEvents(ToSet(s)) - ObEvents(GoneOf(s, new, n)) = ObEvents(ToSet(RestOf(s, new, n)))
          /\ ObBytes(ToSet(s)) - ObBytes(GoneOf(s, new, n)) = ObBytes(ToSet(RestOf(s, new, n)))
          /\ ObEvents(ToSet(RestOf(s, new, n))) \in Nat /\ ObBytes(ToSet(RestOf(s, new, n))) \in Nat
          /\ n = Len(OthersOf(s, new)) => ToSet(RestOf(s, new, n)) = {}
      BY <2>6, <3>1, PoppedFacts
    <3> QED
      BY <2>a, <3>2, Zenon
  <2> PICK t \in Seq(ObEntry) : t = Append(rest, new)
    <3>1. rest \in Seq(ObEntry)
      BY <2>8
    <3>2. Append(rest, new) \in Seq(ObEntry)
      BY <3>1, AppendProperties
    <3> QED
      BY <3>2
  <2>9. /\ \A e : e \in ToSet(t) <=> e \in ToSet(rest) \/ e = new
        /\ Distinct(rest) /\ new \notin ToSet(rest) => Distinct(t)
    <3>1. PICK r \in Seq(ObEntry) : r = rest
      BY <2>8
    <3>2. t = Append(r, new)
      BY <3>1
    <3>3. \A e : e \in ToSet(t) <=> e \in ToSet(r) \/ e = new
      BY <3>2, AppendFacts
    <3>4. Distinct(r) /\ new \notin ToSet(r) => Distinct(t)
      BY <3>2, AppendFacts
    <3> QED
      BY <3>1, <3>3, <3>4, Zenon
  <2>10. new \notin ToSet(rest)
    BY <2>8 DEF ObSameKey
  <2>11. ToSet(t) = ToSet(rest) \cup {new} /\ Distinct(t)
    BY <2>8, <2>9, <2>10
  <2>12. OneEach(ToSet(t))
    <3> SUFFICES ASSUME NEW e \in ToSet(t), NEW f \in ToSet(t), ObSameKey(e, f) PROVE e = f
      BY DEF OneEach
    <3>1. CASE e \in ToSet(rest) /\ f \in ToSet(rest)
      BY <2>6, <2>8, <3>1 DEF OneEach
    <3>2. ObSameKey(f, e)
      BY DEF ObSameKey
    <3> QED
      BY <2>8, <2>9, <3>1, <3>2
  <2>13. /\ ObEvents(ToSet(t)) = ObEvents(ToSet(rest)) + new.events
         /\ ObBytes(ToSet(t)) = ObBytes(ToSet(rest)) + new.bytes
    <3>1. ToSet(rest) \in SUBSET ObEntry /\ IsFiniteSet(ToSet(rest))
      BY <2>8, ToSetFinite
    <3>2. {new} \in SUBSET ObEntry /\ IsFiniteSet({new}) /\ ToSet(rest) \cap {new} = {}
      BY <2>10, FS_Singleton
    <3>3. /\ ObEvents(ToSet(rest) \cup {new}) = ObEvents(ToSet(rest)) + ObEvents({new})
          /\ ObBytes(ToSet(rest) \cup {new}) = ObBytes(ToSet(rest)) + ObBytes({new})
      BY <3>1, <3>2, EntrySums
    <3>4. ObEvents({new}) = new.events /\ ObBytes({new}) = new.bytes
      BY EntryAlone
    <3> QED
      BY <2>11, <3>3, <3>4, Zenon
  <2>14. /\ obEvents' = ObEvents(ToSet(t)) /\ obBytes' = ObBytes(ToSet(t))
         /\ obEvents' \in Int /\ obBytes' \in Int
    <3>1. obEvents = ObEvents(ToSet(s)) /\ obBytes = ObBytes(ToSet(s))
      BY DEF ObservationsAccounted
    <3>2. obEvents' = ObEvents(ToSet(rest)) + new.events /\ obBytes' = ObBytes(ToSet(rest)) + new.bytes
      BY <2>4, <2>8, <3>1, Zenon
    <3>3. new.events \in Nat /\ new.bytes \in Nat
      BY DEF ObEntry
    <3> QED
      BY <2>8, <2>13, <3>2, <3>3
  <2>15. obEvents' <= ObMaxEvents /\ obBytes' <= ObMaxBytes
    <3>1. /\ new.events \in Nat /\ new.bytes \in Nat /\ ObMaxEvents \in Nat /\ ObMaxBytes \in Nat
          /\ new.events <= ObMaxEvents /\ new.bytes <= ObMaxBytes
      BY <1>2, ObsAssumption DEF ObEntry
    <3>2. CASE n = Len(others)
      <4>1. ObEvents(ToSet(rest)) = 0 /\ ObBytes(ToSet(rest)) = 0
        BY <2>8, <3>2, EntryAlone
      <4> QED
        BY <2>13, <2>14, <3>1, <4>1
    <3>3. CASE FitsNow(obEvents - ObEvents(gone), obBytes - ObBytes(gone), new)
      BY <2>4, <3>3 DEF FitsNow
    <3> QED
      BY <2>5, <3>2, <3>3
  <2>16. obEntries' = t
    BY <2>4
  <2>17. obBudget' = obBytes'
    BY <2>1
  <2>18. KeysInv'
    BY <2>11, <2>12, <2>16 DEF KeysInv, OneEach
  <2>19. ObservationsAccounted'
    BY <2>14, <2>15, <2>16, <2>17 DEF ObservationsAccounted
  <2> QED
    BY <2>8, <2>9, <2>14, <2>16, <2>18, <2>19
<1> QED
  BY <1>1, <1>2

(***************************************************************************)
(* The steps                                                               *)
(***************************************************************************)
\* The entries are not touched: they still fit the parser, or a later one.
LEMMA EntriesStay ==
    ASSUME EntriesInv, ObKeep, obParser.epoch \in Nat, obParser'.epoch \in Nat,
           \/ obParser'.epoch > obParser.epoch
           \/ obParser'.epoch = obParser.epoch /\ obParser'.sig = obParser.sig
    PROVE  EntriesInv'
<1>1. obEntries' = obEntries /\ obEvents' = obEvents /\ obBytes' = obBytes /\ obBudget' = obBudget
  BY DEF ObKeep
<1>2. EntryInv'
  <2> SUFFICES ASSUME NEW e \in ToSet(obEntries)
               PROVE  /\ FreshEntry(e)
                      /\ e.kind = "stream" => e.to \in Nat
                      /\ e.key.epoch <= obParser'.epoch
                      /\ e.key.epoch = obParser'.epoch => e.value.gen >= obParser'.sig
    BY <1>1 DEF EntryInv
  <2>1. /\ FreshEntry(e) /\ (e.kind = "stream" => e.to \in Nat)
        /\ e.key.epoch <= obParser.epoch
        /\ e.key.epoch = obParser.epoch => e.value.gen >= obParser.sig
    BY DEF EntriesInv, EntryInv
  <2>2. e.key.epoch \in Nat
    <3>1. e \in ObEntry
      BY ToSetFinite DEF EntriesInv
    <3> QED
      BY <3>1 DEF ObEntry, ObKeyRecord
  <2> QED
    BY <2>1, <2>2
<1>3. KeysInv' /\ ObservationsAccounted'
  BY <1>1 DEF EntriesInv, KeysInv, ObservationsAccounted
<1> QED
  BY <1>1, <1>2, <1>3 DEF EntriesInv

\* A session that forgets all holds nothing.
LEMMA EntriesGo ==
    ASSUME ObClear
    PROVE  EntriesInv'
<1>1. obEntries' = <<>> /\ obEvents' = 0 /\ obBytes' = 0 /\ obBudget' = 0
  BY DEF ObClear
<1>2. ToSet(<<>>) = {} /\ Distinct(<<>>) /\ <<>> \in Seq(ObEntry)
  <2>1. <<>> \in Seq(ObEntry) /\ Len(<<>>) = 0
    BY EmptySeq
  <2>2. DOMAIN <<>> = {}
    BY <2>1, LenProperties
  <2> QED
    BY <2>1, <2>2 DEF ToSet, Distinct
<1>3. ObEvents({}) = 0 /\ ObBytes({}) = 0
  BY FS_EmptySet DEF ObEvents, ObBytes
<1>4. EntryInv' /\ KeysInv'
  BY <1>1, <1>2 DEF EntryInv, KeysInv
<1>5. ObservationsAccounted'
  <2>1. 0 <= ObMaxEvents /\ 0 <= ObMaxBytes
    BY ObsAssumption
  <2>2. ToSet(obEntries') = {}
    BY <1>1, <1>2
  <2> QED
    BY <1>1, <1>3, <2>1, <2>2 DEF ObservationsAccounted
<1> QED
  BY <1>1, <1>2, <1>4, <1>5 DEF EntriesInv

LEMMA EntriesForgotten ==
    ASSUME EntriesInv, ForgetOld, obParser \in [sig : Int, epoch : Nat, loaded : Int],
           obParser' = obParser
    PROVE  EntriesInv'
<1>1. CASE ObClear
  BY <1>1, EntriesGo
<1>2. CASE ObKeep
  BY <1>2, EntriesStay
<1> QED
  BY <1>1, <1>2 DEF ForgetOld

\* An entry that is a fresh answer, and if it has the parser's epoch no older than
\* the parser, may be put.
LEMMA EntriesPut ==
    ASSUME EntriesInv, NEW new \in ObEntry, ObPut(new), obParser' = obParser,
           FreshEntry(new), new.kind = "stream" => new.to \in Nat,
           new.key.epoch <= obParser.epoch,
           new.key.epoch = obParser.epoch => new.value.gen >= obParser.sig
    PROVE  EntriesInv'
<1>1. /\ obEntries' \in Seq(ObEntry) /\ obEvents' \in Int /\ obBytes' \in Int
      /\ \A e \in ToSet(obEntries') : e \in ToSet(obEntries) \/ e = new
      /\ KeysInv' /\ ObservationsAccounted'
  BY PutFacts DEF EntriesInv
<1>2. EntryInv'
  BY <1>1 DEF EntriesInv, EntryInv
<1> QED
  BY <1>1, <1>2 DEF EntriesInv

LEMMA HitStays ==
    ASSUME HitIsFresh, obLast' = obLast
    PROVE  HitIsFresh'
  BY DEF HitIsFresh

LEMMA ParserTaken ==
    ASSUME ObsType, GetParser, obGen' = obGen
    PROVE  /\ obParser' \in [sig : Int, epoch : Nat, loaded : Int]
           /\ obParser'.sig = obGen
           /\ \/ obParser'.epoch > obParser.epoch /\ obParser'.loaded = ObUnseen
              \/ obParser' = obParser
           /\ obGen \in Nat /\ obParser'.epoch >= obParser.epoch
<1>1. obGen \in Nat /\ obParser \in [sig : Int, epoch : Nat, loaded : Int]
  BY ObsAssumption DEF ObsType
<1>2. CASE obParser.sig = obGen
  BY <1>1, <1>2 DEF GetParser
<1>3. CASE obParser.sig # obGen
  BY <1>1, <1>3 DEF GetParser, ObUnseen
<1> QED
  BY <1>2, <1>3

LEMMA BindKeeps ==
    ASSUME ObsInv, Bind
    PROVE  ObsInv'
<1>1. EntriesInv'
  BY EntriesGo DEF Bind
<1>2. HitIsFresh'
  BY HitStays DEF ObsInv, Bind
<1>3. ObsType'
  BY DEF ObsInv, ObsType, Bind
<1>4. CallType' /\ ParserInv'
  BY DEF ObsInv, Bind, CallType, ParserInv
<1> QED
  BY <1>1, <1>2, <1>3, <1>4 DEF ObsInv

LEMMA BeginKeeps ==
    ASSUME ObsInv, NEW kind \in {"stream", "sample"}, NEW from, NEW to, NEW at \in Int,
           IsWindow(from, to), BeginObservation(kind, from, to, at)
    PROVE  ObsInv'
<1>0. /\ obPc' = "identity" /\ obCall' = NewCall(kind, from, to, at) /\ GetParser
      /\ obGen' = obGen /\ obNamespace' = obNamespace /\ obLast' = obLast
      /\ ObKeep
  BY DEF BeginObservation, ObKeep
<1>1. /\ obParser' \in [sig : Int, epoch : Nat, loaded : Int]
      /\ obParser'.sig = obGen
      /\ \/ obParser'.epoch > obParser.epoch /\ obParser'.loaded = ObUnseen
         \/ obParser' = obParser
      /\ obGen \in Nat /\ obParser'.epoch >= obParser.epoch
  BY <1>0, ParserTaken DEF ObsInv
<1>2. EntriesInv'
  <2>1. obParser.epoch \in Nat /\ obParser'.epoch \in Nat
    BY <1>1 DEF ObsInv, ObsType
  <2> QED
    BY <1>0, <1>1, <2>1, EntriesStay DEF ObsInv
<1>3. HitIsFresh'
  BY <1>0, HitStays DEF ObsInv
<1>4. ObsType'
  BY <1>0, <1>1 DEF ObsInv, ObsType
<1>5. CallType'
  BY <1>0, <1>1 DEF CallType, NewCall, IsWindow, ObPhases
<1>6. ParserInv'
  <2>1. obParser'.loaded # ObUnseen => obParser'.loaded \in DOMAIN ObRows /\ obParser'.loaded >= obParser'.sig
    BY <1>1 DEF ObsInv, ParserInv
  <2>2. obCall'.begun = obParser'.sig
    BY <1>0, <1>1 DEF NewCall
  <2> QED
    BY <1>0, <2>1, <2>2 DEF ParserInv
<1> QED
  BY <1>2, <1>3, <1>4, <1>5, <1>6 DEF ObsInv

LEMMA IdentityKeeps ==
    ASSUME ObsInv, TakeIdentity
    PROVE  ObsInv'
<1>0. /\ obPc = "identity" /\ obPc' = "load" /\ obParser' = obParser /\ obGen' = obGen
      /\ obNamespace' = obNamespace /\ obLast' = obLast
      /\ obCall' = [obCall EXCEPT !.key = ObKey] /\ ForgetOld
  BY DEF TakeIdentity
<1>1. ObKey \in ObKeyRecord /\ ObKey.epoch = obParser.epoch
  <2>1. obGen \in Int /\ obNamespace \in ObNamespaces /\ obParser.epoch \in Nat
    BY ObsAssumption DEF ObsInv, ObsType
  <2> QED
    BY <2>1 DEF ObKey, ObKeyRecord
<1>2. EntriesInv'
  BY <1>0, EntriesForgotten DEF ObsInv, ObsType
<1>3. HitIsFresh'
  BY <1>0, HitStays DEF ObsInv
<1>4. ObsType'
  BY <1>0 DEF ObsInv, ObsType
<1> PICK key \in ObKeyRecord : key = ObKey
  BY <1>1
<1>5. CallType'
  BY <1>0, <1>1 DEF ObsInv, CallType, ObPhases
<1>6. ParserInv'
  BY <1>0 DEF ObsInv, CallType, ParserInv
<1> QED
  BY <1>2, <1>3, <1>4, <1>5, <1>6 DEF ObsInv

LEMMA LoadKeeps ==
    ASSUME ObsInv, LoadFile
    PROVE  ObsInv'
<1>0. /\ obPc = "load" /\ obPc' = "lookup" /\ obCall' = obCall /\ obGen' = obGen
      /\ obNamespace' = obNamespace /\ obLast' = obLast /\ ObKeep
      /\ obParser' = [obParser EXCEPT !.loaded = IF obParser.loaded = ObUnseen THEN obGen ELSE obParser.loaded]
  BY DEF LoadFile, ObKeep
<1>1. obParser \in [sig : Int, epoch : Nat, loaded : Int] /\ obGen \in Nat /\ obParser.sig <= obGen
      /\ obGen \in DOMAIN ObRows
  BY ObsAssumption DEF ObsInv, ObsType
<1>2. /\ obParser' \in [sig : Int, epoch : Nat, loaded : Int]
      /\ obParser'.sig = obParser.sig /\ obParser'.epoch = obParser.epoch
      /\ obParser'.loaded = IF obParser.loaded = ObUnseen THEN obGen ELSE obParser.loaded
  BY <1>0, <1>1
<1>3. EntriesInv'
  BY <1>0, <1>1, <1>2, EntriesStay DEF ObsInv
<1>4. HitIsFresh'
  BY <1>0, HitStays DEF ObsInv
<1>5. ObsType'
  BY <1>0, <1>1, <1>2 DEF ObsInv, ObsType
<1>6. CallType'
  BY <1>0, <1>2 DEF ObsInv, CallType, ObPhases
<1>7. ParserInv'
  <2>1. /\ obParser'.loaded # ObUnseen
        /\ obParser'.loaded \in DOMAIN ObRows /\ obParser'.loaded >= obParser'.sig
    BY <1>1, <1>2 DEF ObsInv, ParserInv, ObUnseen
  <2> QED
    BY <1>0, <1>2, <2>1 DEF ObsInv, ParserInv
<1> QED
  BY <1>3, <1>4, <1>5, <1>6, <1>7 DEF ObsInv

LEMMA MissedKeeps ==
    ASSUME ObsInv, SampleMissed
    PROVE  ObsInv'
<1>0. /\ obPc = "lookup" /\ obPc' = "identity" /\ obGen' = obGen /\ GetParser
      /\ obNamespace' = obNamespace /\ obLast' = obLast /\ ObKeep
      /\ obCall' = [obCall EXCEPT !.kind = "stream", !.sample = obCall.key, !.begun = obGen]
  BY DEF SampleMissed, ObKeep
<1>1. /\ obParser' \in [sig : Int, epoch : Nat, loaded : Int]
      /\ obParser'.sig = obGen
      /\ \/ obParser'.epoch > obParser.epoch /\ obParser'.loaded = ObUnseen
         \/ obParser' = obParser
      /\ obGen \in Nat /\ obParser'.epoch >= obParser.epoch
  BY <1>0, ParserTaken DEF ObsInv
<1>2. EntriesInv'
  <2>1. obParser.epoch \in Nat /\ obParser'.epoch \in Nat
    BY <1>1 DEF ObsInv, ObsType
  <2> QED
    BY <1>0, <1>1, <2>1, EntriesStay DEF ObsInv
<1>3. HitIsFresh'
  BY <1>0, HitStays DEF ObsInv
<1>4. ObsType'
  BY <1>0, <1>1 DEF ObsInv, ObsType
<1>5. CallType'
  BY <1>0, <1>1 DEF ObsInv, CallType, ObPhases
<1>6. ParserInv'
  <2>1. obParser'.loaded # ObUnseen => obParser'.loaded \in DOMAIN ObRows /\ obParser'.loaded >= obParser'.sig
    BY <1>1 DEF ObsInv, ParserInv
  <2>2. obCall'.begun = obParser'.sig
    BY <1>0, <1>1 DEF ObsInv, CallType
  <2> QED
    BY <1>0, <2>1, <2>2 DEF ParserInv
<1> QED
  BY <1>2, <1>3, <1>4, <1>5, <1>6 DEF ObsInv

LEMMA ReplacedKeeps ==
    ASSUME ObsInv, ReplaceRecording
    PROVE  ObsInv'
<1>0. /\ obGen' = obGen + 1 /\ obGen' \in DOMAIN ObRows /\ obParser' = obParser
      /\ obPc' = obPc /\ obCall' = obCall /\ obNamespace' = obNamespace /\ obLast' = obLast /\ ObKeep
  BY DEF ReplaceRecording, ObKeep
<1>1. obParser \in [sig : Int, epoch : Nat, loaded : Int] /\ obGen \in Nat /\ obParser.sig <= obGen
  BY ObsAssumption DEF ObsInv, ObsType
<1>2. EntriesInv'
  BY <1>0, <1>1, EntriesStay DEF ObsInv
<1>3. HitIsFresh'
  BY <1>0, HitStays DEF ObsInv
<1>4. ObsType'
  BY <1>0, <1>1 DEF ObsInv, ObsType
<1>5. CallType' /\ ParserInv'
  BY <1>0 DEF ObsInv, CallType, ParserInv
<1> QED
  BY <1>2, <1>3, <1>4, <1>5 DEF ObsInv

\* What a fresh entry was read from.
LEMMA FreshFacts ==
    ASSUME NEW e \in ObEntry, FreshEntry(e), e.kind = "stream" => e.to \in Nat
    PROVE  /\ e.value.gen \in DOMAIN ObRows
           /\ e.kind = "stream" => e.value = ObRead(e.value.gen, e.from, e.to)
           /\ e.kind = "sample" =>
                 e.value = ObValueIn(ObRead(e.value.gen, e.from, e.to), e.at)
  BY DEF FreshEntry, ObEntry, ObStream, ObSample

LEMMA HitKeeps ==
    ASSUME ObsInv, ServeHit
    PROVE  ObsInv'
<1> PICK s \in Seq(ObEntry) : s = obEntries
  BY DEF ObsInv, EntriesInv
<1>0. Len(s) \in Nat /\ DOMAIN s = 1 .. Len(s)
  BY LenProperties
<1>1. /\ obPc = "lookup" /\ ObHits # {} /\ obGen' = obGen /\ obParser' = obParser
      /\ obNamespace' = obNamespace
      /\ obEvents' = obEvents /\ obBytes' = obBytes /\ obBudget' = obBudget
  BY DEF ServeHit
<1> PICK i \in DOMAIN s : i = Max(ObHits) /\ ObCovers(s[i])
  <2>1. ObHits \in SUBSET (1 .. Len(s))
    BY <1>0 DEF ObHits
  <2>2. Max(ObHits) \in ObHits
    BY <1>0, <1>1, <2>1, LastPosition
  <2> QED
    BY <2>2 DEF ObHits
<1> PICK e \in ObEntry : e = s[i]
  BY <1>0
<1>2. e \in ToSet(s)
  BY DEF ToSet
<1> PICK hit : hit = IF obCall.kind = "sample" THEN e.value ELSE ObCut(e.value)
  OBVIOUS
<1>3. /\ obEntries' = Touch(s, e)
      /\ obLast' = [kind |-> obCall.kind, from |-> obCall.from, to |-> obCall.to,
                    at |-> obCall.at, begun |-> obCall.begun, value |-> hit]
      /\ Answer(hit)
  BY DEF ServeHit
<1>4. /\ FreshEntry(e) /\ (e.kind = "stream" => e.to \in Nat)
      /\ e.key.epoch = obParser.epoch => e.value.gen >= obParser.sig
  BY <1>2 DEF ObsInv, EntriesInv, EntryInv
<1>5. /\ e.kind = obCall.kind /\ e.key = obCall.key
      /\ IF e.kind = "stream" THEN e.from <= obCall.from /\ e.to >= obCall.to /\ obCall.to >= 0
         ELSE <<e.from, e.to, e.at>> = <<obCall.from, obCall.to, obCall.at>>
  BY DEF ObCovers
<1>6. /\ obCall \in [kind : {"stream", "sample"}, from : Nat, to : Int, at : Int, begun : Int,
                     key : ObKeyRecord \cup {ObNothing}, sample : ObKeyRecord \cup {ObNothing},
                     stream : ObStream \cup {ObNothing}]
      /\ IsWindow(obCall.from, obCall.to) /\ obCall.key.epoch = obParser.epoch
      /\ obCall.begun = obParser.sig
      /\ obCall.sample # ObNothing => obCall.kind = "stream"
  BY <1>1 DEF ObsInv, CallType, ParserInv, ObPhases
<1>7. e.value.gen \in DOMAIN ObRows /\ e.value.gen >= obCall.begun
  BY <1>4, <1>5, <1>6, FreshFacts
<1>8. obCall.kind = "stream" => hit = ObRead(e.value.gen, obCall.from, obCall.to)
  <2> SUFFICES ASSUME obCall.kind = "stream"
               PROVE  hit = ObRead(e.value.gen, obCall.from, obCall.to)
    OBVIOUS
  <2>1. /\ e.from \in Nat /\ e.to \in Nat /\ obCall.from \in Nat /\ obCall.to \in Nat
        /\ e.from <= obCall.from /\ obCall.from <= obCall.to /\ obCall.to <= e.to
    BY <1>4, <1>5, <1>6 DEF ObEntry, IsWindow
  <2>2. e.value = ObRead(e.value.gen, e.from, e.to)
    BY <1>4, <1>5, FreshFacts
  <2>3. CutTo(e.value, obCall.from, obCall.to) = ObRead(e.value.gen, obCall.from, obCall.to)
    <3> PICK g \in DOMAIN ObRows : g = e.value.gen
      BY <1>7
    <3> PICK f \in Nat : f = e.from
      BY <2>1
    <3> PICK t \in Nat : t = e.to
      BY <2>1
    <3> PICK u \in Nat : u = obCall.from
      BY <2>1
    <3> PICK v \in Nat : v = obCall.to
      BY <2>1
    <3> PICK w : w = e.value
      OBVIOUS
    <3>1. w = ObRead(g, f, t) /\ f <= u /\ u <= v /\ v <= t
      BY <2>1, <2>2
    <3>2. CutTo(w, u, v) = ObRead(g, u, v)
      BY <3>1, CutIsRead
    <3> QED
      BY <3>2, Zenon
  <2>4. hit = CutTo(e.value, obCall.from, obCall.to)
    BY DEF ObCut, CutTo
  <2> QED
    BY <2>3, <2>4
<1>9. obCall.kind = "sample" =>
         hit = ObValueIn(ObRead(e.value.gen, obCall.from, obCall.to), obCall.at)
  <2> SUFFICES ASSUME obCall.kind = "sample"
               PROVE  hit = ObValueIn(ObRead(e.value.gen, obCall.from, obCall.to), obCall.at)
    OBVIOUS
  <2>1. hit = e.value /\ e.value = ObValueIn(ObRead(e.value.gen, e.from, e.to), e.at)
    BY <1>4, <1>5, FreshFacts
  <2>2. e.from = obCall.from /\ e.to = obCall.to /\ e.at = obCall.at
    BY <1>5
  <2> QED
    BY <2>1, <2>2, Zenon
<1>10. hit.gen = e.value.gen
  BY <1>5, <1>6 DEF ObCut
<1>11. HitIsFresh'
  <2> PICK last : last = obLast'
    OBVIOUS
  <2>1. /\ last.kind = obCall.kind /\ last.from = obCall.from /\ last.to = obCall.to
        /\ last.at = obCall.at /\ last.begun = obCall.begun /\ last.value = hit
    BY <1>3
  <2>2. hit = IF obCall.kind = "stream" THEN ObRead(hit.gen, obCall.from, obCall.to)
              ELSE ObValueIn(ObRead(hit.gen, obCall.from, obCall.to), obCall.at)
    BY <1>6, <1>8, <1>9, <1>10, Zenon
  <2>3. last.value = FreshAnswer(last)
    BY <2>1, <2>2, Zenon DEF FreshAnswer
  <2>4. last.value.gen >= last.begun
    BY <1>7, <1>10, <2>1
  <2> QED
    BY <2>3, <2>4 DEF HitIsFresh
<1>12. EntriesInv'
  <2>1. /\ Touch(s, e) \in Seq(ObEntry) /\ ToSet(Touch(s, e)) = ToSet(s) \cup {e}
        /\ Distinct(s) => Distinct(Touch(s, e))
    BY TouchedEntries
  <2>2. /\ obEntries' \in Seq(ObEntry) /\ ToSet(obEntries') = ToSet(obEntries)
        /\ Distinct(obEntries) => Distinct(obEntries')
    BY <1>2, <1>3, <2>1
  <2>3. EntryInv'
    BY <1>1, <2>2 DEF ObsInv, EntriesInv, EntryInv
  <2>4. KeysInv'
    BY <1>1, <2>2 DEF ObsInv, EntriesInv, KeysInv
  <2>5. ObservationsAccounted'
    BY <1>1, <2>2 DEF ObsInv, EntriesInv, ObservationsAccounted
  <2> QED
    BY <1>1, <2>2, <2>3, <2>4, <2>5 DEF ObsInv, EntriesInv
<1>13. ObsType'
  BY <1>1 DEF ObsInv, ObsType
<1>14. CASE obCall.sample = ObNothing
  <2>1. obPc' = "idle"
    BY <1>3, <1>14 DEF Answer
  <2>2. CallType' /\ ParserInv'
    BY <1>1, <2>1 DEF ObsInv, CallType, ParserInv, ObPhases
  <2> QED
    BY <1>11, <1>12, <1>13, <2>2 DEF ObsInv
<1>15. CASE obCall.sample # ObNothing
  <2>1. obPc' = "sampled" /\ obCall' = [obCall EXCEPT !.stream = hit]
    BY <1>3, <1>15 DEF Answer
  <2>2. hit \in ObStream /\ hit = ObRead(hit.gen, obCall.from, obCall.to)
    <3>1. hit = ObRead(e.value.gen, obCall.from, obCall.to)
      BY <1>6, <1>8, <1>15
    <3> PICK g \in DOMAIN ObRows : g = e.value.gen
      BY <1>7
    <3> PICK u \in Nat : u = obCall.from
      BY <1>6
    <3> PICK v \in Int : v = obCall.to
      BY <1>6
    <3>2. ObRead(g, u, v) \in ObStream
      BY ReadFacts
    <3> QED
      BY <1>10, <3>1, <3>2, Zenon
  <2>3. CallType'
    BY <1>1, <1>6, <1>15, <2>1, <2>2 DEF ObsInv, CallType, ObPhases
  <2>4. ParserInv'
    BY <1>1, <1>6, <1>7, <1>10, <2>1, <2>2 DEF ObsInv, ParserInv
  <2> QED
    BY <1>11, <1>12, <1>13, <2>3, <2>4 DEF ObsInv
<1> QED
  BY <1>14, <1>15

LEMMA ReadKeeps ==
    ASSUME ObsInv, ReadStream
    PROVE  ObsInv'
<1>0. /\ obPc = "lookup" /\ obCall.kind = "stream" /\ obGen' = obGen /\ obParser' = obParser
      /\ obNamespace' = obNamespace /\ obLast' = obLast /\ ObKeep
  BY DEF ReadStream, ObKeep
<1>1. obParser \in [sig : Int, epoch : Nat, loaded : Int]
  BY DEF ObsInv, ObsType
<1>2. EntriesInv'
  BY <1>0, <1>1, EntriesStay DEF ObsInv
<1>3. HitIsFresh'
  BY <1>0, HitStays DEF ObsInv
<1>4. ObsType'
  BY <1>0 DEF ObsInv, ObsType
<1>5. CASE obCall' = ObNothing /\ obPc' = "idle"
  <2>1. CallType' /\ ParserInv'
    BY <1>0, <1>5 DEF ObsInv, CallType, ParserInv, ObPhases
  <2> QED
    BY <1>2, <1>3, <1>4, <2>1 DEF ObsInv
<1>6. CASE /\ obCall' = [obCall EXCEPT !.stream = ObRead(obParser.loaded, obCall.from, obCall.to)]
           /\ obPc' = "recheck"
  <2>1. /\ obCall \in [kind : {"stream", "sample"}, from : Nat, to : Int, at : Int, begun : Int,
                       key : ObKeyRecord \cup {ObNothing}, sample : ObKeyRecord \cup {ObNothing},
                       stream : ObStream \cup {ObNothing}]
        /\ obParser.loaded \in DOMAIN ObRows /\ obParser.loaded >= obParser.sig
    BY <1>0 DEF ObsInv, CallType, ParserInv, ObPhases
  <2> PICK g \in DOMAIN ObRows : g = obParser.loaded
    BY <2>1
  <2> PICK u \in Nat : u = obCall.from
    BY <2>1
  <2> PICK v \in Int : v = obCall.to
    BY <2>1
  <2>2. ObRead(g, u, v) \in ObStream
    BY ReadFacts
  <2> PICK stream \in ObStream : stream = ObRead(g, u, v)
    BY <2>2
  <2>3. stream.gen = g
    BY DEF ObRead
  <2>4. obCall' = [obCall EXCEPT !.stream = stream] /\ obPc' = "recheck"
    BY <1>6, Zenon
  <2>5. CallType'
    BY <1>0, <2>1, <2>4 DEF ObsInv, CallType, ObPhases
  <2>6. obCall'.stream = stream /\ obCall'.from = u /\ obCall'.to = v /\ obCall'.begun = obCall.begun
    BY <2>1, <2>4
  <2>7. obCall'.stream = ObRead(obCall'.stream.gen, obCall'.from, obCall'.to)
    BY <2>3, <2>6, Zenon
  <2>8. obCall'.stream.gen >= obParser'.sig
    BY <1>0, <2>1, <2>3, <2>6
  <2>9. ParserInv'
    BY <1>0, <2>4, <2>6, <2>7, <2>8 DEF ObsInv, ParserInv
  <2> QED
    BY <1>2, <1>3, <1>4, <2>5, <2>9 DEF ObsInv
<1> QED
  BY <1>5, <1>6 DEF ReadStream

\* The bytes of a stream are a number.
LEMMA RowBytes ==
    ASSUME NEW rows \in Seq(ObRecord)
    PROVE  ObRowBytes(rows) \in Nat
<1> DEFINE w == [i \in 1 .. Len(rows) |-> rows[i].size]
<1>1. Len(rows) \in Nat /\ \A i \in 1 .. Len(rows) : rows[i] \in ObRecord
  BY LenProperties
<1>2. IsFiniteSet(1 .. Len(rows))
  BY <1>1, FS_Interval
<1>3. \A i \in 1 .. Len(rows) : w[i] = rows[i].size /\ w[i] \in Nat
  BY <1>1 DEF ObRecord
<1>4. ObRowBytes(rows) = Cardinality(Units(1 .. Len(rows), w))
  BY <1>3 DEF ObRowBytes, Units
<1> HIDE DEF w
<1> QED
  BY <1>2, <1>3, <1>4, UnitsFinite

LEMMA StreamSizes ==
    ASSUME NEW s \in ObStream
    PROVE  ObEventsOf(s) \in Nat /\ ObBytesOf(s) \in Nat
<1>1. s.rows \in Seq(ObRecord) /\ s.predecessor \in Seq(ObRecord)
  BY DEF ObStream
<1>2. Len(s.rows) \in Nat /\ Len(s.predecessor) \in Nat
  BY <1>1, LenProperties
<1>3. ObRowBytes(s.rows) \in Nat /\ ObRowBytes(s.predecessor) \in Nat
  BY <1>1, RowBytes
<1>4. ObEventsOf(s) \in Nat
  <2>1. PICK x \in Nat : x = Len(s.rows)
    BY <1>2
  <2>2. PICK y \in Nat : y = Len(s.predecessor)
    BY <1>2
  <2>3. ObEventsOf(s) = x + y
    BY <2>1, <2>2, Zenon DEF ObEventsOf
  <2> QED
    BY <2>3
<1> PICK a \in Nat : a = ObRowBytes(s.rows)
  BY <1>3
<1> PICK b \in Nat : b = ObRowBytes(s.predecessor)
  BY <1>3
<1>5. ObBytesOf(s) = 1 + a + b
  BY Zenon DEF ObBytesOf
<1> QED
  BY <1>4, <1>5

LEMMA KeepKeeps ==
    ASSUME ObsInv, KeepStream
    PROVE  ObsInv'
<1>0. /\ obPc = "recheck" /\ obGen' = obGen /\ obParser' = obParser
      /\ obNamespace' = obNamespace /\ obLast' = obLast /\ Answer(obCall.stream)
  BY DEF KeepStream
<1>1. /\ obCall \in [kind : {"stream", "sample"}, from : Nat, to : Int, at : Int, begun : Int,
                     key : ObKeyRecord \cup {ObNothing}, sample : ObKeyRecord \cup {ObNothing},
                     stream : ObStream \cup {ObNothing}]
      /\ IsWindow(obCall.from, obCall.to)
      /\ obCall.key \in ObKeyRecord /\ obCall.key.epoch = obParser.epoch
      /\ obCall.stream \in ObStream /\ obCall.kind = "stream"
      /\ obCall.stream = ObRead(obCall.stream.gen, obCall.from, obCall.to)
      /\ obCall.stream.gen >= obParser.sig
      /\ obParser \in [sig : Int, epoch : Nat, loaded : Int]
      /\ obParser.loaded # ObUnseen
  BY <1>0 DEF ObsInv, CallType, ParserInv, ObPhases, ObsType
<1>2. EntriesInv'
  <2>1. CASE ~ StillSame
    <3>1. ForgetOld
      BY <2>1 DEF KeepStream
    <3> QED
      BY <1>0, <1>1, <3>1, EntriesForgotten DEF ObsInv
  <2>2. CASE StillSame
    <3> PICK stream \in ObStream : stream = obCall.stream
      BY <1>1
    <3> PICK u \in Nat : u = obCall.from
      BY <1>1
    <3> PICK v \in Int : v = obCall.to
      BY <1>1
    <3> PICK key \in ObKeyRecord : key = obCall.key
      BY <1>1
    <3> PICK g \in DOMAIN ObRows : g = stream.gen
      BY DEF ObStream
    <3>1. stream = ObRead(g, u, v)
      BY <1>1, Zenon
    <3>2. ObUntil(v) \in Nat
      BY ReadFacts
    <3>3. ObRead(g, u, ObUntil(v)) = ObRead(g, u, v)
      <4>1. ObUntil(ObUntil(v)) = ObUntil(v)
        BY <3>2 DEF ObUntil
      <4> QED
        BY <4>1, Zenon DEF ObRead
    <3> DEFINE put == [kind |-> "stream", key |-> key, from |-> u, to |-> ObUntil(v), at |-> ObUnseen,
                       value |-> stream, events |-> ObEventsOf(stream), bytes |-> ObBytesOf(stream)]
    <3>4. put \in ObEntry
      <4>1. ObEventsOf(stream) \in Nat /\ ObBytesOf(stream) \in Nat
        BY StreamSizes
      <4>2. ObUnseen \in Int
        BY DEF ObUnseen
      <4> QED
        BY <3>2, <4>1, <4>2 DEF ObEntry
    <3>5. ObPut(put)
      BY <2>2, Zenon DEF KeepStream
    <3>6. /\ put.kind = "stream" /\ put.key = key /\ put.from = u /\ put.to = ObUntil(v)
          /\ put.value = stream
      OBVIOUS
    <3> HIDE DEF put
    <3> PICK new \in ObEntry : new = put
      BY <3>4
    <3>7. FreshEntry(new)
      <4>1. new.value = ObRead(new.value.gen, new.from, new.to)
        BY <3>1, <3>3, <3>6, Zenon
      <4> QED
        BY <3>6, <4>1 DEF FreshEntry
    <3>8. /\ new.kind = "stream" => new.to \in Nat
          /\ new.key.epoch <= obParser.epoch
          /\ new.key.epoch = obParser.epoch => new.value.gen >= obParser.sig
      BY <1>1, <3>2, <3>6
    <3>9. ObPut(new)
      BY <3>5
    <3> QED
      BY <1>0, <3>7, <3>8, <3>9, EntriesPut DEF ObsInv
  <2> QED
    BY <2>1, <2>2
<1>3. HitIsFresh'
  BY <1>0, HitStays DEF ObsInv
<1>4. ObsType'
  BY <1>0 DEF ObsInv, ObsType
<1>5. CASE obCall.sample = ObNothing
  <2>1. obPc' = "idle"
    BY <1>0, <1>5 DEF Answer
  <2>2. CallType' /\ ParserInv'
    BY <1>0, <2>1 DEF ObsInv, CallType, ParserInv, ObPhases
  <2> QED
    BY <1>2, <1>3, <1>4, <2>2 DEF ObsInv
<1>6. CASE obCall.sample # ObNothing
  <2>1. obPc' = "sampled" /\ obCall' = obCall
    BY <1>0, <1>1, <1>6 DEF Answer
  <2>2. CallType' /\ ParserInv'
    BY <1>0, <1>1, <1>6, <2>1 DEF ObsInv, CallType, ParserInv, ObPhases
  <2> QED
    BY <1>2, <1>3, <1>4, <2>2 DEF ObsInv
<1> QED
  BY <1>5, <1>6

LEMMA PutKeeps ==
    ASSUME ObsInv, PutSample
    PROVE  ObsInv'
<1>0. /\ obPc = "sampled" /\ obPc' = "idle" /\ obGen' = obGen /\ obParser' = obParser
      /\ obNamespace' = obNamespace /\ obLast' = obLast
  BY DEF PutSample
<1>1. /\ obCall \in [kind : {"stream", "sample"}, from : Nat, to : Int, at : Int, begun : Int,
                     key : ObKeyRecord \cup {ObNothing}, sample : ObKeyRecord \cup {ObNothing},
                     stream : ObStream \cup {ObNothing}]
      /\ obCall.sample \in ObKeyRecord /\ obCall.sample.epoch <= obParser.epoch
      /\ obCall.stream \in ObStream
      /\ obCall.stream = ObRead(obCall.stream.gen, obCall.from, obCall.to)
      /\ obCall.stream.gen >= obParser.sig
      /\ obParser \in [sig : Int, epoch : Nat, loaded : Int]
  BY <1>0 DEF ObsInv, CallType, ParserInv, ObPhases, ObsType
<1>2. EntriesInv'
  <2> PICK stream \in ObStream : stream = obCall.stream
    BY <1>1
  <2> PICK u \in Nat : u = obCall.from
    BY <1>1
  <2> PICK v \in Int : v = obCall.to
    BY <1>1
  <2> PICK at \in Int : at = obCall.at
    BY <1>1
  <2> PICK key \in ObKeyRecord : key = obCall.sample
    BY <1>1
  <2> PICK g \in DOMAIN ObRows : g = stream.gen
    BY DEF ObStream
  <2>1. stream = ObRead(g, u, v)
    BY <1>1, Zenon
  <2>2. ObValueIn(stream, at) \in ObSample /\ ObValueIn(stream, at).gen = g
    <3>1. InTime(stream.rows)
      BY <2>1, ReadFacts
    <3> QED
      BY <3>1, ValueFacts
  <2> DEFINE put == [kind |-> "sample", key |-> key, from |-> u, to |-> v, at |-> at,
                     value |-> ObValueIn(stream, at), events |-> 1, bytes |-> 2]
  <2>3. put \in ObEntry
    BY <2>2 DEF ObEntry
  <2>4. ObPut(put)
    BY Zenon DEF PutSample
  <2>5. /\ put.kind = "sample" /\ put.key = key /\ put.from = u /\ put.to = v /\ put.at = at
        /\ put.value = ObValueIn(stream, at)
    OBVIOUS
  <2> HIDE DEF put
  <2> PICK new \in ObEntry : new = put
    BY <2>3
  <2>6. FreshEntry(new)
    <3>1. new.value = ObValueIn(ObRead(new.value.gen, new.from, new.to), new.at)
      BY <2>1, <2>2, <2>5, Zenon
    <3> QED
      BY <2>5, <3>1 DEF FreshEntry
  <2>7. /\ new.kind = "stream" => new.to \in Nat
        /\ new.key.epoch <= obParser.epoch
        /\ new.key.epoch = obParser.epoch => new.value.gen >= obParser.sig
    BY <1>1, <2>2, <2>5
  <2>8. ObPut(new)
    BY <2>4
  <2> QED
    BY <1>0, <2>6, <2>7, <2>8, EntriesPut DEF ObsInv
<1>3. HitIsFresh'
  BY <1>0, HitStays DEF ObsInv
<1>4. ObsType'
  BY <1>0 DEF ObsInv, ObsType
<1>5. CallType' /\ ParserInv'
  BY <1>0 DEF ObsInv, CallType, ParserInv, ObPhases
<1> QED
  BY <1>2, <1>3, <1>4, <1>5 DEF ObsInv

LEMMA ObsStarts == ObsInit(ObNamespaces) => ObsInv
<1> SUFFICES ASSUME ObsInit(ObNamespaces) PROVE ObsInv
  OBVIOUS
<1>1. ObsType
  BY ObsAssumption DEF ObsInit, ObsType, ObUnseen
<1>2. CallType /\ ParserInv /\ HitIsFresh
  BY DEF ObsInit, CallType, ParserInv, HitIsFresh, ObPhases
<1>3. EntriesInv
  <2>1. obEntries = <<>> /\ obEvents = 0 /\ obBytes = 0 /\ obBudget = 0
    BY DEF ObsInit
  <2>2. ToSet(<<>>) = {} /\ Distinct(<<>>) /\ <<>> \in Seq(ObEntry)
    <3>1. <<>> \in Seq(ObEntry) /\ Len(<<>>) = 0
      BY EmptySeq
    <3>2. DOMAIN <<>> = {}
      BY <3>1, LenProperties
    <3> QED
      BY <3>1, <3>2 DEF ToSet, Distinct
  <2>3. ObEvents({}) = 0 /\ ObBytes({}) = 0
    BY FS_EmptySet DEF ObEvents, ObBytes
  <2>4. EntryInv /\ KeysInv
    BY <2>1, <2>2 DEF EntryInv, KeysInv
  <2>5. 0 <= ObMaxEvents /\ 0 <= ObMaxBytes /\ ToSet(obEntries) = {}
    BY <2>1, <2>2, ObsAssumption
  <2>6. ObservationsAccounted
    BY <2>1, <2>3, <2>5 DEF ObservationsAccounted
  <2> QED
    BY <2>1, <2>2, <2>4, <2>6 DEF EntriesInv
<1> QED
  BY <1>1, <1>2, <1>3 DEF ObsInv

LEMMA ObsKeeps == ObsInv /\ [ObsNext]_obsVars => ObsInv'
<1> SUFFICES ASSUME ObsInv, [ObsNext]_obsVars PROVE ObsInv'
  OBVIOUS
<1>1. CASE UNCHANGED obsVars
  BY <1>1 DEF obsVars, ObsInv, ObsType, CallType, ParserInv, EntriesInv, EntryInv, KeysInv,
              ObservationsAccounted, HitIsFresh
<1>2. CASE Bind
  BY <1>2, BindKeeps
<1>3. ASSUME NEW w \in ObWindows, BeginObservation("stream", w.from, w.to, ObUnseen) PROVE ObsInv'
  <2>1. IsWindow(w.from, w.to) /\ ObUnseen \in Int
    BY ObsAssumption DEF ObUnseen
  <2> QED
    BY <1>3, <2>1, BeginKeeps
<1>4. ASSUME NEW w \in ObInstants, BeginObservation("sample", w.from, w.to, w.at) PROVE ObsInv'
  <2>1. IsWindow(w.from, w.to) /\ w.at \in Int
    BY ObsAssumption
  <2> QED
    BY <1>4, <2>1, BeginKeeps
<1>5. CASE TakeIdentity
  BY <1>5, IdentityKeeps
<1>6. CASE LoadFile
  BY <1>6, LoadKeeps
<1>7. CASE ServeHit
  BY <1>7, HitKeeps
<1>8. CASE SampleMissed
  BY <1>8, MissedKeeps
<1>9. CASE ReadStream
  BY <1>9, ReadKeeps
<1>10. CASE KeepStream
  BY <1>10, KeepKeeps
<1>11. CASE PutSample
  BY <1>11, PutKeeps
<1>12. CASE ReplaceRecording
  BY <1>12, ReplacedKeeps
<1> QED
  BY <1>1, <1>2, <1>3, <1>4, <1>5, <1>6, <1>7, <1>8, <1>9, <1>10, <1>11, <1>12 DEF ObsNext

\* What an analysis session serves is what a fresh read of the same window would
\* return, from a recording no older than the one on disk as the call began; and
\* what it holds stays within both limits and is counted exactly.
THEOREM ObservationsAreTrue == ObsSpec => []ObservationsTrue
<1>1. ObsInv => ObservationsTrue
  BY DEF ObsInv, EntriesInv, ObservationsTrue
<1> QED
  BY <1>1, ObsStarts, ObsKeeps, PTL DEF ObsSpec

(***************************************************************************)
(* WindowVerify                                                            *)
(*                                                                         *)
(* What the accumulator says of the samples evaluated so far: a violation  *)
(* it counts is there, made of known samples only, and as long as it has   *)
(* noted nothing unknown and nothing open it has missed none.              *)
(***************************************************************************)
GateAt(i) == EvalPredicate(wvSamples[i].p)
ResponseAt(i) == EvalPredicate(wvSamples[i].c)
RestartAt(i) == EvalPredicate(wvSamples[i].restart)

WvAccs ==
    [true : Int, false : Int, unknown : SUBSET Int, ants : Nat, same : Nat, violations : Nat,
     open : Nat, bad : Int, previous : Int, beats : Nat]
VerifyType ==
    /\ wvAsk \in WvAsks /\ wvSamples \in Seq(WvSamples)
    /\ wvI \in Nat /\ wvI <= Len(wvSamples)
    /\ wvAcc \in WvAccs

SimpleInv ==
    Simple =>
        /\ wvAcc.unknown = {} => \A i \in 1..wvI : GateAt(i) # "u"
        /\ IF wvAcc.true = WvNone THEN \A i \in 1..wvI : GateAt(i) # "t"
           ELSE \E i \in 1..wvI : GateAt(i) = "t"
        /\ IF wvAcc.false = WvNone THEN \A i \in 1..wvI : GateAt(i) # "f"
           ELSE \E i \in 1..wvI : GateAt(i) = "f"

\* An antecedent without a response, and one with.
Unanswered(i) ==
    /\ GateAt(i) = "t" /\ WindowEnd(i) <= Len(wvSamples)
    /\ \A j \in (IF wvAsk.overlap THEN i ELSE i + 1)..WindowEnd(i) : ResponseAt(j) = "f"
Satisfied(i) ==
    \/ GateAt(i) = "f"
    \/ \E j \in (IF wvAsk.overlap THEN i ELSE i + 1)..WindowEnd(i) :
          j <= Len(wvSamples) /\ ResponseAt(j) = "t"

ImplicationInv ==
    Mode = "implication" =>
        /\ wvAcc.violations > 0 => \E i \in 1..wvI : Unanswered(i)
        /\ (wvAcc.violations = 0 /\ wvAcc.unknown = {} /\ wvAcc.open = 0) =>
              \A i \in 1..wvI : Satisfied(i)
        /\ wvAcc.same + wvAcc.violations <= wvAcc.ants

\* Consecutive accepted beats of one burst.
Clear(i) ==
    GateAt(i) # "u" /\ (GateAt(i) = "t" => wvSamples[i].value # WvNone /\ RestartAt(i) # "u")
LastBeat(i, end) == GateAt(i) = "t" /\ \A k \in (i + 1)..end : GateAt(k) = "f"
Beats(i, j) == GateAt(j) = "t" /\ RestartAt(j) = "f" /\ LastBeat(i, j - 1)
Wrong(i, j) == Increment(wvSamples[i].value, wvSamples[j].value) # wvAsk.target

SequenceInv ==
    Mode = "sequence" =>
        /\ wvAcc.violations > 0 =>
              \E j \in 1..wvI : \E i \in 1..(j - 1) :
                  /\ Beats(i, j) /\ Wrong(i, j)
                  /\ wvSamples[i].value # WvNone /\ wvSamples[j].value # WvNone
        /\ wvAcc.unknown = {} => \A i \in 1..wvI : Clear(i)
        /\ (wvAcc.violations = 0 /\ wvAcc.unknown = {}) =>
              \A j \in 1..wvI : \A i \in 1..(j - 1) : ~(Beats(i, j) /\ Wrong(i, j))
        /\ wvAcc.previous # WvNone =>
              \E i \in 1..wvI : LastBeat(i, wvI) /\ wvSamples[i].value = wvAcc.previous
        /\ (wvAcc.previous = WvNone /\ wvAcc.unknown = {}) =>
              \A i \in 1..wvI : GateAt(i) = "f"

\* The result is read off the accumulator once every sample is evaluated.
Verdict ==
    [status |-> "done", holds |-> wvSamples # <<>> /\ Holds, coverage |-> Coverage,
     vacuous |-> /\ Mode = "implication" /\ wvAsk.overlap /\ wvAsk.within >= 1
                 /\ wvAcc.ants > 0 /\ wvAcc.same = wvAcc.ants]
ResultInv ==
    \/ wvResult = [status |-> "none"]
    \/ wvI = Len(wvSamples) /\ wvResult = Verdict

VerifyInv == VerifyType /\ SimpleInv /\ ImplicationInv /\ SequenceInv /\ ResultInv

LEMMA Evaluated == \A terms : EvalPredicate(terms) \in WvTruth
  BY DEF EvalPredicate, WvTruth

\* The sample that is evaluated next, and that those before stay what they are.
LEMMA HereFacts ==
    ASSUME VerifyInv, Going
    PROVE  /\ wvI + 1 \in 1..Len(wvSamples) /\ Here \in WvSamples /\ Here = wvSamples[wvI + 1]
           /\ wvResult = [status |-> "none"]
           /\ \A i : i \in 1..(wvI + 1) <=> (i \in 1..wvI \/ i = wvI + 1)
<1>1. /\ wvI \in Nat /\ wvSamples \in Seq(WvSamples) /\ wvI < Len(wvSamples)
      /\ wvResult.status = "none"
  BY DEF VerifyInv, VerifyType, Going
<1>2. Len(wvSamples) \in Nat
  BY <1>1
<1>3. wvI + 1 \in 1..Len(wvSamples)
  BY <1>1, <1>2
<1>4. Here \in WvSamples
  BY <1>1, <1>3 DEF Here
<1>5. wvResult = [status |-> "none"]
  BY <1>1 DEF VerifyInv, ResultInv, Verdict
<1>6. \A i : i \in 1..(wvI + 1) <=> (i \in 1..wvI \/ i = wvI + 1)
  BY <1>1
<1> QED
  BY <1>3, <1>4, <1>5, <1>6 DEF Here

LEMMA VerifyStarts == VerifyInit([ask : WvAsks, samples : Seq(WvSamples)]) => VerifyInv
<1> SUFFICES ASSUME VerifyInit([ask : WvAsks, samples : Seq(WvSamples)]) PROVE VerifyInv
  OBVIOUS
<1>1. wvI = 0 /\ wvAsk \in WvAsks /\ wvSamples \in Seq(WvSamples) /\ wvResult = [status |-> "none"]
  BY DEF VerifyInit
<1>2. wvAcc = [true |-> -1, false |-> -1, unknown |-> {}, ants |-> 0, same |-> 0,
               violations |-> 0, open |-> 0, bad |-> -1, previous |-> -1, beats |-> 0]
  BY DEF VerifyInit, WvNone
<1>3. Len(wvSamples) \in Nat
  BY <1>1
<1>4. VerifyType
  BY <1>1, <1>2, <1>3 DEF VerifyType, WvAccs
<1>5. \A i : i \notin 1..wvI
  BY <1>1
<1>6. SimpleInv /\ ImplicationInv /\ SequenceInv
  BY <1>2, <1>5 DEF SimpleInv, ImplicationInv, SequenceInv, WvNone
<1> QED
  BY <1>1, <1>4, <1>6 DEF VerifyInv, ResultInv

\* A sample is evaluated: the rest of the invariant.
LEMMA OtherModes ==
    ASSUME VerifyInv, Going, wvI' = wvI + 1, UNCHANGED <<wvAsk, wvSamples, wvResult>>
    PROVE  /\ ResultInv' /\ wvAsk' \in WvAsks /\ wvSamples' \in Seq(WvSamples)
           /\ wvI' \in Nat /\ wvI' <= Len(wvSamples')
           /\ ~Simple => SimpleInv'
           /\ Mode # "implication" => ImplicationInv'
           /\ Mode # "sequence" => SequenceInv'
<1>1. Mode' = Mode /\ Simple' = Simple
  BY DEF Mode, Simple
<1>2. ResultInv'
  BY HereFacts DEF ResultInv
<1>3. wvAsk' \in WvAsks /\ wvSamples' \in Seq(WvSamples) /\ wvI \in Nat /\ Len(wvSamples) \in Nat
  BY DEF VerifyInv, VerifyType
<1>4. wvI' \in Nat /\ wvI' <= Len(wvSamples')
  BY <1>3, HereFacts
<1> QED
  BY <1>1, <1>2, <1>3, <1>4 DEF SimpleInv, ImplicationInv, SequenceInv

LEMMA EvalSimpleKeeps == ASSUME VerifyInv, EvalSimple PROVE VerifyInv'
<1>1. Going /\ Simple /\ wvI' = wvI + 1 /\ UNCHANGED <<wvAsk, wvSamples, wvResult>>
  BY DEF EvalSimple
<1>2. Mode # "implication" /\ Mode # "sequence"
  BY <1>1 DEF Simple
<1>3. wvI \in Nat /\ VerifyType /\ SimpleInv
  BY DEF VerifyInv, VerifyType
<1> PICK here : here = GateAt(wvI + 1)
  OBVIOUS
<1>4. here = EvalPredicate(Here.p) /\ here \in WvTruth
  BY Evaluated, <1>1, HereFacts DEF GateAt
<1>5. FirstOf(wvAcc.true) \in Int /\ FirstOf(wvAcc.false) \in Int
      /\ FirstOf(wvAcc.true) # WvNone /\ FirstOf(wvAcc.false) # WvNone
  BY <1>3 DEF FirstOf, WvNone, VerifyType, WvAccs
<1>6. /\ here = "u" => wvAcc' = [wvAcc EXCEPT !.unknown = @ \cup {wvI + 1}]
      /\ here = "t" => wvAcc' = [wvAcc EXCEPT !.true = FirstOf(@)]
      /\ here = "f" => wvAcc' = [wvAcc EXCEPT !.false = FirstOf(@)]
  BY <1>4 DEF EvalSimple
<1>a. wvAcc \in WvAccs
  BY <1>3 DEF VerifyType
<1>7. wvAcc' \in WvAccs
  <2>1. CASE here = "u"
    <3>1. wvAcc.unknown \cup {wvI + 1} \in SUBSET Int
      BY <1>3, <1>a DEF WvAccs
    <3>2. wvAcc' = [wvAcc EXCEPT !.unknown = wvAcc.unknown \cup {wvI + 1}]
      BY <1>6, <2>1
    <3> QED
      BY <1>a, <3>1, <3>2 DEF WvAccs
  <2>2. CASE here = "t"
    <3>1. wvAcc' = [wvAcc EXCEPT !.true = FirstOf(wvAcc.true)]
      BY <1>6, <2>2
    <3> QED
      BY <1>a, <1>5, <3>1 DEF WvAccs
  <2>3. CASE here = "f"
    <3>1. wvAcc' = [wvAcc EXCEPT !.false = FirstOf(wvAcc.false)]
      BY <1>6, <2>3
    <3> QED
      BY <1>a, <1>5, <3>1 DEF WvAccs
  <2> QED
    BY <1>4, <2>1, <2>2, <2>3 DEF WvTruth
<1>8. /\ here = "u" => wvAcc'.unknown # {} /\ wvAcc'.true = wvAcc.true /\ wvAcc'.false = wvAcc.false
      /\ here = "t" => /\ wvAcc'.unknown = wvAcc.unknown /\ wvAcc'.true # WvNone
                       /\ wvAcc'.false = wvAcc.false
      /\ here = "f" => /\ wvAcc'.unknown = wvAcc.unknown /\ wvAcc'.false # WvNone
                       /\ wvAcc'.true = wvAcc.true
  BY <1>a, <1>5, <1>6 DEF WvAccs
<1>9. \A i : GateAt(i)' = GateAt(i)
  BY <1>1 DEF GateAt
<1>10. \A i : i \in 1..wvI' <=> (i \in 1..wvI \/ i = wvI + 1)
  BY <1>1, HereFacts
<1>11. /\ wvAcc.unknown = {} => \A i \in 1..wvI : GateAt(i) # "u"
       /\ IF wvAcc.true = WvNone THEN \A i \in 1..wvI : GateAt(i) # "t"
          ELSE \E i \in 1..wvI : GateAt(i) = "t"
       /\ IF wvAcc.false = WvNone THEN \A i \in 1..wvI : GateAt(i) # "f"
          ELSE \E i \in 1..wvI : GateAt(i) = "f"
  BY <1>1, <1>3 DEF SimpleInv
<1>12. SimpleInv'
  <2>1. wvAcc'.unknown = {} => \A i \in 1..wvI' : GateAt(i)' # "u"
    BY <1>4, <1>8, <1>9, <1>10, <1>11 DEF WvTruth
  <2>2. wvAcc'.true = WvNone => \A i \in 1..wvI' : GateAt(i)' # "t"
    BY <1>4, <1>8, <1>9, <1>10, <1>11 DEF WvTruth
  <2>3. wvAcc'.true # WvNone => \E i \in 1..wvI' : GateAt(i)' = "t"
    BY <1>4, <1>8, <1>9, <1>10, <1>11 DEF WvTruth
  <2>4. wvAcc'.false = WvNone => \A i \in 1..wvI' : GateAt(i)' # "f"
    BY <1>4, <1>8, <1>9, <1>10, <1>11 DEF WvTruth
  <2>5. wvAcc'.false # WvNone => \E i \in 1..wvI' : GateAt(i)' = "f"
    BY <1>4, <1>8, <1>9, <1>10, <1>11 DEF WvTruth
  <2> QED
    BY <2>1, <2>2, <2>3, <2>4, <2>5 DEF SimpleInv, WvNone
<1> QED
  BY <1>1, <1>2, <1>7, <1>12, OtherModes DEF VerifyInv, VerifyType

\* The response window, cut at the end of the trace.
Window(i) == (IF wvAsk.overlap THEN i ELSE i + 1)..WindowEnd(i)

LEMMA ResponseWindowFacts ==
    ASSUME VerifyType, NEW i \in 1..Len(wvSamples)
    PROVE  /\ WindowEnd(i) \in Nat
           /\ \A j : j \in ResponseWindow(i) <=> j \in Window(i) /\ j <= Len(wvSamples)
<1> PICK n \in Nat : n = Len(wvSamples)
  BY DEF VerifyType
<1> PICK e : e = WindowEnd(i)
  OBVIOUS
<1>1. i \in Nat /\ e \in Nat
  BY DEF VerifyType, WvAsks, WindowEnd
<1>2. {e, n} \in SUBSET Nat /\ {e, n} # {}
  BY <1>1
<1>3. Min({e, n}) \in {e, n} /\ \A x \in {e, n} : Min({e, n}) <= x
  BY ONLY <1>2, LeastIn
<1> PICK m : m = Min({e, n})
  OBVIOUS
<1> PICK lo \in Nat : lo = IF wvAsk.overlap THEN i ELSE i + 1
  BY <1>1
<1>4. \A j : j \in lo..m <=> j \in lo..e /\ j <= n
  BY <1>1, <1>3
<1> QED
  BY <1>1, <1>4 DEF ResponseWindow, Window

\* What the response loop has found at sample i.
LEMMA LookedFacts ==
    ASSUME VerifyType, NEW i \in 1..Len(wvSamples)
    PROVE  /\ UnknownResponses(i) \in SUBSET Int
           /\ GateAt(i) = "t" /\ Responses(i) = {} /\ ~ResponseOpen(i, UnknownResponses(i)) => Unanswered(i)
           /\ Responses(i) # {} => Satisfied(i)
<1>2. WindowEnd(i) \in Nat /\ \A j : j \in ResponseWindow(i) <=> j \in Window(i) /\ j <= Len(wvSamples)
  BY ONLY VerifyType, i \in 1..Len(wvSamples), ResponseWindowFacts
<1>3. i \in Nat /\ Len(wvSamples) \in Nat
  BY DEF VerifyType
<1>4. Window(i) \subseteq Int
  BY <1>2, <1>3 DEF Window
<1>5. UnknownResponses(i) \in SUBSET Int
  BY <1>2, <1>4 DEF UnknownResponses, LookedAt
<1>6. ASSUME GateAt(i) = "t", Responses(i) = {}, ~ResponseOpen(i, UnknownResponses(i)) PROVE Unanswered(i)
  <2>1. WindowEnd(i) <= Len(wvSamples) /\ UnknownResponses(i) = {}
    BY <1>2, <1>3, <1>6 DEF ResponseOpen
  <2>2. \A j \in Window(i) : j <= Len(wvSamples)
    BY <1>2, <1>3, <2>1 DEF Window
  <2>3. LookedAt(i) = ResponseWindow(i)
    BY <1>6 DEF LookedAt
  <2>4. ASSUME NEW j \in Window(i) PROVE ResponseAt(j) = "f"
    <3>1. j \in ResponseWindow(i)
      BY <1>2, <2>2
    <3>2. ResponseAt(j) # "t" /\ ResponseAt(j) # "u"
      BY <1>6, <2>1, <2>3, <3>1 DEF Responses, UnknownResponses, ResponseAt
    <3> QED
      BY <3>2, Evaluated DEF ResponseAt, WvTruth
  <2> QED
    BY <1>6, <2>1, <2>4 DEF Unanswered, Window
<1>7. Responses(i) # {} => Satisfied(i)
  BY <1>2 DEF Satisfied, Window, Responses, ResponseAt
<1> QED
  BY <1>5, <1>6, <1>7

\* How the evaluation of an antecedent moves the accumulator.
LEMMA ImplicationMoves ==
    ASSUME VerifyInv, EvalImplication
    PROVE  /\ wvAcc' \in WvAccs
           /\ wvAcc'.violations = 0 /\ wvAcc'.unknown = {} /\ wvAcc'.open = 0 =>
                 /\ wvAcc.violations = 0 /\ wvAcc.unknown = {} /\ wvAcc.open = 0
                 /\ Satisfied(wvI + 1)
           /\ wvAcc'.violations > 0 => wvAcc.violations > 0 \/ Unanswered(wvI + 1)
           /\ wvAcc.same + wvAcc.violations <= wvAcc.ants =>
                 wvAcc'.same + wvAcc'.violations <= wvAcc'.ants
<1> PICK i : i = wvI + 1
  OBVIOUS
<1>1. Going /\ wvAcc \in WvAccs /\ VerifyType
  BY DEF EvalImplication, VerifyInv, VerifyType
<1>2. i \in 1..Len(wvSamples) /\ Here.p = wvSamples[i].p /\ i \in Int
  BY <1>1, HereFacts
<1> PICK a \in WvTruth : a = GateAt(i)
  BY Evaluated DEF GateAt
<1>3. /\ UnknownResponses(i) \in SUBSET Int
      /\ a = "t" /\ Responses(i) = {} /\ ~ResponseOpen(i, UnknownResponses(i)) => Unanswered(i)
      /\ Responses(i) # {} => Satisfied(i)
  BY <1>1, <1>2, LookedFacts
<1> PICK same \in {0, 1} : same = IF Min(Responses(i)) = i THEN 1 ELSE 0
  OBVIOUS
<1>4. EvalPredicate(Here.p) = a
  BY <1>2 DEF GateAt
<1>5. /\ a = "u" => wvAcc' = [wvAcc EXCEPT !.unknown = @ \cup {i}]
      /\ a = "f" => wvAcc' = wvAcc
      /\ a = "t" /\ Responses(i) # {} => wvAcc' = [Triggered(i) EXCEPT !.same = @ + same]
      /\ a = "t" /\ Responses(i) = {} /\ ResponseOpen(i, UnknownResponses(i)) =>
            wvAcc' = [Triggered(i) EXCEPT !.open = @ + 1]
      /\ a = "t" /\ Responses(i) = {} /\ ~ResponseOpen(i, UnknownResponses(i)) =>
            wvAcc' = [Triggered(i) EXCEPT !.violations = @ + 1, !.bad = FirstOf(@)]
  BY <1>4 DEF EvalImplication
<1>6. /\ Triggered(i) \in WvAccs
      /\ Triggered(i).unknown = wvAcc.unknown \cup UnknownResponses(i)
      /\ Triggered(i).ants = wvAcc.ants + 1
      /\ Triggered(i).same = wvAcc.same /\ Triggered(i).violations = wvAcc.violations
      /\ Triggered(i).open = wvAcc.open
  <2> PICK noted : noted = wvAcc.unknown \cup UnknownResponses(i)
    OBVIOUS
  <2> PICK ants : ants = wvAcc.ants + 1
    OBVIOUS
  <2>1. noted \in SUBSET Int /\ ants \in Nat
    BY <1>1, <1>3 DEF WvAccs
  <2>2. Triggered(i) = [wvAcc EXCEPT !.ants = ants, !.unknown = noted]
    BY DEF Triggered
  <2> QED
    BY <1>1, <2>1, <2>2 DEF WvAccs
<1> PICK acc \in WvAccs : acc = Triggered(i)
  BY <1>6
<1>7. CASE a = "u"
  <2>1. wvAcc' = [wvAcc EXCEPT !.unknown = wvAcc.unknown \cup {i}]
    BY <1>5, <1>7
  <2>2. wvAcc.unknown \cup {i} \in SUBSET Int
    BY <1>1, <1>2 DEF WvAccs
  <2>3. wvAcc' \in WvAccs
    BY <1>1, <2>1, <2>2 DEF WvAccs
  <2>4. wvAcc'.unknown # {} /\ wvAcc'.violations = wvAcc.violations /\ wvAcc'.same = wvAcc.same
        /\ wvAcc'.ants = wvAcc.ants
    BY <1>1, <2>1 DEF WvAccs
  <2> QED
    BY <2>3, <2>4
<1>8. CASE a = "f"
  <2>1. Satisfied(i)
    BY <1>8 DEF Satisfied
  <2> QED
    BY <1>1, <1>5, <1>8, <2>1
<1>9. CASE a = "t" /\ Responses(i) # {}
  <2>1. wvAcc' = [acc EXCEPT !.same = acc.same + same]
    BY <1>5, <1>9
  <2>2. acc.same + same \in Nat
    BY DEF WvAccs
  <2>3. wvAcc' \in WvAccs /\ wvAcc'.unknown = acc.unknown /\ wvAcc'.violations = acc.violations
        /\ wvAcc'.open = acc.open /\ wvAcc'.same = acc.same + same /\ wvAcc'.ants = acc.ants
    BY <2>1, <2>2 DEF WvAccs
  <2>4. wvAcc.same \in Nat /\ wvAcc.violations \in Nat /\ wvAcc.ants \in Nat
    BY <1>1 DEF WvAccs
  <2> QED
    BY <1>3, <1>6, <1>9, <2>3, <2>4
<1>10. CASE a = "t" /\ Responses(i) = {} /\ ResponseOpen(i, UnknownResponses(i))
  <2>1. wvAcc' = [acc EXCEPT !.open = acc.open + 1]
    BY <1>5, <1>10
  <2>2. wvAcc' \in WvAccs /\ wvAcc'.violations = acc.violations
        /\ wvAcc'.open = acc.open + 1 /\ wvAcc'.same = acc.same /\ wvAcc'.ants = acc.ants
    BY <2>1 DEF WvAccs
  <2>4. wvAcc.same \in Nat /\ wvAcc.violations \in Nat /\ wvAcc.ants \in Nat /\ wvAcc.open \in Nat
    BY <1>1 DEF WvAccs
  <2> QED
    BY <1>6, <2>2, <2>4
<1>11. CASE a = "t" /\ Responses(i) = {} /\ ~ResponseOpen(i, UnknownResponses(i))
  <2>1. wvAcc' = [acc EXCEPT !.violations = acc.violations + 1, !.bad = FirstOf(acc.bad)]
    BY <1>5, <1>11
  <2> PICK bad, more : bad = FirstOf(acc.bad) /\ more = acc.violations + 1
    OBVIOUS
  <2>5. acc.bad \in Int /\ more \in Nat
    BY DEF WvAccs
  <2>6. bad \in Int
    BY <1>2, <2>5 DEF FirstOf
  <2>2. bad \in Int /\ more \in Nat /\ wvAcc' = [acc EXCEPT !.violations = more, !.bad = bad]
    BY <2>1, <2>5, <2>6
  <2>3. wvAcc' \in WvAccs /\ wvAcc'.violations = acc.violations + 1
        /\ wvAcc'.same = acc.same /\ wvAcc'.ants = acc.ants
    BY <2>2 DEF WvAccs
  <2>4. wvAcc.same \in Nat /\ wvAcc.violations \in Nat /\ wvAcc.ants \in Nat
    BY <1>1 DEF WvAccs
  <2> QED
    BY <1>3, <1>6, <1>11, <2>3, <2>4
<1> QED
  BY <1>7, <1>8, <1>9, <1>10, <1>11 DEF WvTruth

LEMMA EvalImplicationKeeps == ASSUME VerifyInv, EvalImplication PROVE VerifyInv'
<1>1. /\ Going /\ Mode = "implication" /\ wvI' = wvI + 1
      /\ UNCHANGED <<wvAsk, wvSamples, wvResult>>
  BY DEF EvalImplication
<1>2. ~Simple /\ Mode # "sequence" /\ Mode' = Mode
  BY <1>1 DEF Simple, Mode
<1>3. \A i : Satisfied(i)' = Satisfied(i) /\ Unanswered(i)' = Unanswered(i)
  BY <1>1 DEF Satisfied, Unanswered, GateAt, ResponseAt, WindowEnd
<1>4. \A i : i \in 1..wvI' <=> (i \in 1..wvI \/ i = wvI + 1)
  BY <1>1, HereFacts
<1>5. ImplicationInv
  BY DEF VerifyInv
<1>6. wvAcc' \in WvAccs
  BY ImplicationMoves
<1>7. wvAcc'.violations > 0 => \E i \in 1..wvI' : Unanswered(i)'
  BY <1>1, <1>3, <1>4, <1>5, ImplicationMoves DEF ImplicationInv
<1>8. (wvAcc'.violations = 0 /\ wvAcc'.unknown = {} /\ wvAcc'.open = 0) =>
         \A i \in 1..wvI' : Satisfied(i)'
  BY <1>1, <1>3, <1>4, <1>5, ImplicationMoves DEF ImplicationInv
<1>9. wvAcc'.same + wvAcc'.violations <= wvAcc'.ants
  BY <1>1, <1>5, ImplicationMoves DEF ImplicationInv
<1>10. ImplicationInv'
  BY <1>7, <1>8, <1>9 DEF ImplicationInv
<1> QED
  BY <1>1, <1>2, <1>6, <1>10, OtherModes DEF VerifyInv, VerifyType

\* How the evaluation of a sample moves the chain of beats.
LEMMA SequenceMoves ==
    ASSUME VerifyInv, EvalSequence
    PROVE  /\ wvAcc' \in WvAccs
           /\ \/ wvAcc'.unknown # {} /\ wvAcc'.previous = WvNone /\ wvAcc'.violations = wvAcc.violations
              \/ GateAt(wvI + 1) = "f" /\ wvAcc' = wvAcc
              \/ /\ GateAt(wvI + 1) = "t" /\ Clear(wvI + 1)
                 /\ RestartAt(wvI + 1) = "t" \/ wvAcc.previous = WvNone
                 /\ wvAcc'.previous = wvSamples[wvI + 1].value
                 /\ wvAcc'.unknown = wvAcc.unknown /\ wvAcc'.violations = wvAcc.violations
              \/ /\ GateAt(wvI + 1) = "t" /\ Clear(wvI + 1)
                 /\ RestartAt(wvI + 1) = "f" /\ wvAcc.previous # WvNone
                 /\ wvAcc'.previous = wvSamples[wvI + 1].value
                 /\ wvAcc'.unknown = wvAcc.unknown
                 /\ wvAcc'.violations =
                      wvAcc.violations
                      + (IF Increment(wvAcc.previous, wvSamples[wvI + 1].value) # wvAsk.target
                         THEN 1 ELSE 0)
<1> PICK i : i = wvI + 1
  OBVIOUS
<1>1. Going /\ wvAcc \in WvAccs
  BY DEF EvalSequence, VerifyInv, VerifyType
<1>2. i \in Int /\ Here = wvSamples[i] /\ Here \in WvSamples
  BY <1>1, HereFacts
<1> PICK value \in Nat \cup {WvNone} : value = wvSamples[i].value
  BY <1>2 DEF WvSamples
<1> PICK gate \in WvTruth : gate = GateAt(i)
  BY Evaluated DEF GateAt
<1> PICK restart \in WvTruth : restart = RestartAt(i)
  BY Evaluated DEF RestartAt
<1> PICK bad : bad = FirstOf(wvAcc.bad)
  OBVIOUS
<1> PICK wrong \in BOOLEAN : wrong = (Increment(wvAcc.previous, value) # wvAsk.target)
  OBVIOUS
<1>3. gate = EvalPredicate(Here.p) /\ restart = EvalPredicate(Here.restart) /\ value = Here.value
  BY <1>2 DEF GateAt, RestartAt
<1> PICK unclear \in BOOLEAN :
       unclear = (gate = "u" \/ (gate = "t" /\ (value = WvNone \/ restart = "u")))
  OBVIOUS
<1> PICK seed \in BOOLEAN : seed = (restart = "t" \/ wvAcc.previous = WvNone)
  OBVIOUS
<1>4. /\ unclear => wvAcc' = [wvAcc EXCEPT !.unknown = @ \cup {i}, !.previous = WvNone]
      /\ ~unclear /\ gate = "f" => wvAcc' = wvAcc
      /\ ~unclear /\ gate = "t" /\ seed => wvAcc' = [wvAcc EXCEPT !.previous = value]
      /\ ~unclear /\ gate = "t" /\ ~seed =>
            wvAcc' = [wvAcc EXCEPT !.previous = value, !.beats = @ + 1,
                                   !.violations = @ + (IF wrong THEN 1 ELSE 0),
                                   !.bad = IF wrong THEN FirstOf(@) ELSE @]
  BY <1>3 DEF EvalSequence, BreakChain
<1>5. bad \in Int /\ value \in Int /\ WvNone \in Int
  BY <1>1, <1>2 DEF FirstOf, WvAccs, WvNone
<1>6. CASE unclear
  <2>1. wvAcc.unknown \cup {i} \in SUBSET Int
    BY <1>1, <1>2 DEF WvAccs
  <2>2. wvAcc' = [wvAcc EXCEPT !.unknown = wvAcc.unknown \cup {i}, !.previous = WvNone]
    BY <1>4, <1>6
  <2> PICK noted \in SUBSET Int : noted = wvAcc.unknown \cup {i}
    BY <2>1
  <2>3. wvAcc' \in WvAccs /\ wvAcc'.unknown = noted /\ wvAcc'.previous = WvNone
        /\ wvAcc'.violations = wvAcc.violations
    BY <1>1, <1>5, <2>2 DEF WvAccs
  <2> QED
    BY <2>3
<1>7. CASE ~unclear /\ gate = "f"
  BY <1>1, <1>4, <1>7
<1>8. ~unclear /\ gate = "t" => Clear(i) /\ restart # "u"
  BY <1>3 DEF Clear
<1>9. CASE ~unclear /\ gate = "t" /\ seed
  <2>1. wvAcc' \in WvAccs /\ wvAcc'.previous = value /\ wvAcc'.unknown = wvAcc.unknown
        /\ wvAcc'.violations = wvAcc.violations
    BY <1>1, <1>4, <1>5, <1>9 DEF WvAccs
  <2> QED
    BY <1>8, <1>9, <2>1
<1>10. CASE ~unclear /\ gate = "t" /\ ~seed
  <2> PICK more : more = wvAcc.violations + (IF wrong THEN 1 ELSE 0)
    OBVIOUS
  <2> PICK first : first = IF wrong THEN bad ELSE wvAcc.bad
    OBVIOUS
  <2> PICK beats : beats = wvAcc.beats + 1
    OBVIOUS
  <2>1. more \in Nat /\ first \in Int /\ beats \in Nat
    BY <1>1, <1>5 DEF WvAccs
  <2>2. wvAcc' = [wvAcc EXCEPT !.previous = value, !.beats = beats, !.violations = more, !.bad = first]
    BY <1>4, <1>10
  <2>3. wvAcc' \in WvAccs /\ wvAcc'.previous = value /\ wvAcc'.unknown = wvAcc.unknown
        /\ wvAcc'.violations = more
    BY <1>1, <1>5, <2>1, <2>2 DEF WvAccs
  <2>4. restart = "f" /\ wvAcc.previous # WvNone
    BY <1>8, <1>10 DEF WvTruth
  <2> QED
    BY <1>8, <1>10, <2>3, <2>4
<1> QED
  BY <1>6, <1>7, <1>9, <1>10 DEF WvTruth

LEMMA EvalSequenceKeeps == ASSUME VerifyInv, EvalSequence PROVE VerifyInv'
<1>1. /\ Going /\ Mode = "sequence" /\ wvI' = wvI + 1
      /\ UNCHANGED <<wvAsk, wvSamples, wvResult>>
  BY DEF EvalSequence
<1>2. ~Simple /\ Mode # "implication" /\ Mode' = Mode
  BY <1>1 DEF Simple, Mode
<1> PICK i : i = wvI + 1
  OBVIOUS
<1>3. wvI \in Nat /\ i \in Nat /\ wvI' = i
  BY <1>1 DEF VerifyInv, VerifyType
<1>4. \A k : k \in 1..wvI' <=> (k \in 1..wvI \/ k = i)
  BY <1>1, HereFacts
<1>5. /\ wvAcc.violations > 0 =>
            \E j \in 1..wvI : \E k \in 1..(j - 1) :
                /\ Beats(k, j) /\ Wrong(k, j)
                /\ wvSamples[k].value # WvNone /\ wvSamples[j].value # WvNone
      /\ wvAcc.unknown = {} => \A k \in 1..wvI : Clear(k)
      /\ (wvAcc.violations = 0 /\ wvAcc.unknown = {}) =>
            \A j \in 1..wvI : \A k \in 1..(j - 1) : ~(Beats(k, j) /\ Wrong(k, j))
      /\ wvAcc.previous # WvNone =>
            \E k \in 1..wvI : LastBeat(k, wvI) /\ wvSamples[k].value = wvAcc.previous
      /\ (wvAcc.previous = WvNone /\ wvAcc.unknown = {}) => \A k \in 1..wvI : GateAt(k) = "f"
  BY <1>1 DEF VerifyInv, SequenceInv
<1>6. /\ \A k : Clear(k)' = Clear(k) /\ GateAt(k)' = GateAt(k)
      /\ \A j, k : Beats(k, j)' = Beats(k, j) /\ Wrong(k, j)' = Wrong(k, j)
      /\ \A k, end : LastBeat(k, end)' = LastBeat(k, end)
  BY <1>1 DEF Clear, Beats, Wrong, LastBeat, GateAt, RestartAt, Increment
<1>7. ASSUME NEW k \in 1..wvI, NEW m \in 1..wvI, LastBeat(k, wvI), LastBeat(m, wvI) PROVE k = m
  <2>1. k \in Int /\ m \in Int /\ k <= wvI /\ m <= wvI
    BY <1>3
  <2>2. ~(k < m)
    BY <1>3, <1>7, <2>1 DEF LastBeat
  <2>3. ~(m < k)
    BY <1>3, <1>7, <2>1 DEF LastBeat
  <2> QED
    BY <2>1, <2>2, <2>3
<1>8. \A k : Beats(k, i) <=> GateAt(i) = "t" /\ RestartAt(i) = "f" /\ LastBeat(k, wvI)
  BY <1>3 DEF Beats
<1>9. wvAcc.violations \in Nat /\ wvAcc'.violations \in Nat /\ wvAcc' \in WvAccs
  BY SequenceMoves DEF VerifyInv, VerifyType, WvAccs
<1>10. /\ \/ wvAcc'.unknown # {} /\ wvAcc'.previous = WvNone /\ wvAcc'.violations = wvAcc.violations
          \/ GateAt(i) = "f" /\ wvAcc' = wvAcc
          \/ /\ GateAt(i) = "t" /\ Clear(i)
             /\ RestartAt(i) = "t" \/ wvAcc.previous = WvNone
             /\ wvAcc'.previous = wvSamples[i].value
             /\ wvAcc'.unknown = wvAcc.unknown /\ wvAcc'.violations = wvAcc.violations
          \/ /\ GateAt(i) = "t" /\ Clear(i)
             /\ RestartAt(i) = "f" /\ wvAcc.previous # WvNone
             /\ wvAcc'.previous = wvSamples[i].value
             /\ wvAcc'.unknown = wvAcc.unknown
             /\ wvAcc'.violations =
                  wvAcc.violations
                  + (IF Increment(wvAcc.previous, wvSamples[i].value) # wvAsk.target THEN 1 ELSE 0)
  BY SequenceMoves
<1>11. wvAcc'.violations > 0 =>
          \E j \in 1..wvI' : \E k \in 1..(j - 1) :
              /\ Beats(k, j) /\ Wrong(k, j)
              /\ wvSamples[k].value # WvNone /\ wvSamples[j].value # WvNone
  <2>1. CASE wvAcc.violations > 0
    BY <1>4, <1>5, <2>1
  <2>2. CASE wvAcc'.violations > 0 /\ ~(wvAcc.violations > 0)
    <3>1. /\ GateAt(i) = "t" /\ Clear(i) /\ RestartAt(i) = "f" /\ wvAcc.previous # WvNone
          /\ Increment(wvAcc.previous, wvSamples[i].value) # wvAsk.target
      BY <1>9, <1>10, <2>2
    <3>2. PICK k \in 1..wvI : LastBeat(k, wvI) /\ wvSamples[k].value = wvAcc.previous
      BY <1>5, <3>1
    <3>3. k \in 1..(i - 1) /\ i \in 1..wvI'
      BY <1>3, <1>4
    <3>4. Beats(k, i) /\ Wrong(k, i)
      BY <1>8, <3>1, <3>2 DEF Wrong
    <3>5. wvSamples[k].value # WvNone /\ wvSamples[i].value # WvNone
      BY <3>1, <3>2 DEF Clear
    <3> QED
      BY <3>3, <3>4, <3>5
  <2> QED
    BY <2>1, <2>2
<1>12. wvAcc'.unknown = {} => \A k \in 1..wvI' : Clear(k)
  <2>1. GateAt(i) = "f" => Clear(i)
    BY DEF Clear
  <2> QED
    BY <1>4, <1>5, <1>10, <2>1
<1>13. ASSUME wvAcc'.violations = 0, wvAcc'.unknown = {},
              NEW j \in 1..wvI', NEW k \in 1..(j - 1), Beats(k, j), Wrong(k, j)
       PROVE  FALSE
  <2>1. wvAcc.violations = 0 /\ wvAcc.unknown = {}
    BY <1>9, <1>10, <1>13
  <2>2. j = i
    BY <1>4, <1>5, <1>13, <2>1
  <2>3. GateAt(i) = "t" /\ RestartAt(i) = "f" /\ LastBeat(k, wvI) /\ GateAt(k) = "t"
    BY <1>8, <1>13, <2>2 DEF LastBeat
  <2>4. k \in 1..wvI
    BY <1>3, <2>2
  <2>5. wvAcc.previous # WvNone
    BY <1>5, <2>1, <2>3, <2>4
  <2>6. PICK m \in 1..wvI : LastBeat(m, wvI) /\ wvSamples[m].value = wvAcc.previous
    BY <1>5, <2>5
  <2>7. m = k
    BY <1>7, <2>3, <2>4, <2>6
  <2>8. Increment(wvAcc.previous, wvSamples[i].value) = wvAsk.target
    BY <1>9, <1>10, <1>13, <2>1, <2>3, <2>5
  <2> QED
    BY <1>13, <2>2, <2>6, <2>7, <2>8 DEF Wrong
<1>14. wvAcc'.previous # WvNone =>
          \E k \in 1..wvI' : LastBeat(k, wvI') /\ wvSamples[k].value = wvAcc'.previous
  <2>1. CASE GateAt(i) = "f" /\ wvAcc' = wvAcc
    <3>1. \A k \in 1..wvI : LastBeat(k, wvI) => LastBeat(k, wvI')
      BY <1>3, <2>1 DEF LastBeat
    <3> QED
      BY <1>4, <1>5, <2>1, <3>1
  <2>2. CASE GateAt(i) = "t" /\ wvAcc'.previous = wvSamples[i].value
    <3>1. LastBeat(i, wvI')
      BY <1>3, <2>2 DEF LastBeat
    <3> QED
      BY <1>4, <2>2, <3>1
  <2> QED
    BY <1>10, <2>1, <2>2
<1>15. (wvAcc'.previous = WvNone /\ wvAcc'.unknown = {}) => \A k \in 1..wvI' : GateAt(k) = "f"
  BY <1>4, <1>5, <1>10 DEF Clear
<1>16. SequenceInv'
  <2>1. wvAcc'.violations > 0 =>
          \E j \in 1..wvI' : \E k \in 1..(j - 1) :
              /\ Beats(k, j)' /\ Wrong(k, j)'
              /\ wvSamples'[k].value # WvNone /\ wvSamples'[j].value # WvNone
    BY <1>1, <1>6, <1>11
  <2>2. wvAcc'.unknown = {} => \A k \in 1..wvI' : Clear(k)'
    BY <1>6, <1>12
  <2>3. (wvAcc'.violations = 0 /\ wvAcc'.unknown = {}) =>
            \A j \in 1..wvI' : \A k \in 1..(j - 1) : ~(Beats(k, j)' /\ Wrong(k, j)')
    BY <1>6, <1>13
  <2>4. wvAcc'.previous # WvNone =>
          \E k \in 1..wvI' : LastBeat(k, wvI)' /\ wvSamples'[k].value = wvAcc'.previous
    <3>1. \A k : LastBeat(k, wvI)' <=> LastBeat(k, wvI')
      BY <1>1 DEF LastBeat, GateAt
    <3> QED
      BY <1>1, <1>14, <3>1
  <2>5. (wvAcc'.previous = WvNone /\ wvAcc'.unknown = {}) => \A k \in 1..wvI' : GateAt(k)' = "f"
    BY <1>6, <1>15
  <2> QED
    BY <2>1, <2>2, <2>3, <2>4, <2>5 DEF SequenceInv
<1> QED
  BY <1>1, <1>2, <1>9, <1>16, OtherModes DEF VerifyInv, VerifyType

LEMMA FinishVerifyKeeps == ASSUME VerifyInv, FinishVerify PROVE VerifyInv'
<1>1. wvI = Len(wvSamples) /\ wvResult' = Verdict /\ UNCHANGED <<wvAsk, wvSamples, wvI, wvAcc>>
  BY DEF FinishVerify, Verdict
<1>2. Verdict' = Verdict
  BY <1>1 DEF Verdict, Holds, Coverage, Mode
<1>3. VerifyType' /\ SimpleInv' /\ ImplicationInv' /\ SequenceInv'
  <2>1. VerifyType'
    BY <1>1 DEF VerifyInv, VerifyType
  <2>2. SimpleInv'
    BY <1>1 DEF VerifyInv, SimpleInv, Simple, Mode, GateAt
  <2>3. ImplicationInv'
    <3>1. \A k : Satisfied(k)' = Satisfied(k) /\ Unanswered(k)' = Unanswered(k)
      BY <1>1 DEF GateAt, ResponseAt, Satisfied, Unanswered, WindowEnd
    <3>2. ImplicationInv /\ Mode' = Mode
      BY <1>1 DEF VerifyInv, Mode
    <3> QED
      BY <1>1, <3>1, <3>2 DEF ImplicationInv
  <2>4. SequenceInv'
    <3>1. /\ \A k : Clear(k)' = Clear(k) /\ GateAt(k)' = GateAt(k)
          /\ \A j, k : Beats(k, j)' = Beats(k, j) /\ Wrong(k, j)' = Wrong(k, j)
          /\ \A k, end : LastBeat(k, end)' = LastBeat(k, end)
      BY <1>1 DEF Clear, Beats, Wrong, LastBeat, GateAt, RestartAt, Increment
    <3>2. SequenceInv /\ Mode' = Mode
      BY <1>1 DEF VerifyInv, Mode
    <3>3. \A k : LastBeat(k, wvI)' <=> LastBeat(k, wvI)
      BY <1>1 DEF LastBeat, GateAt
    <3> QED
      BY <1>1, <3>1, <3>2, <3>3 DEF SequenceInv
  <2> QED
    BY <2>1, <2>2, <2>3, <2>4
<1> QED
  BY <1>1, <1>2, <1>3 DEF VerifyInv, ResultInv

\* What a known trace has at a sample: what is known is kept.
LEMMA KnownFacts ==
    ASSUME VerifyType, NEW t \in KnownTraces, NEW i \in 1..Len(wvSamples)
    PROVE  /\ GateAt(i) = "t" => t[i].p
           /\ GateAt(i) = "f" => ~t[i].p
           /\ ResponseAt(i) = "t" => t[i].c
           /\ ResponseAt(i) = "f" => ~t[i].c
           /\ RestartAt(i) = "f" => ~t[i].restart
           /\ RestartAt(i) = "t" => t[i].restart
           /\ wvSamples[i].value # WvNone => t[i].value = wvSamples[i].value
<1> PICK yes \in SUBSET OpenTruths, num \in [OpenNumbers -> WvNumbers] :
        t = Known(yes, num)
  BY DEF KnownTraces
<1>1. i \in Nat /\ i <= Len(wvSamples) /\ Len(wvSamples) \in Nat /\ Followed \in Nat
  BY DEF VerifyType, Followed, WvAsks
<1>2. i \in 1..(Len(wvSamples) + Followed)
  BY <1>1
<1>3. /\ t[i].p = TruthAt(i, "p", yes) /\ t[i].c = TruthAt(i, "c", yes)
      /\ t[i].restart = TruthAt(i, "restart", yes)
      /\ t[i].value = IF i \in OpenNumbers THEN num[i] ELSE wvSamples[i].value
  BY <1>1, <1>2 DEF Known
<1>4. wvSamples[i] \in WvSamples
  BY <1>1 DEF VerifyType
<1>5. /\ wvSamples[i]["p"] = wvSamples[i].p /\ wvSamples[i]["c"] = wvSamples[i].c
      /\ wvSamples[i]["restart"] = wvSamples[i].restart
  BY <1>4 DEF WvSamples
<1>6. ASSUME NEW field \in {"p", "c", "restart"}
      PROVE  /\ EvalPredicate(wvSamples[i][field]) = "t" => TruthAt(i, field, yes)
             /\ EvalPredicate(wvSamples[i][field]) = "f" => ~TruthAt(i, field, yes)
  <2>1. EvalPredicate(wvSamples[i][field]) = "t" => TruthAt(i, field, yes)
    BY <1>1 DEF TruthAt
  <2>2. ASSUME <<i, field>> \in OpenTruths PROVE EvalPredicate(wvSamples[i][field]) = "u"
    BY <1>1, <2>2 DEF OpenTruths
  <2>3. EvalPredicate(wvSamples[i][field]) = "f" => ~TruthAt(i, field, yes)
    BY <2>2 DEF TruthAt
  <2> QED
    BY <2>1, <2>3
<1>7. wvSamples[i].value # WvNone => i \notin OpenNumbers
  BY DEF OpenNumbers
<1> QED
  BY <1>3, <1>5, <1>6, <1>7 DEF GateAt, ResponseAt, RestartAt

\* A count that is not positive is zero.
LEMMA VerdictFacts ==
    ASSUME VerifyInv, wvResult.status = "done"
    PROVE  /\ wvI = Len(wvSamples) /\ wvResult = Verdict
           /\ Coverage = "complete" => wvAcc.unknown = {} /\ wvAcc.open = 0
           /\ wvAcc.violations # 0 => wvAcc.violations > 0
           /\ wvAcc.same \in Nat /\ wvAcc.violations \in Nat /\ wvAcc.ants \in Nat
<1>1. wvAcc.violations \in Nat /\ wvAcc.open \in Nat /\ wvAcc.same \in Nat /\ wvAcc.ants \in Nat
  BY DEF VerifyInv, VerifyType, WvAccs
<1>2. wvI = Len(wvSamples) /\ wvResult = Verdict
  BY DEF VerifyInv, ResultInv
<1>3. Coverage = "complete" => wvAcc.unknown = {} /\ wvAcc.open = 0
  BY <1>1 DEF Coverage
<1> QED
  BY <1>1, <1>2, <1>3

LEMMA SimpleVerdict ==
    ASSUME VerifyInv, wvResult.status = "done", Simple, NEW t \in KnownTraces
    PROVE  /\ (IF Mode = "eventually" THEN Holds ELSE ~Holds) => Satisfies(t) = Holds
           /\ Coverage = "complete" => Satisfies(t) = Holds
<1>1. /\ wvAcc.unknown = {} => \A i \in 1..Len(wvSamples) : GateAt(i) # "u"
      /\ IF wvAcc.true = WvNone THEN \A i \in 1..Len(wvSamples) : GateAt(i) # "t"
         ELSE \E i \in 1..Len(wvSamples) : GateAt(i) = "t"
      /\ IF wvAcc.false = WvNone THEN \A i \in 1..Len(wvSamples) : GateAt(i) # "f"
         ELSE \E i \in 1..Len(wvSamples) : GateAt(i) = "f"
  BY VerdictFacts DEF VerifyInv, SimpleInv
<1>2. \A i \in 1..Len(wvSamples) :
         /\ GateAt(i) \in WvTruth
         /\ GateAt(i) = "t" => t[i].p
         /\ GateAt(i) = "f" => ~t[i].p
  BY KnownFacts, Evaluated DEF VerifyInv, GateAt
<1>3. Satisfies(t) \in BOOLEAN /\ Holds \in BOOLEAN
  BY DEF Satisfies, Holds, Simple
<1>4. CASE Mode = "always"
  <2>1. Holds <=> wvAcc.false = WvNone
    BY <1>4 DEF Holds
  <2>2. Satisfies(t) <=> \A i \in 1..Len(wvSamples) : t[i].p
    BY <1>4 DEF Satisfies
  <2>3. ~Holds => ~Satisfies(t)
    BY <1>1, <1>2, <2>1, <2>2
  <2>4. Coverage = "complete" /\ Holds => Satisfies(t)
    BY <1>1, <1>2, <2>1, <2>2, VerdictFacts DEF WvTruth
  <2> QED
    BY <1>3, <1>4, <2>3, <2>4
<1>5. CASE Mode = "never"
  <2>1. Holds <=> wvAcc.true = WvNone
    BY <1>5 DEF Holds
  <2>2. Satisfies(t) <=> \A i \in 1..Len(wvSamples) : ~t[i].p
    BY <1>5 DEF Satisfies
  <2>3. ~Holds => ~Satisfies(t)
    BY <1>1, <1>2, <2>1, <2>2
  <2>4. Coverage = "complete" /\ Holds => Satisfies(t)
    BY <1>1, <1>2, <2>1, <2>2, VerdictFacts DEF WvTruth
  <2> QED
    BY <1>3, <1>5, <2>3, <2>4
<1>6. CASE Mode = "eventually"
  <2>1. Holds <=> wvAcc.true # WvNone
    BY <1>6 DEF Holds
  <2>2. Satisfies(t) <=> \E i \in 1..Len(wvSamples) : t[i].p
    BY <1>6 DEF Satisfies
  <2>3. Holds => Satisfies(t)
    BY <1>1, <1>2, <2>1, <2>2
  <2>4. Coverage = "complete" /\ ~Holds => ~Satisfies(t)
    BY <1>1, <1>2, <2>1, <2>2, VerdictFacts DEF WvTruth
  <2> QED
    BY <1>3, <1>6, <2>3, <2>4
<1> QED
  BY <1>4, <1>5, <1>6 DEF Simple

LEMMA ImplicationVerdict ==
    ASSUME VerifyInv, wvResult.status = "done", Mode = "implication", NEW t \in KnownTraces
    PROVE  /\ ~Holds => ~Satisfies(t)
           /\ Coverage = "complete" => Satisfies(t) = Holds
<1>1. /\ ~Holds => \E i \in 1..Len(wvSamples) : Unanswered(i)
      /\ Coverage = "complete" /\ Holds => \A i \in 1..Len(wvSamples) : Satisfied(i)
  BY VerdictFacts DEF VerifyInv, ImplicationInv, Holds
<1>2. Satisfies(t) <=> \A i \in 1..Len(wvSamples) : t[i].p => \E j \in Window(i) : t[j].c
  BY DEF Satisfies, Window
<1>3. \A i \in 1..Len(wvSamples) :
         /\ GateAt(i) = "t" => t[i].p
         /\ GateAt(i) = "f" => ~t[i].p
         /\ ResponseAt(i) = "t" => t[i].c
         /\ ResponseAt(i) = "f" => ~t[i].c
  BY KnownFacts DEF VerifyInv
<1>4. ASSUME NEW i \in 1..Len(wvSamples), NEW j \in Window(i), j <= Len(wvSamples)
      PROVE  j \in 1..Len(wvSamples)
  <2>1. i \in Nat /\ Len(wvSamples) \in Nat
    BY DEF VerifyInv, VerifyType
  <2>2. WindowEnd(i) \in Nat
    BY <2>1 DEF VerifyInv, VerifyType, WindowEnd, WvAsks
  <2> QED
    BY <1>4, <2>1, <2>2 DEF Window
<1>5. ASSUME NEW i \in 1..Len(wvSamples), Unanswered(i) PROVE ~Satisfies(t)
  <2>1. GateAt(i) = "t" /\ WindowEnd(i) <= Len(wvSamples) /\ \A j \in Window(i) : ResponseAt(j) = "f"
    BY <1>5 DEF Unanswered, Window
  <2>2. \A j \in Window(i) : j <= Len(wvSamples)
    <3>1. i \in Nat /\ Len(wvSamples) \in Nat
      BY DEF VerifyInv, VerifyType
    <3>2. WindowEnd(i) \in Nat
      BY <3>1 DEF VerifyInv, VerifyType, WindowEnd, WvAsks
    <3> QED
      BY <2>1, <3>1, <3>2 DEF Window
  <2>3. t[i].p /\ \A j \in Window(i) : ~t[j].c
    BY <1>3, <1>4, <2>1, <2>2
  <2> QED
    BY <1>2, <2>3
<1>6. ASSUME \A i \in 1..Len(wvSamples) : Satisfied(i) PROVE Satisfies(t)
  <2>1. ASSUME NEW i \in 1..Len(wvSamples), t[i].p PROVE \E j \in Window(i) : t[j].c
    <3>1. \E j \in Window(i) : j <= Len(wvSamples) /\ ResponseAt(j) = "t"
      BY <1>3, <1>6, <2>1 DEF Satisfied, Window
    <3> QED
      BY <1>3, <1>4, <3>1
  <2> QED
    BY <1>2, <2>1
<1>7. Satisfies(t) \in BOOLEAN /\ Holds \in BOOLEAN
  BY DEF Satisfies, Holds
<1> QED
  BY <1>1, <1>5, <1>6, <1>7

LEMMA SequenceVerdict ==
    ASSUME VerifyInv, wvResult.status = "done", Mode = "sequence", NEW t \in KnownTraces
    PROVE  /\ ~Holds => ~Satisfies(t)
           /\ Coverage = "complete" => Satisfies(t) = Holds
<1> PICK n \in Nat : n = Len(wvSamples)
  BY DEF VerifyInv, VerifyType
<1>1. /\ ~Holds =>
            \E j \in 1..n : \E i \in 1..(j - 1) :
                /\ Beats(i, j) /\ Wrong(i, j)
                /\ wvSamples[i].value # WvNone /\ wvSamples[j].value # WvNone
      /\ Coverage = "complete" => \A i \in 1..n : Clear(i)
      /\ Coverage = "complete" /\ Holds =>
            \A j \in 1..n : \A i \in 1..(j - 1) : ~(Beats(i, j) /\ Wrong(i, j))
  BY VerdictFacts DEF VerifyInv, SequenceInv, Holds
<1>2. Satisfies(t) <=>
         \A j \in 1..n : \A i \in 1..(j - 1) :
             /\ t[i].p /\ t[j].p /\ ~t[j].restart
             /\ \A k \in (i + 1)..(j - 1) : ~t[k].p
             => Increment(t[i].value, t[j].value) = wvAsk.target
  BY DEF Satisfies
<1>3. \A i \in 1..n :
         /\ GateAt(i) \in WvTruth /\ RestartAt(i) \in WvTruth
         /\ GateAt(i) = "t" => t[i].p
         /\ GateAt(i) = "f" => ~t[i].p
         /\ RestartAt(i) = "f" => ~t[i].restart
         /\ RestartAt(i) = "t" => t[i].restart
         /\ wvSamples[i].value # WvNone => t[i].value = wvSamples[i].value
  BY KnownFacts, Evaluated DEF VerifyInv, GateAt, RestartAt
<1>4. ASSUME NEW j \in 1..n, NEW i \in 1..(j - 1)
      PROVE  i \in 1..n /\ \A k \in (i + 1)..(j - 1) : k \in 1..n
  OBVIOUS
<1>5. ASSUME NEW j \in 1..n, NEW i \in 1..(j - 1), Beats(i, j), Wrong(i, j),
             wvSamples[i].value # WvNone, wvSamples[j].value # WvNone
      PROVE  ~Satisfies(t)
  <2>1. GateAt(i) = "t" /\ GateAt(j) = "t" /\ RestartAt(j) = "f"
        /\ \A k \in (i + 1)..(j - 1) : GateAt(k) = "f"
    BY <1>5 DEF Beats, LastBeat
  <2>2. t[i].p /\ t[j].p /\ ~t[j].restart /\ \A k \in (i + 1)..(j - 1) : ~t[k].p
    BY <1>3, <1>4, <2>1
  <2>3. Increment(t[i].value, t[j].value) # wvAsk.target
    BY <1>3, <1>4, <1>5 DEF Wrong
  <2> QED
    BY <1>2, <2>2, <2>3
<1>6. ASSUME \A i \in 1..n : Clear(i),
             \A j \in 1..n : \A i \in 1..(j - 1) : ~(Beats(i, j) /\ Wrong(i, j))
      PROVE  Satisfies(t)
  <2>1. ASSUME NEW j \in 1..n, NEW i \in 1..(j - 1), t[i].p, t[j].p, ~t[j].restart,
               \A k \in (i + 1)..(j - 1) : ~t[k].p
        PROVE  Increment(t[i].value, t[j].value) = wvAsk.target
    <3>1. GateAt(i) = "t" /\ GateAt(j) = "t"
      BY <1>3, <1>4, <1>6, <2>1 DEF Clear, WvTruth
    <3>2. RestartAt(j) = "f"
      BY <1>3, <1>6, <2>1, <3>1 DEF Clear, WvTruth
    <3>3. \A k \in (i + 1)..(j - 1) : GateAt(k) = "f"
      BY <1>3, <1>4, <1>6, <2>1 DEF Clear, WvTruth
    <3>4. Beats(i, j)
      BY <3>1, <3>2, <3>3 DEF Beats, LastBeat
    <3>5. t[i].value = wvSamples[i].value /\ t[j].value = wvSamples[j].value
      BY <1>3, <1>4, <1>6, <3>1 DEF Clear
    <3> QED
      BY <1>6, <3>4, <3>5 DEF Wrong
  <2> QED
    BY <1>2, <2>1
<1>7. Satisfies(t) \in BOOLEAN /\ Holds \in BOOLEAN
  BY DEF Satisfies, Holds
<1> QED
  BY <1>1, <1>5, <1>6, <1>7

LEMMA VerdictSound == VerifyInv => VerdictTrue
<1> SUFFICES ASSUME VerifyInv, wvResult.status = "done", wvSamples # <<>> PROVE VerdictTrue
  BY DEF VerdictTrue
<1>1. Holds \in BOOLEAN /\ Mode \in WvModes
  BY DEF Holds, Mode, VerifyInv, VerifyType, WvAsks, WvModes
<1>2. /\ wvResult.holds = Holds /\ wvResult.coverage = Coverage
      /\ wvResult.vacuous => Mode = "implication" /\ wvAcc.same = wvAcc.ants
  BY <1>1, VerdictFacts DEF Verdict
<1>3. ASSUME NEW t \in KnownTraces
      PROVE  /\ (IF Mode = "eventually" THEN Holds ELSE ~Holds) => Satisfies(t) = Holds
             /\ Coverage = "complete" => Satisfies(t) = Holds
  <2>1. CASE Simple
    BY <2>1, SimpleVerdict
  <2>2. CASE Mode = "implication"
    <3>1. Satisfies(t) \in BOOLEAN
      BY <2>2 DEF Satisfies
    <3> QED
      BY <1>1, <2>2, <3>1, ImplicationVerdict
  <2>3. CASE Mode = "sequence"
    <3>1. Satisfies(t) \in BOOLEAN
      BY <2>3 DEF Satisfies
    <3> QED
      BY <1>1, <2>3, <3>1, SequenceVerdict
  <2> QED
    BY <1>1, <2>1, <2>2, <2>3 DEF Simple, WvModes
<1>4. wvResult.vacuous => Holds
  <2>1. Mode = "implication" => wvAcc.same + wvAcc.violations <= wvAcc.ants
    BY DEF VerifyInv, ImplicationInv
  <2> QED
    BY <1>2, <2>1, VerdictFacts DEF Holds
<1> QED
  BY <1>2, <1>3, <1>4 DEF VerdictTrue

LEMMA VerifyKeeps == VerifyInv /\ [VerifyNext]_verifyVars => VerifyInv'
<1> SUFFICES ASSUME VerifyInv, [VerifyNext]_verifyVars PROVE VerifyInv'
  OBVIOUS
<1>1. CASE UNCHANGED verifyVars
  <2>1. UNCHANGED <<wvAsk, wvSamples, wvI, wvAcc, wvResult>>
    BY <1>1 DEF verifyVars
  <2>2. Verdict' = Verdict
    BY <2>1 DEF Verdict, Holds, Coverage, Mode
  <2>3. VerifyType' /\ SimpleInv' /\ ImplicationInv' /\ SequenceInv'
    BY <2>1, SMTT(30) DEF VerifyInv, VerifyType, SimpleInv, ImplicationInv, SequenceInv, Simple, Mode, GateAt,
       ResponseAt, RestartAt, Satisfied, Unanswered, WindowEnd, Clear, LastBeat, Beats, Wrong, Increment
  <2> QED
    BY <2>1, <2>2, <2>3 DEF VerifyInv, ResultInv
<1> QED
  BY <1>1, EvalSimpleKeeps, EvalImplicationKeeps, EvalSequenceKeeps, FinishVerifyKeeps DEF VerifyNext

\* A verdict of verify_window that a sample decides holds whatever the unknown
\* samples, and what followed the window, were; with complete coverage so does the
\* opposite; and an implication called vacuous holds.
THEOREM VerdictsAreTrue == VerifySpec => []VerdictTrue
<1>1. VerifySpec => []VerifyInv
  BY VerifyStarts, VerifyKeeps, PTL DEF VerifySpec
<1> QED
  BY <1>1, VerdictSound, PTL

(***************************************************************************)
(* EventCompare                                                            *)
(*                                                                         *)
(* A cursor has a place in the whole recording, its first unread row: the  *)
(* page is a window onto the rows around it, whatever the page size        *)
(* (Placed).  The value of a side is that of the row before the place       *)
(* (Folded), the instants compared so far are settled by agreement or by   *)
(* a gap (PastInv), and what is unread lies at the instant or after it.    *)
(***************************************************************************)
EvRowsOf(s) == evWave[s].rows
EvCursors ==
    [reader : [index : Nat \ {0}, first : {FALSE}],
     page : [events : Seq(EvRow), predecessor : {"0", "1", "W", "x", "?", EvNone}, next : Int,
             complete : BOOLEAN, truncated : BOOLEAN],
     pos : Nat \ {0}]
EvValues == {"0", "1", "W", "x", EvNone}

\* The first row that a cursor has not taken.
UnreadOf(c) == c.reader.index - (Len(c.page.events) + 1 - c.pos)
Unread(s) == UnreadOf(evCursor[s])

NoneHuge(s) == \A i \in DOMAIN EvRowsOf(s) : ~EvHuge(EvRowsOf(s)[i].v)

\* The page holds the rows before the reader, up to the last one of the window; it
\* is cut short only where a record does not fit on any page.
PageOn(c, rows, first, limit, fits) ==
    LET n == Len(c.page.events)
    IN  /\ c \in EvCursors /\ c.pos <= n + 1
        /\ first <= UnreadOf(c) /\ n < c.reader.index /\ c.reader.index <= limit
        /\ \A k \in 1..n : c.page.events[k] = rows[c.reader.index - 1 - n + k]
        /\ c.page.next = IF c.reader.index = limit THEN NoTime ELSE rows[c.reader.index].t
        /\ c.page.complete <=> c.reader.index = limit
        /\ fits => ~c.page.truncated
Placed(s) == PageOn(evCursor[s], EvRowsOf(s), EvFirstRow(s), EvRowLimit(s), NoneHuge(s))

\* What has been taken, and is left, as of an instant.
LastTaken(rows, unread) == IF unread = 1 THEN EvNone ELSE EvBits(rows[unread - 1].v)
SplitAt(rows, unread, at) ==
    \A i \in DOMAIN rows : IF i < unread THEN rows[i].t <= at ELSE rows[i].t >= at
Folded(s) ==
    /\ evValue[s] = LastTaken(EvRowsOf(s), Unread(s))
    /\ SplitAt(EvRowsOf(s), Unread(s), evAt)

\* A predecessor too large for a page: nothing can be read.
NothingRead(c, from) ==
    /\ c.page.events = <<>> /\ c.pos = 1 /\ c.page.next \in Nat /\ c.page.next < from
CutOff(s) == NothingRead(evCursor[s], EvFrom) /\ ~NoneHuge(s) /\ evAt = EvFrom

AllLater(rows, unread, at) == \A i \in DOMAIN rows : i >= unread => rows[i].t > at
FirstRead(s) == evPc \in {"fold", "compare"} \/ (evPc = "first" /\ evSide = "b" /\ s = "a")
InstantTaken(s) == evPc = "compare" \/ (evPc = "fold" /\ evSide = "b" /\ s = "a")

CursorInv ==
    \A s \in EvSides :
        /\ FirstRead(s) => \/ Placed(s) /\ Folded(s)
                           \/ CutOff(s) /\ ~InstantTaken(s)
        /\ InstantTaken(s) => AllLater(EvRowsOf(s), Unread(s), evAt)

EvResults ==
    [status : {"inconclusive", "equal", "different"}, fs : Int, ps : Int, proven : BOOLEAN,
     coverage : {"none", "partial", "complete"}]
EventType ==
    /\ evWave \in [EvSides -> EvRecordings] /\ evAsk \in EvRequests
    /\ evGen \in [EvSides -> {0, 1}] /\ evOpened \in [EvSides -> {0, 1}]
    /\ evPc \in {"open", "first", "fold", "compare", "check", "failed", "done"}
    /\ evSide \in EvSides /\ evAt \in Nat /\ evExamined \in BOOLEAN
    /\ DOMAIN evCursor = EvSides /\ evValue \in [EvSides -> EvValues]
    /\ \A g \in evGaps : g.at \in Int
    /\ evResult \in EvResults

Comparing == evPc \in {"first", "fold", "compare"}

\* A comparison under way is of ordered recordings, at an instant of the window.
WindowInv ==
    /\ \A s \in EvSides : evGen[s] = 0 => evOpened[s] = 0
    /\ Comparing => /\ \A s \in EvSides : EvOrdered(EvRowsOf(s))
                    /\ EvFrom <= evAt /\ evAt <= EvStop /\ evResult = EvNoAnswer
    /\ evPc \in {"open", "first"} => evAt = EvFrom
    /\ evPc \in {"open", "compare"} => evSide = "a"
    /\ evPc = "open" => evGaps = {} /\ ~evExamined /\ evResult = EvNoAnswer
    /\ Comparing => \A g \in evGaps :
                        g.why \in {"value_unavailable", "value_unknown"} => g.at <= evAt
    /\ evPc \in {"first", "fold", "compare", "check"} => EvRangeGaps \subseteq evGaps

\* The instants before evAt: no difference, and agreement where no gap came before.
PastInv ==
    Comparing =>
        \A t \in EvFrom..(evAt - 1) :
            ~EvDisagree(t) /\ (EvAgree(t) \/ \E g \in evGaps : g.at <= t)

CheckInv ==
    evPc = "check" =>
        /\ evResult.status # "equal"
        /\ (evResult.status = "inconclusive" /\ evExamined /\ evGaps = {}) =>
               \A t \in EvFrom..EvStop : EvAgree(t)
        /\ evResult.status = "different" =>
               /\ evResult.fs \in EvFrom..EvStop /\ EvDisagree(evResult.fs)
               /\ \A t \in EvFrom..(evResult.fs - 1) :
                     ~EvDisagree(t) /\ (evResult.proven => EvAgree(t))

\* Nothing is in the way: what ComparisonDecides asks of the recordings.
Decidable ==
    /\ \A s \in EvSides : evGen[s] = 0 /\ evWave[s].end # NoTime
    /\ evWave["a"].width = evWave["b"].width
    /\ EvFrom <= EvStop /\ EvStop = EvRequestedStop
    /\ \A s \in EvSides : /\ EvOrdered(EvRowsOf(s)) /\ NoneHuge(s)
                          /\ \A t \in EvFrom..EvStop : EvKnown(EvValueAt(s, t))
DecideInv ==
    Decidable => /\ evPc # "failed" /\ evGaps = {}
                 /\ evPc = "check" => /\ evExamined
                                      /\ evResult.status = "different" => evResult.proven

EventInv ==
    EventType /\ WindowInv /\ CursorInv /\ PastInv /\ CheckInv /\ DecideInv /\ ComparisonTrue

\* A set of naturals up to a bound has a greatest element.
LEMMA GreatestBelow ==
    ASSUME NEW n \in Nat, NEW I \in SUBSET (0 .. n), I # {}
    PROVE  Max(I) \in I /\ \A j \in I : Max(I) >= j
<1> PICK J : J = I \cap (1 .. n)
  OBVIOUS
<1>1. CASE J = {}
  <2>1. \A j \in I : j = 0
    BY <1>1
  <2>2. 0 \in I
    BY <2>1
  <2>3. \A x \in I : \A y \in I : x >= y
    BY <2>1
  <2> QED
    BY <2>2, <2>3 DEF Max
<1>2. CASE J # {}
  <2>1. J \in SUBSET (1 .. n)
    OBVIOUS
  <2>2. Max(J) \in J /\ \A j \in J : Max(J) >= j
    BY <1>2, <2>1, LastPosition
  <2> PICK m : m = Max(J)
    OBVIOUS
  <2>3. m \in 1 .. n /\ m \in I
    BY <2>2
  <2>4. ASSUME NEW j \in I PROVE m >= j
    BY <2>2, <2>3
  <2>5. \E x \in I : \A y \in I : x >= y
    BY <2>3, <2>4
  <2> QED
    BY <2>5 DEF Max
<1> QED
  BY <1>1, <1>2

\* A later row of an ordered recording has no earlier time.
LEMMA OrderedRows ==
    ASSUME NEW rows \in Seq(EvRow), EvOrdered(rows), NEW i \in DOMAIN rows, NEW j \in DOMAIN rows,
           i <= j
    PROVE  rows[i].t <= rows[j].t
<1> PICK n \in Nat : n = Len(rows) /\ DOMAIN rows = 1 .. n
  OBVIOUS
<1>1. \A k \in 1 .. n : rows[k].t \in Nat
  <2>1. \A k \in 1 .. n : rows[k] \in EvRow
    OBVIOUS
  <2>2. \A row \in EvRow : row.t \in Nat
    BY DEF EvRow
  <2> QED
    BY <2>1, <2>2
<1>2. \A k \in 1 .. (n - 1) : rows[k].t <= rows[k + 1].t
  BY DEF EvOrdered
<1> SUFFICES ASSUME rows[j].t < rows[i].t PROVE FALSE
  BY <1>1
<1> DEFINE S == {k \in Nat : i + k \in 1 .. n /\ rows[i + k].t < rows[i].t}
<1>3. j - i \in S
  <2>1. j - i \in Nat /\ i + (j - i) = j
    OBVIOUS
  <2> QED
    BY <2>1
<1>4. Min(S) \in S /\ \A k \in S : Min(S) <= k
  <2>1. S \in SUBSET Nat /\ S # {}
    BY <1>3
  <2> HIDE DEF S
  <2> QED
    BY <2>1, LeastIn
<1> PICK m \in Nat : m \in S /\ \A k \in S : m <= k
  BY <1>4
<1>5. m # 0
  <2>1. i + 0 = i
    OBVIOUS
  <2> QED
    BY <1>1, <2>1
<1>6. m - 1 \in Nat /\ i + (m - 1) \in 1 .. (n - 1) /\ (i + (m - 1)) + 1 = i + m
  BY <1>5
<1>7. m - 1 \in S
  <2>1. rows[i + (m - 1)].t <= rows[i + m].t
    BY <1>2, <1>6
  <2>2. rows[i + m].t < rows[i].t
    OBVIOUS
  <2> QED
    BY <1>1, <1>6, <2>1, <2>2
<1>8. m <= m - 1
  BY <1>7
<1> QED
  BY <1>8

\* Positions closed under going back are the first so many.
LEMMA PrefixCount ==
    ASSUME NEW n \in Nat, NEW I \in SUBSET (1 .. n), \A i \in I : \A j \in 1 .. i : j \in I
    PROVE  Cardinality(I) \in 0 .. n /\ I = 1 .. Cardinality(I)
<1>1. CASE I = {}
  BY <1>1, FS_EmptySet
<1>2. CASE I # {}
  <2>1. Max(I) \in I /\ \A j \in I : Max(I) >= j
    BY <1>2, LastPosition
  <2> PICK m \in 1 .. n : m = Max(I)
    BY <2>1
  <2>2. I \subseteq 1 .. m /\ 1 .. m \subseteq I
    BY <2>1
  <2>4. I = 1 .. m
    BY <2>2
  <2>3. Cardinality(1 .. m) = m
    BY FS_Interval
  <2> QED
    BY <2>3, <2>4
<1> QED
  BY <1>1, <1>2

\* The parts of a request and of a recording.
LEMMA WaveFacts ==
    ASSUME EventType, NEW s \in EvSides
    PROVE  /\ EvRowsOf(s) \in Seq(EvRow) /\ evWave[s].rows = EvRowsOf(s)
           /\ evWave[s].end \in Nat \cup {NoTime}
           /\ EvFrom \in Nat /\ evAsk.end * FsPerPs \in Int
           /\ evAsk.end \in Nat \cup {-1}
           /\ evAsk.maxEvents \in Nat \ {0} /\ evAsk.maxBytes \in Nat \ {0}
           /\ \A i \in DOMAIN EvRowsOf(s) :
                  /\ EvRowsOf(s)[i].t \in Nat /\ EvRowsOf(s)[i].v \in {"0", "1", "W", "x", "?"}
                  /\ EvRowsOf(s)[i] \in EvRow
<1>1. evWave[s] \in EvRecordings
  BY DEF EventType
<1>2. evWave[s].rows \in Seq(EvRow) /\ evWave[s].end \in Nat \cup {NoTime}
  BY <1>1 DEF EvRecordings
<1>3. /\ evAsk.start \in Nat /\ evAsk.end \in Nat \cup {-1}
      /\ evAsk.maxEvents \in Nat \ {0} /\ evAsk.maxBytes \in Nat \ {0}
  BY DEF EventType, EvRequests
<1>4. EvFrom \in Nat /\ evAsk.end * FsPerPs \in Int
  <2>1. \A m \in Nat, n \in Nat : m * n \in Nat
    OBVIOUS
  <2>2. \A m \in Int, n \in Int : m * n \in Int
    OBVIOUS
  <2> QED
    BY <1>3, <2>1, <2>2, FsPerPsAssumption DEF EvFrom
<1>5. \A i \in DOMAIN EvRowsOf(s) : EvRowsOf(s)[i] \in EvRow
  BY <1>2 DEF EvRowsOf
<1>6. \A row \in EvRow : row.t \in Nat /\ row.v \in {"0", "1", "W", "x", "?"}
  BY DEF EvRow
<1> QED
  BY <1>2, <1>3, <1>4, <1>5, <1>6 DEF EvRowsOf

\* The window ends no later than either recording, or than the request.
LEMMA StopFacts ==
    ASSUME EventType
    PROVE  /\ EvStop \in Int
           /\ \A s \in EvSides : evWave[s].end # NoTime => EvStop <= evWave[s].end
           /\ evAsk.end >= 0 => EvStop <= evAsk.end * FsPerPs
           /\ EvFrom <= EvStop => \E s \in EvSides : evWave[s].end # NoTime
<1> PICK a, b : a = evWave["a"].end /\ b = evWave["b"].end
  OBVIOUS
<1>1. a \in Nat \cup {NoTime} /\ b \in Nat \cup {NoTime} /\ NoTime = -1
  BY WaveFacts DEF EvSides, NoTime
<1>2. EvEnds = {a, b} \ {NoTime}
  BY DEF EvEnds, EvSides
<1>3. EvFrom \in Nat /\ evAsk.end * FsPerPs \in Int /\ evAsk.end \in Nat \cup {-1}
  BY WaveFacts DEF EvSides
<1> PICK recorded : recorded = IF EvEnds = {} THEN EvFrom - 1 ELSE Min(EvEnds)
  OBVIOUS
<1>4. /\ recorded \in Int /\ (a # NoTime => recorded <= a) /\ (b # NoTime => recorded <= b)
      /\ a = NoTime /\ b = NoTime => recorded < EvFrom
  <2>1. CASE EvEnds = {}
    <3>1. recorded = EvFrom - 1 /\ a = NoTime /\ b = NoTime
      BY <1>2, <2>1
    <3> QED
      BY <1>3, <3>1
  <2>2. CASE EvEnds # {}
    <3>1. \E x \in EvEnds : \A y \in EvEnds : x <= y
      BY <1>1, <1>2, <2>2
    <3>2. Min(EvEnds) \in EvEnds /\ \A y \in EvEnds : Min(EvEnds) <= y
      BY <3>1 DEF Min
    <3>3. recorded \in EvEnds /\ \A y \in EvEnds : recorded <= y
      BY <2>2, <3>2
    <3>4. a # NoTime => a \in EvEnds
      BY <1>2
    <3>5. b # NoTime => b \in EvEnds
      BY <1>2
    <3>6. EvEnds \subseteq Int /\ (a # NoTime \/ b # NoTime)
      BY <1>1, <1>2, <2>2
    <3> QED
      BY <3>3, <3>4, <3>5, <3>6
  <2> QED
    BY <2>1, <2>2
<1> PICK asked \in Int : asked = evAsk.end * FsPerPs
  BY <1>3
<1>5. Min({recorded, asked}) = IF recorded <= asked THEN recorded ELSE asked
  <2>1. \A x \in {recorded, asked} : (\A y \in {recorded, asked} : x <= y)
            <=> x = IF recorded <= asked THEN recorded ELSE asked
    BY <1>4
  <2>2. \E x \in {recorded, asked} : \A y \in {recorded, asked} : x <= y
    BY <1>4
  <2> QED
    BY <2>1, <2>2 DEF Min
<1>6. EvStop = IF evAsk.end >= 0 THEN Min({recorded, asked}) ELSE recorded
  BY DEF EvStop
<1> HIDE DEF EvSides
<1>7. /\ EvStop \in Int /\ EvStop <= recorded
      /\ evAsk.end >= 0 => EvStop <= asked
  BY <1>3, <1>4, <1>5, <1>6
<1>8. \A s \in EvSides : s = "a" \/ s = "b"
  BY DEF EvSides
<1>9. (a # NoTime => EvStop <= a) /\ (b # NoTime => EvStop <= b)
  BY <1>1, <1>4, <1>7
<1>10. EvFrom <= EvStop => a # NoTime \/ b # NoTime
  BY <1>3, <1>4, <1>7
<1> QED
  BY <1>7, <1>8, <1>9, <1>10 DEF EvSides

\* No gap of range is noted just when both have recorded what was asked for.
LEMMA RangeFacts ==
    ASSUME EventType, \A s \in EvSides : evWave[s].end # NoTime
    PROVE  EvRangeGaps = {} <=> EvStop = EvRequestedStop
<1> PICK a, b : a = evWave["a"].end /\ b = evWave["b"].end
  OBVIOUS
<1>1. a \in Nat /\ b \in Nat
  BY WaveFacts DEF EvSides
<1>2. EvEnds = {a, b}
  BY DEF EvEnds, EvSides
<1>3. EvFrom \in Nat /\ evAsk.end * FsPerPs \in Int /\ evAsk.end \in Nat \cup {-1}
  BY WaveFacts DEF EvSides
<1> PICK stop \in Int : stop = EvStop
  BY StopFacts
<1> PICK asked \in Int : asked = evAsk.end * FsPerPs
  BY <1>3
<1>4. \A x, y \in Int : /\ Min({x, y}) = IF x <= y THEN x ELSE y
                        /\ Max({x, y}) = IF x >= y THEN x ELSE y
  <2> SUFFICES ASSUME NEW x \in Int, NEW y \in Int
               PROVE  /\ Min({x, y}) = IF x <= y THEN x ELSE y
                      /\ Max({x, y}) = IF x >= y THEN x ELSE y
    OBVIOUS
  <2>1. \A z \in {x, y} : (\A w \in {x, y} : z <= w) <=> z = IF x <= y THEN x ELSE y
    OBVIOUS
  <2>2. \A z \in {x, y} : (\A w \in {x, y} : z >= w) <=> z = IF x >= y THEN x ELSE y
    OBVIOUS
  <2> QED
    BY <2>1, <2>2 DEF Min, Max
<1>5. EvEnds # {}
  BY <1>2
<1>6. stop = IF evAsk.end >= 0 /\ asked <= Min({a, b}) THEN asked ELSE Min({a, b})
  <2>1. Min({a, b}) \in Int
    BY <1>1, <1>4
  <2>2. Min({Min({a, b}), asked}) = IF Min({a, b}) <= asked THEN Min({a, b}) ELSE asked
    BY <1>4, <2>1
  <2>3. stop = IF evAsk.end >= 0 THEN Min({Min({a, b}), asked}) ELSE Min({a, b})
    BY <1>2, <1>5 DEF EvStop
  <2> QED
    BY <2>1, <2>2, <2>3
<1> PICK want : want = EvRequestedStop
  OBVIOUS
<1>7. want = IF evAsk.end >= 0 THEN asked ELSE Max({a, b})
  BY <1>2, <1>5 DEF EvRequestedStop
<1>8. want \in Int
  BY <1>1, <1>4, <1>7
<1>9. EvRangeGaps = {} <=> want <= a /\ want <= b
  <2>1. EvRangeGaps = {} <=> \A s \in EvSides : ~(EvRequestedStop > evWave[s].end)
    BY DEF EvRangeGaps
  <2>2. EvRangeGaps = {} <=> ~(want > a) /\ ~(want > b)
    BY <2>1 DEF EvSides
  <2> QED
    BY <1>1, <1>8, <2>2
<1>10. want <= a /\ want <= b <=> stop = want
  BY <1>1, <1>3, <1>4, <1>6, <1>7, <1>8
<1> QED
  BY <1>9, <1>10

\* The rows a reader serves are those of the window.
LEMMA RowsServed ==
    ASSUME EventType, NEW s \in EvSides, EvOrdered(EvRowsOf(s))
    PROVE  /\ EvFirstRow(s) \in 1 .. (Len(EvRowsOf(s)) + 1)
           /\ \A i \in DOMAIN EvRowsOf(s) : i < EvFirstRow(s) <=> EvRowsOf(s)[i].t < EvFrom
           /\ EvRowLimit(s) \in 1 .. (Len(EvRowsOf(s)) + 1)
           /\ \A i \in DOMAIN EvRowsOf(s) : i >= EvRowLimit(s) => EvRowsOf(s)[i].t > EvStop
           /\ EvFrom <= EvStop => EvFirstRow(s) <= EvRowLimit(s)
<1> PICK rows \in Seq(EvRow) : rows = EvRowsOf(s) /\ rows = evWave[s].rows
  BY WaveFacts
<1> PICK n \in Nat : n = Len(rows) /\ DOMAIN rows = 1 .. n
  OBVIOUS
<1> PICK from \in Nat : from = EvFrom
  BY WaveFacts
<1> PICK stop \in Int : stop = EvStop
  BY StopFacts
<1> PICK end : end = IF evAsk.end < 0 THEN evWave[s].end ELSE evAsk.end * FsPerPs
  OBVIOUS
<1>1. \A i \in 1 .. n : rows[i].t \in Nat
  BY WaveFacts
<1>2. \A i, j \in 1 .. n : i <= j => rows[i].t <= rows[j].t
  BY OrderedRows
<1>3. end \in Int /\ (end # NoTime => stop <= end)
  <2>1. evWave[s].end \in Int /\ evAsk.end \in Int /\ evAsk.end * FsPerPs \in Int
    BY WaveFacts DEF NoTime
  <2>2. /\ evWave[s].end # NoTime => stop <= evWave[s].end
        /\ evAsk.end >= 0 => stop <= evAsk.end * FsPerPs
    BY StopFacts
  <2> PICK asked \in Int : asked = evAsk.end * FsPerPs
    BY <2>1
  <2> QED
    BY <2>1, <2>2
<1> DEFINE Before == {i \in 1 .. n : rows[i].t < from}
           Upto == {i \in 1 .. n : end = NoTime \/ rows[i].t <= end}
<1>4. Cardinality(Before) \in 0 .. n /\ Before = 1 .. Cardinality(Before)
  <2>1. \A i \in Before : \A j \in 1 .. i : j \in Before
    BY <1>1, <1>2
  <2>2. Before \in SUBSET (1 .. n)
    OBVIOUS
  <2>3. n \in Nat
    OBVIOUS
  <2> HIDE DEF Before
  <2> QED
    BY ONLY <2>1, <2>2, <2>3, PrefixCount
<1>5. Cardinality(Upto) \in 0 .. n /\ Upto = 1 .. Cardinality(Upto)
  <2>1. \A i \in Upto : \A j \in 1 .. i : j \in Upto
    BY <1>1, <1>2, <1>3, SMTT(30)
  <2>2. Upto \in SUBSET (1 .. n)
    OBVIOUS
  <2>3. n \in Nat
    OBVIOUS
  <2> HIDE DEF Upto
  <2> QED
    BY ONLY <2>1, <2>2, <2>3, PrefixCount
<1> PICK b \in 0 .. n : b = Cardinality(Before)
  BY <1>4
<1> PICK u \in 0 .. n : u = Cardinality(Upto)
  BY <1>5
<1>6. EvFirstRow(s) = 1 + b
  BY DEF EvFirstRow
<1>7. EvRowLimit(s) = 1 + u
  BY DEF EvRowLimit
<1>8. \A i \in 1 .. n : i <= b <=> rows[i].t < from
  <2>1. Before = 1 .. b
    BY <1>4
  <2>2. \A i \in 1 .. n : i \in Before <=> rows[i].t < from
    OBVIOUS
  <2>3. b \in 0 .. n /\ n \in Nat
    OBVIOUS
  <2>4. \A i \in 1 .. n : i \in 1 .. b <=> i <= b
    BY ONLY <2>3
  <2> QED
    BY ONLY <2>1, <2>2, <2>4, Zenon
<1>9. \A i \in 1 .. n : i <= u <=> end = NoTime \/ rows[i].t <= end
  <2>1. Upto = 1 .. u
    BY <1>5
  <2>2. \A i \in 1 .. n : i \in Upto <=> end = NoTime \/ rows[i].t <= end
    OBVIOUS
  <2>3. u \in 0 .. n /\ n \in Nat
    OBVIOUS
  <2>4. \A i \in 1 .. n : i \in 1 .. u <=> i <= u
    BY ONLY <2>3
  <2> QED
    BY ONLY <2>1, <2>2, <2>4, Zenon
<1> HIDE DEF Before, Upto
<1>10. \A i \in 1 .. n : i >= 1 + u => rows[i].t > stop
  <2>1. u \in 0 .. n /\ n \in Nat /\ stop \in Int
    OBVIOUS
  <2> QED
    BY ONLY <1>1, <1>3, <1>9, <2>1
<1>11. from <= stop => b <= u
  <2> SUFFICES ASSUME from <= stop, b > u PROVE FALSE
    OBVIOUS
  <2>1. b \in 1 .. n /\ b >= 1 + u
    OBVIOUS
  <2>2. rows[b].t < from /\ rows[b].t > stop
    BY <1>8, <1>10, <2>1
  <2> QED
    BY <1>1, <2>1, <2>2
<1>12. \A i \in 1 .. n : i < 1 + b <=> i <= b
  OBVIOUS
<1> QED
  BY <1>6, <1>7, <1>8, <1>10, <1>11, <1>12

\* The bytes of one record.
LEMMA OneRecord ==
    ASSUME NEW i, NEW size \in {1, 2}
    PROVE  Cardinality({i} \X (1 .. size)) = size
<1>1. IsFiniteSet({i}) /\ Cardinality({i}) = 1
  BY FS_Singleton
<1>2. IsFiniteSet(1 .. size) /\ Cardinality(1 .. size) = size
  BY FS_Interval
<1>3. Cardinality({i} \X (1 .. size)) = 1 * size
  BY <1>1, <1>2, FS_Product
<1>4. 1 * size = size
  OBVIOUS
<1> QED
  BY <1>3, <1>4, Zenon

\* A page takes a run of the rows; at least one when that fits.
LEMMA FitsFacts ==
    ASSUME NEW rows \in Seq(EvRow), NEW index \in Nat \ {0}, NEW limit \in Nat, index <= limit,
           NEW events \in Int, NEW bytes \in Int
    PROVE  /\ EvFits(rows, index, limit, events, bytes) \in 0 .. (limit - index)
           /\ (index < limit /\ events >= 1 /\ EvRecordSize(rows[index].v) <= bytes) =>
                 EvFits(rows, index, limit, events, bytes) >= 1
<1> DEFINE Bytes(n) == UNION {{i} \X (1 .. EvRecordSize(rows[i].v)) : i \in index .. (index + n - 1)}
<1> DEFINE I == {n \in 0 .. (limit - index) : n <= events /\ Cardinality(Bytes(n)) <= bytes} \cup {0}
<1>1. EvFits(rows, index, limit, events, bytes) = Max(I)
  BY DEF EvFits
<1>2. Max(I) \in I /\ \A j \in I : Max(I) >= j
  <2>1. limit - index \in Nat /\ I \in SUBSET (0 .. (limit - index)) /\ I # {}
    OBVIOUS
  <2> HIDE DEF I
  <2> QED
    BY <2>1, GreatestBelow
<1>3. Max(I) \in 0 .. (limit - index)
  <2>1. I \subseteq 0 .. (limit - index)
    OBVIOUS
  <2> HIDE DEF I
  <2> QED
    BY <1>2, <2>1
<1>4. ASSUME index < limit, events >= 1, EvRecordSize(rows[index].v) <= bytes
      PROVE  Max(I) >= 1
  <2>1. index .. (index + 1 - 1) = {index}
    OBVIOUS
  <2> PICK size : size = EvRecordSize(rows[index].v)
    OBVIOUS
  <2>2. Bytes(1) = UNION {{i} \X (1 .. size) : i \in {index}}
    BY <2>1
  <2>3. size \in {1, 2}
    BY DEF EvRecordSize
  <2>4. Cardinality(Bytes(1)) = size
    <3>1. Cardinality(UNION {{i} \X (1 .. size) : i \in {index}}) = size
      <4>1. UNION {{i} \X (1 .. size) : i \in {index}} = {index} \X (1 .. size)
        OBVIOUS
      <4>2. Cardinality({index} \X (1 .. size)) = size
        BY <2>3, OneRecord
      <4> QED
        BY <4>1, <4>2, Zenon
    <3> HIDE DEF Bytes
    <3> QED
      BY <2>2, <3>1, Zenon
  <2>5. 1 \in 0 .. (limit - index) /\ 1 <= events
    BY <1>4
  <2>6. 1 \in I
    <3> HIDE DEF Bytes
    <3> QED
      BY <1>4, <2>4, <2>5
  <2> HIDE DEF I
  <2> QED
    BY <1>2, <2>6
<1> HIDE DEF I
<1> QED
  BY <1>1, <1>3, <1>4

\* A cut of a recording, row by row.
LEMMA Slice ==
    ASSUME NEW rows \in Seq(EvRow), NEW index \in 1 .. (Len(rows) + 1),
           NEW n \in 0 .. (Len(rows) + 1 - index)
    PROVE  /\ SubSeq(rows, index, index + n - 1) \in Seq(EvRow)
           /\ Len(SubSeq(rows, index, index + n - 1)) = n
           /\ \A k \in 1 .. n : SubSeq(rows, index, index + n - 1)[k] = rows[index + k - 1]
<1> PICK last \in 0 .. Len(rows) : last = index + n - 1
  OBVIOUS
<1> PICK page : page = SubSeq(rows, index, last)
  OBVIOUS
<1>1. page \in Seq(EvRow)
  OBVIOUS
<1>2. Len(page) = IF index <= last THEN last - index + 1 ELSE 0
  BY SubSeqProperties
<1>3. \A k \in 1 .. Len(page) : page[k] = rows[index + k - 1]
  BY SubSeqProperties
<1>4. Len(page) = n
  BY <1>2
<1> QED
  BY <1>1, <1>3, <1>4

\* A page read at a place of the recording is one there, unless the record before the
\* window fits on no page.
Previous(reader) == reader.first /\ reader.index > 1
PageSize(s, reader) ==
    LET rows == EvRowsOf(s)
        used == IF Previous(reader) THEN EvRecordSize(rows[reader.index - 1].v) ELSE 0
    IN  EvFits(rows, reader.index, EvRowLimit(s),
               evAsk.maxEvents - (IF Previous(reader) THEN 1 ELSE 0), evAsk.maxBytes - used)
Behind(s, reader) == reader.index + PageSize(s, reader)
OnPage(read) == [reader |-> read.reader, page |-> read.page, pos |-> 1]
TooLarge(s, reader) ==
    Previous(reader) /\ EvHuge(EvRowsOf(s)[reader.index - 1].v)

\* What is read, with its parts named.
LEMMA PageIs ==
    ASSUME NEW s, NEW reader
    PROVE  EvReadPage(s, reader) =
             IF TooLarge(s, reader)
             THEN [reader |-> reader,
                   page |-> [events |-> <<>>, predecessor |-> EvNone,
                             next |-> EvRowsOf(s)[reader.index - 1].t,
                             complete |-> FALSE, truncated |-> TRUE]]
             ELSE [reader |-> [index |-> Behind(s, reader), first |-> FALSE],
                   page |-> [events |-> SubSeq(EvRowsOf(s), reader.index, Behind(s, reader) - 1),
                             predecessor |-> IF Previous(reader)
                                             THEN EvRowsOf(s)[reader.index - 1].v ELSE EvNone,
                             next |-> IF Behind(s, reader) >= EvRowLimit(s) THEN NoTime
                                      ELSE EvRowsOf(s)[Behind(s, reader)].t,
                             complete |-> Behind(s, reader) >= EvRowLimit(s),
                             truncated |-> EvCutShort(Behind(s, reader) >= EvRowLimit(s),
                                                      PageSize(s, reader), Previous(reader))]]
  BY Zenon DEF EvReadPage, TooLarge, Behind, PageSize, Previous, EvRowsOf

\* Without huge records every page behind the first has a row.
LEMMA PageSizes ==
    ASSUME EventType, NEW s \in EvSides, EvOrdered(EvRowsOf(s)),
           NEW reader, reader.index \in Nat \ {0}, reader.index <= EvRowLimit(s)
    PROVE  /\ PageSize(s, reader) \in 0 .. (EvRowLimit(s) - reader.index)
           /\ (~Previous(reader) /\ NoneHuge(s) /\ reader.index < EvRowLimit(s)) =>
                 PageSize(s, reader) >= 1
<1> PICK rows \in Seq(EvRow) : rows = EvRowsOf(s)
  BY WaveFacts
<1> PICK index \in Nat \ {0} : index = reader.index
  OBVIOUS
<1> PICK m \in Nat : m = Len(rows) /\ DOMAIN rows = 1 .. m
  OBVIOUS
<1> PICK limit \in 1 .. (m + 1) : limit = EvRowLimit(s)
  BY RowsServed
<1>1. \A v : EvRecordSize(v) \in {1, 2}
  BY DEF EvRecordSize
<1>2. evAsk.maxEvents \in Nat \ {0} /\ evAsk.maxBytes \in Nat \ {0}
  BY WaveFacts
<1> PICK used \in {0, 1, 2} :
        used = IF Previous(reader) THEN EvRecordSize(rows[index - 1].v) ELSE 0
  BY <1>1
<1> PICK one \in {0, 1} : one = IF Previous(reader) THEN 1 ELSE 0
  OBVIOUS
<1>3. PageSize(s, reader) =
        EvFits(rows, index, limit, evAsk.maxEvents - one, evAsk.maxBytes - used)
  BY Zenon DEF PageSize
<1> PICK events \in Int, bytes \in Int :
        events = evAsk.maxEvents - one /\ bytes = evAsk.maxBytes - used
  BY <1>2
<1>4. /\ EvFits(rows, index, limit, events, bytes) \in 0 .. (limit - index)
      /\ (index < limit /\ events >= 1 /\ EvRecordSize(rows[index].v) <= bytes) =>
            EvFits(rows, index, limit, events, bytes) >= 1
  <2>1. /\ rows \in Seq(EvRow) /\ m = Len(rows) /\ index \in Nat \ {0}
        /\ limit \in 1 .. (m + 1) /\ index <= limit /\ m \in Nat
        /\ events \in Int /\ bytes \in Int
    OBVIOUS
  <2> QED
    BY ONLY <2>1, FitsFacts, SMTT(30)
<1>5. ASSUME ~Previous(reader), NoneHuge(s), index < limit
      PROVE  events >= 1 /\ EvRecordSize(rows[index].v) <= bytes
  <2>1. ~EvHuge(rows[index].v)
    BY <1>5 DEF NoneHuge
  <2>2. one = 0 /\ used = 0
    BY <1>5
  <2> PICK size \in {1, 2} : size = EvRecordSize(rows[index].v)
    BY <1>1
  <2>3. size < evAsk.maxBytes
    BY <1>2, <2>1 DEF EvHuge
  <2> QED
    BY <1>2, <2>2, <2>3
<1> QED
  BY <1>3, <1>4, <1>5

\* The next unread record is known from the page.
LEMMA PeekFacts ==
    ASSUME NEW c, NEW rows \in Seq(EvRow), NEW first \in Nat \ {0}, NEW limit \in Nat, NEW fits,
           limit <= Len(rows) + 1, PageOn(c, rows, first, limit, fits)
    PROVE  /\ UnreadOf(c) \in first .. limit
           /\ EvPeek(c) = IF UnreadOf(c) = limit THEN NoTime ELSE rows[UnreadOf(c)].t
           /\ c.pos > Len(c.page.events) => UnreadOf(c) = c.reader.index
<1>1. c \in EvCursors /\ c.page.events \in Seq(EvRow)
  BY DEF PageOn, EvCursors
<1> PICK index \in Nat : index = c.reader.index
  BY <1>1 DEF EvCursors
<1> PICK pos \in Nat \ {0} : pos = c.pos
  BY <1>1 DEF EvCursors
<1> PICK page \in Seq(EvRow) : page = c.page.events
  BY <1>1
<1> PICK n \in Nat : n = Len(page)
  OBVIOUS
<1> PICK unread : unread = UnreadOf(c)
  OBVIOUS
<1>10. unread = index - (n + 1 - pos)
  BY Zenon DEF UnreadOf
<1>11. index \in Nat /\ pos \in Nat \ {0} /\ n \in Nat
  OBVIOUS
<1>12. unread \in Int
  BY ONLY <1>10, <1>11
<1>2. /\ pos <= n + 1 /\ first <= unread /\ n < index /\ index <= limit
  BY DEF PageOn
<1>6. \A k \in 1 .. n : page[k] = rows[index - 1 - n + k]
  BY DEF PageOn
<1>7. c.page.next = IF index = limit THEN NoTime ELSE rows[index].t
  BY DEF PageOn
<1>8. /\ index \in Nat /\ pos \in Nat \ {0} /\ n \in Nat /\ unread \in Int
      /\ first \in Nat \ {0} /\ limit \in Nat /\ unread = index - (n + 1 - pos)
  BY <1>10, <1>11, <1>12, Zenon
<1>3. unread \in first .. limit /\ (pos > n => unread = index)
  BY ONLY <1>2, <1>8
<1>4. CASE pos <= n
  <2>1. EvPeek(c) = page[pos].t
    BY <1>4 DEF EvPeek
  <2>2. index - 1 - n + pos = unread /\ unread # limit /\ pos \in 1 .. n
    BY ONLY <1>2, <1>4, <1>8
  <2>3. page[pos] = rows[unread]
    BY ONLY <1>6, <2>2
  <2> QED
    BY <1>3, <1>4, <2>1, <2>2, <2>3, Zenon
<1>5. CASE pos > n
  <2>1. ~(pos <= n)
    BY ONLY <1>5, <1>8
  <2>2. EvPeek(c) = c.page.next
    BY <2>1, Zenon DEF EvPeek
  <2> QED
    BY <1>7, <1>3, <1>5, <2>2, Zenon
<1>9. pos <= n \/ pos > n
  BY ONLY <1>8
<1> QED
  BY <1>4, <1>5, <1>9

PageRead(s, reader, read, c) ==
    \/ /\ NothingRead(c, EvFrom) /\ ~NoneHuge(s)
       /\ reader.first /\ EvBits(read.page.predecessor) = EvNone
    \/ /\ PageOn(c, EvRowsOf(s), EvFirstRow(s), EvRowLimit(s), NoneHuge(s))
       /\ UnreadOf(c) = reader.index
       /\ reader.first => EvBits(read.page.predecessor) = LastTaken(EvRowsOf(s), reader.index)
       /\ (~reader.first /\ NoneHuge(s) /\ reader.index < EvRowLimit(s)) =>
             read.page.events # <<>>

\* EvReadPage returns a page that is placed where its reader was.
LEMMA PageFacts ==
    ASSUME EventType, NEW s \in EvSides, EvOrdered(EvRowsOf(s)),
           NEW reader \in [index : Nat \ {0}, first : BOOLEAN],
           EvFirstRow(s) <= reader.index, reader.index <= EvRowLimit(s),
           reader.first => reader.index = EvFirstRow(s)
    PROVE  PageRead(s, reader, EvReadPage(s, reader), OnPage(EvReadPage(s, reader)))
<1> PICK read : read = EvReadPage(s, reader)
  OBVIOUS
<1> PICK c : c = [reader |-> read.reader, page |-> read.page, pos |-> 1]
  OBVIOUS
<1> SUFFICES PageRead(s, reader, read, c)
  BY Zenon DEF OnPage
<1> PICK rows \in Seq(EvRow) : rows = EvRowsOf(s)
  BY WaveFacts
<1> PICK m \in Nat : m = Len(rows) /\ DOMAIN rows = 1 .. m
  OBVIOUS
<1> PICK index \in Nat \ {0} : index = reader.index
  OBVIOUS
<1> PICK limit \in 1 .. (m + 1) : limit = EvRowLimit(s)
  BY RowsServed
<1> PICK first \in 1 .. (m + 1) : first = EvFirstRow(s)
  BY RowsServed
<1>1. first <= index /\ index <= limit /\ (reader.first => index = first)
  OBVIOUS
<1>2. Previous(reader) <=> reader.first /\ index > 1
  BY DEF Previous
<1>3. \A i \in 1 .. m : rows[i].t \in Nat /\ rows[i].v \in {"0", "1", "W", "x", "?"}
  BY WaveFacts
<1>4. CASE TooLarge(s, reader)
  <2>1. read = [reader |-> reader,
                page |-> [events |-> <<>>, predecessor |-> EvNone, next |-> rows[index - 1].t,
                          complete |-> FALSE, truncated |-> TRUE]]
    BY <1>4, PageIs
  <2>2. index - 1 \in 1 .. m /\ reader.first /\ index - 1 < first /\ EvHuge(rows[index - 1].v)
    BY <1>1, <1>2, <1>4 DEF TooLarge
  <2>3. rows[index - 1].t \in Nat /\ rows[index - 1].t < EvFrom
    BY <1>3, <2>2, RowsServed
  <2>4. NothingRead(c, EvFrom)
    BY <2>1, <2>3 DEF NothingRead
  <2>5. ~NoneHuge(s)
    BY <2>2 DEF NoneHuge
  <2>6. EvBits(read.page.predecessor) = EvNone
    BY <2>1 DEF EvBits, EvNone
  <2> QED
    BY <2>2, <2>4, <2>5, <2>6 DEF PageRead
<1>5. CASE ~TooLarge(s, reader)
  <2>1. /\ index \in Nat \ {0} /\ limit \in Nat /\ m \in Nat /\ first \in Nat \ {0}
        /\ index <= limit /\ limit <= m + 1
    OBVIOUS
  <2> PICK n \in 0 .. (limit - index) : n = PageSize(s, reader)
    BY PageSizes
  <2>2. (~Previous(reader) /\ NoneHuge(s) /\ index < limit) => n >= 1
    BY PageSizes
  <2>3. n \in Nat /\ n <= limit - index
    BY <2>1
  <2> PICK behind : behind = index + n
    OBVIOUS
  <2>4. Behind(s, reader) = behind
    BY DEF Behind
  <2>5. behind \in Nat \ {0} /\ behind <= limit /\ behind - 1 \in 0 .. m /\ behind = index + n
    BY ONLY <2>1, <2>3, behind = index + n
  <2>6. PICK complete : complete = (behind >= limit)
    OBVIOUS
  <2>7. PICK cut : cut = EvCutShort(complete, n, Previous(reader))
    OBVIOUS
  <2>8. PICK predecessor :
           predecessor = IF Previous(reader) THEN rows[index - 1].v ELSE EvNone
    OBVIOUS
  <2>9. PICK next : next = IF complete THEN NoTime ELSE rows[behind].t
    OBVIOUS
  <2>10. PICK events : events = SubSeq(rows, index, behind - 1)
    OBVIOUS
  <2>11. read = [reader |-> [index |-> behind, first |-> FALSE],
                 page |-> [events |-> events, predecessor |-> predecessor, next |-> next,
                           complete |-> complete, truncated |-> cut]]
    BY <1>5, <2>4, <2>6, <2>7, <2>8, <2>9, <2>10, PageIs, Zenon
  <2>12. complete \in BOOLEAN
    BY ONLY <2>5, <2>1, <2>6
  <2>13. complete <=> behind >= limit
    BY ONLY <2>5, <2>1, <2>6
  <2>14. cut = (~complete /\ n = 0 /\ ~Previous(reader))
    BY <2>7, Zenon DEF EvCutShort
  <2>15. cut \in BOOLEAN
    BY ONLY <2>14, <2>12
  <2>16. cut <=> ~complete /\ n = 0 /\ ~Previous(reader)
    BY ONLY <2>14, <2>12, <2>15
  <2>17. Previous(reader) => index - 1 \in 1 .. m
    BY ONLY <1>1, <1>2, <2>1
  <2>18. predecessor \in {"0", "1", "W", "x", "?", EvNone}
    BY ONLY <1>3, <2>8, <2>17
  <2>19. ~complete => behind \in 1 .. m
    BY ONLY <2>1, <2>5, <2>13
  <2>20. next \in Int
    BY ONLY <1>3, <2>9, <2>19 DEF NoTime
  <2>21. events \in Seq(EvRow)
    <3>1. rows \in Seq(EvRow) /\ index \in Nat \ {0} /\ m = Len(rows)
      OBVIOUS
    <3> QED
      BY ONLY <2>5, <2>10, <3>1
  <2>22. /\ c \in EvCursors /\ c.reader.index = behind /\ c.page = read.page
         /\ c.page.events = events /\ c.page.predecessor = predecessor
         /\ c.page.next = next /\ c.pos = 1
         /\ c.page.complete = complete /\ c.page.truncated = cut
    <3>1. c = [reader |-> read.reader, page |-> read.page, pos |-> 1]
      OBVIOUS
    <3>2. behind \in Nat \ {0}
      BY <2>5
    <3> QED
      BY ONLY <2>11, <2>12, <2>15, <2>18, <2>20, <2>21, <3>1, <3>2 DEF EvCursors
  <2>23. NoneHuge(s) => ~cut
    BY ONLY <2>1, <2>2, <2>3, <2>5, <2>13, <2>16
  <2>27. rows \in Seq(EvRow) /\ m = Len(rows)
    OBVIOUS
  <2>28. /\ Len(events) = n
         /\ \A k \in 1 .. n : events[k] = rows[index + k - 1]
    <3>1. behind - 1 = index + n - 1 /\ index \in 1 .. (m + 1) /\ n \in 0 .. (m + 1 - index)
      BY ONLY <2>1, <2>3, <2>5
    <3>2. events = SubSeq(rows, index, index + n - 1)
      BY ONLY <2>10, <3>1, Zenon
    <3>3. rows \in Seq(EvRow) /\ index \in 1 .. (Len(rows) + 1) /\ n \in 0 .. (Len(rows) + 1 - index)
      BY <2>27, <3>1, Zenon
    <3>4. /\ Len(SubSeq(rows, index, index + n - 1)) = n
          /\ \A k \in 1 .. n : SubSeq(rows, index, index + n - 1)[k] = rows[index + k - 1]
      BY ONLY <3>3, Slice, Zenon
    <3> QED
      BY ONLY <3>2, <3>4, Zenon
  <2>29. \A k \in 1 .. n : events[k] = rows[behind - 1 - n + k]
    <3> TAKE k \in 1 .. n
    <3>1. k \in Int
      OBVIOUS
    <3>2. behind - 1 - n + k = index + k - 1
      BY ONLY <2>1, <2>3, <2>5, <3>1
    <3> QED
      BY <2>28, <3>2, Zenon
  <2>24. /\ PageOn(c, rows, first, limit, NoneHuge(s))
         /\ UnreadOf(c) = index /\ Len(c.page.events) = n
    <3>1. UnreadOf(c) = c.reader.index - (n + 1 - 1)
      BY <2>22, <2>28, Zenon DEF UnreadOf
    <3>2. UnreadOf(c) = index
      BY ONLY <2>1, <2>3, <2>5, <2>22, <3>1
    <3>3. first <= index /\ n < behind /\ behind <= limit /\ 1 <= n + 1
      BY ONLY <1>1, <2>1, <2>3, <2>5
    <3>4. behind >= limit <=> behind = limit
      BY ONLY <2>1, <2>5
    <3>5. next = IF behind = limit THEN NoTime ELSE rows[behind].t
      BY ONLY <2>9, <2>13, <3>4, Zenon
    <3>6. Len(c.page.events) = n
      BY <2>22, <2>28, Zenon
    <3> QED
      BY ONLY <2>13, <2>22, <2>23, <2>29, <3>2, <3>3, <3>4, <3>5, <3>6, Zenon DEF PageOn
  <2>25. reader.first => EvBits(read.page.predecessor) = LastTaken(rows, index)
    <3>1. read.page.predecessor = predecessor
      BY <2>22, Zenon
    <3>2. CASE Previous(reader)
      <4>1. index # 1
        BY ONLY <1>2, <2>1, <3>2
      <4> QED
        BY <2>8, <3>1, <3>2, <4>1, Zenon DEF LastTaken
    <3>3. CASE ~Previous(reader)
      <4>1. reader.first => index = 1
        BY ONLY <1>2, <2>1, <3>3
      <4>2. EvBits(predecessor) = EvNone
        BY <2>8, <3>3 DEF EvBits, EvNone
      <4> QED
        BY <3>1, <4>1, <4>2, Zenon DEF LastTaken
    <3> QED
      BY <3>2, <3>3
  <2>26. (~reader.first /\ NoneHuge(s) /\ index < limit) => read.page.events # <<>>
    <3>1. Len(<<>>) = 0
      OBVIOUS
    <3>2. ~reader.first => ~Previous(reader)
      BY <1>2, Zenon
    <3>3. n >= 1 => n # 0
      BY <2>3
    <3> QED
      BY <2>2, <2>22, <2>24, <3>1, <3>2, <3>3, Zenon
  <2> QED
    BY <2>24, <2>25, <2>26 DEF PageRead
<1> QED
  BY <1>4, <1>5

\* The value of a side throughout the instants between its last taken row and the next.
LEMMA ValueTaken ==
    ASSUME EventType, NEW s \in EvSides, NEW unread \in 1 .. (Len(EvRowsOf(s)) + 1), NEW t \in Int,
           \A i \in DOMAIN EvRowsOf(s) : i < unread => EvRowsOf(s)[i].t <= t,
           AllLater(EvRowsOf(s), unread, t)
    PROVE  EvValueAt(s, t) = LastTaken(EvRowsOf(s), unread)
<1> PICK rows \in Seq(EvRow) : rows = EvRowsOf(s) /\ rows = evWave[s].rows
  BY WaveFacts
<1> PICK m \in Nat : m = Len(rows) /\ DOMAIN rows = 1 .. m
  OBVIOUS
<1> PICK upto : upto = {i \in 1 .. m : rows[i].t <= t}
  OBVIOUS
<1>1. unread - 1 \in 0 .. m
  OBVIOUS
<1>2. \A i \in 1 .. m : rows[i].t \in Nat
  BY WaveFacts
<1>3. \A i \in 1 .. m : rows[i].t <= t <=> i <= unread - 1
  <2> SUFFICES ASSUME NEW i \in 1 .. m PROVE rows[i].t <= t <=> i <= unread - 1
    OBVIOUS
  <2>1. i < unread => rows[i].t <= t
    OBVIOUS
  <2>2. i >= unread => rows[i].t > t
    BY DEF AllLater
  <2> QED
    BY <1>2, <2>1, <2>2
<1>4. \A i : i \in upto <=> i \in 1 .. m /\ i <= unread - 1
  BY <1>3
<1>5. upto = 1 .. (unread - 1)
  BY <1>1, <1>4
<1>6. EvValueAt(s, t) = IF upto = {} THEN EvNone ELSE EvBits(rows[Max(upto)].v)
  BY DEF EvValueAt
<1>7. CASE unread = 1
  <2>1. upto = {}
    BY <1>5, <1>7
  <2> QED
    BY <1>6, <1>7, <2>1, Zenon DEF LastTaken
<1>8. CASE unread # 1
  <2>1. unread - 1 \in upto /\ upto \in SUBSET (1 .. m) /\ \A j \in upto : j <= unread - 1
    <3>1. unread - 1 \in 1 .. m
      <4>1. unread # 1 /\ unread \in Int /\ m \in Nat
        BY <1>8
      <4> QED
        BY ONLY <1>1, <4>1
    <3>2. unread - 1 <= unread - 1
      BY ONLY <3>1
    <3>3. \A j \in upto : j \in 1 .. m /\ j <= unread - 1
      BY ONLY <1>4, Zenon
    <3>4. unread - 1 \in upto
      BY ONLY <1>4, <3>1, <3>2, Zenon
    <3> QED
      BY ONLY <3>3, <3>4, Zenon
  <2>2. Max(upto) \in upto /\ \A j \in upto : Max(upto) >= j
    BY <2>1, LastPosition
  <2> PICK top : top = Max(upto)
    OBVIOUS
  <2>3. top \in upto /\ top >= unread - 1
    BY <2>1, <2>2, Zenon
  <2>4. unread - 1 \in Int /\ top \in 1 .. m
    <3>1. top \in 1 .. m
      BY ONLY <2>1, <2>3, Zenon
    <3>2. unread - 1 \in Int
      BY ONLY <1>1
    <3> QED
      BY ONLY <3>1, <3>2, Zenon
  <2>6. top <= unread - 1
    BY <2>1, <2>3, Zenon
  <2>7. top = unread - 1
    BY ONLY <2>3, <2>4, <2>6
  <2>5. upto # {}
    BY <2>1
  <2> QED
    BY <1>6, <1>8, <2>5, <2>7, Zenon DEF LastTaken
<1> QED
  BY <1>7, <1>8

\* What is said of the recordings and the request stays.
LEMMA SameWaves ==
    ASSUME UNCHANGED <<evWave, evAsk>>
    PROVE  /\ EvFrom' = EvFrom /\ EvStop' = EvStop /\ EvRequestedStop' = EvRequestedStop
           /\ EvRangeGaps' = EvRangeGaps
           /\ \A s : /\ EvRowsOf(s)' = EvRowsOf(s) /\ EvFirstRow(s)' = EvFirstRow(s)
                     /\ EvRowLimit(s)' = EvRowLimit(s) /\ NoneHuge(s)' = NoneHuge(s)
           /\ \A t : EvAgree(t)' = EvAgree(t) /\ EvDisagree(t)' = EvDisagree(t)
           /\ \A s, t : EvValueAt(s, t)' = EvValueAt(s, t)
<1>1. EvFrom' = EvFrom
  BY DEF EvFrom
<1>2. EvEnds' = EvEnds
  BY DEF EvEnds
<1>3. EvStop' = EvStop
  BY <1>1, <1>2 DEF EvStop
<1>4. EvRequestedStop' = EvRequestedStop
  BY <1>2, <1>3 DEF EvRequestedStop
<1>5. EvRangeGaps' = EvRangeGaps
  BY <1>1, <1>4 DEF EvRangeGaps
<1>6. \A s : EvRowsOf(s)' = EvRowsOf(s) /\ EvFirstRow(s)' = EvFirstRow(s)
  BY <1>1 DEF EvRowsOf, EvFirstRow
<1>7. \A s : EvRowLimit(s)' = EvRowLimit(s)
  BY DEF EvRowLimit
<1>8. \A s : NoneHuge(s)' = NoneHuge(s)
  BY DEF NoneHuge, EvRowsOf, EvHuge
<1>9. \A s, t : EvValueAt(s, t)' = EvValueAt(s, t)
  BY DEF EvValueAt
<1>10. \A t : EvAgree(t)' = EvAgree(t) /\ EvDisagree(t)' = EvDisagree(t)
  BY <1>9 DEF EvAgree, EvDisagree, EvSides
<1> QED
  BY <1>1, <1>3, <1>4, <1>5, <1>6, <1>7, <1>8, <1>9, <1>10

\* What must hold for a decision is said of the recordings and their files.
LEMMA DecidableStays ==
    ASSUME UNCHANGED <<evWave, evAsk, evGen>> PROVE Decidable' <=> Decidable
<1>1. /\ EvFrom' = EvFrom /\ EvStop' = EvStop /\ EvRequestedStop' = EvRequestedStop
      /\ \A s : EvRowsOf(s)' = EvRowsOf(s) /\ NoneHuge(s)' = NoneHuge(s)
      /\ \A s, t : EvValueAt(s, t)' = EvValueAt(s, t)
  BY SameWaves
<1> QED
  BY <1>1 DEF Decidable

\* A side that is not moved keeps its place and value.
LEMMA CursorStays ==
    ASSUME UNCHANGED <<evWave, evAsk, evAt>>, NEW s \in EvSides,
           evCursor'[s] = evCursor[s], evValue'[s] = evValue[s]
    PROVE  /\ Placed(s)' = Placed(s) /\ Folded(s)' = Folded(s) /\ CutOff(s)' = CutOff(s)
           /\ Unread(s)' = Unread(s) /\ EvRowsOf(s)' = EvRowsOf(s)
<1>1. /\ EvRowsOf(s)' = EvRowsOf(s) /\ EvFirstRow(s)' = EvFirstRow(s)
      /\ EvRowLimit(s)' = EvRowLimit(s) /\ NoneHuge(s)' = NoneHuge(s) /\ EvFrom' = EvFrom
  BY SameWaves
<1>2. Unread(s)' = Unread(s)
  BY DEF Unread
<1>3. Placed(s)' = Placed(s)
  BY <1>1 DEF Placed
<1>4. Folded(s)' = Folded(s)
  BY <1>1, <1>2 DEF Folded
<1>5. CutOff(s)' = CutOff(s)
  BY <1>1 DEF CutOff
<1> QED
  BY <1>1, <1>2, <1>3, <1>4, <1>5

\* ComparisonTrue speaks of answers only.
LEMMA NotDone == ASSUME evPc' # "done" PROVE ComparisonTrue'
  BY DEF ComparisonTrue, ComparisonSound, ComparisonDecides

\* A comparison begins with nothing read.
LEMMA CompareStarts ==
    EventInit([wave : [EvSides -> EvRecordings], ask : EvRequests]) => EventInv
<1> SUFFICES ASSUME EventInit([wave : [EvSides -> EvRecordings], ask : EvRequests]) PROVE EventInv
  OBVIOUS
<1> PICK load \in [wave : [EvSides -> EvRecordings], ask : EvRequests] :
        evWave = load.wave /\ evAsk = load.ask
  BY DEF EventInit
<1>1. /\ evWave \in [EvSides -> EvRecordings] /\ evAsk \in EvRequests
      /\ evGen = [s \in EvSides |-> 0] /\ evOpened = [s \in EvSides |-> 0]
      /\ evCursor = [s \in EvSides |-> EvNone] /\ evPc = "open" /\ evSide = "a" /\ evAt = EvFrom
      /\ evValue = [s \in EvSides |-> EvNone] /\ evGaps = {} /\ evExamined = FALSE
      /\ evResult = EvNoAnswer
  BY DEF EventInit
<1>2. evAt \in Nat
  <2>1. evAsk.start \in Nat /\ \A m \in Nat, n \in Nat : m * n \in Nat
    BY <1>1 DEF EvRequests
  <2> QED
    BY <1>1, <2>1, FsPerPsAssumption DEF EvFrom
<1>3. evResult \in EvResults
  BY <1>1 DEF EvNoAnswer, EvResults, NoTime
<1>4. EventType
  BY <1>1, <1>2, <1>3 DEF EventType, EvSides, EvValues
<1>5. WindowInv /\ CursorInv /\ PastInv /\ CheckInv /\ DecideInv
  BY <1>1 DEF WindowInv, CursorInv, PastInv, CheckInv, DecideInv, Comparing, FirstRead,
              InstantTaken
<1>6. ComparisonTrue
  BY <1>1 DEF ComparisonTrue, ComparisonSound, ComparisonDecides
<1> QED
  BY <1>4, <1>5, <1>6 DEF EventInv

\* Opening settles the window and its gaps.
LEMMA OpenKeeps == ASSUME EventInv, OpenComparison PROVE EventInv'
<1>1. EventType /\ WindowInv /\ evPc = "open"
  BY DEF EventInv, OpenComparison
<1>2. /\ UNCHANGED <<evWave, evAsk, evGen, evCursor, evSide, evAt, evValue, evExamined, evResult>>
      /\ evOpened' = evGen
  BY DEF OpenComparison
<1>3. evAt = EvFrom /\ evGaps = {} /\ ~evExamined /\ evResult = EvNoAnswer
  BY <1>1 DEF WindowInv
<1>4. /\ EvFrom' = EvFrom /\ EvStop' = EvStop /\ EvRangeGaps' = EvRangeGaps
      /\ \A s : EvRowsOf(s)' = EvRowsOf(s)
  BY <1>2, SameWaves
<1>5. Decidable' <=> Decidable
  BY <1>2, DecidableStays
<1> PICK noted : noted = IF EvStop < EvFrom
                           THEN {[why |-> "empty_window", side |-> "both", at |-> EvFrom]}
                         ELSE IF evWave["a"].width # evWave["b"].width
                           THEN {[why |-> "width_mismatch", side |-> "both", at |-> EvFrom]}
                         ELSE {}
  OBVIOUS
<1>6. \/ /\ \E s \in EvSides : ~EvOrdered(EvRowsOf(s))
         /\ evPc' = "failed" /\ evGaps' = evGaps
      \/ /\ \A s \in EvSides : EvOrdered(EvRowsOf(s))
         /\ evGaps' = EvRangeGaps \cup noted
         /\ evPc' = IF EvStop < EvFrom \/ evWave["a"].width # evWave["b"].width
                    THEN "check" ELSE "first"
  BY DEF OpenComparison, EvRowsOf
<1>7. \A s \in EvSides : EvOrdered(EvRowsOf(s)) <=> EvOrdered(EvRowsOf(s)')
  BY <1>4
<1>8. EvFrom \in Nat /\ EvStop \in Int /\ \A s \in EvSides : evWave[s].end \in Int
  BY <1>1, WaveFacts, StopFacts DEF EvSides, NoTime
<1>9. \A g \in EvRangeGaps \cup noted :
         g.at \in Int /\ g.why \notin {"value_unavailable", "value_unknown"}
  <2>1. \A g \in noted : g.at \in Int /\ g.why \notin {"value_unavailable", "value_unknown"}
    BY <1>8
  <2>2. \A g \in EvRangeGaps :
           g.at \in Int /\ g.why \notin {"value_unavailable", "value_unknown"}
    BY <1>8 DEF EvRangeGaps
  <2> QED
    BY <2>1, <2>2
<1>10. evPc' \in {"failed", "check", "first"}
  BY <1>6
<1>11. EventType'
  BY <1>1, <1>2, <1>3, <1>6, <1>9, <1>10 DEF EventType
<1>12. WindowInv'
  <2>1. \A s \in EvSides : evGen'[s] = 0 => evOpened'[s] = 0
    BY <1>2
  <2>2. evPc' \in {"check", "first"} => EvRangeGaps \subseteq evGaps'
    BY <1>6
  <2>3. evPc' = "first" => /\ \A s \in EvSides : EvOrdered(EvRowsOf(s))
                           /\ EvFrom <= evAt /\ evAt <= EvStop
                           /\ evGaps' = EvRangeGaps \cup noted
    BY <1>3, <1>6, <1>8
  <2> QED
    BY <1>2, <1>3, <1>4, <1>9, <1>10, <2>1, <2>2, <2>3 DEF WindowInv, Comparing
<1>13. CursorInv'
  BY <1>1, <1>2, <1>10 DEF CursorInv, FirstRead, InstantTaken, EventType, WindowInv
<1>14. PastInv'
  BY <1>2, <1>3, <1>4, <1>8 DEF PastInv
<1>15. CheckInv'
  BY <1>2, <1>3 DEF CheckInv, EvNoAnswer
<1>16. DecideInv'
  <2> SUFFICES ASSUME Decidable PROVE evPc' = "first" /\ evGaps' = {}
    BY <1>5 DEF DecideInv
  <2>1. EvRangeGaps = {}
    BY <1>1, RangeFacts DEF Decidable
  <2>2. ~(EvStop < EvFrom) /\ ~(evWave["a"].width # evWave["b"].width)
    BY <1>8 DEF Decidable
  <2>3. \A s \in EvSides : EvOrdered(EvRowsOf(s))
    BY DEF Decidable
  <2> QED
    BY <1>6, <2>1, <2>2, <2>3
<1>17. ComparisonTrue'
  BY <1>10, NotDone
<1> QED
  BY <1>11, <1>12, <1>13, <1>14, <1>15, <1>16, <1>17 DEF EventInv

\* A read fails only after a recording was replaced.
LEMMA ReadFailsKeeps == ASSUME EventInv, ReadFails PROVE EventInv'
<1>1. EventType /\ WindowInv /\ DecideInv
  BY DEF EventInv
<1>2. /\ UNCHANGED <<evWave, evAsk, evGen, evOpened, evCursor, evSide, evAt, evValue, evGaps,
                     evExamined, evResult>>
      /\ evPc' = "failed" /\ ~Unchanged(evSide)
  BY DEF ReadFails
<1>3. EventType'
  BY <1>1, <1>2 DEF EventType
<1>4. WindowInv' /\ CursorInv' /\ PastInv' /\ CheckInv'
  BY <1>1, <1>2 DEF WindowInv, CursorInv, PastInv, CheckInv, Comparing, FirstRead, InstantTaken
<1>5. ~Decidable'
  <2>1. Decidable' <=> Decidable
    BY <1>2, DecidableStays
  <2>2. evSide \in EvSides
    BY <1>1 DEF EventType
  <2>3. evGen[evSide] # 0
    BY <1>1, <1>2, <2>2 DEF Unchanged, WindowInv
  <2> QED
    BY <2>1, <2>2, <2>3 DEF Decidable
<1>6. DecideInv'
  BY <1>5 DEF DecideInv
<1>7. ComparisonTrue'
  BY <1>2, NotDone
<1> QED
  BY <1>3, <1>4, <1>6, <1>7 DEF EventInv

\* An instant that cannot be folded ends the comparison with a reason.
LEMMA NoteFacts ==
    ASSUME NEW gaps, NEW why, NEW side, NEW at
    PROVE  /\ gaps \subseteq EvNote(gaps, why, side, at) /\ EvNote(gaps, why, side, at) # {}
           /\ \A g \in EvNote(gaps, why, side, at) :
                 g \in gaps \/ (g.why = why /\ g.side = side /\ g.at = at)
           /\ \E g \in EvNote(gaps, why, side, at) : g.why = why /\ g.side = side
<1>1. CASE \E g \in gaps : g.why = why /\ g.side = side
  <2>1. EvNote(gaps, why, side, at) = gaps
    BY <1>1 DEF EvNote
  <2> QED
    BY <1>1, <2>1
<1>2. CASE ~\E g \in gaps : g.why = why /\ g.side = side
  <2> PICK new : new = [why |-> why, side |-> side, at |-> at]
    OBVIOUS
  <2>1. EvNote(gaps, why, side, at) = gaps \cup {new}
    BY <1>2, Zenon DEF EvNote
  <2>2. new.why = why /\ new.side = side /\ new.at = at
    OBVIOUS
  <2> QED
    BY <2>1, <2>2, Zenon
<1> QED
  BY <1>1, <1>2

\* Nothing is claimed when an instant cannot be folded.
LEMMA IncompleteKeeps ==
    ASSUME EventInv, evPc = "fold", NEW why, Incomplete(why), ~Decidable PROVE EventInv'
<1>1. EventType /\ WindowInv
  BY DEF EventInv
<1>2. /\ UNCHANGED <<evWave, evAsk, evGen, evOpened, evCursor, evSide, evAt, evValue,
                     evExamined, evResult>>
      /\ evPc' = "check" /\ evGaps' = EvNote(evGaps, why, "both", evAt)
  BY DEF Incomplete
<1>3. /\ evGaps \subseteq evGaps' /\ evGaps' # {}
      /\ \A g \in evGaps' : g \in evGaps \/ g.at = evAt
  BY <1>2, NoteFacts
<1>4. evResult = EvNoAnswer /\ EvRangeGaps \subseteq evGaps
  BY <1>1 DEF WindowInv, Comparing
<1>5. EventType'
  BY <1>1, <1>2, <1>3 DEF EventType
<1>6. WindowInv'
  <2>1. EvRangeGaps' = EvRangeGaps
    BY <1>2, SameWaves
  <2> QED
    BY <1>1, <1>2, <1>3, <1>4, <2>1 DEF WindowInv, Comparing
<1>7. CursorInv' /\ PastInv'
  BY <1>2 DEF CursorInv, PastInv, Comparing, FirstRead, InstantTaken
<1>8. CheckInv'
  BY <1>2, <1>3, <1>4 DEF CheckInv, EvNoAnswer
<1>9. DecideInv'
  BY <1>2, DecidableStays DEF DecideInv
<1>10. ComparisonTrue'
  BY <1>2, NotDone
<1> QED
  BY <1>5, <1>6, <1>7, <1>8, <1>9, <1>10 DEF EventInv

\* A replaced file changes no page that was read.
LEMMA ReplaceWaveKeeps == ASSUME EventInv, ReplaceWave PROVE EventInv'
<1>1. EventType /\ WindowInv /\ CursorInv /\ PastInv /\ CheckInv /\ DecideInv
  BY DEF EventInv
<1>2. /\ UNCHANGED <<evWave, evAsk, evOpened, evCursor, evPc, evSide, evAt, evValue, evGaps,
                     evExamined, evResult>>
      /\ evPc # "done"
  BY DEF ReplaceWave
<1>3. /\ evGen' \in [EvSides -> {0, 1}]
      /\ \A s \in EvSides : evGen'[s] = 0 => evGen[s] = 0
  <2> PICK s \in EvSides : evGen' = [evGen EXCEPT ![s] = 1]
    BY DEF ReplaceWave
  <2> QED
    BY <1>1 DEF EventType
<1>4. EventType'
  BY <1>1, <1>2, <1>3 DEF EventType
<1>5. /\ EvFrom' = EvFrom /\ EvStop' = EvStop /\ EvRequestedStop' = EvRequestedStop
      /\ EvRangeGaps' = EvRangeGaps
      /\ \A s : EvRowsOf(s)' = EvRowsOf(s) /\ NoneHuge(s)' = NoneHuge(s)
      /\ \A t : EvAgree(t)' = EvAgree(t) /\ EvDisagree(t)' = EvDisagree(t)
      /\ \A s, t : EvValueAt(s, t)' = EvValueAt(s, t)
  BY <1>2, SameWaves
<1>6. WindowInv'
  BY <1>1, <1>2, <1>3, <1>5 DEF WindowInv, Comparing
<1>7. CursorInv'
  <2> SUFFICES ASSUME NEW s \in EvSides
               PROVE  /\ FirstRead(s)' => \/ Placed(s)' /\ Folded(s)'
                                          \/ CutOff(s)' /\ ~InstantTaken(s)'
                      /\ InstantTaken(s)' => AllLater(EvRowsOf(s)', Unread(s)', evAt')
    BY DEF CursorInv
  <2>1. /\ Placed(s)' = Placed(s) /\ Folded(s)' = Folded(s) /\ CutOff(s)' = CutOff(s)
        /\ Unread(s)' = Unread(s) /\ EvRowsOf(s)' = EvRowsOf(s)
    BY <1>2, CursorStays
  <2>2. FirstRead(s)' = FirstRead(s) /\ InstantTaken(s)' = InstantTaken(s)
    BY <1>2 DEF FirstRead, InstantTaken
  <2> QED
    BY <1>1, <1>2, <2>1, <2>2 DEF CursorInv
<1>8. PastInv'
  BY <1>1, <1>2, <1>5 DEF PastInv, Comparing
<1>9. CheckInv'
  BY <1>1, <1>2, <1>5 DEF CheckInv
<1>10. DecideInv'
  <2>1. Decidable' => Decidable
    BY <1>2, <1>3, <1>5 DEF Decidable
  <2> QED
    BY <1>1, <1>2, <2>1 DEF DecideInv
<1>11. ComparisonTrue'
  BY <1>2, NotDone
<1> QED
  BY <1>4, <1>6, <1>7, <1>8, <1>9, <1>10, <1>11 DEF EventInv

\* A step of something else changes nothing.
LEMMA StutterKeeps == ASSUME EventInv, UNCHANGED eventVars PROVE EventInv'
<1>1. UNCHANGED <<evWave, evAsk, evGen, evOpened, evCursor, evPc, evSide, evAt, evValue, evGaps,
                  evExamined, evResult>>
  BY DEF eventVars
<1>2. EventType /\ WindowInv /\ CursorInv /\ PastInv /\ CheckInv /\ DecideInv /\ ComparisonTrue
  BY DEF EventInv
<1>3. /\ EvFrom' = EvFrom /\ EvStop' = EvStop /\ EvRequestedStop' = EvRequestedStop
      /\ EvRangeGaps' = EvRangeGaps
      /\ \A s : EvRowsOf(s)' = EvRowsOf(s)
      /\ \A t : EvAgree(t)' = EvAgree(t) /\ EvDisagree(t)' = EvDisagree(t)
      /\ \A s, t : EvValueAt(s, t)' = EvValueAt(s, t)
  BY <1>1, SameWaves
<1>4. EventType' /\ WindowInv' /\ PastInv' /\ CheckInv'
  BY <1>1, <1>2, <1>3 DEF EventType, WindowInv, PastInv, CheckInv, Comparing
<1>5. CursorInv'
  <2> SUFFICES ASSUME NEW s \in EvSides
               PROVE  /\ FirstRead(s)' => \/ Placed(s)' /\ Folded(s)'
                                          \/ CutOff(s)' /\ ~InstantTaken(s)'
                      /\ InstantTaken(s)' => AllLater(EvRowsOf(s)', Unread(s)', evAt')
    BY DEF CursorInv
  <2>1. /\ Placed(s)' = Placed(s) /\ Folded(s)' = Folded(s) /\ CutOff(s)' = CutOff(s)
        /\ Unread(s)' = Unread(s) /\ EvRowsOf(s)' = EvRowsOf(s)
    BY <1>1, CursorStays
  <2>2. FirstRead(s)' = FirstRead(s) /\ InstantTaken(s)' = InstantTaken(s)
    BY <1>1 DEF FirstRead, InstantTaken
  <2> QED
    BY <1>1, <1>2, <2>1, <2>2 DEF CursorInv
<1>6. DecideInv'
  BY <1>1, <1>2, DecidableStays DEF DecideInv
<1>7. ComparisonTrue'
  <2>1. \A s : EvOrdered(evWave'[s].rows) <=> EvOrdered(evWave[s].rows)
    BY <1>1
  <2> QED
    BY <1>1, <1>2, <1>3, <2>1 DEF ComparisonTrue, ComparisonSound, ComparisonDecides, EvHuge
<1> QED
  BY <1>2, <1>4, <1>5, <1>6, <1>7 DEF EventInv

\* What has been taken is a value of a record, or none.
LEMMA TakenType ==
    ASSUME EventType, NEW s \in EvSides, NEW unread \in 1 .. (Len(EvRowsOf(s)) + 1)
    PROVE  LastTaken(EvRowsOf(s), unread) \in EvValues
<1>1. unread # 1 => unread - 1 \in DOMAIN EvRowsOf(s)
  BY WaveFacts
<1>2. \A i \in DOMAIN EvRowsOf(s) : EvRowsOf(s)[i].v \in {"0", "1", "W", "x", "?"}
  BY WaveFacts
<1>3. \A v \in {"0", "1", "W", "x", "?"} : EvBits(v) \in EvValues
  BY DEF EvBits, EvValues
<1>4. EvNone \in EvValues
  BY DEF EvValues
<1> QED
  BY <1>1, <1>2, <1>3, <1>4 DEF LastTaken

\* A comparison under way is at an instant of the window.
LEMMA UnderWay ==
    ASSUME EventInv, Comparing
    PROVE  /\ EvFrom \in Nat /\ EvStop \in Int /\ evAt \in Nat
           /\ EvFrom <= evAt /\ evAt <= EvStop /\ evResult = EvNoAnswer /\ evSide \in EvSides
           /\ EvRangeGaps \subseteq evGaps
           /\ \A s \in EvSides :
                 /\ EvOrdered(EvRowsOf(s)) /\ EvRowsOf(s) \in Seq(EvRow)
                 /\ EvFirstRow(s) \in 1 .. (Len(EvRowsOf(s)) + 1)
                 /\ EvRowLimit(s) \in 1 .. (Len(EvRowsOf(s)) + 1)
                 /\ EvFirstRow(s) <= EvRowLimit(s)
<1>1. EventType /\ WindowInv
  BY DEF EventInv
<1>2. EvFrom \in Nat /\ EvStop \in Int
  BY <1>1, WaveFacts, StopFacts DEF EvSides
<1>3. /\ \A s \in EvSides : EvOrdered(EvRowsOf(s))
      /\ EvFrom <= evAt /\ evAt <= EvStop /\ evResult = EvNoAnswer
      /\ EvRangeGaps \subseteq evGaps
  BY <1>1 DEF WindowInv, Comparing
<1>4. evAt \in Nat /\ evSide \in EvSides
  BY <1>1 DEF EventType
<1>5. EvFrom <= EvStop
  BY <1>2, <1>3, <1>4
<1>6. ASSUME NEW s \in EvSides
      PROVE  /\ EvRowsOf(s) \in Seq(EvRow)
             /\ EvFirstRow(s) \in 1 .. (Len(EvRowsOf(s)) + 1)
             /\ EvRowLimit(s) \in 1 .. (Len(EvRowsOf(s)) + 1)
             /\ EvFirstRow(s) <= EvRowLimit(s)
  BY <1>1, <1>3, <1>5, RowsServed, WaveFacts
<1> QED
  BY <1>2, <1>3, <1>4, <1>6

\* What a step keeps that moves one cursor at an instant of a comparison.
LEMMA MoveKeeps ==
    ASSUME EventInv, Comparing, evPc' \in {"first", "fold"}, evPc' = "first" => evPc = "first",
           UNCHANGED <<evWave, evAsk, evGen, evOpened, evAt, evGaps, evExamined, evResult>>,
           evSide' \in EvSides, DOMAIN evCursor' = EvSides, evValue' \in [EvSides -> EvValues]
    PROVE  /\ EventType' /\ WindowInv' /\ PastInv' /\ CheckInv' /\ DecideInv' /\ ComparisonTrue'
<1>1. EventType /\ WindowInv /\ PastInv /\ DecideInv
  BY DEF EventInv
<1>2. EventType'
  BY <1>1 DEF EventType
<1>3. /\ EvFrom' = EvFrom /\ EvStop' = EvStop /\ EvRangeGaps' = EvRangeGaps
      /\ \A s : EvRowsOf(s)' = EvRowsOf(s)
      /\ \A t : EvAgree(t)' = EvAgree(t) /\ EvDisagree(t)' = EvDisagree(t)
  BY SameWaves
<1>4. WindowInv'
  BY <1>1, <1>3 DEF WindowInv, Comparing
<1>5. PastInv'
  BY <1>1, <1>3 DEF PastInv, Comparing
<1>6. CheckInv'
  BY DEF CheckInv
<1>7. DecideInv'
  BY <1>1, DecidableStays DEF DecideInv
<1>8. ComparisonTrue'
  BY NotDone
<1> QED
  BY <1>2, <1>4, <1>5, <1>6, <1>7, <1>8

\* The first page begins at the window, with the value before it.
LEMMA FirstPageKeeps == ASSUME EventInv, FirstPage PROVE EventInv'
<1>1. EventType /\ WindowInv /\ CursorInv
  BY DEF EventInv
<1> PICK s \in EvSides : s = evSide
  BY <1>1 DEF EventType
<1> PICK first : first = EvFirstRow(s)
  OBVIOUS
<1> PICK reader : reader = [index |-> first, first |-> TRUE]
  OBVIOUS
<1> PICK read : read = EvReadPage(s, reader)
  OBVIOUS
<1> PICK c : c = [reader |-> read.reader, page |-> read.page, pos |-> 1]
  OBVIOUS
<1>2. /\ UNCHANGED <<evWave, evAsk, evGen, evOpened, evAt, evGaps, evExamined, evResult>>
      /\ evPc = "first" /\ evPc' = (IF s = "a" THEN "first" ELSE "fold")
      /\ evSide' = (IF s = "a" THEN "b" ELSE "a")
      /\ evCursor' = [evCursor EXCEPT ![s] = c]
      /\ evValue' = [evValue EXCEPT ![s] = EvBits(read.page.predecessor)]
  BY DEF FirstPage
<1>3. Comparing
  BY <1>2 DEF Comparing
<1>4. evAt = EvFrom
  BY <1>1, <1>2 DEF WindowInv
<1>5. /\ EvOrdered(EvRowsOf(s)) /\ first \in 1 .. (Len(EvRowsOf(s)) + 1)
      /\ first <= EvRowLimit(s)
  BY <1>3, UnderWay
<1>6. reader \in [index : Nat \ {0}, first : BOOLEAN] /\ reader.index = first /\ reader.first
  BY <1>5
<1>7. \/ NothingRead(c, EvFrom) /\ ~NoneHuge(s) /\ EvBits(read.page.predecessor) = EvNone
      \/ /\ PageOn(c, EvRowsOf(s), EvFirstRow(s), EvRowLimit(s), NoneHuge(s))
         /\ UnreadOf(c) = first
         /\ EvBits(read.page.predecessor) = LastTaken(EvRowsOf(s), first)
  <2>1. /\ EvFirstRow(s) <= reader.index /\ reader.index <= EvRowLimit(s)
        /\ reader.first => reader.index = EvFirstRow(s)
    BY <1>5, <1>6
  <2>2. PageRead(s, reader, EvReadPage(s, reader), OnPage(EvReadPage(s, reader)))
    BY <1>1, <1>5, <1>6, <2>1, PageFacts
  <2>3. PageRead(s, reader, read, c)
    BY <2>2, Zenon DEF OnPage
  <2> QED
    BY <1>6, <2>3, Zenon DEF PageRead
<1>8. EvBits(read.page.predecessor) \in EvValues
  <2>1. EvNone \in EvValues
    BY DEF EvValues
  <2> QED
    BY <1>1, <1>5, <1>7, <2>1, TakenType
<1>9. /\ evCursor'[s] = c /\ evValue'[s] = EvBits(read.page.predecessor)
      /\ DOMAIN evCursor' = EvSides /\ evValue' \in [EvSides -> EvValues]
      /\ \A q \in EvSides \ {s} : evCursor'[q] = evCursor[q] /\ evValue'[q] = evValue[q]
  BY <1>1, <1>2, <1>8 DEF EventType
<1>10. /\ EvRowsOf(s)' = EvRowsOf(s) /\ EvFirstRow(s)' = EvFirstRow(s)
       /\ EvRowLimit(s)' = EvRowLimit(s) /\ NoneHuge(s)' = NoneHuge(s) /\ EvFrom' = EvFrom
  BY <1>2, SameWaves
<1>11. SplitAt(EvRowsOf(s), first, evAt)
  <2>1. EvFrom \in Nat
    BY <1>3, UnderWay
  <2>2. \A i \in DOMAIN EvRowsOf(s) :
           EvRowsOf(s)[i].t \in Nat /\ (i < first <=> EvRowsOf(s)[i].t < EvFrom)
    BY <1>1, <1>5, RowsServed, WaveFacts
  <2> QED
    BY <1>4, <2>1, <2>2 DEF SplitAt
<1>12. (Placed(s)' /\ Folded(s)') \/ CutOff(s)'
  <2>1. CASE NothingRead(c, EvFrom) /\ ~NoneHuge(s)
    BY <1>2, <1>4, <1>9, <1>10, <2>1 DEF CutOff
  <2>2. CASE /\ PageOn(c, EvRowsOf(s), EvFirstRow(s), EvRowLimit(s), NoneHuge(s))
             /\ UnreadOf(c) = first
             /\ EvBits(read.page.predecessor) = LastTaken(EvRowsOf(s), first)
    <3>1. Placed(s)'
      BY <1>9, <1>10, <2>2 DEF Placed
    <3>2. Folded(s)'
      BY <1>2, <1>9, <1>10, <1>11, <2>2 DEF Folded, Unread
    <3> QED
      BY <3>1, <3>2
  <2> QED
    BY <1>7, <2>1, <2>2
<1>13. CursorInv'
  <2>1. \A q : ~InstantTaken(q)'
    BY <1>2 DEF InstantTaken, EvSides
  <2>2. ASSUME NEW q \in EvSides, FirstRead(q)' PROVE (Placed(q)' /\ Folded(q)') \/ CutOff(q)'
    <3>1. CASE q = s
      BY <1>12, <3>1
    <3>2. CASE q # s
      <4>1. q = "a" /\ s = "b"
        BY <1>2, <2>2, <3>2 DEF FirstRead, EvSides
      <4>2. (Placed(q) /\ Folded(q)) \/ CutOff(q)
        BY <1>1, <1>2, <4>1 DEF CursorInv, FirstRead
      <4>3. Placed(q)' = Placed(q) /\ Folded(q)' = Folded(q) /\ CutOff(q)' = CutOff(q)
        BY <1>2, <1>9, <3>2, CursorStays
      <4> QED
        BY <4>2, <4>3
    <3> QED
      BY <3>1, <3>2
  <2> QED
    BY <2>1, <2>2 DEF CursorInv
<1>14. EventType' /\ WindowInv' /\ PastInv' /\ CheckInv' /\ DecideInv' /\ ComparisonTrue'
  <2>1. evSide' \in EvSides /\ evPc' \in {"first", "fold"} /\ (evPc' = "first" => evPc = "first")
    BY <1>2 DEF EvSides
  <2> QED
    BY <1>2, <1>3, <1>9, <2>1, MoveKeeps
<1> QED
  BY <1>13, <1>14 DEF EventInv

\* What a side has next, from its place.
LEMMA Peeked ==
    ASSUME EventInv, Comparing, NEW s \in EvSides
    PROVE  /\ Placed(s) =>
                /\ Unread(s) \in EvFirstRow(s) .. EvRowLimit(s)
                /\ Unread(s) \in 1 .. (Len(EvRowsOf(s)) + 1)
                /\ EvPeek(evCursor[s]) = IF Unread(s) = EvRowLimit(s) THEN NoTime
                                         ELSE EvRowsOf(s)[Unread(s)].t
                /\ Unread(s) # EvRowLimit(s) => /\ Unread(s) \in DOMAIN EvRowsOf(s)
                                                /\ EvRowsOf(s)[Unread(s)].t \in Nat
                /\ evCursor[s].pos > Len(evCursor[s].page.events) =>
                      Unread(s) = evCursor[s].reader.index
           /\ CutOff(s) =>
                /\ EvPeek(evCursor[s]) \in Nat /\ EvPeek(evCursor[s]) < evAt
                /\ evCursor[s].pos > Len(evCursor[s].page.events)
<1> PICK c : c = evCursor[s]
  OBVIOUS
<1> PICK rows \in Seq(EvRow) : rows = EvRowsOf(s)
  BY UnderWay
<1>1. EventType
  BY DEF EventInv
<1>2. /\ EvFirstRow(s) \in 1 .. (Len(rows) + 1) /\ EvRowLimit(s) \in 1 .. (Len(rows) + 1)
  BY UnderWay
<1>3. ASSUME Placed(s)
      PROVE  /\ Unread(s) \in EvFirstRow(s) .. EvRowLimit(s)
             /\ EvPeek(c) = IF Unread(s) = EvRowLimit(s) THEN NoTime ELSE rows[Unread(s)].t
             /\ c.pos > Len(c.page.events) => Unread(s) = c.reader.index
  <2> PICK first \in Nat \ {0}, limit \in Nat : first = EvFirstRow(s) /\ limit = EvRowLimit(s)
    BY <1>2
  <2>1. PICK fits : fits = NoneHuge(s)
    OBVIOUS
  <2>2. PageOn(c, rows, first, limit, fits)
    BY <1>3, <2>1, Zenon DEF Placed
  <2>3. limit <= Len(rows) + 1
    BY <1>2
  <2>4. /\ UnreadOf(c) \in first .. limit
        /\ EvPeek(c) = IF UnreadOf(c) = limit THEN NoTime ELSE rows[UnreadOf(c)].t
        /\ c.pos > Len(c.page.events) => UnreadOf(c) = c.reader.index
    BY <2>2, <2>3, PeekFacts
  <2> QED
    BY <2>4, Zenon DEF Unread
<1>4. ASSUME Placed(s)
      PROVE  /\ Unread(s) \in 1 .. (Len(rows) + 1)
             /\ Unread(s) # EvRowLimit(s) =>
                   Unread(s) \in DOMAIN rows /\ rows[Unread(s)].t \in Nat
  <2> PICK unread : unread = Unread(s)
    OBVIOUS
  <2>1. unread \in EvFirstRow(s) .. EvRowLimit(s)
    BY <1>3, <1>4
  <2>2. unread \in 1 .. (Len(rows) + 1)
    BY <1>2, <2>1
  <2>3. unread # EvRowLimit(s) => unread \in DOMAIN rows
    BY <1>2, <2>1
  <2>4. \A i \in DOMAIN rows : rows[i].t \in Nat
    BY <1>1, WaveFacts
  <2> QED
    BY <2>2, <2>3, <2>4
<1>5. ASSUME CutOff(s)
      PROVE  EvPeek(c) \in Nat /\ EvPeek(c) < evAt /\ c.pos > Len(c.page.events)
  <2>1. /\ c.page.events = <<>> /\ c.pos = 1 /\ c.page.next \in Nat /\ c.page.next < evAt
    BY <1>5 DEF CutOff, NothingRead
  <2>2. Len(c.page.events) = 0 /\ c.pos > Len(c.page.events) /\ ~(c.pos <= Len(c.page.events))
    BY <2>1
  <2>3. EvPeek(c) = c.page.next
    BY <2>2, Zenon DEF EvPeek
  <2> QED
    BY <2>1, <2>2, <2>3, Zenon
<1> QED
  BY <1>3, <1>4, <1>5

\* While an instant is folded, the side at work lies before the end of it.
LEMMA AtWork ==
    ASSUME EventInv, evPc = "fold", NEW s, s = evSide
    PROVE  /\ s \in EvSides /\ Comparing /\ ~InstantTaken(s)
           /\ (Placed(s) /\ Folded(s)) \/ CutOff(s)
           /\ EvPeek(evCursor[s]) # NoTime /\ EvPeek(evCursor[s]) >= evAt => Placed(s) /\ Folded(s)
           /\ EvPeek(evCursor[s]) < evAt /\ EvPeek(evCursor[s]) # NoTime => CutOff(s)
<1>1. CursorInv /\ EventType
  BY DEF EventInv
<1>2. s \in EvSides /\ Comparing
  BY <1>1 DEF EventType, Comparing
<1>3. ~InstantTaken(s) /\ FirstRead(s)
  BY DEF InstantTaken, FirstRead
<1>4. (Placed(s) /\ Folded(s)) \/ CutOff(s)
  BY <1>1, <1>2, <1>3 DEF CursorInv
<1>5. CutOff(s) => EvPeek(evCursor[s]) \in Nat /\ EvPeek(evCursor[s]) < evAt
  BY <1>2, Peeked
<1>6. ASSUME Placed(s), Folded(s)
      PROVE  \/ EvPeek(evCursor[s]) = NoTime
             \/ EvPeek(evCursor[s]) \in Nat /\ EvPeek(evCursor[s]) >= evAt
  <2> PICK unread : unread = Unread(s)
    OBVIOUS
  <2>1. /\ EvPeek(evCursor[s]) = IF unread = EvRowLimit(s) THEN NoTime ELSE EvRowsOf(s)[unread].t
        /\ unread \in 1 .. (Len(EvRowsOf(s)) + 1)
        /\ unread # EvRowLimit(s) => /\ unread \in DOMAIN EvRowsOf(s)
                                     /\ EvRowsOf(s)[unread].t \in Nat
    BY <1>2, <1>6, Peeked
  <2>2. unread \in Int /\ ~(unread < unread)
    BY <2>1
  <2>3. unread \in DOMAIN EvRowsOf(s) => EvRowsOf(s)[unread].t >= evAt
    BY <1>6, <2>2, Zenon DEF Folded, SplitAt
  <2> QED
    BY <2>1, <2>3, Zenon
<1>7. evAt \in Nat
  BY <1>1 DEF EventType
<1>8. CutOff(s) => ~(EvPeek(evCursor[s]) >= evAt)
  BY <1>5, <1>7
<1>9. Placed(s) /\ Folded(s) /\ EvPeek(evCursor[s]) # NoTime => ~(EvPeek(evCursor[s]) < evAt)
  BY <1>6, <1>7
<1> QED
  BY <1>2, <1>3, <1>4, <1>8, <1>9, Zenon

\* Taking rows of the instant on one side leaves the other as it is.
LEMMA FoldKeeps ==
    ASSUME EventInv, evPc = "fold", NEW s, s = evSide,
           UNCHANGED <<evWave, evAsk, evGen, evOpened, evPc, evSide, evAt, evGaps, evExamined,
                       evResult>>,
           DOMAIN evCursor' = EvSides, evValue' \in [EvSides -> EvValues],
           \A q \in EvSides \ {s} : evCursor'[q] = evCursor[q] /\ evValue'[q] = evValue[q],
           Placed(s)', Folded(s)'
    PROVE  EventInv'
<1>1. CursorInv /\ EventType
  BY DEF EventInv
<1>2. s \in EvSides /\ Comparing /\ ~InstantTaken(s)
  BY AtWork
<1>3. \A q : InstantTaken(q)' = InstantTaken(q) /\ FirstRead(q)' = FirstRead(q)
  BY DEF InstantTaken, FirstRead
<1>4. CursorInv'
  <2> SUFFICES ASSUME NEW q \in EvSides
               PROVE  /\ FirstRead(q)' => \/ Placed(q)' /\ Folded(q)'
                                          \/ CutOff(q)' /\ ~InstantTaken(q)'
                      /\ InstantTaken(q)' => AllLater(EvRowsOf(q)', Unread(q)', evAt')
    BY DEF CursorInv
  <2>1. CASE q = s
    BY <1>2, <1>3, <2>1
  <2>2. CASE q # s
    <3>1. /\ Placed(q)' = Placed(q) /\ Folded(q)' = Folded(q) /\ CutOff(q)' = CutOff(q)
          /\ Unread(q)' = Unread(q) /\ EvRowsOf(q)' = EvRowsOf(q)
      BY <2>2, CursorStays
    <3> QED
      BY <1>1, <1>3, <3>1 DEF CursorInv
  <2> QED
    BY <2>1, <2>2
<1>5. EventType' /\ WindowInv' /\ PastInv' /\ CheckInv' /\ DecideInv' /\ ComparisonTrue'
  BY <1>2, MoveKeeps
<1> QED
  BY <1>4, <1>5 DEF EventInv

\* An unread record before the instant is one that fits on no page.
LEMMA FoldBlockedKeeps == ASSUME EventInv, FoldBlocked PROVE EventInv'
<1> PICK s : s = evSide
  OBVIOUS
<1>1. /\ evPc = "fold" /\ EvPeek(evCursor[s]) # NoTime /\ EvPeek(evCursor[s]) < evAt
      /\ \E why : Incomplete(why)
  BY DEF FoldBlocked
<1>2. s \in EvSides /\ CutOff(s)
  BY <1>1, AtWork
<1>3. ~NoneHuge(s)
  BY <1>2, Zenon DEF CutOff
<1>4. ~Decidable
  BY <1>2, <1>3, Zenon DEF Decidable
<1> QED
  BY <1>1, <1>4, IncompleteKeeps

\* The last record of an instant on a page.
LEMMA LastOnPage ==
    ASSUME NEW page \in Seq(EvRow), NEW pos \in 1 .. Len(page), NEW at, page[pos].t = at,
           NEW last, last = Max({i \in pos .. Len(page) : page[i].t = at} \cup {0})
    PROVE  last \in pos .. Len(page) /\ page[last].t = at
<1> PICK n \in Nat : n = Len(page)
  OBVIOUS
<1> PICK here : here = {i \in pos .. n : page[i].t = at} \cup {0}
  OBVIOUS
<1>1. pos \in here /\ here \in SUBSET (0 .. n) /\ here # {}
  OBVIOUS
<1>2. Max(here) \in here /\ \A j \in here : Max(here) >= j
  BY <1>1, GreatestBelow
<1>3. Max(here) # 0
  BY <1>1, <1>2
<1>4. Max(here) \in pos .. n /\ page[Max(here)].t = at
  BY <1>2, <1>3
<1> QED
  BY <1>4, Zenon

\* Taking records of a page moves the place in the recording.
TakesUpTo(c, d, last, rows, first, limit, fits) ==
    /\ rows \in Seq(EvRow) /\ first \in Nat \ {0} /\ limit \in Nat
    /\ limit <= Len(rows) + 1 /\ PageOn(c, rows, first, limit, fits)
    /\ last \in c.pos .. Len(c.page.events) /\ d = [c EXCEPT !.pos = last + 1]

LEMMA TakeOnPage ==
    ASSUME NEW c, NEW d, NEW last, NEW rows, NEW first, NEW limit, NEW fits,
           TakesUpTo(c, d, last, rows, first, limit, fits)
    PROVE  /\ PageOn(d, rows, first, limit, fits)
           /\ UnreadOf(d) \in Int /\ UnreadOf(d) - 1 \in DOMAIN rows
           /\ UnreadOf(c) \in Int /\ UnreadOf(c) < UnreadOf(d)
           /\ c.page.events[last] = rows[UnreadOf(d) - 1]
<1> rows \in Seq(EvRow) /\ first \in Nat \ {0} /\ limit \in Nat
  BY DEF TakesUpTo
<1> limit <= Len(rows) + 1 /\ PageOn(c, rows, first, limit, fits)
  BY DEF TakesUpTo
<1> last \in c.pos .. Len(c.page.events) /\ d = [c EXCEPT !.pos = last + 1]
  BY DEF TakesUpTo
<1>1. c \in EvCursors /\ c.page.events \in Seq(EvRow)
  BY DEF PageOn, EvCursors
<1> PICK index \in Nat : index = c.reader.index
  BY <1>1 DEF EvCursors
<1> PICK pos \in Nat \ {0} : pos = c.pos
  BY <1>1 DEF EvCursors
<1> PICK page \in Seq(EvRow) : page = c.page.events
  BY <1>1
<1>15. page \in Seq(EvRow)
  OBVIOUS
<1> PICK n \in Nat : n = Len(page)
  BY ONLY <1>15
<1> PICK size \in Nat : size = Len(rows) /\ DOMAIN rows = 1 .. size
  OBVIOUS
<1>2. pos <= n + 1 /\ first <= UnreadOf(c) /\ n < index /\ index <= limit
  BY DEF PageOn
<1>3. \A k \in 1 .. n : page[k] = rows[index - 1 - n + k]
  BY DEF PageOn
<1>4. UnreadOf(c) = index - (n + 1 - pos)
  BY Zenon DEF UnreadOf
<1>5. d.pos = last + 1 /\ d.reader = c.reader /\ d.page = c.page
  BY <1>1 DEF EvCursors
<1>6. UnreadOf(d) = index - (n + 1 - (last + 1))
  BY <1>5, Zenon DEF UnreadOf
<1> PICK before : before = UnreadOf(c)
  OBVIOUS
<1> PICK after : after = UnreadOf(d)
  OBVIOUS
<1>7. /\ before = index - (n + 1 - pos) /\ after = index - (n + 1 - (last + 1))
      /\ first <= before
  BY <1>2, <1>4, <1>6, Zenon
<1>8. /\ index \in Nat /\ pos \in Nat \ {0} /\ n \in Nat /\ limit \in Nat /\ first \in Nat \ {0}
      /\ size \in Nat /\ last \in pos .. n /\ limit <= size + 1
  OBVIOUS
<1>9. /\ after \in Int /\ before \in Int /\ before < after /\ after - 1 \in 1 .. size
      /\ after - 1 = index - 1 - n + last /\ last \in 1 .. n /\ first <= after
      /\ last + 1 \in Nat \ {0} /\ last + 1 <= n + 1
  BY ONLY <1>2, <1>7, <1>8
<1>10. page[last] = rows[after - 1]
  BY ONLY <1>3, <1>9
<1>11. d \in EvCursors
  <2>1. last + 1 \in Nat \ {0}
    BY ONLY <1>9
  <2> QED
    BY <1>1, <2>1 DEF EvCursors
<1>12. PageOn(d, rows, first, limit, fits)
  <2>1. d.pos <= n + 1 /\ first <= UnreadOf(d)
    BY <1>5, <1>9, Zenon
  <2>2. n = Len(d.page.events)
    BY <1>5, Zenon
  <2>3. PageOn(c, rows, first, limit, fits)
    OBVIOUS
  <2> QED
    BY <1>5, <1>11, <2>1, <2>2, <2>3, Zenon DEF PageOn
<1>13. after - 1 \in DOMAIN rows
  BY <1>9, Zenon
<1>14. /\ UnreadOf(d) \in Int /\ UnreadOf(d) - 1 \in DOMAIN rows
       /\ UnreadOf(c) \in Int /\ UnreadOf(c) < UnreadOf(d)
       /\ c.page.events[last] = rows[UnreadOf(d) - 1]
  BY <1>9, <1>10, <1>13, Zenon
<1> QED
  BY <1>12, <1>14, Zenon

\* Rows of the instant move to the taken ones.
LEMMA SplitMoves ==
    ASSUME NEW rows \in Seq(EvRow), EvOrdered(rows), NEW before \in Int, NEW after \in Int,
           before < after, after - 1 \in DOMAIN rows, NEW at \in Nat, rows[after - 1].t = at,
           SplitAt(rows, before, at)
    PROVE  SplitAt(rows, after, at)
<1> SUFFICES ASSUME NEW i \in DOMAIN rows
             PROVE  IF i < after THEN rows[i].t <= at ELSE rows[i].t >= at
  BY Zenon DEF SplitAt
<1>1. i \in Int
  OBVIOUS
<1>2. CASE i < after
  <2>1. i <= after - 1
    BY <1>1, <1>2
  <2>2. rows[i].t <= rows[after - 1].t
    BY <2>1, OrderedRows
  <2> QED
    BY <1>2, <2>2, Zenon
<1>3. CASE ~(i < after)
  <2>1. ~(i < before)
    BY <1>1, <1>3
  <2> QED
    BY <1>3, <2>1, Zenon DEF SplitAt
<1> QED
  BY <1>2, <1>3

\* The records of the instant on a page are taken in one go, up to the last of them.
LEMMA FoldOnPageKeeps == ASSUME EventInv, FoldOnPage PROVE EventInv'
<1> PICK s : s = evSide
  OBVIOUS
<1> PICK c : c = evCursor[s]
  OBVIOUS
<1> PICK page : page = c.page.events
  OBVIOUS
<1> PICK last : last = Max({i \in c.pos .. Len(page) : page[i].t = evAt} \cup {0})
  OBVIOUS
<1>1. /\ evPc = "fold" /\ c.pos <= Len(page) /\ EvPeek(c) = evAt
      /\ evCursor' = [evCursor EXCEPT ![s].pos = last + 1]
      /\ evValue' = [evValue EXCEPT ![s] = EvBits(page[last].v)]
      /\ UNCHANGED <<evWave, evAsk, evGen, evOpened, evPc, evSide, evAt, evGaps, evExamined, evResult>>
  BY Zenon DEF FoldOnPage
<1>2. EventType /\ evAt \in Nat
  BY DEF EventInv, EventType
<1>3. s \in EvSides /\ Comparing
  BY <1>1, AtWork
<1>4. Placed(s) /\ Folded(s)
  <2>1. evAt # NoTime /\ evAt >= evAt
    BY <1>2 DEF NoTime
  <2> QED
    BY <1>1, <2>1, AtWork
<1> PICK rows \in Seq(EvRow) : rows = EvRowsOf(s)
  BY <1>3, UnderWay
<1> PICK limit \in Nat, first \in Nat \ {0} :
        limit = EvRowLimit(s) /\ first = EvFirstRow(s)
  BY <1>3, UnderWay
<1>5. EvOrdered(rows) /\ limit <= Len(rows) + 1
  BY <1>3, UnderWay
<1> PICK fits : fits = NoneHuge(s)
  OBVIOUS
<1>6. PageOn(c, rows, first, limit, fits)
  BY <1>4, Zenon DEF Placed
<1>7. page \in Seq(EvRow) /\ c.pos \in 1 .. Len(page)
  <2>1. c \in EvCursors
    BY <1>6 DEF PageOn
  <2>2. page \in Seq(EvRow) /\ c.pos \in Nat \ {0}
    BY <2>1 DEF EvCursors
  <2>3. Len(page) \in Nat /\ c.pos <= Len(page)
    BY <1>1, <2>2, LenProperties, Zenon
  <2> QED
    BY ONLY <2>2, <2>3
<1>8. page[c.pos].t = evAt
  BY <1>1, Zenon DEF EvPeek
<1>9. last \in c.pos .. Len(page) /\ page[last].t = evAt
  <2>1. page \in Seq(EvRow) /\ c.pos \in 1 .. Len(page)
    BY <1>7
  <2>2. last = Max({i \in c.pos .. Len(page) : page[i].t = evAt} \cup {0})
    OBVIOUS
  <2> QED
    BY ONLY <1>8, <2>1, <2>2, LastOnPage
<1> PICK d : d = [c EXCEPT !.pos = last + 1]
  OBVIOUS
<1> PICK after : after = UnreadOf(d)
  OBVIOUS
<1>10. /\ PageOn(d, rows, first, limit, fits) /\ after \in Int /\ after - 1 \in DOMAIN rows
       /\ UnreadOf(c) \in Int /\ UnreadOf(c) < after /\ page[last] = rows[after - 1]
  <2>1. rows \in Seq(EvRow) /\ first \in Nat \ {0} /\ limit \in Nat
    OBVIOUS
  <2>2. last \in c.pos .. Len(c.page.events) /\ d = [c EXCEPT !.pos = last + 1]
    BY <1>9, Zenon
  <2>3. /\ PageOn(d, rows, first, limit, fits)
        /\ UnreadOf(d) \in Int /\ UnreadOf(d) - 1 \in DOMAIN rows
        /\ UnreadOf(c) \in Int /\ UnreadOf(c) < UnreadOf(d)
        /\ c.page.events[last] = rows[UnreadOf(d) - 1]
    <3>1. TakesUpTo(c, d, last, rows, first, limit, fits)
      BY <1>5, <1>6, <2>1, <2>2, Zenon DEF TakesUpTo
    <3> QED
      BY ONLY <3>1, TakeOnPage
  <2> QED
    BY <2>3, Zenon
<1>10a. after \in 2 .. (Len(rows) + 1)
  <2>1. rows \in Seq(EvRow)
    OBVIOUS
  <2>2. after \in Int /\ after - 1 \in DOMAIN rows
    BY <1>10
  <2>3. Len(rows) \in Nat /\ DOMAIN rows = 1 .. Len(rows)
    BY ONLY <2>1, LenProperties
  <2> QED
    BY ONLY <2>2, <2>3
<1>11. EvBits(page[last].v) = LastTaken(rows, after)
  <2>1. after # 1
    BY ONLY <1>10a
  <2> QED
    BY <1>10, <2>1, Zenon DEF LastTaken
<1>12. SplitAt(rows, after, evAt)
  <2>1. SplitAt(rows, UnreadOf(c), evAt)
    BY <1>4, Zenon DEF Folded, Unread
  <2>2. rows[after - 1].t = evAt
    BY <1>9, <1>10, Zenon
  <2> QED
    BY <1>2, <1>5, <1>10, <2>1, <2>2, SplitMoves, Zenon
<1>13. /\ evCursor'[s] = d /\ evValue'[s] = EvBits(page[last].v)
       /\ DOMAIN evCursor' = EvSides /\ evValue' \in [EvSides -> EvValues]
       /\ \A q \in EvSides \ {s} : evCursor'[q] = evCursor[q] /\ evValue'[q] = evValue[q]
  <2>1. LastTaken(rows, after) \in EvValues
    <3>1. rows \in Seq(EvRow)
      OBVIOUS
    <3>2. Len(rows) \in Nat
      BY ONLY <3>1, LenProperties
    <3>3. after \in 1 .. (Len(rows) + 1)
      BY ONLY <1>10a, <3>2
    <3>4. after \in 1 .. (Len(EvRowsOf(s)) + 1)
      BY <3>3, Zenon
    <3>5. LastTaken(EvRowsOf(s), after) \in EvValues
      BY <1>2, <1>3, <3>4, TakenType, Zenon
    <3> QED
      BY <3>5, Zenon
  <2>2. DOMAIN evCursor = EvSides /\ evValue \in [EvSides -> EvValues]
    BY <1>2 DEF EventType
  <2> QED
    BY <1>1, <1>3, <1>11, <2>1, <2>2
<1>14. /\ EvRowsOf(s)' = EvRowsOf(s) /\ EvFirstRow(s)' = EvFirstRow(s)
       /\ EvRowLimit(s)' = EvRowLimit(s) /\ NoneHuge(s)' = NoneHuge(s)
  BY <1>1, SameWaves
<1>15. Placed(s)'
  BY <1>10, <1>13, <1>14, Zenon DEF Placed
<1>16. Folded(s)'
  BY <1>1, <1>11, <1>12, <1>13, <1>14, Zenon DEF Folded, Unread
<1> QED
  BY <1>1, <1>13, <1>15, <1>16, FoldKeeps

\* The records of an instant go on behind the page: the next one is there.
LEMMA FoldNextPageKeeps == ASSUME EventInv, FoldNextPage PROVE EventInv'
<1> PICK s : s = evSide
  OBVIOUS
<1> PICK c : c = evCursor[s]
  OBVIOUS
<1> PICK read : read = EvReadPage(s, c.reader)
  OBVIOUS
<1> PICK d : d = [reader |-> read.reader, page |-> read.page, pos |-> 1]
  OBVIOUS
<1>1. /\ evPc = "fold" /\ c.pos > Len(c.page.events) /\ EvPeek(c) = evAt
      /\ \/ (c.page.truncated \/ c.page.complete) /\ Incomplete("transition_data_truncated")
         \/ read.page.events = <<>> /\ Incomplete("transition_data_truncated")
         \/ /\ evCursor' = [evCursor EXCEPT ![s] = d]
            /\ UNCHANGED <<evWave, evAsk, evGen, evOpened, evPc, evSide, evAt, evValue,
                           evGaps, evExamined, evResult>>
  BY Zenon DEF FoldNextPage
<1>2. EventType /\ evAt \in Nat
  BY DEF EventInv, EventType
<1>3. s \in EvSides /\ Comparing
  BY <1>1, AtWork
<1>4. Placed(s) /\ Folded(s)
  <2>1. evAt # NoTime /\ evAt >= evAt
    BY <1>2 DEF NoTime
  <2> QED
    BY <1>1, <2>1, AtWork
<1> PICK limit \in Nat : limit = EvRowLimit(s)
  BY <1>3, UnderWay
<1> PICK unread : unread = Unread(s)
  OBVIOUS
<1>5. /\ unread \in EvFirstRow(s) .. limit /\ unread = c.reader.index /\ unread # limit
      /\ EvFirstRow(s) \in Nat
  <2>1. /\ unread \in EvFirstRow(s) .. limit /\ unread = c.reader.index
        /\ EvPeek(c) = IF unread = limit THEN NoTime ELSE EvRowsOf(s)[unread].t
    BY <1>1, <1>3, <1>4, Peeked, Zenon
  <2>2. evAt # NoTime
    BY <1>2 DEF NoTime
  <2>3. EvFirstRow(s) \in Nat
    BY <1>3, UnderWay
  <2> QED
    BY <1>1, <2>1, <2>2, <2>3, Zenon
<1>6. /\ c \in EvCursors /\ ~c.page.complete
      /\ NoneHuge(s) => ~c.page.truncated
  <2>1. c \in EvCursors /\ (c.page.complete <=> c.reader.index = limit)
    BY <1>4, Zenon DEF Placed, PageOn
  <2>2. NoneHuge(s) => ~c.page.truncated
    BY <1>4, Zenon DEF Placed, PageOn
  <2> QED
    BY <1>5, <2>1, <2>2, Zenon
<1>7. c.reader \in [index : Nat \ {0}, first : BOOLEAN] /\ ~c.reader.first
  <2>1. c.reader \in [index : Nat \ {0}, first : {FALSE}]
    BY <1>6 DEF EvCursors
  <2>2. ~c.reader.first
    BY <2>1
  <2> QED
    BY <2>1, <2>2
<1>8. /\ PageOn(d, EvRowsOf(s), EvFirstRow(s), limit, NoneHuge(s)) /\ UnreadOf(d) = unread
      /\ NoneHuge(s) => read.page.events # <<>>
  <2>1. /\ EvFirstRow(s) <= c.reader.index /\ c.reader.index <= limit /\ c.reader.index < limit
    BY <1>5
  <2>2. EvOrdered(EvRowsOf(s))
    BY <1>3, UnderWay
  <2>3. PageRead(s, c.reader, EvReadPage(s, c.reader), OnPage(EvReadPage(s, c.reader)))
    BY <1>2, <1>3, <1>7, <2>1, <2>2, PageFacts
  <2>4. PageRead(s, c.reader, read, d)
    BY <2>3, Zenon DEF OnPage
  <2>5. PageOn(d, EvRowsOf(s), EvFirstRow(s), limit, NoneHuge(s)) /\ UnreadOf(d) = c.reader.index
    BY <1>7, <2>4, Zenon DEF PageRead
  <2>6. NoneHuge(s) => read.page.events # <<>>
    BY <1>7, <2>1, <2>4, Zenon DEF PageRead
  <2> QED
    BY <1>5, <2>5, <2>6, Zenon
<1>9. ASSUME ~NoneHuge(s) PROVE ~Decidable
  BY <1>3, <1>9, Zenon DEF Decidable
<1>10. CASE (c.page.truncated \/ c.page.complete) /\ Incomplete("transition_data_truncated")
  <2>1. ~NoneHuge(s)
    BY <1>6, <1>10, Zenon
  <2> QED
    BY <1>1, <1>9, <1>10, <2>1, IncompleteKeeps
<1>11. CASE read.page.events = <<>> /\ Incomplete("transition_data_truncated")
  <2>1. ~NoneHuge(s)
    BY <1>8, <1>11, Zenon
  <2> QED
    BY <1>1, <1>9, <1>11, <2>1, IncompleteKeeps
<1>12. CASE /\ evCursor' = [evCursor EXCEPT ![s] = d]
            /\ UNCHANGED <<evWave, evAsk, evGen, evOpened, evPc, evSide, evAt, evValue,
                           evGaps, evExamined, evResult>>
  <2>1. /\ EvRowsOf(s)' = EvRowsOf(s) /\ EvFirstRow(s)' = EvFirstRow(s)
        /\ EvRowLimit(s)' = EvRowLimit(s) /\ NoneHuge(s)' = NoneHuge(s)
    BY <1>12, SameWaves
  <2>2. /\ evCursor'[s] = d /\ DOMAIN evCursor' = EvSides /\ evValue' \in [EvSides -> EvValues]
        /\ \A q \in EvSides \ {s} : evCursor'[q] = evCursor[q] /\ evValue'[q] = evValue[q]
    BY <1>2, <1>3, <1>12 DEF EventType
  <2>3. Placed(s)'
    BY <1>8, <2>1, <2>2, Zenon DEF Placed
  <2>4. Unread(s)' = Unread(s)
    BY <1>8, <2>2, Zenon DEF Unread
  <2>5. Folded(s)'
    BY <1>4, <1>12, <2>1, <2>4, Zenon DEF Folded
  <2> QED
    BY <1>1, <1>12, <2>2, <2>3, <2>5, FoldKeeps
<1> QED
  BY <1>1, <1>10, <1>11, <1>12

\* What is unread lies behind an instant of the window when the next row does, or
\* there is none.
LEMMA RestIsLater ==
    ASSUME EventInv, Comparing, NEW s \in EvSides, Placed(s), NEW t \in Nat, t <= EvStop,
           EvPeek(evCursor[s]) = NoTime \/ EvPeek(evCursor[s]) > t
    PROVE  AllLater(EvRowsOf(s), Unread(s), t)
<1> PICK rows \in Seq(EvRow) : rows = EvRowsOf(s)
  BY UnderWay
<1> PICK limit \in Nat : limit = EvRowLimit(s)
  BY UnderWay
<1> PICK unread : unread = Unread(s)
  OBVIOUS
<1>1. EvOrdered(rows) /\ EvStop \in Int /\ limit \in 1 .. (Len(rows) + 1)
  BY UnderWay
<1>2. /\ unread \in 1 .. (Len(rows) + 1)
      /\ EvPeek(evCursor[s]) = IF unread = limit THEN NoTime ELSE rows[unread].t
      /\ unread # limit => unread \in DOMAIN rows /\ rows[unread].t \in Nat
  BY Peeked, Zenon
<1>3. \A i \in DOMAIN rows : rows[i].t \in Nat /\ (i >= limit => rows[i].t > EvStop)
  BY <1>1, RowsServed, WaveFacts DEF EventInv
<1> SUFFICES ASSUME NEW i \in DOMAIN rows, i >= unread PROVE rows[i].t > t
  BY Zenon DEF AllLater
<1>4. CASE unread = limit
  <2>1. rows[i].t > EvStop /\ rows[i].t \in Nat
    BY <1>3, <1>4
  <2> QED
    BY <1>1, <2>1
<1>5. CASE unread # limit
  <2>1. rows[unread].t \in Nat /\ unread \in DOMAIN rows /\ EvPeek(evCursor[s]) = rows[unread].t
    BY <1>2, <1>5, Zenon
  <2>2. rows[unread].t # NoTime
    BY <2>1 DEF NoTime
  <2>3. rows[unread].t > t
    BY <2>1, <2>2, Zenon
  <2>4. rows[unread].t <= rows[i].t /\ rows[i].t \in Nat
    BY <1>1, <1>3, <2>1, OrderedRows
  <2> QED
    BY <2>1, <2>3, <2>4
<1> QED
  BY <1>4, <1>5

\* A folded side has taken every record of the instant.
LEMMA FoldDoneKeeps == ASSUME EventInv, FoldDone PROVE EventInv'
<1>1. EventType /\ WindowInv /\ CursorInv /\ PastInv /\ DecideInv
  BY DEF EventInv
<1> PICK s : s = evSide
  OBVIOUS
<1>2. /\ evPc = "fold" /\ GroupDone(evCursor[s])
      /\ evPc' = (IF s = "a" THEN "fold" ELSE "compare")
      /\ evSide' = (IF s = "a" THEN "b" ELSE "a")
      /\ UNCHANGED <<evWave, evAsk, evGen, evOpened, evCursor, evAt, evValue, evGaps,
                     evExamined, evResult>>
  BY DEF FoldDone
<1>3. s \in EvSides /\ Comparing
  BY <1>2, AtWork
<1>4. Placed(s) /\ Folded(s)
  <2>1. EvPeek(evCursor[s]) = NoTime \/ EvPeek(evCursor[s]) > evAt
    BY <1>2 DEF GroupDone
  <2>2. CutOff(s) => EvPeek(evCursor[s]) \in Nat /\ EvPeek(evCursor[s]) < evAt
    BY <1>3, Peeked
  <2>3. evAt \in Nat
    BY <1>1 DEF EventType
  <2>4. ~CutOff(s)
    BY <2>1, <2>2, <2>3 DEF NoTime
  <2> QED
    BY <1>2, <2>4, AtWork
<1>5. AllLater(EvRowsOf(s), Unread(s), evAt)
  <2>1. EvPeek(evCursor[s]) = NoTime \/ EvPeek(evCursor[s]) > evAt
    BY <1>2 DEF GroupDone
  <2>2. evAt \in Nat /\ evAt <= EvStop
    BY <1>3, UnderWay
  <2> QED
    BY <1>3, <1>4, <2>1, <2>2, RestIsLater
<1>6. ASSUME NEW q \in EvSides
      PROVE  /\ Placed(q)' = Placed(q) /\ Folded(q)' = Folded(q) /\ CutOff(q)' = CutOff(q)
             /\ Unread(q)' = Unread(q) /\ EvRowsOf(q)' = EvRowsOf(q)
  BY <1>2, CursorStays
<1>7. CursorInv'
  <2> SUFFICES ASSUME NEW q \in EvSides
               PROVE  /\ FirstRead(q)' => \/ Placed(q)' /\ Folded(q)'
                                          \/ CutOff(q)' /\ ~InstantTaken(q)'
                      /\ InstantTaken(q)' => AllLater(EvRowsOf(q)', Unread(q)', evAt')
    BY DEF CursorInv
  <2>1. CASE q = s
    BY <1>2, <1>4, <1>5, <1>6, <2>1
  <2>2. CASE q # s
    <3>1. FirstRead(q) /\ (InstantTaken(q)' => InstantTaken(q))
      BY <1>2, <1>3, <2>2 DEF FirstRead, InstantTaken, EvSides
    <3>2. /\ (Placed(q) /\ Folded(q)) \/ (CutOff(q) /\ ~InstantTaken(q))
          /\ InstantTaken(q) => AllLater(EvRowsOf(q), Unread(q), evAt)
      BY <1>1, <3>1 DEF CursorInv
    <3> QED
      BY <1>2, <1>6, <3>1, <3>2
  <2> QED
    BY <2>1, <2>2
<1>8. /\ EvFrom' = EvFrom /\ EvStop' = EvStop /\ EvRangeGaps' = EvRangeGaps
      /\ \A q : EvRowsOf(q)' = EvRowsOf(q)
      /\ \A t : EvAgree(t)' = EvAgree(t) /\ EvDisagree(t)' = EvDisagree(t)
  BY <1>2, SameWaves
<1>9. evPc' \in {"fold", "compare"} /\ evSide' \in EvSides /\ (evPc' = "compare" => evSide' = "a")
  BY <1>2, <1>3 DEF EvSides
<1>10. EventType'
  BY <1>1, <1>2, <1>9 DEF EventType
<1>11. WindowInv'
  BY <1>1, <1>2, <1>3, <1>8, <1>9 DEF WindowInv, Comparing
<1>12. PastInv'
  BY <1>1, <1>2, <1>3, <1>8 DEF PastInv
<1>13. CheckInv'
  BY <1>9 DEF CheckInv
<1>14. DecideInv'
  BY <1>1, <1>2, <1>9, DecidableStays DEF DecideInv
<1>15. ComparisonTrue'
  BY <1>9, NotDone
<1> QED
  BY <1>7, <1>10, <1>11, <1>12, <1>13, <1>14, <1>15 DEF EventInv

\* At the comparison of an instant both values are those of the recordings, and stay so
\* until the next record.
LEMMA BothTaken ==
    ASSUME EventInv, evPc = "compare"
    PROVE  /\ Comparing
           /\ \A s \in EvSides :
                 /\ Placed(s) /\ Folded(s) /\ AllLater(EvRowsOf(s), Unread(s), evAt)
                 /\ EvPeek(evCursor[s]) = NoTime
                    \/ (EvPeek(evCursor[s]) \in Nat /\ EvPeek(evCursor[s]) > evAt)
<1>1. CursorInv /\ Comparing
  BY DEF EventInv, Comparing
<1> SUFFICES ASSUME NEW s \in EvSides
             PROVE  /\ Placed(s) /\ Folded(s) /\ AllLater(EvRowsOf(s), Unread(s), evAt)
                    /\ EvPeek(evCursor[s]) = NoTime
                       \/ (EvPeek(evCursor[s]) \in Nat /\ EvPeek(evCursor[s]) > evAt)
  BY <1>1
<1>2. FirstRead(s) /\ InstantTaken(s)
  BY DEF FirstRead, InstantTaken
<1>3. Placed(s) /\ Folded(s) /\ AllLater(EvRowsOf(s), Unread(s), evAt)
  BY <1>1, <1>2 DEF CursorInv
<1> PICK unread : unread = Unread(s)
  OBVIOUS
<1>4. /\ unread \in 1 .. (Len(EvRowsOf(s)) + 1)
      /\ EvPeek(evCursor[s]) = IF unread = EvRowLimit(s) THEN NoTime ELSE EvRowsOf(s)[unread].t
      /\ unread # EvRowLimit(s) =>
            unread \in DOMAIN EvRowsOf(s) /\ EvRowsOf(s)[unread].t \in Nat
  BY <1>1, <1>3, Peeked, Zenon
<1>5. unread >= unread
  BY <1>4
<1>6. unread \in DOMAIN EvRowsOf(s) => EvRowsOf(s)[unread].t > evAt
  BY <1>3, <1>5, Zenon DEF AllLater
<1> QED
  BY <1>3, <1>4, <1>6, Zenon

\* A folded value is that of the recording until the next record.
LEMMA ValueStays ==
    ASSUME EventInv, evPc = "compare", NEW s \in EvSides, NEW t \in evAt .. EvStop,
           t = evAt \/ EvPeek(evCursor[s]) = NoTime \/ EvPeek(evCursor[s]) > t
    PROVE  EvValueAt(s, t) = evValue[s]
<1>1. /\ Comparing /\ Placed(s) /\ Folded(s) /\ AllLater(EvRowsOf(s), Unread(s), evAt)
      /\ EventType
  BY BothTaken DEF EventInv
<1>2. evAt \in Nat /\ EvStop \in Int
  BY <1>1, UnderWay
<1>3. t \in Nat /\ evAt <= t /\ t <= EvStop
  BY <1>2
<1> PICK unread : unread = Unread(s)
  OBVIOUS
<1>4. AllLater(EvRowsOf(s), unread, t)
  BY <1>1, <1>3, RestIsLater
<1>5. unread \in 1 .. (Len(EvRowsOf(s)) + 1)
  BY <1>1, Peeked, Zenon
<1>6. \A i \in DOMAIN EvRowsOf(s) : i < unread => EvRowsOf(s)[i].t <= t
  <2>1. SplitAt(EvRowsOf(s), unread, evAt)
    BY <1>1, Zenon DEF Folded
  <2>2. \A i \in DOMAIN EvRowsOf(s) : EvRowsOf(s)[i].t \in Nat
    BY <1>1, WaveFacts
  <2>3. \A i \in DOMAIN EvRowsOf(s) : i < unread => EvRowsOf(s)[i].t <= evAt
    BY <2>1, Zenon DEF SplitAt
  <2> QED
    BY <1>2, <1>3, <2>2, <2>3
<1>7. t \in Int
  BY <1>3
<1>8. EvValueAt(s, t) = LastTaken(EvRowsOf(s), unread)
  BY <1>1, <1>4, <1>5, <1>6, <1>7, ValueTaken
<1> QED
  BY <1>1, <1>8, Zenon DEF Folded

\* A value that is missing or unknown leaves a gap no later than the instant.
ValueNoted(gaps, s) ==
    IF evValue[s] = EvNone THEN EvNote(gaps, "value_unavailable", s, evAt)
    ELSE IF ~EvKnown(evValue[s]) THEN EvNote(gaps, "value_unknown", s, evAt)
    ELSE gaps
GapsUpTo(gaps) ==
    \A g \in gaps : g.why \in {"value_unavailable", "value_unknown"} => g.at <= evAt

\* What noting the gap of one value adds.
LEMMA NotedFacts ==
    ASSUME evAt \in Nat, NEW gaps, GapsUpTo(gaps), NEW s
    PROVE  /\ gaps \subseteq ValueNoted(gaps, s) /\ GapsUpTo(ValueNoted(gaps, s))
           /\ \A g \in ValueNoted(gaps, s) : g \in gaps \/ g.at = evAt
           /\ EvKnown(evValue[s]) => ValueNoted(gaps, s) = gaps
           /\ ~EvKnown(evValue[s]) => \E g \in ValueNoted(gaps, s) : g.at <= evAt
<1>1. evAt <= evAt
  OBVIOUS
<1>2. CASE EvKnown(evValue[s])
  BY <1>2 DEF ValueNoted, EvKnown, EvNone
<1>3. CASE ~EvKnown(evValue[s])
  <2>1. PICK why \in {"value_unavailable", "value_unknown"} :
            ValueNoted(gaps, s) = EvNote(gaps, why, s, evAt)
    BY <1>3, Zenon DEF ValueNoted
  <2> PICK new : new = EvNote(gaps, why, s, evAt)
    OBVIOUS
  <2>2. /\ gaps \subseteq new /\ \A g \in new : g \in gaps \/ g.at = evAt
        /\ \E g \in new : g.why = why /\ g.side = s
    BY NoteFacts
  <2>3. GapsUpTo(new)
    BY <1>1, <2>2, Zenon DEF GapsUpTo
  <2>4. \E g \in new : g.at <= evAt
    BY <2>2, <2>3, Zenon DEF GapsUpTo
  <2> QED
    BY <1>3, <2>1, <2>2, <2>3, <2>4, Zenon
<1> QED
  BY <1>2, <1>3

\* What noting the gaps of both values adds.
LEMMA ValueGapFacts ==
    ASSUME EventInv, Comparing
    PROVE  /\ evGaps \subseteq EvValueGaps /\ GapsUpTo(EvValueGaps)
           /\ \A g \in EvValueGaps : g \in evGaps \/ g.at = evAt
           /\ (\A s \in EvSides : EvKnown(evValue[s])) => EvValueGaps = evGaps
           /\ (\A s \in EvSides : EvKnown(evValue[s])) \/ \E g \in EvValueGaps : g.at <= evAt
<1> PICK one : one = ValueNoted(evGaps, "a")
  OBVIOUS
<1> PICK two : two = ValueNoted(one, "b")
  OBVIOUS
<1>1. EvValueGaps = two
  BY Zenon DEF EvValueGaps, ValueNoted
<1>2. evAt \in Nat /\ GapsUpTo(evGaps)
  BY DEF EventInv, EventType, WindowInv, GapsUpTo
<1>3. /\ evGaps \subseteq one /\ GapsUpTo(one) /\ \A g \in one : g \in evGaps \/ g.at = evAt
      /\ EvKnown(evValue["a"]) => one = evGaps
      /\ ~EvKnown(evValue["a"]) => \E g \in one : g.at <= evAt
  BY <1>2, NotedFacts, Zenon
<1>4. /\ one \subseteq two /\ GapsUpTo(two) /\ \A g \in two : g \in one \/ g.at = evAt
      /\ EvKnown(evValue["b"]) => two = one
      /\ ~EvKnown(evValue["b"]) => \E g \in two : g.at <= evAt
  <2>1. evAt \in Nat /\ GapsUpTo(one) /\ two = ValueNoted(one, "b")
    BY <1>2, <1>3, Zenon
  <2> QED
    BY ONLY <2>1, NotedFacts, Zenon
<1>5. (\A s \in EvSides : EvKnown(evValue[s])) <=> EvKnown(evValue["a"]) /\ EvKnown(evValue["b"])
  BY DEF EvSides
<1> QED
  BY <1>1, <1>3, <1>4, <1>5, Zenon

\* The next instant at which either side has a record.
LEMMA NextInstant ==
    ASSUME EventInv, evPc = "compare"
    PROVE  /\ Upcoming = {} => \A s \in EvSides : EvPeek(evCursor[s]) = NoTime
           /\ Upcoming # {} =>
                 /\ Min(Upcoming) \in Nat /\ Min(Upcoming) > evAt
                 /\ \A s \in EvSides :
                       EvPeek(evCursor[s]) = NoTime
                       \/ (EvPeek(evCursor[s]) \in Nat /\ EvPeek(evCursor[s]) >= Min(Upcoming))
<1>1. \A s \in EvSides : EvPeek(evCursor[s]) = NoTime
                         \/ (EvPeek(evCursor[s]) \in Nat /\ EvPeek(evCursor[s]) > evAt)
  BY BothTaken
<1>2. \A s \in EvSides : EvPeek(evCursor[s]) = NoTime \/ EvPeek(evCursor[s]) \in Upcoming
  BY DEF Upcoming
<1>3. \A t \in Upcoming : t \in Nat /\ t > evAt
  BY <1>1 DEF Upcoming
<1>4. Upcoming \in SUBSET Nat
  BY <1>3
<1>5. Upcoming # {} => Min(Upcoming) \in Upcoming /\ \A t \in Upcoming : Min(Upcoming) <= t
  BY <1>4, LeastIn
<1> QED
  BY <1>2, <1>3, <1>5

\* What is known at an instant: both values, and whether they agree until the next.
LEMMA CompareFacts ==
    ASSUME EventInv, evPc = "compare"
    PROVE  /\ EventType /\ Comparing /\ EvFrom \in Nat /\ EvStop \in Int /\ evAt \in EvFrom .. EvStop
           /\ evAt \in Nat
           /\ Differs => EvDisagree(evAt)
           /\ ~Differs =>
                 \A t \in evAt .. EvStop :
                    (\A s \in EvSides : \/ EvPeek(evCursor[s]) = NoTime
                                        \/ EvPeek(evCursor[s]) > t) =>
                       /\ ~EvDisagree(t)
                       /\ EvAgree(t) \/ \E g \in EvValueGaps : g.at <= evAt
           /\ Decidable => EvValueGaps = {}
<1>1. EventType /\ DecideInv
  BY DEF EventInv
<1>2. /\ Comparing /\ EvFrom \in Nat /\ EvStop \in Int /\ evAt \in Nat
      /\ EvFrom <= evAt /\ evAt <= EvStop
  BY BothTaken, UnderWay
<1>3. evAt \in evAt .. EvStop /\ evAt \in EvFrom .. EvStop
  BY <1>2
<1>4. \A s \in EvSides : EvValueAt(s, evAt) = evValue[s]
  BY <1>3, ValueStays
<1>5. Differs => EvDisagree(evAt)
  BY <1>4 DEF Differs, EvDisagree, EvSides
<1>6. ASSUME ~Differs, NEW t \in evAt .. EvStop,
             \A s \in EvSides : EvPeek(evCursor[s]) = NoTime \/ EvPeek(evCursor[s]) > t
      PROVE  /\ ~EvDisagree(t)
             /\ EvAgree(t) \/ \E g \in EvValueGaps : g.at <= evAt
  <2>1. \A s \in EvSides : EvValueAt(s, t) = evValue[s]
    BY <1>6, ValueStays
  <2>2. EvValueAt("a", t) = evValue["a"] /\ EvValueAt("b", t) = evValue["b"]
    BY <2>1 DEF EvSides
  <2>3. ~EvDisagree(t)
    BY <1>6, <2>2 DEF Differs, EvDisagree, EvSides
  <2>4. (\A s \in EvSides : EvKnown(evValue[s])) => EvAgree(t)
    BY <1>6, <2>2 DEF Differs, EvAgree, EvSides
  <2>5. (\A s \in EvSides : EvKnown(evValue[s])) \/ \E g \in EvValueGaps : g.at <= evAt
    BY <1>2, ValueGapFacts
  <2> QED
    BY <2>3, <2>4, <2>5
<1>7. Decidable => EvValueGaps = {}
  <2> SUFFICES ASSUME Decidable PROVE EvValueGaps = {}
    OBVIOUS
  <2>1. \A s \in EvSides : EvKnown(evValue[s])
    BY <1>3, <1>4 DEF Decidable
  <2>2. evGaps = {}
    BY <1>1 DEF DecideInv
  <2> QED
    BY <1>2, <2>1, <2>2, ValueGapFacts
<1> QED
  BY <1>1, <1>2, <1>3, <1>5, <1>6, <1>7

\* An instant is compared: a difference, the end of the search, or the next instant.
LEMMA CompareKeeps == ASSUME EventInv, CompareInstant PROVE EventInv'
<1>1. EventType /\ WindowInv /\ CursorInv /\ PastInv /\ DecideInv
  BY DEF EventInv
<1>2. /\ evPc = "compare" /\ evExamined' = TRUE /\ evGaps' = EvValueGaps
      /\ UNCHANGED <<evWave, evAsk, evGen, evOpened, evCursor, evSide, evValue>>
  BY DEF CompareInstant
<1>3. /\ Comparing /\ EvFrom \in Nat /\ EvStop \in Int /\ evAt \in EvFrom .. EvStop /\ evAt \in Nat
      /\ Differs => EvDisagree(evAt)
      /\ Decidable => EvValueGaps = {}
  BY <1>2, CompareFacts
<1>4. /\ evGaps \subseteq EvValueGaps /\ GapsUpTo(EvValueGaps)
      /\ \A g \in EvValueGaps : g \in evGaps \/ g.at = evAt
  BY <1>3, ValueGapFacts
<1>5. /\ EvFrom' = EvFrom /\ EvStop' = EvStop /\ EvRangeGaps' = EvRangeGaps
      /\ \A q : /\ EvRowsOf(q)' = EvRowsOf(q) /\ EvFirstRow(q)' = EvFirstRow(q)
                /\ EvRowLimit(q)' = EvRowLimit(q) /\ NoneHuge(q)' = NoneHuge(q)
      /\ \A t : EvAgree(t)' = EvAgree(t) /\ EvDisagree(t)' = EvDisagree(t)
  BY <1>2, SameWaves
<1>6. Decidable' <=> Decidable
  BY <1>2, DecidableStays
<1>7. evResult = EvNoAnswer /\ EvRangeGaps \subseteq evGaps
  BY <1>1, <1>3 DEF WindowInv, Comparing
<1>8. \A g \in evGaps' : g.at \in Int
  BY <1>1, <1>2, <1>3, <1>4 DEF EventType
<1>9. \A t \in EvFrom .. (evAt - 1) : ~EvDisagree(t) /\ (EvAgree(t) \/ \E g \in evGaps : g.at <= t)
  BY <1>1, <1>3 DEF PastInv
<1>10. evSide' \in EvSides /\ evSide' = "a"
  BY <1>1, <1>2 DEF EventType, WindowInv
<1>11. ASSUME evPc' = "check", evAt' = evAt, evResult' \in EvResults, CheckInv',
              Decidable => (evResult'.status = "different" => evResult'.proven)
       PROVE  EventInv'
  <2>1. EventType'
    BY <1>1, <1>2, <1>8, <1>10, <1>11 DEF EventType
  <2>2. WindowInv'
    BY <1>1, <1>2, <1>4, <1>5, <1>7, <1>11 DEF WindowInv, Comparing
  <2>3. CursorInv' /\ PastInv'
    BY <1>11 DEF CursorInv, PastInv, Comparing, FirstRead, InstantTaken
  <2>4. DecideInv'
    BY <1>2, <1>3, <1>6, <1>11 DEF DecideInv
  <2>5. ComparisonTrue'
    BY <1>11, NotDone
  <2> QED
    BY <1>11, <2>1, <2>2, <2>3, <2>4, <2>5 DEF EventInv
<1>12. CASE Differs
  <2>1. /\ evResult' = [evResult EXCEPT !.status = "different", !.fs = evAt,
                                        !.ps = EvToPs(evAt), !.proven = Proven(evGaps')]
        /\ evPc' = "check" /\ evAt' = evAt
    BY <1>12 DEF CompareInstant
  <2> PICK proven : proven = (~\E g \in EvValueGaps : g.at <= evAt)
    OBVIOUS
  <2>2. evResult' = [status |-> "different", fs |-> evAt, ps |-> EvToPs(evAt), proven |-> proven,
                     coverage |-> "none"]
    BY <1>2, <1>7, <2>1 DEF EvNoAnswer, Proven
  <2>3. /\ evResult'.status = "different" /\ evResult'.fs = evAt /\ evResult'.proven = proven
    BY <2>2
  <2>4. evResult' \in EvResults
    <3>1. EvToPs(evAt) \in Int
      BY <1>3, FsPerPsAssumption DEF EvToPs
    <3>2. proven \in BOOLEAN
      OBVIOUS
    <3> QED
      BY <1>3, <2>2, <3>1, <3>2 DEF EvResults
  <2>5. proven => \A t \in EvFrom .. (evAt - 1) : EvAgree(t)
    <3> SUFFICES ASSUME proven, NEW t \in EvFrom .. (evAt - 1) PROVE EvAgree(t)
      OBVIOUS
    <3>1. \A g \in EvValueGaps : ~(g.at <= evAt)
      BY Zenon
    <3>2. ASSUME NEW g \in evGaps, g.at <= t PROVE FALSE
      <4>1. g.at \in Int /\ g \in EvValueGaps
        BY <1>1, <1>4 DEF EventType
      <4>2. g.at <= evAt
        BY <1>3, <3>2, <4>1
      <4> QED
        BY <3>1, <4>1, <4>2, Zenon
    <3> QED
      BY <1>9, <3>2
  <2>6. CheckInv'
    BY <1>3, <1>5, <1>9, <1>12, <2>3, <2>5 DEF CheckInv
  <2>7. Decidable => proven
    BY <1>3
  <2> QED
    BY <1>11, <2>1, <2>3, <2>4, <2>6, <2>7
<1>13. CASE ~Differs /\ (Upcoming = {} \/ Min(Upcoming) > EvStop)
  <2>1. evResult' = evResult /\ evPc' = "check" /\ evAt' = evAt
    BY <1>13 DEF CompareInstant
  <2>2. evResult' \in EvResults /\ evResult'.status = "inconclusive"
    BY <1>7, <2>1 DEF EvNoAnswer, EvResults, NoTime
  <2>3. ASSUME EvValueGaps = {}, NEW t \in EvFrom .. EvStop PROVE EvAgree(t)
    <3>1. CASE t < evAt
      <4>1. t \in EvFrom .. (evAt - 1)
        BY <1>3, <3>1
      <4> QED
        BY <1>4, <1>9, <2>3, <4>1
    <3>2. CASE ~(t < evAt)
      <4>1. t \in evAt .. EvStop
        BY <1>3, <3>2
      <4>2. \A s \in EvSides : EvPeek(evCursor[s]) = NoTime \/ EvPeek(evCursor[s]) > t
        BY <1>2, <1>3, <1>13, <4>1, NextInstant
      <4> QED
        BY <1>2, <1>13, <2>3, <4>1, <4>2, CompareFacts
    <3> QED
      BY <3>1, <3>2
  <2>4. CheckInv'
    BY <1>2, <1>5, <2>2, <2>3 DEF CheckInv
  <2> QED
    BY <1>11, <2>1, <2>2, <2>4
<1>14. CASE ~Differs /\ ~(Upcoming = {} \/ Min(Upcoming) > EvStop)
  <2> PICK next : next = Min(Upcoming)
    OBVIOUS
  <2>1. evResult' = evResult /\ evPc' = "fold" /\ evAt' = next
    BY <1>14 DEF CompareInstant
  <2>2. /\ next \in Nat /\ next > evAt /\ next <= EvStop
        /\ \A s \in EvSides :
              EvPeek(evCursor[s]) = NoTime
              \/ (EvPeek(evCursor[s]) \in Nat /\ EvPeek(evCursor[s]) >= next)
    BY <1>2, <1>3, <1>14, NextInstant
  <2>3. EventType'
    BY <1>1, <1>2, <1>8, <1>10, <2>1, <2>2 DEF EventType
  <2>4. WindowInv'
    <3>1. \A g \in evGaps' : g.why \in {"value_unavailable", "value_unknown"} => g.at <= next
      BY <1>2, <1>3, <1>4, <1>8, <2>2 DEF GapsUpTo
    <3>2. EvFrom <= next /\ next <= EvStop
      BY <1>3, <2>2
    <3> QED
      BY <1>1, <1>2, <1>3, <1>4, <1>5, <1>7, <2>1, <3>1, <3>2 DEF WindowInv, Comparing
  <2>5. CursorInv'
    <3>1. \A q : ~InstantTaken(q)'
      BY <1>10, <2>1 DEF InstantTaken
    <3>2. ASSUME NEW s \in EvSides PROVE Placed(s)' /\ Folded(s)'
      <4>1. /\ Placed(s) /\ Folded(s)
        BY <1>2, BothTaken
      <4>2. Unread(s)' = Unread(s)
        BY <1>2, Zenon DEF Unread
      <4>3. Placed(s)'
        BY <1>2, <1>5, <4>1, Zenon DEF Placed
      <4> PICK before \in Nat : before = next - 1
        BY <1>3, <2>2
      <4>4. AllLater(EvRowsOf(s), Unread(s), before)
        <5>1. EvPeek(evCursor[s]) = NoTime \/ EvPeek(evCursor[s]) > before
          BY <1>3, <2>2
        <5>2. before <= EvStop
          BY <1>3, <2>2
        <5> QED
          BY <1>3, <4>1, <5>1, <5>2, RestIsLater
      <4>5. SplitAt(EvRowsOf(s), Unread(s), next)
        <5> SUFFICES ASSUME NEW i \in DOMAIN EvRowsOf(s)
                     PROVE  IF i < Unread(s) THEN EvRowsOf(s)[i].t <= next
                            ELSE EvRowsOf(s)[i].t >= next
          BY Zenon DEF SplitAt
        <5> PICK t \in Nat : t = EvRowsOf(s)[i].t
          BY <1>1, WaveFacts
        <5> PICK unread : unread = Unread(s)
          OBVIOUS
        <5>1. i < unread => t <= evAt
          BY <4>1, Zenon DEF Folded, SplitAt
        <5>2. i >= unread => t > before
          BY <4>4, Zenon DEF AllLater
        <5>3. unread \in Int /\ i \in Int
          <6>1. unread \in 1 .. (Len(EvRowsOf(s)) + 1)
            BY <1>3, <4>1, Peeked, Zenon
          <6>2. EvRowsOf(s) \in Seq(EvRow)
            BY <1>3, UnderWay
          <6> QED
            BY <6>1, <6>2
        <5>4. IF i < unread THEN t <= next ELSE t >= next
          BY <1>3, <2>2, <5>1, <5>2, <5>3
        <5> QED
          BY <5>4, Zenon
      <4>6. Folded(s)'
        BY <1>2, <1>5, <2>1, <4>1, <4>2, <4>5, Zenon DEF Folded
      <4> QED
        BY <4>3, <4>6
    <3> QED
      BY <3>1, <3>2 DEF CursorInv
  <2>6. PastInv'
    <3> SUFFICES ASSUME NEW t \in EvFrom .. (next - 1)
                 PROVE  ~EvDisagree(t) /\ (EvAgree(t) \/ \E g \in EvValueGaps : g.at <= t)
      BY <1>2, <1>5, <2>1 DEF PastInv
    <3>1. CASE t < evAt
      <4>1. t \in EvFrom .. (evAt - 1)
        BY <1>3, <3>1
      <4> QED
        BY <1>4, <1>9, <4>1
    <3>2. CASE ~(t < evAt)
      <4>1. t \in evAt .. EvStop /\ evAt <= t /\ t < next /\ t \in Int
        BY <1>3, <2>2, <3>2
      <4>2. \A s \in EvSides : EvPeek(evCursor[s]) = NoTime \/ EvPeek(evCursor[s]) > t
        BY <2>2, <4>1
      <4>3. ~EvDisagree(t) /\ (EvAgree(t) \/ \E g \in EvValueGaps : g.at <= evAt)
        BY <1>2, <1>14, <4>1, <4>2, CompareFacts
      <4>4. \A g \in EvValueGaps : g.at <= evAt => g.at <= t
        BY <1>2, <1>3, <1>8, <4>1
      <4> QED
        BY <4>3, <4>4
    <3> QED
      BY <3>1, <3>2
  <2>7. CheckInv'
    BY <2>1 DEF CheckInv
  <2>8. DecideInv'
    BY <1>2, <1>3, <1>6, <2>1 DEF DecideInv
  <2>9. ComparisonTrue'
    BY <2>1, NotDone
  <2> QED
    BY <2>3, <2>4, <2>5, <2>6, <2>7, <2>8, <2>9 DEF EventInv
<1> QED
  BY <1>12, <1>13, <1>14

\* What the answer says is what was found, unless a recording was replaced.
LEMMA FinishKeeps == ASSUME EventInv, FinishComparison PROVE EventInv'
<1>1. EventType /\ WindowInv /\ CheckInv /\ DecideInv
  BY DEF EventInv
<1> PICK changed : changed = (\E s \in EvSides : evGen[s] # 0)
  OBVIOUS
<1>2. /\ evPc \in {"check", "failed"} /\ evPc' = "done"
      /\ evResult' = IF changed THEN [EvNoAnswer EXCEPT !.coverage = "partial"]
                     ELSE IF evPc = "failed" THEN EvNoAnswer ELSE Settled
      /\ UNCHANGED <<evWave, evAsk, evGen, evOpened, evCursor, evSide, evAt, evValue, evGaps,
                     evExamined>>
  BY DEF FinishComparison
<1>3. /\ EvFrom' = EvFrom /\ EvStop' = EvStop /\ EvRequestedStop' = EvRequestedStop
      /\ \A s : EvRowsOf(s)' = EvRowsOf(s) /\ NoneHuge(s)' = NoneHuge(s)
      /\ \A t : EvAgree(t)' = EvAgree(t) /\ EvDisagree(t)' = EvDisagree(t)
      /\ \A s, t : EvValueAt(s, t)' = EvValueAt(s, t)
  BY <1>2, SameWaves
<1>4. /\ EvNoAnswer \in EvResults /\ [EvNoAnswer EXCEPT !.coverage = "partial"] \in EvResults
      /\ EvNoAnswer.status = "inconclusive"
      /\ [EvNoAnswer EXCEPT !.coverage = "partial"].status = "inconclusive"
  <2> PICK proven : proven = FALSE
    OBVIOUS
  <2>1. EvNoAnswer = [status |-> "inconclusive", fs |-> NoTime, ps |-> NoTime, proven |-> proven,
                      coverage |-> "none"]
    BY Zenon DEF EvNoAnswer
  <2>2. [EvNoAnswer EXCEPT !.coverage = "partial"] =
           [status |-> "inconclusive", fs |-> NoTime, ps |-> NoTime, proven |-> proven,
            coverage |-> "partial"]
    BY <2>1
  <2>3. NoTime \in Int
    BY DEF NoTime
  <2>4. proven \in BOOLEAN
    OBVIOUS
  <2> QED
    BY <2>1, <2>2, <2>3, <2>4 DEF EvResults
<1> PICK equal : equal = (evResult.status # "different" /\ evExamined /\ evGaps = {})
  OBVIOUS
<1>5. /\ Settled \in EvResults /\ Settled.fs = evResult.fs /\ Settled.proven = evResult.proven
      /\ Settled.status = IF equal THEN "equal" ELSE evResult.status
  <2> PICK coverage \in {"none", "partial", "complete"} :
          Settled = [evResult EXCEPT !.status = IF equal THEN "equal" ELSE @,
                                     !.coverage = coverage]
    BY DEF Settled
  <2>1. evResult \in EvResults
    BY <1>1 DEF EventType
  <2> QED
    BY <2>1 DEF EvResults
<1>6. evResult' \in EvResults
  BY <1>2, <1>4, <1>5
<1>7. EventType'
  BY <1>1, <1>2, <1>6 DEF EventType
<1>8. WindowInv'
  BY <1>1, <1>2 DEF WindowInv, Comparing
<1>9. CursorInv' /\ PastInv' /\ CheckInv'
  BY <1>2 DEF CursorInv, PastInv, CheckInv, Comparing, FirstRead, InstantTaken
<1>10. DecideInv'
  BY <1>1, <1>2, DecidableStays DEF DecideInv
<1>11. ASSUME evResult'.status # "inconclusive"
       PROVE  ~changed /\ evPc = "check" /\ evResult' = Settled
  BY <1>2, <1>4, <1>11
<1>12. ASSUME evResult'.status = "equal"
       PROVE  EvStop = EvRequestedStop /\ \A t \in EvFrom .. EvStop : EvAgree(t)
  <2>1. evPc = "check" /\ evResult' = Settled
    BY <1>11, <1>12
  <2>2. equal /\ evResult.status = "inconclusive"
    <3>1. evResult.status \in {"inconclusive", "equal", "different"}
      BY <1>1 DEF EventType, EvResults
    <3>2. evResult.status # "equal"
      BY <1>1, <2>1 DEF CheckInv
    <3> QED
      BY <1>5, <1>12, <2>1, <3>1, <3>2
  <2>3. \A t \in EvFrom .. EvStop : EvAgree(t)
    BY <1>1, <2>1, <2>2 DEF CheckInv
  <2>4. EvRangeGaps = {}
    BY <1>1, <2>1, <2>2 DEF WindowInv
  <2>5. \A s \in EvSides : evWave[s].end # NoTime
    BY <2>4 DEF EvRangeGaps
  <2>6. EvStop = EvRequestedStop
    BY <1>1, <2>4, <2>5, RangeFacts
  <2> QED
    BY <2>3, <2>6
<1>13. ASSUME evResult'.status = "different"
       PROVE  /\ evResult'.fs \in EvFrom .. EvStop /\ EvDisagree(evResult'.fs)
              /\ \A t \in EvFrom .. (evResult'.fs - 1) :
                    ~EvDisagree(t) /\ (evResult'.proven => EvAgree(t))
  <2>1. evPc = "check" /\ evResult' = Settled
    BY <1>11, <1>13
  <2>2. evResult.status = "different"
    BY <1>5, <1>13, <2>1
  <2> QED
    BY <1>1, <1>5, <2>1, <2>2 DEF CheckInv
<1>14. ComparisonSound'
  <2>1. (\E s \in EvSides : evGen'[s] # 0) => evResult'.status = "inconclusive"
    BY <1>2, <1>11
  <2> QED
    BY <1>3, <1>12, <1>13, <2>1 DEF ComparisonSound
<1>15. ASSUME Decidable
       PROVE  evResult'.status = "equal" \/ (evResult'.status = "different" /\ evResult'.proven)
  <2>1. evPc = "check" /\ evGaps = {} /\ evExamined
        /\ (evResult.status = "different" => evResult.proven)
    BY <1>1, <1>2, <1>15 DEF DecideInv
  <2>2. ~changed
    BY <1>15 DEF Decidable
  <2>3. evResult' = Settled
    BY <1>2, <2>1, <2>2
  <2> QED
    BY <1>5, <2>1, <2>3
<1>16. ComparisonDecides'
  <2>1. Decidable' <=> Decidable
    BY <1>2, DecidableStays
  <2> SUFFICES ASSUME ~Decidable' PROVE ComparisonDecides'
    BY <1>15, <2>1 DEF ComparisonDecides
  <2> QED
    BY DEF ComparisonDecides, Decidable, NoneHuge, EvRowsOf
<1>17. ComparisonTrue'
  BY <1>14, <1>16 DEF ComparisonTrue
<1> QED
  BY <1>7, <1>8, <1>9, <1>10, <1>17 DEF EventInv

\* compare_signals: whatever the recordings, the window and the page size, the answer is
\* true of the whole recordings, and is undecided only for a reason.
THEOREM ComparisonsAreTrue == EventSpec => []ComparisonTrue
<1>1. EventInit([wave : [EvSides -> EvRecordings], ask : EvRequests]) => EventInv
  BY CompareStarts
<1>2. EventInv /\ [EventNext]_eventVars => EventInv'
  <2> SUFFICES ASSUME EventInv, [EventNext]_eventVars PROVE EventInv'
    OBVIOUS
  <2>1. CASE OpenComparison
    BY <2>1, OpenKeeps
  <2>2. CASE ReadFails
    BY <2>2, ReadFailsKeeps
  <2>3. CASE FirstPage
    BY <2>3, FirstPageKeeps
  <2>4. CASE FoldOnPage
    BY <2>4, FoldOnPageKeeps
  <2>5. CASE FoldNextPage
    BY <2>5, FoldNextPageKeeps
  <2>6. CASE FoldBlocked
    BY <2>6, FoldBlockedKeeps
  <2>7. CASE FoldDone
    BY <2>7, FoldDoneKeeps
  <2>8. CASE CompareInstant
    BY <2>8, CompareKeeps
  <2>9. CASE FinishComparison
    BY <2>9, FinishKeeps
  <2>10. CASE ReplaceWave
    BY <2>10, ReplaceWaveKeeps
  <2>11. CASE UNCHANGED eventVars
    BY <2>11, StutterKeeps
  <2> QED
    BY <2>1, <2>2, <2>3, <2>4, <2>5, <2>6, <2>7, <2>8, <2>9, <2>10, <2>11
       DEF EventNext, EventStep
<1>3. EventInv => ComparisonTrue
  BY DEF EventInv
<1> QED
  BY <1>1, <1>2, <1>3, PTL DEF EventSpec

(***************************************************************************)
(* PathQuery                                                               *)
(*                                                                         *)
(* The search gives every state it has seen a level: the number of edges   *)
(* on the way to it.  Levels in the queue differ by one at most and go up, *)
(* and a state that has left the queue has all its successors seen, one    *)
(* level up at most (QueueOK).  So what the seen states below a level      *)
(* cover is all that fewer edges reach (Covered): a target first met from  *)
(* a state of level n is n + 1 edges away and no less, and the             *)
(* predecessors, along which levels go down by one (HopsOK), spell out a   *)
(* path of that length.  When the queue runs out and no gap was met, what  *)
(* was seen is closed, so the target is out of reach.                      *)
(***************************************************************************)
\* A set of numbers that holds zero and with each number the next is Nat.
LEMMA AllNumbers ==
    ASSUME NEW P \in SUBSET Nat, 0 \in P, \A n \in P : n + 1 \in P
    PROVE  P = Nat
<1> DEFINE B == Nat \ P
<1> SUFFICES ASSUME B # {} PROVE FALSE
  OBVIOUS
<1> PICK m \in B : m = Min(B) /\ \A k \in B : m <= k
  <2>1. B \in SUBSET Nat
    OBVIOUS
  <2> QED
    BY ONLY <2>1, B # {}, LeastIn
<1>1. m # 0 /\ m \in Nat
  OBVIOUS
<1>2. m - 1 \in Nat /\ ~(m <= m - 1) /\ (m - 1) + 1 = m
  BY <1>1
<1>3. m - 1 \in P
  BY <1>2
<1> QED
  BY <1>2, <1>3

\* A step that stays within a set can be repeated any number of times.
IsStepIn(D, F, x) == F \in [D -> D] /\ x \in D
Repeats(R, D, F, x) == R \in [Nat -> D] /\ R[0] = x /\ \A n \in Nat : R[n + 1] = F[R[n]]

LEMMA Iterates == ASSUME NEW D, NEW F, NEW x, IsStepIn(D, F, x) PROVE \E R : Repeats(R, D, F, x)
<1> F \in [D -> D] /\ x \in D
  BY DEF IsStepIn
<1> DEFINE Prefix(n, g) ==
             g \in [0 .. n -> D] /\ g[0] = x /\ \A k \in 0 .. n - 1 : g[k + 1] = F[g[k]]
           P == {n \in Nat : \E g : Prefix(n, g)}
<1>1. P = Nat
  <2>1. 0 \in P
    <3>1. Prefix(0, [k \in 0 .. 0 |-> x])
      OBVIOUS
    <3> QED
      BY <3>1
  <2>2. ASSUME NEW n \in P PROVE n + 1 \in P
    <3> PICK g : Prefix(n, g)
      OBVIOUS
    <3> DEFINE h == [k \in 0 .. n + 1 |-> IF k = n + 1 THEN F[g[n]] ELSE g[k]]
    <3>1. n \in Nat /\ g[n] \in D /\ F[g[n]] \in D
      OBVIOUS
    <3>2. h \in [0 .. n + 1 -> D] /\ h[0] = x
      BY <3>1
    <3>3. ASSUME NEW k \in 0 .. (n + 1) - 1 PROVE h[k + 1] = F[h[k]]
      <4>1. CASE k = n
        BY <3>1, <4>1
      <4>2. CASE k # n
        <5>1. k \in 0 .. n - 1 /\ k + 1 \in 0 .. n + 1 /\ k + 1 # n + 1 /\ k \in 0 .. n + 1 /\ k # n + 1
          BY <3>1, <4>2
        <5>2. g[k + 1] = F[g[k]]
          BY <5>1
        <5> QED
          BY <5>1, <5>2
      <4> QED
        BY <4>1, <4>2
    <3>4. Prefix(n + 1, h)
      BY <3>2, <3>3
    <3>5. \E f : Prefix(n + 1, f)
      <4> HIDE DEF Prefix, h
      <4> QED
        BY <3>4
    <3> HIDE DEF Prefix
    <3> QED
      BY <3>1, <3>5
  <2>3. P \in SUBSET Nat
    OBVIOUS
  <2> HIDE DEF P
  <2> QED
    BY <2>1, <2>2, <2>3, AllNumbers
<1>2. ASSUME NEW n \in Nat, NEW m \in Nat, n <= m, NEW g, NEW h, Prefix(n, g), Prefix(m, h)
      PROVE  g[n] = h[n]
  <2> DEFINE Q == {k \in Nat : k <= n => g[k] = h[k]}
  <2>1. 0 \in Q
    BY <1>2
  <2>2. ASSUME NEW k \in Q PROVE k + 1 \in Q
    <3> SUFFICES ASSUME k + 1 <= n PROVE g[k + 1] = h[k + 1]
      OBVIOUS
    <3>1. k \in 0 .. n - 1 /\ k \in 0 .. m - 1 /\ k <= n
      BY <1>2
    <3>2. g[k + 1] = F[g[k]] /\ h[k + 1] = F[h[k]] /\ g[k] = h[k]
      BY <1>2, <3>1
    <3> QED
      BY <3>2
  <2>3. Q \in SUBSET Nat
    OBVIOUS
  <2>4. Q = Nat
    <3> HIDE DEF Q
    <3> QED
      BY <2>1, <2>2, <2>3, AllNumbers
  <2> QED
    BY <2>4
<1> DEFINE G(n) == CHOOSE g : Prefix(n, g)
           R == [n \in Nat |-> G(n)[n]]
<1>3. ASSUME NEW n \in Nat PROVE Prefix(n, G(n))
  <2>1. \E g : Prefix(n, g)
    BY <1>1
  <2> HIDE DEF Prefix
  <2> QED
    BY <2>1
<1>4. R \in [Nat -> D]
  <2>1. ASSUME NEW n \in Nat PROVE G(n)[n] \in D
    <3> HIDE DEF G
    <3>1. G(n) \in [0 .. n -> D]
      BY <1>3
    <3> QED
      BY <3>1
  <2> HIDE DEF G
  <2> QED
    BY <2>1
<1>5. R[0] = x
  <2>1. G(0)[0] = x
    BY <1>3
  <2> HIDE DEF G
  <2> QED
    BY <2>1
<1>6. ASSUME NEW n \in Nat PROVE R[n + 1] = F[R[n]]
  <2>0. n + 1 \in Nat /\ n <= n + 1
    OBVIOUS
  <2>1. Prefix(n, G(n)) /\ Prefix(n + 1, G(n + 1))
    <3> HIDE DEF Prefix, G
    <3> QED
      BY <1>3, <2>0
  <2>2. G(n)[n] = G(n + 1)[n]
    <3> HIDE DEF Prefix, G
    <3> QED
      BY <1>2, <2>0, <2>1
  <2>3. n \in 0 .. (n + 1) - 1
    OBVIOUS
  <2>4. G(n + 1)[n + 1] = F[G(n + 1)[n]]
    <3>1. \A k \in 0 .. (n + 1) - 1 : G(n + 1)[k + 1] = F[G(n + 1)[k]]
      BY <2>1
    <3> HIDE DEF G
    <3> QED
      BY <2>3, <3>1
  <2> HIDE DEF G
  <2> QED
    BY <2>1, <2>2, <2>4
<1>7. Repeats(R, D, F, x)
  <2> HIDE DEF R
  <2> QED
    BY <1>4, <1>5, <1>6 DEF Repeats
<1> QED
  BY <1>7

(***************************************************************************)
(* The bits within a number of edges                                       *)
(***************************************************************************)
LEMMA OneStepWithin ==
    ASSUME NEW ask, NEW edges, NEW S \in SUBSET AllPoints(ask, edges)
    PROVE  OneStep(edges, S) \in SUBSET AllPoints(ask, edges)
<1>1. ASSUME NEW e \in edges PROVE Lands(e, HitBy(e, S)) \subseteq Lands(e, DOMAIN e.map)
  BY DEF Lands, HitBy
<1>2. ASSUME NEW e \in edges PROVE Lands(e, HitBy(e, S)) \subseteq AllPoints(ask, edges)
  BY <1>1 DEF AllPoints
<1> QED
  BY <1>2 DEF OneStep

LEMMA WithinFacts ==
    ASSUME NEW ask, NEW edges
    PROVE  /\ BitsWithin(ask, edges, 0) = PqPoints(ask.from)
           /\ \A n \in Nat : BitsWithin(ask, edges, n + 1) = OneStep(edges, BitsWithin(ask, edges, n))
           /\ \A n \in Nat : BitsWithin(ask, edges, n) \subseteq AllPoints(ask, edges)
<1> DEFINE D == SUBSET AllPoints(ask, edges)
           F == [S \in D |-> OneStep(edges, S)]
           x == PqPoints(ask.from)
<1>1. F \in [D -> D]
  BY OneStepWithin
<1>2. x \in D
  BY DEF AllPoints
<1> PICK R \in [Nat -> D] : R[0] = x /\ \A n \in Nat : R[n + 1] = F[R[n]]
  <2> PICK DD, FF, xx : DD = D /\ FF = F /\ xx = x
    OBVIOUS
  <2>1. IsStepIn(DD, FF, xx)
    BY <1>1, <1>2 DEF IsStepIn
  <2>2. PICK R : Repeats(R, DD, FF, xx)
    BY ONLY <2>1, Iterates
  <2>3. R \in [Nat -> DD] /\ R[0] = xx /\ \A n \in Nat : R[n + 1] = FF[R[n]]
    BY <2>2 DEF Repeats
  <2> HIDE DEF F, D, x
  <2> QED
    BY <2>3
<1> DEFINE IsReach(f) == f = [n \in Nat |-> IF n = 0 THEN x ELSE OneStep(edges, f[n - 1])]
           C == CHOOSE f : IsReach(f)
<1>3. IsReach(R)
  <2> HIDE DEF D, x
  <2>1. ASSUME NEW n \in Nat, n # 0 PROVE R[n] = OneStep(edges, R[n - 1])
    <3>1. n - 1 \in Nat /\ (n - 1) + 1 = n
      BY <2>1
    <3>2. R[n] = F[R[n - 1]]
      BY <3>1
    <3>3. R[n - 1] \in D
      BY <3>1
    <3> QED
      BY <3>2, <3>3
  <2> QED
    BY <2>1
<1>4. IsReach(C)
  <2> HIDE DEF IsReach
  <2> QED
    BY <1>3
<1>5. \A n : BitsWithin(ask, edges, n) = C[n]
  BY DEF BitsWithin
<1> HIDE DEF C, x
<1>6. C[0] = x
  BY <1>4
<1>7. ASSUME NEW n \in Nat PROVE C[n + 1] = OneStep(edges, C[n])
  <2>1. n + 1 \in Nat /\ n + 1 # 0 /\ (n + 1) - 1 = n
    OBVIOUS
  <2>2. C[n + 1] = IF n + 1 = 0 THEN x ELSE OneStep(edges, C[(n + 1) - 1])
    BY <1>4, <2>1
  <2> QED
    BY <2>1, <2>2
<1>8. ASSUME NEW n \in Nat PROVE C[n] \in D
  <2> DEFINE Q == {k \in Nat : C[k] \in D}
  <2>1. 0 \in Q
    BY <1>2, <1>6
  <2>2. ASSUME NEW k \in Q PROVE k + 1 \in Q
    BY <1>7, OneStepWithin
  <2>3. Q = Nat
    <3>1. Q \in SUBSET Nat
      OBVIOUS
    <3> HIDE DEF Q
    <3> QED
      BY <2>1, <2>2, <3>1, AllNumbers
  <2> QED
    BY <2>3
<1> QED
  BY <1>5, <1>6, <1>7, <1>8 DEF x

LEMMA OneStepGrows ==
    ASSUME NEW E, NEW F, NEW S, NEW T, E \subseteq F, S \subseteq T
    PROVE  OneStep(E, S) \subseteq OneStep(F, T)
<1>1. ASSUME NEW e \in E, HitBy(e, S) # {}
      PROVE  /\ e \in {f \in F : HitBy(f, T) # {}}
             /\ Lands(e, HitBy(e, S)) \subseteq Lands(e, HitBy(e, T))
  <2>1. HitBy(e, S) \subseteq HitBy(e, T)
    BY DEF HitBy
  <2> QED
    BY <1>1, <2>1 DEF Lands
<1>2. ASSUME NEW p \in OneStep(E, S), p \notin S PROVE p \in OneStep(F, T)
  <2>1. PICK e \in E : HitBy(e, S) # {} /\ p \in Lands(e, HitBy(e, S))
    BY <1>2 DEF OneStep
  <2>2. e \in {f \in F : HitBy(f, T) # {}} /\ p \in Lands(e, HitBy(e, T))
    BY <1>1, <2>1
  <2> QED
    BY <2>2 DEF OneStep
<1>3. S \subseteq OneStep(F, T)
  BY DEF OneStep
<1> QED
  BY <1>2, <1>3

\* More edges reach more.
LEMMA MoreEdges ==
    ASSUME NEW ask, NEW E, NEW F, E \subseteq F, NEW n \in Nat
    PROVE  BitsWithin(ask, E, n) \subseteq BitsWithin(ask, F, n)
<1> DEFINE P == {k \in Nat : BitsWithin(ask, E, k) \subseteq BitsWithin(ask, F, k)}
<1>1. 0 \in P
  BY WithinFacts
<1>2. ASSUME NEW k \in P PROVE k + 1 \in P
  <2>1. OneStep(E, BitsWithin(ask, E, k)) \subseteq OneStep(F, BitsWithin(ask, F, k))
    BY OneStepGrows
  <2>2. /\ BitsWithin(ask, E, k + 1) = OneStep(E, BitsWithin(ask, E, k))
        /\ BitsWithin(ask, F, k + 1) = OneStep(F, BitsWithin(ask, F, k))
    BY WithinFacts
  <2> QED
    BY <2>1, <2>2
<1>3. P = Nat
  <2>1. P \in SUBSET Nat
    OBVIOUS
  <2> HIDE DEF P
  <2> QED
    BY <1>1, <1>2, <2>1, AllNumbers
<1> QED
  BY <1>3

\* More steps reach more.
LEMMA MoreSteps ==
    ASSUME NEW ask, NEW edges, NEW m \in Nat, NEW n \in Nat, m <= n
    PROVE  BitsWithin(ask, edges, m) \subseteq BitsWithin(ask, edges, n)
<1> DEFINE P == {k \in Nat : BitsWithin(ask, edges, m) \subseteq BitsWithin(ask, edges, m + k)}
<1>1. 0 \in P
  <2>1. m + 0 = m
    OBVIOUS
  <2> QED
    BY <2>1
<1>2. ASSUME NEW k \in P PROVE k + 1 \in P
  <2>1. m + k \in Nat /\ m + (k + 1) = (m + k) + 1
    OBVIOUS
  <2>2. BitsWithin(ask, edges, m + k) \subseteq BitsWithin(ask, edges, (m + k) + 1)
    BY <2>1, WithinFacts DEF OneStep
  <2> QED
    BY <2>1, <2>2
<1>3. P = Nat
  <2>1. P \in SUBSET Nat
    OBVIOUS
  <2> HIDE DEF P
  <2> QED
    BY <1>1, <1>2, <2>1, AllNumbers
<1>4. n - m \in P /\ m + (n - m) = n
  BY <1>3
<1> QED
  BY <1>4

\* A bit is reached within as many steps as there are bits, or never.
LEMMA Saturates ==
    ASSUME NEW ask, NEW edges, IsFiniteSet(AllPoints(ask, edges)),
           NEW L \in Nat, Arrives(ask, edges, L)
    PROVE  Connected(ask, edges)
<1> DEFINE B(n) == BitsWithin(ask, edges, n)
           N == Cardinality(AllPoints(ask, edges))
           P == {n \in Nat : n <= Cardinality(B(n)) \/ \E k \in 0 .. n - 1 : B(k + 1) = B(k)}
<1>1. \A n \in Nat : IsFiniteSet(B(n)) /\ Cardinality(B(n)) \in Nat /\ Cardinality(B(n)) <= N
  BY WithinFacts, FS_Subset, FS_CardinalityType
<1>2. N \in Nat
  BY FS_CardinalityType
<1>3. 0 \in P
  BY <1>1
<1>4. ASSUME NEW n \in P PROVE n + 1 \in P
  <2>0. n + 1 \in Nat /\ n \in Nat /\ n \in 0 .. (n + 1) - 1
    OBVIOUS
  <2>1. CASE \E k \in 0 .. n - 1 : B(k + 1) = B(k)
    <3> HIDE DEF B
    <3>1. PICK k \in 0 .. n - 1 : B(k + 1) = B(k)
      BY <2>1
    <3>2. k \in 0 .. (n + 1) - 1
      BY <2>0
    <3> QED
      BY <2>0, <3>1, <3>2
  <2>2. CASE B(n + 1) = B(n)
    <3> HIDE DEF B
    <3> QED
      BY <2>0, <2>2
  <2>3. CASE n <= Cardinality(B(n)) /\ B(n + 1) # B(n)
    <3>1. B(n) \in SUBSET B(n + 1)
      BY <2>0, MoreSteps
    <3>2. /\ Cardinality(B(n)) \in Nat /\ Cardinality(B(n + 1)) \in Nat
          /\ Cardinality(B(n)) <= Cardinality(B(n + 1))
          /\ Cardinality(B(n)) # Cardinality(B(n + 1))
      <4> HIDE DEF B, N
      <4> QED
        BY <1>1, <2>0, <2>3, <3>1, FS_Subset
    <3>3. n + 1 <= Cardinality(B(n + 1))
      <4> HIDE DEF B
      <4> QED
        BY <2>0, <2>3, <3>2
    <3> QED
      BY <2>0, <3>3
  <2> QED
    <3> HIDE DEF B
    <3> QED
      BY <2>1, <2>2, <2>3
<1>5. P = Nat
  <2>1. P \in SUBSET Nat
    OBVIOUS
  <2> HIDE DEF P
  <2> QED
    BY <1>3, <1>4, <2>1, AllNumbers
<1>6. PICK k \in 0 .. N : B(k + 1) = B(k)
  <2> HIDE DEF B, N
  <2>1. N + 1 \in P /\ ~(N + 1 <= Cardinality(B(N + 1))) /\ (N + 1) - 1 = N
    BY <1>1, <1>2, <1>5
  <2> QED
    BY <2>1
<1>7. \A j \in Nat : B(k + j) = B(k)
  <2> DEFINE Q == {j \in Nat : B(k + j) = B(k)}
  <2>1. 0 \in Q
    <3>1. k + 0 = k
      BY <1>2
    <3> QED
      BY <3>1
  <2>2. ASSUME NEW j \in Q PROVE j + 1 \in Q
    <3>1. k \in Nat /\ k + j \in Nat /\ k + (j + 1) = (k + j) + 1
      BY <1>2
    <3>2. B((k + j) + 1) = OneStep(edges, B(k + j)) /\ B(k + 1) = OneStep(edges, B(k))
      BY <3>1, WithinFacts
    <3> QED
      BY <1>6, <3>1, <3>2
  <2>3. Q = Nat
    <3>1. Q \in SUBSET Nat
      OBVIOUS
    <3> HIDE DEF Q
    <3> QED
      BY <2>1, <2>2, <3>1, AllNumbers
  <2> QED
    BY <2>3
<1>8. B(L) \subseteq B(N)
  <2>1. CASE L <= N
    BY <1>2, <2>1, MoreSteps
  <2>2. CASE L > N
    <3>1. L - k \in Nat /\ k + (L - k) = L /\ k \in Nat /\ k <= N
      BY <1>2, <2>2
    <3>2. B(L) = B(k)
      <4> HIDE DEF B, N
      <4> QED
        BY <1>7, <3>1
    <3>3. B(k) \subseteq B(N)
      BY <1>2, <3>1, MoreSteps
    <3> QED
      BY <3>2, <3>3
  <2> QED
    BY <1>2, <2>1, <2>2
<1> QED
  BY <1>8 DEF Connected, Arrives

(***************************************************************************)
(* Following an edge                                                       *)
(***************************************************************************)
\* KthOf numbers positions one to one.
LEMMA KthFacts ==
    ASSUME NEW n \in Nat, NEW P \in SUBSET (1 .. n)
    PROVE  /\ Cardinality(P) \in Nat
           /\ \A k \in 1 .. Cardinality(P) : KthOf(P, k) \in P
           /\ \A i \in P : \E k \in 1 .. Cardinality(P) : KthOf(P, k) = i
<1> DEFINE Upto(i) == {j \in P : j <= i}
           c == Cardinality(P)
           rank == [i \in P |-> Cardinality(Upto(i))]
<1>1. IsFiniteSet(P) /\ c \in Nat
  <2>1. IsFiniteSet(1 .. n)
    BY FS_Interval
  <2>2. IsFiniteSet(P)
    BY <2>1, FS_Subset
  <2> QED
    BY <2>2, FS_CardinalityType
<1>2. ASSUME NEW i \in P
      PROVE  IsFiniteSet(Upto(i)) /\ Cardinality(Upto(i)) \in 1 .. c
  <2>1. Upto(i) \in SUBSET P /\ i \in Upto(i)
    OBVIOUS
  <2>2. IsFiniteSet(Upto(i)) /\ Cardinality(Upto(i)) <= c
    <3> HIDE DEF Upto
    <3> QED
      BY <1>1, <2>1, FS_Subset
  <2>3. Cardinality(Upto(i)) \in Nat /\ Cardinality(Upto(i)) # 0
    <3> HIDE DEF Upto
    <3> QED
      BY <2>1, <2>2, FS_CardinalityType, FS_EmptySet
  <2> HIDE DEF Upto, c
  <2> QED
    BY <1>1, <2>2, <2>3
<1>3. ASSUME NEW i \in P, NEW j \in P, i < j PROVE Cardinality(Upto(i)) # Cardinality(Upto(j))
  <2>0. i \in Nat /\ j \in Nat /\ i < j
    BY <1>3
  <2>1. ASSUME NEW k \in Upto(i) PROVE k \in Upto(j)
    <3>1. k \in P /\ k \in Nat /\ k <= i
      OBVIOUS
    <3>2. k <= j
      BY <2>0, <3>1
    <3> QED
      BY <3>1, <3>2
  <2>2. j \in Upto(j) /\ j \notin Upto(i)
    BY <2>0
  <2>3. Upto(i) \in SUBSET Upto(j) /\ Upto(i) # Upto(j)
    BY <2>1, <2>2
  <2> HIDE DEF Upto
  <2> QED
    BY <1>2, <2>3, FS_Subset
<1>4. rank \in Injection(P, 1 .. c)
  <2>1. \A i \in P : rank[i] = Cardinality(Upto(i))
    OBVIOUS
  <2>2. rank \in [P -> 1 .. c]
    <3> HIDE DEF Upto
    <3> QED
      BY <1>2
  <2>3. ASSUME NEW i \in P, NEW j \in P, rank[i] = rank[j] PROVE i = j
    <3>1. ~(i < j) /\ ~(j < i)
      <4> HIDE DEF Upto, rank
      <4> QED
        BY <1>3, <2>1, <2>3
    <3> QED
      BY <3>1
  <2> HIDE DEF rank, c
  <2> QED
    BY <2>2, <2>3 DEF Injection, IsInjective
<1>5. IsFiniteSet(1 .. c) /\ Cardinality(1 .. c) = c
  <2> HIDE DEF c
  <2> QED
    BY <1>1, FS_Interval
<1>6. rank \in Surjection(P, 1 .. c)
  <2> HIDE DEF rank
  <2> QED
    BY <1>4, <1>5, FS_Injection
<1>7. ASSUME NEW i \in P PROVE KthOf(P, Cardinality(Upto(i))) = i
  <2> DEFINE q == KthOf(P, Cardinality(Upto(i)))
  <2>1. q \in P /\ Cardinality(Upto(q)) = Cardinality(Upto(i))
    BY DEF KthOf
  <2>2. rank[q] = rank[i]
    <3> HIDE DEF q, Upto
    <3> QED
      BY <2>1
  <2>3. \A a, b \in P : rank[a] = rank[b] => a = b
    <3> HIDE DEF rank
    <3> QED
      BY <1>4 DEF Injection, IsInjective
  <2> HIDE DEF q, rank, Upto
  <2> QED
    BY <2>1, <2>2, <2>3 DEF q
<1>8. ASSUME NEW k \in 1 .. c PROVE KthOf(P, k) \in P
  <2>1. PICK i \in P : rank[i] = k
    <3> HIDE DEF rank, c
    <3> QED
      BY <1>6 DEF Surjection
  <2>2. Cardinality(Upto(i)) = k
    <3> HIDE DEF Upto
    <3> QED
      BY <2>1
  <2> HIDE DEF Upto
  <2> QED
    BY <1>7, <2>2
<1> HIDE DEF c, Upto
<1> QED
  BY <1>1, <1>2, <1>7, <1>8 DEF c

\* An edge leads to a selection, of exactly the bits that its own bits lead to.
LEMMA FollowFacts ==
    ASSUME NEW e, NEW sel, SelectionOK(sel), EdgeOK(e), PqOverlaps(e, sel)
    PROVE  /\ SelectionOK(FollowEdge(e, sel))
           /\ HitBy(e, PqPoints(sel)) # {}
           /\ PqPoints(FollowEdge(e, sel)) = Lands(e, HitBy(e, PqPoints(sel)))
<1> DEFINE P == Taken(e, sel)
           to == FollowEdge(e, sel)
           kept == [k \in 1 .. Cardinality(P) |-> e.map[sel.bits[KthOf(P, k)]]]
<1>1. Len(sel.bits) \in Nat /\ DOMAIN sel.bits = 1 .. Len(sel.bits) /\ sel.bits \in Seq(Nat)
  BY LenProperties DEF SelectionOK
<1>2. P \in SUBSET (1 .. Len(sel.bits)) /\ \A k \in P : sel.bits[k] \in DOMAIN e.map
  BY <1>1 DEF Taken
<1>3. /\ Cardinality(P) \in Nat
      /\ \A k \in 1 .. Cardinality(P) : KthOf(P, k) \in P
      /\ \A i \in P : \E k \in 1 .. Cardinality(P) : KthOf(P, k) = i
  <2> HIDE DEF P
  <2> QED
    BY <1>1, <1>2, KthFacts
<1>4. HitBy(e, PqPoints(sel)) = {sel.bits[k] : k \in P}
  <2>1. ASSUME NEW b PROVE b \in HitBy(e, PqPoints(sel)) <=> b \in DOMAIN e.map /\ b \in PqBits(sel.bits)
    BY DEF HitBy, PqPoints, PqOverlaps
  <2>2. ASSUME NEW b PROVE (b \in DOMAIN e.map /\ b \in PqBits(sel.bits)) <=> b \in {sel.bits[k] : k \in P}
    BY DEF PqBits, Taken
  <2> QED
    BY <2>1, <2>2
<1>5. HitBy(e, PqPoints(sel)) # {}
  BY DEF HitBy, PqPoints, PqOverlaps
<1>6. to.sig = e.to /\ to.bits = IF e.exact THEN kept ELSE e.bits
  BY DEF FollowEdge
<1>7. kept \in Seq(Nat) /\ PqBits(kept) = {e.map[b] : b \in {sel.bits[k] : k \in P}}
  <2>1. \A k \in 1 .. Cardinality(P) : e.map[sel.bits[KthOf(P, k)]] \in Nat
    <3> HIDE DEF P
    <3> QED
      BY <1>2, <1>3 DEF EdgeOK
  <2>2. kept \in Seq(Nat) /\ DOMAIN kept = 1 .. Cardinality(P)
    <3> HIDE DEF P
    <3> QED
      BY <1>3, <2>1
  <2>3. ASSUME NEW v \in PqBits(kept) PROVE v \in {e.map[b] : b \in {sel.bits[k] : k \in P}}
    <3>1. PICK k \in 1 .. Cardinality(P) : v = e.map[sel.bits[KthOf(P, k)]]
      BY <2>2 DEF PqBits
    <3> HIDE DEF P
    <3> QED
      BY <1>3, <3>1
  <2>4. ASSUME NEW i \in P PROVE e.map[sel.bits[i]] \in PqBits(kept)
    <3>1. PICK k \in 1 .. Cardinality(P) : KthOf(P, k) = i
      BY <1>3
    <3>2. kept[k] = e.map[sel.bits[i]]
      BY <3>1
    <3> HIDE DEF kept
    <3> QED
      BY <2>2, <3>2 DEF PqBits
  <2> HIDE DEF kept, P
  <2> QED
    BY <2>2, <2>3, <2>4
<1>8. SelectionOK(to)
  <2>1. to.bits \in Seq(Nat)
    <3> HIDE DEF kept, to
    <3> QED
      BY <1>6, <1>7 DEF EdgeOK
  <2>2. to = [sig |-> to.sig, bits |-> to.bits]
    BY DEF FollowEdge
  <2> QED
    BY <2>1, <2>2 DEF SelectionOK
<1>9. PqBits(to.bits) = IF e.exact THEN {e.map[b] : b \in HitBy(e, PqPoints(sel))} ELSE PqBits(e.bits)
  <2> HIDE DEF kept, to, P
  <2> QED
    BY <1>4, <1>6, <1>7
<1> HIDE DEF kept, to, P
<1>10. PqPoints(to) = Lands(e, HitBy(e, PqPoints(sel)))
  BY <1>6, <1>9 DEF PqPoints, Lands
<1> QED
  BY <1>5, <1>8, <1>10 DEF to

\* A finite set stays finite under a function.
LEMMA ImageFinite ==
    ASSUME NEW S, IsFiniteSet(S), NEW f
    PROVE  IsFiniteSet({f[x] : x \in S})
<1> DEFINE T == {f[x] : x \in S}
           g == [x \in S |-> f[x]]
<1>1. g \in Surjection(S, T)
  BY DEF Surjection
<1> HIDE DEF g, T
<1>2. IsFiniteSet(T)
  BY <1>1, FS_Surjection
<1> QED
  BY <1>2 DEF T

LEMMA SelectionFinite ==
    ASSUME NEW S, NEW s \in Seq(S)
    PROVE  IsFiniteSet(PqBits(s)) /\ PqBits(s) \subseteq S
<1>1. Len(s) \in Nat /\ DOMAIN s = 1 .. Len(s) /\ s \in [1 .. Len(s) -> S]
  BY LenProperties
<1>2. IsFiniteSet(DOMAIN s)
  BY <1>1, FS_Interval
<1>3. IsFiniteSet({s[x] : x \in DOMAIN s})
  BY <1>2, ImageFinite
<1> QED
  BY <1>1, <1>3 DEF PqBits

LEMMA PointsFinite ==
    ASSUME NEW ask, SelectionOK(ask.from), NEW edges, IsFiniteSet(edges), \A e \in edges : EdgeOK(e)
    PROVE  IsFiniteSet(AllPoints(ask, edges))
<1>1. ASSUME NEW s \in Seq(Nat), NEW x PROVE IsFiniteSet({x} \X PqBits(s))
  BY SelectionFinite, FS_Product, FS_Singleton
<1>2. IsFiniteSet(PqPoints(ask.from))
  BY <1>1 DEF SelectionOK, PqPoints
<1>3. ASSUME NEW e \in edges PROVE IsFiniteSet(Lands(e, DOMAIN e.map))
  <2>1. CASE e.exact
    <3>1. IsFiniteSet({e.map[b] : b \in DOMAIN e.map})
      BY ImageFinite DEF EdgeOK
    <3>2. IsFiniteSet({e.to} \X {e.map[b] : b \in DOMAIN e.map})
      BY <3>1, FS_Product, FS_Singleton
    <3> QED
      BY <2>1, <3>2 DEF Lands
  <2>2. CASE ~e.exact
    BY <1>1, <2>2 DEF Lands, EdgeOK
  <2> QED
    BY <2>1, <2>2
<1> DEFINE f == [e \in edges |-> Lands(e, DOMAIN e.map)]
           T == {Lands(e, DOMAIN e.map) : e \in edges}
<1>4. IsFiniteSet(T)
  <2>1. T = {f[e] : e \in edges}
    OBVIOUS
  <2> HIDE DEF f, T
  <2> QED
    BY <2>1, ImageFinite
<1>5. IsFiniteSet(UNION T)
  <2>1. \A t \in T : IsFiniteSet(t)
    BY <1>3
  <2> HIDE DEF T
  <2> QED
    BY <1>4, <2>1, FS_UNION
<1>6. AllPoints(ask, edges) = PqPoints(ask.from) \cup UNION T
  BY DEF AllPoints
<1> HIDE DEF T
<1> QED
  BY <1>2, <1>5, <1>6, FS_Union

(***************************************************************************)
(* Predecessors                                                            *)
(***************************************************************************)
\* Along the predecessors from a seen state, the levels go down to the first one.
IsHop(h, seen, from, edges, lev) ==
    /\ h.state \in seen \ {from} /\ h.from \in seen /\ h.edge \in edges
    /\ PqOverlaps(h.edge, h.from)
    /\ h.state = FollowEdge(h.edge, h.from)
    /\ lev[h.state] = lev[h.from] + 1

HopsOK(back, seen, from, edges, lev) ==
    /\ lev \in [seen -> Nat]
    /\ from \in seen /\ lev[from] = 0
    /\ \A s \in seen : SelectionOK(s)
    /\ IsFiniteSet(back)
    /\ \A h \in back : IsHop(h, seen, from, edges, lev)
    /\ \A s \in seen \ {from} : \E h \in back : h.state = s
    /\ \A s \in seen : lev[s] <= Cardinality(back)

\* What d.path leads to from d.state.
LeadsTo(d, s) ==
    \A ask, E : \A m \in Nat :
        PqBits(d.path) \subseteq E /\ PqPoints(d.state) \subseteq BitsWithin(ask, E, m)
            => PqPoints(s) \subseteq BitsWithin(ask, E, m + Len(d.path))

\* The walk back so far, after n steps.
WalkedBack(d, s, from, lev, n) ==
    /\ lev[d.state] + Len(d.path) = lev[s]
    /\ d.state = from \/ Len(d.path) = n
    /\ LeadsTo(d, s)

LEMMA PrependFacts ==
    ASSUME NEW S, NEW s \in Seq(S), NEW x \in S
    PROVE  /\ <<x>> \o s \in Seq(S)
           /\ Len(<<x>> \o s) = Len(s) + 1
           /\ x \in PqBits(<<x>> \o s) /\ PqBits(s) \subseteq PqBits(<<x>> \o s)
<1>1. <<x>> \in Seq(S) /\ Len(<<x>>) = 1 /\ <<x>>[1] = x
  OBVIOUS
<1> PICK t : t = <<x>> \o s
  OBVIOUS
<1>2. t \in Seq(S) /\ Len(t) = Len(s) + 1 /\ t[1] = x /\ \A k \in 1 .. Len(s) : t[k + 1] = s[k]
  <2>1. t \in Seq(S)
    BY <1>1
  <2>2. Len(t) = 1 + Len(s) /\ \A k \in 1 .. 1 + Len(s) : t[k] = IF k <= 1 THEN <<x>>[k] ELSE s[k - 1]
    BY <1>1, ConcatProperties
  <2>3. Len(s) \in Nat
    BY LenProperties
  <2>4. t[1] = x
    BY <1>1, <2>2, <2>3
  <2>5. ASSUME NEW k \in 1 .. Len(s) PROVE t[k + 1] = s[k]
    <3>1. k + 1 \in 1 .. 1 + Len(s) /\ ~(k + 1 <= 1) /\ (k + 1) - 1 = k
      BY <2>3
    <3> QED
      BY <2>2, <3>1
  <2> QED
    BY <2>1, <2>2, <2>3, <2>4, <2>5
<1>3. Len(s) \in Nat /\ DOMAIN s = 1 .. Len(s) /\ DOMAIN t = 1 .. Len(s) + 1
  BY <1>2, LenProperties
<1>4. x \in PqBits(t)
  <2>1. 1 \in DOMAIN t
    BY <1>3
  <2> QED
    BY <1>2, <2>1 DEF PqBits
<1>5. ASSUME NEW k \in DOMAIN s PROVE s[k] \in PqBits(t)
  <2>1. k \in 1 .. Len(s) /\ k + 1 \in DOMAIN t
    BY <1>3
  <2>2. t[k + 1] = s[k]
    BY <1>2, <2>1
  <2> QED
    BY <2>1, <2>2 DEF PqBits
<1>6. PqBits(s) \subseteq PqBits(t)
  BY <1>5 DEF PqBits
<1> QED
  BY <1>2, <1>4, <1>6

\* One step back keeps all of that.
LEMMA BackStepFacts ==
    ASSUME NEW back, NEW seen, NEW from, NEW edges, NEW lev,
           HopsOK(back, seen, from, edges, lev), \A e \in edges : EdgeOK(e),
           NEW s \in seen, NEW d \in [state : seen, path : Seq(edges)], NEW n \in Nat,
           WalkedBack(d, s, from, lev, n)
    PROVE  /\ BackStep(back, from, d) \in [state : seen, path : Seq(edges)]
           /\ WalkedBack(BackStep(back, from, d), s, from, lev, n + 1)
<1>0. d.state \in seen /\ d.path \in Seq(edges)
  OBVIOUS
<1>1. CASE d.state = from
  BY <1>1 DEF BackStep, WalkedBack
<1>2. CASE d.state # from
  <2> DEFINE hop == CHOOSE h \in back : h.state = d.state
             q == [state |-> hop.from, path |-> <<hop.edge>> \o d.path]
  <2>1. \E h \in back : h.state = d.state
    BY <1>0, <1>2 DEF HopsOK
  <2>2. hop \in back /\ hop.state = d.state
    BY <2>1
  <2> HIDE DEF hop
  <2>3. IsHop(hop, seen, from, edges, lev)
    BY <2>2 DEF HopsOK
  <2>4. BackStep(back, from, d) = q
    BY <1>2 DEF BackStep, hop
  <2>5. hop.from \in seen /\ hop.edge \in edges /\ EdgeOK(hop.edge) /\ SelectionOK(hop.from)
    BY <2>3 DEF IsHop, HopsOK
  <2>6. /\ q.path \in Seq(edges) /\ Len(q.path) = Len(d.path) + 1
        /\ hop.edge \in PqBits(q.path) /\ PqBits(d.path) \subseteq PqBits(q.path)
    BY <1>0, <2>5, PrependFacts
  <2>7. q \in [state : seen, path : Seq(edges)] /\ q.state = hop.from
    BY <2>5, <2>6
  <2>8. Len(d.path) \in Nat /\ Len(d.path) = n /\ lev[d.state] \in Nat /\ lev[hop.from] \in Nat
        /\ lev[d.state] = lev[hop.from] + 1
    BY <1>0, <1>2, <2>2, <2>3, <2>5, LenProperties DEF WalkedBack, IsHop, HopsOK
  <2>9. lev[q.state] + Len(q.path) = lev[s] /\ Len(q.path) = n + 1
    <3> PICK a, b, c \in Nat : a = lev[d.state] /\ b = Len(d.path) /\ c = lev[hop.from]
      BY <2>8
    <3>1. a + b = lev[s] /\ b = n /\ a = c + 1
      BY <2>8 DEF WalkedBack
    <3>2. c + (b + 1) = lev[s] /\ b + 1 = n + 1
      BY ONLY <3>1, a \in Nat, b \in Nat, c \in Nat
    <3>3. lev[q.state] = c /\ Len(q.path) = b + 1
      BY <2>6, <2>7
    <3> HIDE DEF q
    <3> QED
      BY <3>2, <3>3, Zenon
  <2>10. ASSUME NEW ask, NEW E, NEW m \in Nat,
                PqBits(q.path) \subseteq E, PqPoints(q.state) \subseteq BitsWithin(ask, E, m)
         PROVE  PqPoints(s) \subseteq BitsWithin(ask, E, m + Len(q.path))
    <3> HIDE DEF q
    <3>1. /\ HitBy(hop.edge, PqPoints(hop.from)) # {}
          /\ PqPoints(d.state) = Lands(hop.edge, HitBy(hop.edge, PqPoints(hop.from)))
      BY <2>2, <2>3, <2>5, FollowFacts DEF IsHop
    <3>2. PqPoints(d.state) \subseteq OneStep({hop.edge}, PqPoints(hop.from))
      BY <3>1 DEF OneStep
    <3>3. OneStep({hop.edge}, PqPoints(hop.from)) \subseteq OneStep(E, BitsWithin(ask, E, m))
      BY <2>6, <2>7, <2>10, OneStepGrows
    <3>4. PqPoints(d.state) \subseteq BitsWithin(ask, E, m + 1)
      BY <3>2, <3>3, WithinFacts
    <3>5. PqBits(d.path) \subseteq E /\ m + 1 \in Nat
      BY <2>6, <2>10
    <3>6. PqPoints(s) \subseteq BitsWithin(ask, E, (m + 1) + Len(d.path))
      BY <3>4, <3>5 DEF WalkedBack, LeadsTo
    <3>7. (m + 1) + Len(d.path) = m + Len(q.path)
      BY <2>6, <2>8
    <3> QED
      BY <3>6, <3>7
  <2>11. LeadsTo(q, s)
    <3> HIDE DEF q
    <3> QED
      BY <2>10 DEF LeadsTo
  <2> HIDE DEF q
  <2> QED
    BY <2>4, <2>7, <2>9, <2>11 DEF WalkedBack
<1> QED
  BY <1>1, <1>2

\* The path to a seen state leads there, and is as long as its level says.
LEMMA PathBackFacts ==
    ASSUME NEW back, NEW seen, NEW from, NEW edges, NEW lev,
           HopsOK(back, seen, from, edges, lev), \A e \in edges : EdgeOK(e),
           NEW s \in seen
    PROVE  /\ PathBack(back, from, s) \in Seq(edges)
           /\ Len(PathBack(back, from, s)) = lev[s]
           /\ \A ask : ask.from = from =>
                 PqPoints(s) \subseteq BitsWithin(ask, PqBits(PathBack(back, from, s)), lev[s])
<1> DEFINE D == [state : seen, path : Seq(edges)]
           F == [d \in D |-> BackStep(back, from, d)]
           x == [state |-> s, path |-> <<>>]
           N == Cardinality(back)
<1>1. x \in D
  OBVIOUS
<1>2. ASSUME NEW d \in D PROVE BackStep(back, from, d) \in D
  <2>1. CASE d.state = from
    BY <2>1 DEF BackStep
  <2>2. CASE d.state # from
    <3> DEFINE hop == CHOOSE h \in back : h.state = d.state
    <3>1. \E h \in back : h.state = d.state
      BY <2>2 DEF HopsOK
    <3>2. hop \in back
      BY <3>1
    <3> HIDE DEF hop
    <3>3. hop.from \in seen /\ hop.edge \in edges
      BY <3>2 DEF HopsOK, IsHop
    <3>4. <<hop.edge>> \o d.path \in Seq(edges)
      BY <3>3, PrependFacts
    <3>5. BackStep(back, from, d) = [state |-> hop.from, path |-> <<hop.edge>> \o d.path]
      BY <2>2 DEF BackStep, hop
    <3> QED
      BY <3>3, <3>4, <3>5
  <2> QED
    BY <2>1, <2>2
<1>3. PICK R : R \in [Nat -> D] /\ R[0] = x /\ \A n \in Nat : R[n + 1] = F[R[n]]
  <2> PICK DD, FF, xx : DD = D /\ FF = F /\ xx = x
    OBVIOUS
  <2>1. IsStepIn(DD, FF, xx)
    <3> HIDE DEF D
    <3> QED
      BY <1>1, <1>2 DEF IsStepIn
  <2>2. PICK R : Repeats(R, DD, FF, xx)
    BY ONLY <2>1, Iterates
  <2>3. R \in [Nat -> DD] /\ R[0] = xx /\ \A n \in Nat : R[n + 1] = FF[R[n]]
    BY <2>2 DEF Repeats
  <2> HIDE DEF F, D, x
  <2> QED
    BY <2>3
<1> DEFINE IsBack(f) == f = [n \in Nat |-> IF n = 0 THEN x ELSE BackStep(back, from, f[n - 1])]
           C == CHOOSE f : IsBack(f)
<1>4. IsBack(R)
  <2> HIDE DEF D, x
  <2>1. ASSUME NEW n \in Nat, n # 0 PROVE R[n] = BackStep(back, from, R[n - 1])
    <3>1. n - 1 \in Nat /\ (n - 1) + 1 = n
      BY <2>1
    <3>2. R[n] = F[R[n - 1]]
      BY <1>3, <3>1
    <3>3. R[n - 1] \in D
      BY <1>3, <3>1
    <3> QED
      BY <3>2, <3>3
  <2> HIDE DEF F
  <2> QED
    BY <1>3, <2>1
<1>5. IsBack(C)
  <2> HIDE DEF IsBack
  <2> QED
    BY <1>4
<1>6. PathBack(back, from, s) = C[N].path
  BY DEF PathBack
<1> HIDE DEF C
<1>7. C[0] = x /\ \A n \in Nat : C[n + 1] = BackStep(back, from, C[n])
  <2> HIDE DEF x
  <2>1. C[0] = x
    BY <1>5
  <2>2. ASSUME NEW n \in Nat PROVE C[n + 1] = BackStep(back, from, C[n])
    <3>1. n + 1 \in Nat /\ n + 1 # 0 /\ (n + 1) - 1 = n
      OBVIOUS
    <3>2. C[n + 1] = IF n + 1 = 0 THEN x ELSE BackStep(back, from, C[(n + 1) - 1])
      BY <1>5, <3>1
    <3> QED
      BY <3>1, <3>2
  <2> QED
    BY <2>1, <2>2
<1> DEFINE P == {n \in Nat : C[n] \in D /\ WalkedBack(C[n], s, from, lev, n)}
<1>8. 0 \in P
  <2>1. x.state = s /\ x.path = <<>> /\ Len(<<>>) = 0 /\ lev[s] \in Nat
    BY DEF HopsOK
  <2>2. LeadsTo(x, s)
    <3>1. \A m \in Nat : m + Len(<<>>) = m
      OBVIOUS
    <3> HIDE DEF x
    <3> QED
      BY <2>1, <3>1 DEF LeadsTo
  <2>3. WalkedBack(x, s, from, lev, 0)
    <3> HIDE DEF x
    <3> QED
      BY <2>1, <2>2 DEF WalkedBack
  <2> HIDE DEF x, D
  <2> QED
    BY <1>1, <1>7, <2>3
<1>9. ASSUME NEW n \in P PROVE n + 1 \in P
  <2>1. n \in Nat /\ C[n] \in D /\ WalkedBack(C[n], s, from, lev, n)
    OBVIOUS
  <2>2. /\ BackStep(back, from, C[n]) \in D
        /\ WalkedBack(BackStep(back, from, C[n]), s, from, lev, n + 1)
    BY <2>1, BackStepFacts
  <2> HIDE DEF D
  <2> QED
    BY <1>7, <2>1, <2>2
<1>10. P = Nat
  <2>1. P \in SUBSET Nat
    OBVIOUS
  <2> HIDE DEF P
  <2> QED
    BY <1>8, <1>9, <2>1, AllNumbers
<1>11. N \in Nat
  BY FS_CardinalityType DEF HopsOK
<1>12. C[N] \in D /\ WalkedBack(C[N], s, from, lev, N)
  <2> HIDE DEF D, N
  <2> QED
    BY <1>10, <1>11
<1> PICK d \in D : d = C[N]
  BY <1>12
<1>13. d.state \in seen /\ d.path \in Seq(edges) /\ WalkedBack(d, s, from, lev, N)
  BY <1>12
<1> HIDE DEF N, D, P
<1>14. lev[d.state] \in Nat /\ lev[s] \in Nat /\ lev[s] <= N /\ Len(d.path) \in Nat
  BY <1>13, LenProperties DEF HopsOK, N
<1>15. d.state = from
  <2> SUFFICES ASSUME d.state # from PROVE FALSE
    OBVIOUS
  <2>1. PICK h \in back : h.state = d.state
    BY <1>13 DEF HopsOK
  <2>2. h.from \in seen /\ lev[d.state] = lev[h.from] + 1 /\ lev[h.from] \in Nat
    BY <2>1 DEF HopsOK, IsHop
  <2>3. lev[d.state] + Len(d.path) = lev[s] /\ Len(d.path) = N
    BY <1>13 DEF WalkedBack
  <2> QED
    BY <1>11, <1>14, <2>2, <2>3
<1>16. Len(d.path) = lev[s]
  <2>1. lev[d.state] = 0 /\ lev[d.state] + Len(d.path) = lev[s]
    BY <1>13, <1>15 DEF WalkedBack, HopsOK
  <2> QED
    BY <1>14, <2>1
<1>17. ASSUME NEW ask, ask.from = from PROVE PqPoints(s) \subseteq BitsWithin(ask, PqBits(d.path), lev[s])
  <2>1. PqPoints(d.state) \subseteq BitsWithin(ask, PqBits(d.path), 0)
    BY <1>15, <1>17, WithinFacts
  <2>2. PqPoints(s) \subseteq BitsWithin(ask, PqBits(d.path), 0 + Len(d.path))
    BY <1>13, <2>1 DEF WalkedBack, LeadsTo
  <2>3. 0 + Len(d.path) = lev[s]
    BY <1>14, <1>16
  <2> QED
    BY <2>2, <2>3
<1> QED
  BY <1>6, <1>13, <1>16, <1>17

\* A new state continues the path to the state before it.
NewHop(seen, edges, at, e, s, hop) ==
    /\ at \in seen /\ e \in edges /\ PqOverlaps(e, at)
    /\ s = FollowEdge(e, at) /\ s \notin seen
    /\ hop = [state |-> s, from |-> at, edge |-> e]

LevelsWith(lev, seen, at, s) == [t \in seen \cup {s} |-> IF t = s THEN lev[at] + 1 ELSE lev[t]]

LEMMA HopsGrow ==
    ASSUME NEW back, NEW seen, NEW from, NEW edges, NEW lev, NEW at, NEW e, NEW s, NEW hop,
           HopsOK(back, seen, from, edges, lev), \A f \in edges : EdgeOK(f),
           NewHop(seen, edges, at, e, s, hop)
    PROVE  HopsOK(back \cup {hop}, seen \cup {s}, from, edges, LevelsWith(lev, seen, at, s))
<1> PICK lev2 : lev2 = LevelsWith(lev, seen, at, s)
  OBVIOUS
<1>0. /\ at \in seen /\ e \in edges /\ PqOverlaps(e, at)
      /\ s = FollowEdge(e, at) /\ s \notin seen
      /\ hop = [state |-> s, from |-> at, edge |-> e]
      /\ lev2 = [t \in seen \cup {s} |-> IF t = s THEN lev[at] + 1 ELSE lev[t]]
  BY DEF NewHop, LevelsWith
<1>1. /\ from \in seen /\ lev \in [seen -> Nat] /\ lev[at] \in Nat
      /\ s # from /\ s # at /\ \A t \in seen : t # s /\ lev[t] \in Nat
  BY <1>0 DEF HopsOK
<1>2. lev2 \in [seen \cup {s} -> Nat] /\ lev2[s] = lev[at] + 1 /\ \A t \in seen : lev2[t] = lev[t]
  BY <1>0, <1>1
<1>3. \A t \in seen \cup {s} : SelectionOK(t)
  BY <1>0, FollowFacts DEF HopsOK
<1>4. \A h \in back : IsHop(h, seen \cup {s}, from, edges, lev2)
  <2> SUFFICES ASSUME NEW h \in back PROVE IsHop(h, seen \cup {s}, from, edges, lev2)
    OBVIOUS
  <2>1. IsHop(h, seen, from, edges, lev)
    BY DEF HopsOK
  <2>2. lev2[h.state] = lev[h.state] /\ lev2[h.from] = lev[h.from]
    BY <1>2, <2>1 DEF IsHop
  <2> QED
    BY <2>1, <2>2 DEF IsHop
<1>5. hop.state = s /\ hop.from = at /\ hop.edge = e
  BY <1>0
<1>6. IsHop(hop, seen \cup {s}, from, edges, lev2)
  BY <1>0, <1>1, <1>2, <1>5 DEF IsHop
<1>7. hop \notin back
  BY <1>0, <1>5 DEF HopsOK, IsHop
<1>8. /\ IsFiniteSet(back \cup {hop})
      /\ Cardinality(back) \in Nat
      /\ Cardinality(back \cup {hop}) = Cardinality(back) + 1
  BY <1>7, FS_AddElement, FS_CardinalityType DEF HopsOK
<1>9. \A t \in (seen \cup {s}) \ {from} : \E h \in back \cup {hop} : h.state = t
  BY <1>5 DEF HopsOK
<1>10. \A t \in seen \cup {s} : lev2[t] <= Cardinality(back \cup {hop})
  <2>1. \A t \in seen : lev[t] <= Cardinality(back)
    BY DEF HopsOK
  <2>2. lev[at] + 1 <= Cardinality(back) + 1
    BY <1>0, <1>1, <1>8, <2>1
  <2>3. ASSUME NEW t \in seen PROVE lev2[t] <= Cardinality(back) + 1
    BY <1>1, <1>2, <1>8, <2>1
  <2> QED
    BY <1>2, <1>8, <2>2, <2>3
<1>11. lev2[from] = 0
  BY <1>1, <1>2 DEF HopsOK
<1>12. from \in seen \cup {s} /\ \A h \in back \cup {hop} : IsHop(h, seen \cup {s}, from, edges, lev2)
  BY <1>1, <1>4, <1>6
<1> QED
  BY <1>2, <1>3, <1>8, <1>9, <1>10, <1>11, <1>12 DEF HopsOK

(***************************************************************************)
(* What has been seen covers what can be reached                           *)
(***************************************************************************)
LEMMA LandsFrom ==
    ASSUME NEW e, NEW B, HitBy(e, B) # {}, NEW p \in Lands(e, HitBy(e, B))
    PROVE  \E q \in B : \A S : q \in S => HitBy(e, S) # {} /\ p \in Lands(e, HitBy(e, S))
<1>1. PICK b \in HitBy(e, B) : p \in Lands(e, {b})
  BY DEF Lands
<1>2. <<e.at, b>> \in B /\ b \in DOMAIN e.map
  BY DEF HitBy
<1>3. ASSUME NEW S, <<e.at, b>> \in S PROVE HitBy(e, S) # {} /\ p \in Lands(e, HitBy(e, S))
  <2>1. b \in HitBy(e, S)
    BY <1>2, <1>3 DEF HitBy
  <2> QED
    BY <1>1, <2>1 DEF Lands
<1> QED
  BY <1>2, <1>3

LEMMA HitOverlaps ==
    ASSUME NEW e, NEW s, HitBy(e, PqPoints(s)) # {}
    PROVE  PqOverlaps(e, s)
  BY DEF HitBy, PqPoints, PqOverlaps

\* Where every edge from a seen state below level top leads to a seen state one level
\* up at most, the bits within n <= top edges belong to seen states of level n at most.
Follows(E, seen, lev, top) ==
    \A e \in E : \A s \in seen :
        lev[s] < top /\ PqOverlaps(e, s) =>
            \E t \in seen : lev[t] <= lev[s] + 1 /\ PqPoints(t) = Lands(e, HitBy(e, PqPoints(s)))

LEMMA Covered ==
    ASSUME NEW ask, NEW E, NEW seen, NEW lev \in [seen -> Nat], NEW top \in Nat,
           ask.from \in seen, lev[ask.from] = 0, Follows(E, seen, lev, top),
           NEW n \in Nat, n <= top
    PROVE  \A p \in BitsWithin(ask, E, n) : \E s \in seen : lev[s] <= n /\ p \in PqPoints(s)
<1> DEFINE Cov(k) == \A p \in BitsWithin(ask, E, k) : \E s \in seen : lev[s] <= k /\ p \in PqPoints(s)
           P == {k \in Nat : k <= top => Cov(k)}
<1>1. 0 \in P
  BY WithinFacts
<1>2. ASSUME NEW k \in P PROVE k + 1 \in P
  <2> SUFFICES ASSUME k + 1 <= top, NEW p \in BitsWithin(ask, E, k + 1)
               PROVE  \E s \in seen : lev[s] <= k + 1 /\ p \in PqPoints(s)
    OBVIOUS
  <2>1. k \in Nat /\ k <= top /\ k < top
    OBVIOUS
  <2>2. Cov(k)
    BY <2>1
  <2>3. p \in OneStep(E, BitsWithin(ask, E, k))
    BY <2>1, WithinFacts
  <2>4. CASE p \in BitsWithin(ask, E, k)
    <3>1. PICK s \in seen : lev[s] <= k /\ p \in PqPoints(s)
      BY <2>2, <2>4
    <3>2. lev[s] <= k + 1
      BY <2>1, <3>1
    <3> QED
      BY <3>1, <3>2
  <2>5. CASE p \notin BitsWithin(ask, E, k)
    <3>1. PICK e \in E : HitBy(e, BitsWithin(ask, E, k)) # {} /\ p \in Lands(e, HitBy(e, BitsWithin(ask, E, k)))
      BY <2>3, <2>5 DEF OneStep
    <3>2. PICK q \in BitsWithin(ask, E, k) :
            \A S : q \in S => HitBy(e, S) # {} /\ p \in Lands(e, HitBy(e, S))
      BY <3>1, LandsFrom
    <3>3. PICK s \in seen : lev[s] <= k /\ q \in PqPoints(s)
      BY <2>2, <3>2
    <3>4. HitBy(e, PqPoints(s)) # {} /\ p \in Lands(e, HitBy(e, PqPoints(s)))
      BY <3>2, <3>3
    <3>5. PqOverlaps(e, s) /\ lev[s] \in Nat /\ lev[s] < top
      BY <2>1, <3>3, <3>4, HitOverlaps
    <3>6. PICK t \in seen : lev[t] <= lev[s] + 1 /\ PqPoints(t) = Lands(e, HitBy(e, PqPoints(s)))
      BY <3>5 DEF Follows
    <3>7. lev[t] \in Nat /\ lev[t] <= k + 1
      BY <2>1, <3>3, <3>5, <3>6
    <3> QED
      BY <3>4, <3>6, <3>7
  <2> QED
    BY <2>4, <2>5
<1>3. P = Nat
  <2>1. P \in SUBSET Nat
    OBVIOUS
  <2> HIDE DEF P
  <2> QED
    BY <1>1, <1>2, <2>1, AllNumbers
<1> QED
  BY <1>3

\* A target that no seen state meets is not reached then.
LEMMA NotReached ==
    ASSUME NEW ask, NEW E, NEW seen, NEW lev \in [seen -> Nat], NEW top \in Nat,
           ask.from \in seen, lev[ask.from] = 0, Follows(E, seen, lev, top),
           \A s \in seen : ~Meets(s, ask.to)
    PROVE  ~Arrives(ask, E, top)
<1> SUFFICES ASSUME NEW p, p \in PqPoints(ask.to), p \in BitsWithin(ask, E, top) PROVE FALSE
  BY DEF Arrives
<1>1. PICK s \in seen : p \in PqPoints(s)
  BY Covered
<1>2. Meets(s, ask.to)
  BY <1>1 DEF Meets, PqPoints
<1> QED
  BY <1>2

(***************************************************************************)
(* The search                                                              *)
(***************************************************************************)
PathLoadInv == PathLoadOK([world |-> pqWorld, ask |-> pqAsk])

\* A state whose edges before position upto have been followed.
Expanded(s, upto, lev) ==
    /\ s.sig \in pqTouched
    /\ \A y \in pqWorld.excluded : PqOverlaps(y, s) => y.id \in pqGaps
    /\ \A k \in DOMAIN pqWorld.edges :
          k < upto /\ PqOverlaps(pqWorld.edges[k], s) =>
              /\ FollowEdge(pqWorld.edges[k], s) \in pqSeen
              /\ lev[FollowEdge(pqWorld.edges[k], s)] <= lev[s] + 1

\* The queue goes up by one level at most, and no seen state is above it; a state that
\* has left it is expanded, the first one as far as the search has come.
QueueOK(lev) ==
    /\ pqQueue \in Seq(pqSeen)
    /\ \A i, j \in DOMAIN pqQueue : i <= j => lev[pqQueue[i]] <= lev[pqQueue[j]]
    /\ pqQueue # <<>> => \A s \in pqSeen : lev[s] <= lev[pqQueue[1]] + 1
    /\ \A s \in pqSeen : s \in PqBits(pqQueue) \/ Expanded(s, Len(pqWorld.edges) + 1, lev)
    /\ pqPc = "edges" => /\ pqQueue # <<>> /\ pqAt \in Nat
                         /\ Expanded(pqQueue[1], pqAt, lev)

LevelInv == \E lev : HopsOK(pqBack, pqSeen, pqAsk.from, PqBits(pqWorld.edges), lev) /\ QueueOK(lev)

GapInv ==
    pqGaps \subseteq {e.id : e \in pqWorld.excluded \cup {f \in PqBits(pqWorld.edges) : ~f.sound}}

SearchInv ==
    pqPc \in {"expand", "edges"} =>
        /\ Declared(pqAsk.from) /\ Declared(pqAsk.to)
        /\ \A s \in pqSeen : ~Meets(s, pqAsk.to)
        /\ GapInv
        /\ LevelInv

StartInv ==
    /\ pqPc \in {"start", "expand", "edges", "done"}
    /\ pqPc # "done" => pqPath = <<>>
    /\ pqPc = "start" => pqBack = {} /\ pqGaps = {} /\ pqTouched = {}

PathInv == PathLoadInv /\ StartInv /\ SearchInv /\ PathTrue

LEMMA LoadFacts ==
    ASSUME PathLoadInv
    PROVE  /\ pqWorld.edges \in Seq(PqBits(pqWorld.edges))
           /\ Len(pqWorld.edges) \in Nat /\ DOMAIN pqWorld.edges = 1 .. Len(pqWorld.edges)
           /\ \A k \in DOMAIN pqWorld.edges : pqWorld.edges[k] \in PqBits(pqWorld.edges)
           /\ \A e \in PqAll \cup pqWorld.excluded : EdgeOK(e)
           /\ \A e \in PqBits(pqWorld.edges) : EdgeOK(e)
           /\ IsFiniteSet(PqAll) /\ IsFiniteSet(PqAll \cup pqWorld.excluded)
           /\ \A e \in pqWorld.missing : e.at \in pqWorld.gapped
           /\ SelectionOK(pqAsk.from) /\ SelectionOK(pqAsk.to)
           /\ pqAsk.outputLimit \in Nat
<1>1. /\ pqWorld.edges \in Seq(PqBits(pqWorld.edges))
      /\ IsFiniteSet(pqWorld.missing) /\ IsFiniteSet(pqWorld.excluded)
      /\ \A e \in PqBits(pqWorld.edges) \cup pqWorld.missing \cup pqWorld.excluded : EdgeOK(e)
      /\ \A e \in pqWorld.missing : e.at \in pqWorld.gapped
      /\ SelectionOK(pqAsk.from) /\ SelectionOK(pqAsk.to)
      /\ pqAsk.outputLimit \in Nat
  BY DEF PathLoadInv, PathLoadOK
<1>2. Len(pqWorld.edges) \in Nat /\ DOMAIN pqWorld.edges = 1 .. Len(pqWorld.edges)
  BY <1>1, LenProperties
<1>3. IsFiniteSet(PqBits(pqWorld.edges))
  BY <1>1, SelectionFinite
<1>4. IsFiniteSet(PqAll) /\ IsFiniteSet(PqAll \cup pqWorld.excluded)
  BY <1>1, <1>3, FS_Union DEF PqAll
<1>5. \A k \in DOMAIN pqWorld.edges : pqWorld.edges[k] \in PqBits(pqWorld.edges)
  BY DEF PqBits
<1> QED
  BY <1>1, <1>2, <1>4, <1>5 DEF PqAll

\* Nothing is claimed before the end.
LEMMA NoClaims == ASSUME pqPc # "done" PROVE PathTrue
  BY DEF PathTrue, PathClaimsTrue, PathDecides

LEMMA PathStarts ==
    ASSUME NEW loads, \A load \in loads : PathLoadOK(load), PathInit(loads)
    PROVE  PathInv
<1>1. pqPc = "start" /\ pqPath = <<>> /\ pqBack = {} /\ pqGaps = {} /\ pqTouched = {}
  BY DEF PathInit
<1>2. PathLoadInv
  <2>1. PICK load \in loads : pqWorld = load.world /\ pqAsk = load.ask
    BY DEF PathInit
  <2>2. PathLoadOK(load)
    OBVIOUS
  <2> QED
    BY <2>1, <2>2 DEF PathLoadInv, PathLoadOK
<1> QED
  BY <1>1, <1>2, NoClaims DEF PathInv, StartInv, SearchInv

\* Bits that the target shares with the source are there without a step.
LEMMA AliasFound ==
    ASSUME Meets(pqAsk.from, pqAsk.to), NEW edges
    PROVE  Arrives(pqAsk, edges, 0)
<1>1. PICK b : b \in PqBits(pqAsk.from.bits) \cap PqBits(pqAsk.to.bits)
  BY DEF Meets
<1>2. <<pqAsk.to.sig, b>> \in PqPoints(pqAsk.to) \cap PqPoints(pqAsk.from)
  BY <1>1 DEF PqPoints, Meets
<1> QED
  BY <1>2, WithinFacts DEF Arrives

LEMMA FoundConnected ==
    ASSUME PathLoadInv, NEW n \in Nat, Arrives(pqAsk, PqAll, n)
    PROVE  Connected(pqAsk, PqAll)
<1>1. IsFiniteSet(AllPoints(pqAsk, PqAll))
  BY LoadFacts, PointsFinite
<1> QED
  BY <1>1, Saturates

LEMMA StartPathKeeps == ASSUME PathInv, StartPath PROVE PathInv'
<1>0. /\ pqPc = "start" /\ pqPath = <<>> /\ pqBack = {} /\ pqGaps = {}
      /\ UNCHANGED <<pqWorld, pqAsk, pqAt, pqBack, pqGaps, pqCount, pqPath>>
  BY DEF PathInv, StartInv, StartPath
<1>1. PathLoadInv'
  BY <1>0 DEF PathInv, PathLoadInv
<1>2. CASE /\ ~Declared(pqAsk.from) \/ ~Declared(pqAsk.to)
           /\ pqPc' = "done"
           /\ pqStatus' \in {"endpoints_unresolved", "from_unresolved", "to_unresolved"}
  <2>1. PathClaimsTrue' /\ PathDecides'
    BY <1>0, <1>2 DEF PathClaimsTrue, PathDecides, Declared
  <2> QED
    BY <1>0, <1>1, <1>2, <2>1 DEF PathInv, StartInv, SearchInv, PathTrue
<1>3. CASE Meets(pqAsk.from, pqAsk.to) /\ pqPc' = "done" /\ pqStatus' = "found"
  <2>1. Arrives(pqAsk, PqBits(<<>>), 0) /\ Connected(pqAsk, PqAll)
    BY <1>3, AliasFound, FoundConnected DEF PathInv
  <2>2. pqPath' = <<>> /\ Len(<<>>) = 0 /\ pqAsk.outputLimit \in Nat
    BY <1>0, LoadFacts DEF PathInv
  <2>3. PathClaimsTrue'
    BY <1>0, <1>3, <2>1, <2>2 DEF PathClaimsTrue
  <2>4. PathDecides'
    BY <1>0, <1>3, <2>1 DEF PathDecides, PqAll
  <2> QED
    BY <1>0, <1>1, <1>3, <2>3, <2>4 DEF PathInv, StartInv, SearchInv, PathTrue
<1>4. CASE /\ Declared(pqAsk.from) /\ Declared(pqAsk.to) /\ ~Meets(pqAsk.from, pqAsk.to)
           /\ pqQueue' = <<pqAsk.from>> /\ pqSeen' = {pqAsk.from}
           /\ pqPc' = "expand"
  <2> PICK from : from = pqAsk.from
    OBVIOUS
  <2> DEFINE lev == [s \in {from} |-> 0]
  <2>1. HopsOK({}, {from}, from, PqBits(pqWorld.edges), lev)
    <3>1. IsFiniteSet({}) /\ Cardinality({}) = 0
      BY FS_EmptySet
    <3>2. SelectionOK(from)
      BY LoadFacts DEF PathInv
    <3> QED
      BY <3>1, <3>2 DEF HopsOK
  <2>2. QueueOK(lev)'
    <3>1. pqQueue' = <<from>> /\ pqSeen' = {from} /\ pqPc' = "expand"
      BY <1>4
    <3>2. <<from>> \in Seq({from}) /\ DOMAIN <<from>> = {1} /\ <<from>>[1] = from
      OBVIOUS
    <3>3. from \in PqBits(<<from>>)
      BY <3>2 DEF PqBits
    <3>4. lev[from] = 0
      OBVIOUS
    <3> HIDE DEF lev
    <3> QED
      BY <3>1, <3>2, <3>3, <3>4 DEF QueueOK
  <2>3. LevelInv'
    <3> HIDE DEF lev
    <3> QED
      BY <1>0, <1>4, <2>1, <2>2 DEF LevelInv
  <2>4. SearchInv'
    <3>1. Declared(pqAsk.from)' /\ Declared(pqAsk.to)'
      BY <1>0, <1>4 DEF Declared
    <3>2. GapInv'
      BY <1>0 DEF GapInv
    <3> QED
      BY <1>0, <1>4, <2>3, <3>1, <3>2 DEF SearchInv
  <2>5. PathTrue'
    BY <1>4 DEF PathTrue, PathClaimsTrue, PathDecides
  <2> QED
    BY <1>0, <1>1, <1>4, <2>4, <2>5 DEF PathInv, StartInv
<1> QED
  BY <1>2, <1>3, <1>4 DEF StartPath, PathAnswer

LEMMA ExpandKeeps == ASSUME PathInv, Expand PROVE PathInv'
<1>0. /\ pqPc = "expand" /\ pqQueue # <<>> /\ pqPc' = "edges" /\ pqAt' = 1
      /\ pqTouched' = pqTouched \cup {Head(pqQueue).sig}
      /\ pqGaps' = pqGaps \cup {x.id : x \in {y \in pqWorld.excluded : PqOverlaps(y, Head(pqQueue))}}
      /\ UNCHANGED <<pqWorld, pqAsk, pqQueue, pqSeen, pqBack, pqCount, pqStatus, pqPath>>
  BY DEF Expand
<1>1. PathLoadInv'
  BY <1>0 DEF PathInv, PathLoadInv
<1> PICK lev : HopsOK(pqBack, pqSeen, pqAsk.from, PqBits(pqWorld.edges), lev) /\ QueueOK(lev)
  BY <1>0 DEF PathInv, SearchInv, LevelInv
<1>2. pqQueue \in Seq(pqSeen) /\ Head(pqQueue) = pqQueue[1]
  BY DEF QueueOK
<1>3. \A s, upto : Expanded(s, upto, lev) => Expanded(s, upto, lev)'
  <2> SUFFICES ASSUME NEW s, NEW upto, Expanded(s, upto, lev) PROVE Expanded(s, upto, lev)'
    OBVIOUS
  <2>1. s.sig \in pqTouched' /\ \A y \in pqWorld.excluded : PqOverlaps(y, s) => y.id \in pqGaps'
    BY <1>0 DEF Expanded
  <2> QED
    BY <1>0, <2>1 DEF Expanded
<1>4. Expanded(pqQueue[1], 1, lev)'
  <2>1. pqQueue[1].sig \in pqTouched'
    BY <1>0, <1>2
  <2>2. \A y \in pqWorld.excluded : PqOverlaps(y, pqQueue[1]) => y.id \in pqGaps'
    BY <1>0, <1>2
  <2>3. \A k \in DOMAIN pqWorld.edges : ~(k < 1)
    BY LoadFacts DEF PathInv
  <2> QED
    BY <1>0, <2>1, <2>2, <2>3 DEF Expanded
<1>5. QueueOK(lev)'
  BY <1>0, <1>3, <1>4 DEF QueueOK
<1>6. LevelInv'
  BY <1>0, <1>5 DEF LevelInv
<1>7. GapInv'
  BY <1>0 DEF GapInv, PathInv, SearchInv
<1>8. SearchInv'
  BY <1>0, <1>6, <1>7 DEF PathInv, SearchInv, Declared
<1> QED
  BY <1>0, <1>1, <1>8 DEF PathInv, StartInv, PathTrue, PathClaimsTrue, PathDecides

\* The last edge of a selection has been followed.
LEMMA NoneAhead ==
    ASSUME PathLoadInv, NEW lev, Expanded(Head(pqQueue), pqAt, lev), pqAt \in Nat, Ahead = {}
    PROVE  Expanded(Head(pqQueue), Len(pqWorld.edges) + 1, lev)
<1> SUFFICES ASSUME NEW k \in DOMAIN pqWorld.edges, PqOverlaps(pqWorld.edges[k], Head(pqQueue))
             PROVE  k < pqAt
  BY DEF Expanded
<1>1. k \notin Ahead
  OBVIOUS
<1>2. ~(k >= pqAt) /\ k \in Nat
  BY <1>1, LoadFacts DEF Ahead
<1> QED
  BY <1>2

LEMMA TailFacts ==
    ASSUME NEW S, NEW s \in Seq(S), s # <<>>
    PROVE  /\ Tail(s) \in Seq(S) /\ Len(s) \in Nat \ {0} /\ Len(Tail(s)) = Len(s) - 1
           /\ DOMAIN s = 1 .. Len(s) /\ DOMAIN Tail(s) = 1 .. Len(s) - 1
           /\ \A k \in DOMAIN Tail(s) : k + 1 \in DOMAIN s /\ Tail(s)[k] = s[k + 1]
           /\ Head(s) = s[1] /\ s[1] \in S
           /\ \A x \in PqBits(s) : x = s[1] \/ x \in PqBits(Tail(s))
<1>1. /\ Tail(s) \in Seq(S) /\ Len(s) \in Nat \ {0} /\ Len(Tail(s)) = Len(s) - 1
      /\ DOMAIN s = 1 .. Len(s) /\ DOMAIN Tail(s) = 1 .. Len(Tail(s))
      /\ \A i \in 1 .. Len(Tail(s)) : Tail(s)[i] = s[i + 1]
      /\ Head(s) = s[1]
  BY HeadTailProperties, EmptySeq, LenProperties
<1>2. \A k \in DOMAIN Tail(s) : k + 1 \in DOMAIN s /\ Tail(s)[k] = s[k + 1]
  BY <1>1
<1>3. s[1] \in S
  BY <1>1
<1>4. ASSUME NEW k \in DOMAIN s, k # 1 PROVE s[k] \in PqBits(Tail(s))
  <2>1. k - 1 \in DOMAIN Tail(s) /\ (k - 1) + 1 = k
    BY <1>1, <1>4
  <2>2. Tail(s)[k - 1] = s[k]
    BY <1>2, <2>1
  <2> QED
    BY <2>1, <2>2 DEF PqBits
<1> QED
  BY <1>1, <1>2, <1>3, <1>4 DEF PqBits

LEMMA ExpandDoneKeeps == ASSUME PathInv, ExpandDone PROVE PathInv'
<1>0. /\ pqPc = "edges" /\ Ahead = {} /\ pqPc' = "expand" /\ pqQueue' = Tail(pqQueue)
      /\ UNCHANGED <<pqWorld, pqAsk, pqAt, pqSeen, pqBack, pqTouched, pqGaps, pqCount, pqStatus, pqPath>>
  BY DEF ExpandDone
<1>1. PathLoadInv'
  BY <1>0 DEF PathInv, PathLoadInv
<1> PICK lev : HopsOK(pqBack, pqSeen, pqAsk.from, PqBits(pqWorld.edges), lev) /\ QueueOK(lev)
  BY <1>0 DEF PathInv, SearchInv, LevelInv
<1> PICK q, r : q = pqQueue /\ r = Tail(pqQueue)
  OBVIOUS
<1>2. q \in Seq(pqSeen) /\ q # <<>> /\ pqAt \in Nat /\ Expanded(q[1], pqAt, lev)
  BY <1>0 DEF QueueOK
<1>3. /\ r \in Seq(pqSeen) /\ Len(q) \in Nat \ {0} /\ Len(r) = Len(q) - 1
      /\ DOMAIN q = 1 .. Len(q) /\ DOMAIN r = 1 .. Len(q) - 1
      /\ \A k \in DOMAIN r : k + 1 \in DOMAIN q /\ r[k] = q[k + 1]
      /\ Head(q) = q[1] /\ q[1] \in pqSeen
      /\ \A x \in PqBits(q) : x = q[1] \/ x \in PqBits(r)
  BY <1>2, TailFacts
<1>4. Expanded(q[1], Len(pqWorld.edges) + 1, lev)
  BY <1>0, <1>2, <1>3, NoneAhead DEF PathInv
<1>5. \A s \in pqSeen : s \in PqBits(r) \/ Expanded(s, Len(pqWorld.edges) + 1, lev)
  BY <1>3, <1>4 DEF QueueOK
<1>6. \A i, j \in DOMAIN q : i <= j => lev[q[i]] <= lev[q[j]]
  BY DEF QueueOK
<1>7. ASSUME NEW i \in DOMAIN r, NEW j \in DOMAIN r, i <= j PROVE lev[r[i]] <= lev[r[j]]
  <2>1. i + 1 \in DOMAIN q /\ j + 1 \in DOMAIN q /\ r[i] = q[i + 1] /\ r[j] = q[j + 1]
    BY <1>3
  <2>2. i + 1 <= j + 1
    BY <1>3, <1>7
  <2> QED
    BY <1>6, <2>1, <2>2
<1>8. ASSUME r # <<>>, NEW s \in pqSeen PROVE lev[s] <= lev[r[1]] + 1
  <2>1. Len(r) # 0
    BY <1>3, <1>8, EmptySeq
  <2>2. 1 \in DOMAIN r /\ 1 \in DOMAIN q
    BY <1>3, <2>1
  <2>3. r[1] = q[2] /\ 2 \in DOMAIN q /\ 1 <= 2
    BY <1>3, <2>2
  <2>4. lev[q[1]] <= lev[r[1]] /\ lev[s] <= lev[q[1]] + 1
    BY <1>2, <1>6, <2>2, <2>3 DEF QueueOK
  <2>5. r[1] \in pqSeen
    BY <1>3, <2>2
  <2>6. lev[s] \in Nat /\ lev[q[1]] \in Nat /\ lev[r[1]] \in Nat
    BY <1>3, <2>5 DEF HopsOK
  <2> QED
    BY ONLY <2>4, <2>6
<1>9. \A s, upto : Expanded(s, upto, lev) => Expanded(s, upto, lev)'
  BY <1>0 DEF Expanded
<1>10. QueueOK(lev)'
  <2> PICK top : top = Len(pqWorld.edges) + 1
    OBVIOUS
  <2>0. Len(pqWorld'.edges) + 1 = top
    BY <1>0
  <2>1. \A s \in pqSeen : s \in PqBits(r) \/ Expanded(s, top, lev)'
    BY <1>5, <1>9
  <2>2. pqQueue' = r /\ pqSeen' = pqSeen /\ pqPc' # "edges" /\ pqWorld' = pqWorld
    BY <1>0
  <2> QED
    BY <1>3, <1>7, <1>8, <2>0, <2>1, <2>2 DEF QueueOK
<1>11. LevelInv'
  BY <1>0, <1>10 DEF LevelInv
<1>12. SearchInv'
  BY <1>0, <1>11 DEF PathInv, SearchInv, Declared, GapInv
<1> QED
  BY <1>0, <1>1, <1>12 DEF PathInv, StartInv, PathTrue, PathClaimsTrue, PathDecides

LEMMA PathCutKeeps == ASSUME PathInv, PathCut PROVE PathInv'
<1>0. /\ pqPc' = "done" /\ pqStatus' = "truncated"
      /\ UNCHANGED <<pqWorld, pqAsk>>
  BY DEF PathCut, PathAnswer
<1>1. PathLoadInv'
  BY <1>0 DEF PathInv, PathLoadInv
<1> QED
  BY <1>0, <1>1 DEF PathInv, StartInv, SearchInv, PathTrue, PathClaimsTrue, PathDecides

\* With an empty queue every seen state is expanded, so that nothing but an edge with a
\* gap leads out of what was seen.
LEMMA ExhaustedClosed ==
    ASSUME PathInv, pqPc = "expand", pqQueue = <<>>, PqComplete(pqTouched, pqGaps), NEW n \in Nat
    PROVE  ~Arrives(pqAsk, PqAll \cup pqWorld.excluded, n)
<1> PICK lev : HopsOK(pqBack, pqSeen, pqAsk.from, PqBits(pqWorld.edges), lev) /\ QueueOK(lev)
  BY DEF PathInv, SearchInv, LevelInv
<1> DEFINE E == PqAll \cup pqWorld.excluded
           flat == [s \in pqSeen |-> 0]
<1>1. \A s \in pqSeen : SelectionOK(s) /\ Expanded(s, Len(pqWorld.edges) + 1, lev)
  <2>1. PqBits(<<>>) = {}
    BY DEF PqBits
  <2> QED
    BY <2>1 DEF QueueOK, HopsOK
<1>2. ASSUME NEW e \in E, NEW s \in pqSeen, PqOverlaps(e, s)
      PROVE  \E t \in pqSeen : PqPoints(t) = Lands(e, HitBy(e, PqPoints(s)))
  <2>1. s.sig = e.at /\ s.sig \in pqTouched
    BY <1>1, <1>2 DEF PqOverlaps, Expanded
  <2>2. e \notin pqWorld.missing
    BY <2>1, LoadFacts DEF PathInv, PqComplete
  <2>3. e \notin pqWorld.excluded
    BY <1>1, <1>2 DEF PqComplete, Expanded
  <2>4. PICK k \in DOMAIN pqWorld.edges : e = pqWorld.edges[k]
    BY <2>2, <2>3 DEF PqAll, PqBits
  <2>5. k < Len(pqWorld.edges) + 1
    BY LoadFacts DEF PathInv
  <2>6. FollowEdge(e, s) \in pqSeen
    BY <1>1, <1>2, <2>4, <2>5 DEF Expanded
  <2>7. EdgeOK(e)
    BY LoadFacts DEF PathInv
  <2> QED
    BY <1>1, <1>2, <2>6, <2>7, FollowFacts
<1>3. flat \in [pqSeen -> Nat] /\ pqAsk.from \in pqSeen /\ flat[pqAsk.from] = 0
  BY DEF HopsOK
<1>4. Follows(E, pqSeen, flat, n)
  BY <1>2 DEF Follows
<1>5. \A s \in pqSeen : ~Meets(s, pqAsk.to)
  BY DEF PathInv, SearchInv
<1> HIDE DEF E, flat
<1>6. ~Arrives(pqAsk, E, n)
  BY <1>3, <1>4, <1>5, NotReached
<1> QED
  BY <1>6 DEF E

LEMMA PathExhaustedKeeps == ASSUME PathInv, PathExhausted PROVE PathInv'
<1>0. /\ pqPc = "expand" /\ pqQueue = <<>> /\ pqPc' = "done"
      /\ pqStatus' = IF PqComplete(pqTouched, pqGaps) THEN "not_connected" ELSE "inconclusive"
      /\ UNCHANGED <<pqWorld, pqAsk, pqGaps, pqTouched, pqPath>>
  BY DEF PathExhausted, PathAnswer
<1>1. PathLoadInv'
  BY <1>0 DEF PathInv, PathLoadInv
<1>2. ASSUME PqComplete(pqTouched, pqGaps)
      PROVE  ~Connected(pqAsk, PqAll \cup pqWorld.excluded)
  <2>1. IsFiniteSet(AllPoints(pqAsk, PqAll \cup pqWorld.excluded))
    BY LoadFacts, PointsFinite DEF PathInv
  <2>2. Cardinality(AllPoints(pqAsk, PqAll \cup pqWorld.excluded)) \in Nat
    BY <2>1, FS_CardinalityType
  <2> QED
    BY <1>0, <1>2, <2>2, ExhaustedClosed DEF Connected
<1>3. PathClaimsTrue'
  <2>1. pqStatus' # "found" /\ (pqStatus' = "not_connected" => PqComplete(pqTouched, pqGaps))
    BY <1>0
  <2> QED
    BY <1>0, <1>2, <2>1 DEF PathClaimsTrue, PqAll
<1>4. ASSUME pqWorld.whole, pqWorld.gapped = {}, pqWorld.excluded = {}, \A e \in PqAll : e.sound
      PROVE  pqStatus' = IF Connected(pqAsk, PqAll) THEN "found" ELSE "not_connected"
  <2>1. pqGaps = {}
    BY <1>0, <1>4 DEF PathInv, SearchInv, GapInv, PqAll
  <2>2. PqComplete(pqTouched, pqGaps)
    BY <1>4, <2>1 DEF PqComplete
  <2>3. PqAll \cup pqWorld.excluded = PqAll
    BY <1>4
  <2> QED
    BY <1>0, <1>2, <2>2, <2>3
<1>5. PathDecides'
  BY <1>0, <1>4 DEF PathDecides, PqAll, Declared
<1> QED
  BY <1>0, <1>1, <1>3, <1>5 DEF PathInv, StartInv, SearchInv, PathTrue

\* What following an edge finds and where it leads.
LEMMA FollowState ==
    ASSUME PathInv, pqPc = "edges", NEW k \in Ahead, \A j \in Ahead : k <= j,
           NEW lev, HopsOK(pqBack, pqSeen, pqAsk.from, PqBits(pqWorld.edges), lev), QueueOK(lev)
    PROVE  /\ pqQueue \in Seq(pqSeen) /\ pqQueue # <<>>
           /\ Head(pqQueue) = pqQueue[1] /\ pqQueue[1] \in pqSeen /\ 1 \in DOMAIN pqQueue
           /\ k \in Nat /\ k \in DOMAIN pqWorld.edges
           /\ pqWorld.edges[k] \in PqBits(pqWorld.edges) /\ EdgeOK(pqWorld.edges[k])
           /\ PqOverlaps(pqWorld.edges[k], pqQueue[1])
           /\ lev \in [pqSeen -> Nat] /\ lev[pqQueue[1]] \in Nat
           /\ \A j \in DOMAIN pqWorld.edges : j < k + 1 /\ PqOverlaps(pqWorld.edges[j], pqQueue[1]) =>
                 j = k \/ j < pqAt
<1>1. pqQueue \in Seq(pqSeen) /\ pqQueue # <<>> /\ pqAt \in Nat
  BY DEF QueueOK
<1>2. /\ Head(pqQueue) = pqQueue[1] /\ pqQueue[1] \in pqSeen /\ 1 \in DOMAIN pqQueue
  BY <1>1, TailFacts
<1>3. k \in DOMAIN pqWorld.edges /\ PqOverlaps(pqWorld.edges[k], pqQueue[1])
  BY <1>2 DEF Ahead
<1>4. k \in Nat /\ pqWorld.edges[k] \in PqBits(pqWorld.edges) /\ EdgeOK(pqWorld.edges[k])
  BY <1>3, LoadFacts DEF PathInv
<1>5. lev \in [pqSeen -> Nat] /\ lev[pqQueue[1]] \in Nat
  BY <1>2 DEF HopsOK
<1>6. ASSUME NEW j \in DOMAIN pqWorld.edges, j < k + 1, PqOverlaps(pqWorld.edges[j], pqQueue[1])
      PROVE  j = k \/ j < pqAt
  <2>1. j \in Nat
    BY LoadFacts DEF PathInv
  <2>2. CASE j >= pqAt
    <3>1. j \in Ahead
      BY <1>2, <1>6, <2>2 DEF Ahead
    <3>2. k <= j
      BY <3>1
    <3> QED
      BY <1>4, <1>6, <2>1, <3>2
  <2> QED
    BY <1>1, <2>1, <2>2
<1> QED
  BY <1>1, <1>2, <1>3, <1>4, <1>5, <1>6

\* A path that is found is one, and the shortest.
LEMMA FoundKeeps ==
    ASSUME PathInv, pqPc = "edges", NEW k \in Ahead, \A j \in Ahead : k <= j,
           NEW e, e = pqWorld.edges[k], NEW at, at = Head(pqQueue),
           NEW s, s = FollowEdge(e, at), Meets(s, pqAsk.to),
           NEW hop, hop = [state |-> s, from |-> at, edge |-> e],
           NEW path, path = PathBack(AddBack(s, hop), pqAsk.from, s),
           pqPc' = "done", UNCHANGED <<pqWorld, pqAsk>>,
           \/ pqStatus' = "truncated"
           \/ pqStatus' = "found" /\ pqPath' = path /\ ~(Len(path) > pqAsk.outputLimit)
    PROVE  PathInv'
<1> PICK lev : HopsOK(pqBack, pqSeen, pqAsk.from, PqBits(pqWorld.edges), lev) /\ QueueOK(lev)
  BY DEF PathInv, SearchInv, LevelInv
<1> DEFINE E == PqBits(pqWorld.edges)
           lev2 == LevelsWith(lev, pqSeen, at, s)
<1>0. /\ pqQueue \in Seq(pqSeen) /\ at = pqQueue[1] /\ at \in pqSeen /\ 1 \in DOMAIN pqQueue
      /\ e \in E /\ EdgeOK(e) /\ PqOverlaps(e, at)
      /\ lev \in [pqSeen -> Nat] /\ lev[at] \in Nat /\ pqQueue # <<>>
  BY FollowState
<1>1. PathLoadInv'
  BY DEF PathInv, PathLoadInv
<1>2. s \notin pqSeen /\ \A t \in pqSeen : ~Meets(t, pqAsk.to)
  BY DEF PathInv, SearchInv
<1>3. AddBack(s, hop) = pqBack \cup {hop}
  BY <1>2 DEF AddBack, HopsOK, IsHop
<1>4. \A f \in E : EdgeOK(f)
  BY LoadFacts DEF PathInv
<1>5. HopsOK(pqBack \cup {hop}, pqSeen \cup {s}, pqAsk.from, E, lev2)
  <2>1. NewHop(pqSeen, E, at, e, s, hop)
    BY <1>0, <1>2 DEF NewHop
  <2> HIDE DEF E
  <2> QED
    BY <1>4, <2>1, HopsGrow DEF E
<1>6. lev2[s] = lev[at] + 1
  BY DEF LevelsWith
<1>7. /\ path \in Seq(E) /\ Len(path) = lev[at] + 1
      /\ PqPoints(s) \subseteq BitsWithin(pqAsk, PqBits(path), Len(path))
  <2> PICK back, seen, l : back = pqBack \cup {hop} /\ seen = pqSeen \cup {s} /\ l = lev2
    OBVIOUS
  <2>1. HopsOK(back, seen, pqAsk.from, E, l) /\ s \in seen /\ path = PathBack(back, pqAsk.from, s)
    BY <1>3, <1>5
  <2> HIDE DEF E, lev2
  <2>2. /\ path \in Seq(E) /\ Len(path) = l[s]
        /\ PqPoints(s) \subseteq BitsWithin(pqAsk, PqBits(path), l[s])
    BY <1>4, <2>1, PathBackFacts
  <2>3. l[s] = lev[at] + 1
    BY <1>6
  <2> QED
    BY ONLY <2>2, <2>3
<1>8. Arrives(pqAsk, PqBits(path), Len(path))
  <2>1. PICK b : b \in PqBits(s.bits) \cap PqBits(pqAsk.to.bits)
    BY DEF Meets
  <2>2. <<s.sig, b>> \in PqPoints(s) \cap PqPoints(pqAsk.to)
    BY <2>1 DEF PqPoints, Meets
  <2> QED
    BY <1>7, <2>2 DEF Arrives
<1>9. ~Arrives(pqAsk, E, Len(path) - 1)
  <2>1. Len(path) - 1 = lev[at]
    BY <1>0, <1>7
  <2>2. pqAsk.from \in pqSeen /\ lev[pqAsk.from] = 0
    BY DEF HopsOK
  <2>3. Follows(E, pqSeen, lev, lev[at])
    <3> SUFFICES ASSUME NEW f \in E, NEW t \in pqSeen, lev[t] < lev[at], PqOverlaps(f, t)
                 PROVE  \E u \in pqSeen : lev[u] <= lev[t] + 1 /\ PqPoints(u) = Lands(f, HitBy(f, PqPoints(t)))
      BY DEF Follows
    <3>1. t \notin PqBits(pqQueue)
      <4> SUFFICES ASSUME NEW i \in DOMAIN pqQueue, t = pqQueue[i] PROVE FALSE
        BY DEF PqBits
      <4>1. 1 <= i
        BY <1>0, LenProperties
      <4>2. lev[at] <= lev[t]
        BY <1>0, <4>1 DEF QueueOK
      <4>3. lev[t] \in Nat
        BY <1>0
      <4> QED
        BY <1>0, <4>2, <4>3
    <3>2. Expanded(t, Len(pqWorld.edges) + 1, lev)
      BY <3>1 DEF QueueOK
    <3>3. PICK j \in DOMAIN pqWorld.edges : f = pqWorld.edges[j]
      BY DEF PqBits
    <3>4. j < Len(pqWorld.edges) + 1
      BY LoadFacts DEF PathInv
    <3>5. FollowEdge(f, t) \in pqSeen /\ lev[FollowEdge(f, t)] <= lev[t] + 1
      BY <3>2, <3>3, <3>4 DEF Expanded
    <3>6. PqPoints(FollowEdge(f, t)) = Lands(f, HitBy(f, PqPoints(t)))
      <4>1. SelectionOK(t) /\ EdgeOK(f)
        BY <1>4 DEF HopsOK
      <4> QED
        BY <4>1, FollowFacts
    <3> QED
      BY <3>5, <3>6
  <2> HIDE DEF E
  <2> QED
    BY <1>0, <1>2, <2>1, <2>2, <2>3, NotReached
<1>10. Connected(pqAsk, PqAll)
  <2>1. Len(path) \in Nat /\ PqBits(path) \subseteq PqAll
    BY <1>0, <1>7, SelectionFinite DEF PqAll
  <2>2. BitsWithin(pqAsk, PqBits(path), Len(path)) \subseteq BitsWithin(pqAsk, PqAll, Len(path))
    BY <2>1, MoreEdges
  <2>3. Arrives(pqAsk, PqAll, Len(path))
    BY <1>8, <2>2 DEF Arrives
  <2> QED
    BY <2>1, <2>3, FoundConnected DEF PathInv
<1>11. Len(path) \in Nat /\ pqAsk.outputLimit \in Nat
  BY <1>0, <1>7, LoadFacts DEF PathInv
<1>12. pqStatus' = "found" => pqPath' = path /\ Len(path) <= pqAsk.outputLimit
  BY <1>11
<1>13. PathClaimsTrue'
  <2> HIDE DEF lev2
  <2> QED
    BY <1>8, <1>9, <1>12 DEF PathClaimsTrue
<1>14. PathDecides'
  <2> HIDE DEF lev2
  <2> QED
    BY <1>10 DEF PathDecides, PqAll
<1> QED
  BY <1>1, <1>13, <1>14 DEF PathInv, StartInv, SearchInv, PathTrue

\* A new state joins the queue, one level above the first one.
LEMMA NewStateKeeps ==
    ASSUME PathInv, pqPc = "edges", NEW k \in Ahead, \A j \in Ahead : k <= j,
           NEW e, e = pqWorld.edges[k], NEW at, at = Head(pqQueue),
           NEW s, s = FollowEdge(e, at), ~Meets(s, pqAsk.to), s \notin pqSeen,
           NEW hop, hop = [state |-> s, from |-> at, edge |-> e],
           pqAt' = k + 1, pqTouched \subseteq pqTouched', pqGaps \subseteq pqGaps',
           pqSeen' = pqSeen \cup {s}, pqBack' = pqBack \cup {hop}, pqQueue' = Append(pqQueue, s),
           UNCHANGED <<pqWorld, pqAsk, pqPc>>
    PROVE  LevelInv'
<1> PICK lev : HopsOK(pqBack, pqSeen, pqAsk.from, PqBits(pqWorld.edges), lev) /\ QueueOK(lev)
  BY DEF PathInv, SearchInv, LevelInv
<1> PICK q, r, seen : q = pqQueue /\ r = Append(pqQueue, s) /\ seen = pqSeen \cup {s}
  OBVIOUS
<1> DEFINE E == PqBits(pqWorld.edges)
<1> PICK lev2 : lev2 = LevelsWith(lev, pqSeen, at, s)
  OBVIOUS
<1>0. /\ q \in Seq(pqSeen) /\ q # <<>> /\ at = q[1] /\ at \in pqSeen /\ 1 \in DOMAIN q
      /\ k \in Nat /\ e \in E /\ EdgeOK(e) /\ PqOverlaps(e, at)
      /\ lev \in [pqSeen -> Nat] /\ lev[at] \in Nat
      /\ \A j \in DOMAIN pqWorld.edges : j < k + 1 /\ PqOverlaps(pqWorld.edges[j], at) => j = k \/ j < pqAt
  BY FollowState
<1>1. HopsOK(pqBack \cup {hop}, seen, pqAsk.from, E, lev2)
  <2>1. NewHop(pqSeen, E, at, e, s, hop)
    BY <1>0 DEF NewHop
  <2>2. \A f \in E : EdgeOK(f)
    BY LoadFacts DEF PathInv
  <2> HIDE DEF E
  <2> QED
    BY <2>1, <2>2, HopsGrow DEF E
<1>2. /\ lev2[s] = lev[at] + 1 /\ \A t \in pqSeen : lev2[t] = lev[t] /\ lev2[t] \in Nat
      /\ lev2[s] \in Nat
  BY <1>0 DEF LevelsWith
<1>3. /\ r \in Seq(seen) /\ Len(q) \in Nat /\ DOMAIN q = 1 .. Len(q) /\ DOMAIN r = 1 .. Len(q) + 1
      /\ \A i \in 1 .. Len(q) : r[i] = q[i]
      /\ r[Len(q) + 1] = s
  <2>1. q \in Seq(seen)
    <3>1. Len(q) \in Nat /\ q \in [1 .. Len(q) -> pqSeen]
      BY <1>0, LenProperties
    <3> QED
      BY <3>1
  <2>2. s \in seen
    OBVIOUS
  <2> QED
    BY <2>1, <2>2, AppendProperties, LenProperties
<1>4. \A i \in DOMAIN q : q[i] \in pqSeen
  BY <1>0
<1>5. ASSUME NEW i \in DOMAIN r, NEW j \in DOMAIN r, i <= j PROVE lev2[r[i]] <= lev2[r[j]]
  <2>1. CASE i \in DOMAIN q /\ j \in DOMAIN q
    <3>1. lev[q[i]] <= lev[q[j]]
      BY <1>5, <2>1 DEF QueueOK
    <3>2. r[i] = q[i] /\ r[j] = q[j] /\ lev2[q[i]] = lev[q[i]] /\ lev2[q[j]] = lev[q[j]]
      BY <1>2, <1>3, <1>4, <2>1
    <3> QED
      BY <3>1, <3>2
  <2>2. CASE i \in DOMAIN q /\ j = Len(q) + 1
    <3>1. lev[q[i]] <= lev[q[1]] + 1
      BY <1>0, <1>4, <2>2 DEF QueueOK
    <3>2. r[i] = q[i] /\ r[j] = s /\ lev2[q[i]] = lev[q[i]]
      BY <1>2, <1>3, <1>4, <2>2
    <3> QED
      BY <1>0, <1>2, <3>1, <3>2
  <2>3. CASE i = Len(q) + 1 /\ j = Len(q) + 1
    <3>1. lev2[r[i]] \in Nat /\ r[i] = r[j]
      BY <1>2, <1>3, <2>3
    <3> QED
      BY <3>1
  <2>4. /\ i \in DOMAIN q \/ i = Len(q) + 1
        /\ j \in DOMAIN q \/ j = Len(q) + 1
    BY <1>3
  <2>5. ~(i = Len(q) + 1 /\ j \in DOMAIN q)
    BY <1>3, <1>5
  <2> QED
    BY <2>1, <2>2, <2>3, <2>4, <2>5
<1>6. r # <<>> /\ r[1] = at
  BY <1>0, <1>3
<1>7. ASSUME NEW t \in seen PROVE lev2[t] <= lev2[r[1]] + 1
  <2>1. lev2[at] = lev[at]
    BY <1>0, <1>2
  <2>2. CASE t = s
    BY <1>0, <1>2, <1>6, <2>1, <2>2
  <2>3. CASE t \in pqSeen
    <3>1. lev[t] <= lev[q[1]] + 1
      BY <1>0, <2>3 DEF QueueOK
    <3> QED
      BY <1>0, <1>2, <1>6, <2>1, <2>3, <3>1
  <2> QED
    BY <2>2, <2>3
<1>8. ASSUME NEW t \in pqSeen, NEW upto, Expanded(t, upto, lev) PROVE Expanded(t, upto, lev2)'
  <2>1. t.sig \in pqTouched' /\ \A y \in pqWorld.excluded : PqOverlaps(y, t) => y.id \in pqGaps'
    BY <1>8 DEF Expanded
  <2>2. ASSUME NEW j \in DOMAIN pqWorld.edges, j < upto, PqOverlaps(pqWorld.edges[j], t)
        PROVE  /\ FollowEdge(pqWorld.edges[j], t) \in pqSeen'
               /\ lev2[FollowEdge(pqWorld.edges[j], t)] <= lev2[t] + 1
    BY <1>2, <1>8, <2>2 DEF Expanded
  <2> QED
    BY <2>1, <2>2 DEF Expanded
<1>9. Expanded(at, k + 1, lev2)'
  <2>0. Expanded(at, pqAt, lev)
    BY <1>0 DEF QueueOK
  <2>1. at.sig \in pqTouched' /\ \A y \in pqWorld.excluded : PqOverlaps(y, at) => y.id \in pqGaps'
    BY <2>0 DEF Expanded
  <2>2. ASSUME NEW j \in DOMAIN pqWorld.edges, j < k + 1, PqOverlaps(pqWorld.edges[j], at)
        PROVE  /\ FollowEdge(pqWorld.edges[j], at) \in seen
               /\ lev2[FollowEdge(pqWorld.edges[j], at)] <= lev2[at] + 1
    <3>1. CASE j = k
      <4>1. FollowEdge(pqWorld.edges[j], at) = s
        BY <3>1
      <4>2. lev2[s] <= lev2[at] + 1
        BY <1>0, <1>2
      <4> QED
        BY <4>1, <4>2
    <3>2. CASE j < pqAt
      <4>1. /\ FollowEdge(pqWorld.edges[j], at) \in pqSeen
            /\ lev[FollowEdge(pqWorld.edges[j], at)] <= lev[at] + 1
        BY <2>0, <2>2, <3>2 DEF Expanded
      <4> QED
        BY <1>0, <1>2, <4>1
    <3> QED
      BY <1>0, <2>2, <3>1, <3>2
  <2>3. pqSeen' = seen /\ pqWorld' = pqWorld
    OBVIOUS
  <2> PICK m : m = k + 1
    OBVIOUS
  <2> QED
    BY <2>1, <2>2, <2>3 DEF Expanded
<1>10. s \in PqBits(r) /\ \A t \in PqBits(q) : t \in PqBits(r)
  <2>1. Len(q) + 1 \in DOMAIN r /\ \A i \in DOMAIN q : i \in DOMAIN r
    BY <1>3
  <2> QED
    BY <1>3, <2>1 DEF PqBits
<1>11. QueueOK(lev2)'
  <2> PICK top : top = Len(pqWorld.edges) + 1
    OBVIOUS
  <2>1. Len(pqWorld'.edges) + 1 = top
    OBVIOUS
  <2>2. \A t \in seen : t \in PqBits(r) \/ Expanded(t, top, lev2)'
    BY <1>8, <1>10 DEF QueueOK
  <2>3. pqQueue' = r /\ pqSeen' = seen /\ pqAt' = k + 1 /\ k + 1 \in Nat
    BY <1>0
  <2>4. Expanded(pqQueue[1], pqAt, lev2)'
    BY <1>6, <1>9, <2>3
  <2>5. /\ pqQueue' \in Seq(pqSeen')
        /\ \A i, j \in DOMAIN pqQueue' : i <= j => lev2[pqQueue'[i]] <= lev2[pqQueue'[j]]
    BY <1>3, <1>5, <2>3
  <2>6. \A t \in pqSeen' : lev2[t] <= lev2[pqQueue'[1]] + 1
    BY <1>7, <2>3
  <2>7. \A t \in pqSeen' : t \in PqBits(pqQueue') \/ Expanded(t, Len(pqWorld.edges) + 1, lev2)'
    BY <2>1, <2>2, <2>3
  <2>8. pqQueue' # <<>> /\ pqAt' \in Nat
    BY <1>6, <2>3
  <2> QED
    BY <2>4, <2>5, <2>6, <2>7, <2>8 DEF QueueOK
<1> QED
  BY <1>1, <1>11 DEF LevelInv

\* A state that was seen is left as it is.
LEMMA OldStateKeeps ==
    ASSUME PathInv, pqPc = "edges", NEW k \in Ahead, \A j \in Ahead : k <= j,
           FollowEdge(pqWorld.edges[k], Head(pqQueue)) \in pqSeen,
           pqAt' = k + 1, pqTouched \subseteq pqTouched', pqGaps \subseteq pqGaps',
           UNCHANGED <<pqWorld, pqAsk, pqPc, pqSeen, pqBack, pqQueue>>
    PROVE  LevelInv'
<1> PICK lev : HopsOK(pqBack, pqSeen, pqAsk.from, PqBits(pqWorld.edges), lev) /\ QueueOK(lev)
  BY DEF PathInv, SearchInv, LevelInv
<1> PICK at : at = Head(pqQueue)
  OBVIOUS
<1>0. /\ pqQueue \in Seq(pqSeen) /\ pqQueue # <<>> /\ at = pqQueue[1] /\ at \in pqSeen
      /\ k \in Nat
      /\ \A j \in DOMAIN pqWorld.edges : j < k + 1 /\ PqOverlaps(pqWorld.edges[j], at) => j = k \/ j < pqAt
  BY FollowState
<1>1. ASSUME NEW t, NEW upto, Expanded(t, upto, lev) PROVE Expanded(t, upto, lev)'
  <2>1. t.sig \in pqTouched' /\ \A y \in pqWorld.excluded : PqOverlaps(y, t) => y.id \in pqGaps'
    BY <1>1 DEF Expanded
  <2> QED
    BY <1>1, <2>1 DEF Expanded
<1>2. Expanded(at, k + 1, lev)'
  <2>0. Expanded(at, pqAt, lev)
    BY <1>0 DEF QueueOK
  <2>1. at.sig \in pqTouched' /\ \A y \in pqWorld.excluded : PqOverlaps(y, at) => y.id \in pqGaps'
    BY <2>0 DEF Expanded
  <2>2. ASSUME NEW j \in DOMAIN pqWorld.edges, j < k + 1, PqOverlaps(pqWorld.edges[j], at)
        PROVE  /\ FollowEdge(pqWorld.edges[j], at) \in pqSeen
               /\ lev[FollowEdge(pqWorld.edges[j], at)] <= lev[at] + 1
    <3>1. CASE j = k
      BY <1>0, <3>1 DEF QueueOK
    <3>2. CASE j < pqAt
      BY <2>0, <2>2, <3>2 DEF Expanded
    <3> QED
      BY <1>0, <2>2, <3>1, <3>2
  <2> QED
    BY <2>1, <2>2 DEF Expanded
<1>3. QueueOK(lev)'
  <2> PICK top : top = Len(pqWorld.edges) + 1
    OBVIOUS
  <2>1. Len(pqWorld'.edges) + 1 = top
    OBVIOUS
  <2>2. \A t \in pqSeen : t \in PqBits(pqQueue) \/ Expanded(t, top, lev)'
    BY <1>1 DEF QueueOK
  <2>3. Expanded(pqQueue[1], pqAt, lev)'
    BY <1>0, <1>2
  <2>4. pqAt' \in Nat
    BY <1>0
  <2> QED
    BY <1>0, <2>1, <2>2, <2>3, <2>4 DEF QueueOK
<1> QED
  BY <1>3 DEF LevelInv

LEMMA FollowPathEdgeKeeps == ASSUME PathInv, FollowPathEdge PROVE PathInv'
<1>0. pqPc = "edges" /\ UNCHANGED <<pqWorld, pqAsk>>
  BY DEF FollowPathEdge
<1> PICK k \in Ahead : (\A j \in Ahead : k <= j) /\ FollowAt(k)
  BY DEF FollowPathEdge
<1> PICK e, at : e = pqWorld.edges[k] /\ at = Head(pqQueue)
  OBVIOUS
<1> PICK s : s = FollowEdge(e, at)
  OBVIOUS
<1> PICK hop : hop = [state |-> s, from |-> at, edge |-> e]
  OBVIOUS
<1> PICK path : path = PathBack(AddBack(s, hop), pqAsk.from, s)
  OBVIOUS
<1>1. /\ pqAt' = k + 1
      /\ pqTouched' = pqTouched \cup {s.sig}
      /\ pqGaps' = pqGaps \cup (IF e.sound THEN {} ELSE {e.id})
      /\ \/ /\ Meets(s, pqAsk.to)
            /\ IF Len(path) > pqAsk.outputLimit
                 THEN pqPc' = "done" /\ pqStatus' = "truncated"
                 ELSE pqPc' = "done" /\ pqStatus' = "found" /\ pqPath' = path
         \/ /\ ~Meets(s, pqAsk.to)
            /\ IF s \notin pqSeen
                 THEN pqSeen' = pqSeen \cup {s} /\ pqBack' = pqBack \cup {hop} /\ pqQueue' = Append(pqQueue, s)
                 ELSE UNCHANGED <<pqSeen, pqBack, pqQueue>>
            /\ UNCHANGED <<pqPc, pqStatus, pqPath>>
  BY DEF FollowAt, PathAnswer, NewState
<1>2. CASE Meets(s, pqAsk.to)
  <2>1. /\ pqPc' = "done"
        /\ \/ pqStatus' = "truncated"
           \/ pqStatus' = "found" /\ pqPath' = path /\ ~(Len(path) > pqAsk.outputLimit)
    BY <1>1, <1>2
  <2> QED
    BY <1>0, <1>2, <2>1, FoundKeeps
<1>3. CASE ~Meets(s, pqAsk.to)
  <2>1. pqTouched \subseteq pqTouched' /\ pqGaps \subseteq pqGaps' /\ UNCHANGED <<pqPc, pqPath>>
    BY <1>1, <1>3
  <2>2. LevelInv'
    <3>1. CASE s \notin pqSeen
      <4>1. pqSeen' = pqSeen \cup {s} /\ pqBack' = pqBack \cup {hop} /\ pqQueue' = Append(pqQueue, s)
        BY <1>1, <1>3, <3>1
      <4> QED
        BY <1>0, <1>1, <1>3, <2>1, <3>1, <4>1, NewStateKeeps
    <3>2. CASE s \in pqSeen
      <4>1. UNCHANGED <<pqSeen, pqBack, pqQueue>>
        BY <1>1, <1>3, <3>2
      <4> QED
        BY <1>0, <1>1, <2>1, <3>2, <4>1, OldStateKeeps
    <3> QED
      BY <3>1, <3>2
  <2>3. \A t \in pqSeen' : ~Meets(t, pqAsk.to)
    BY <1>0, <1>1, <1>3 DEF PathInv, SearchInv
  <2>4. GapInv'
    <3>1. e \in PqBits(pqWorld.edges)
      BY LoadFacts DEF PathInv, Ahead
    <3>2. GapInv
      BY <1>0 DEF PathInv, SearchInv
    <3>3. e.sound \/ e.id \in {f.id : f \in pqWorld.excluded \cup {g \in PqBits(pqWorld.edges) : ~g.sound}}
      BY <3>1
    <3> QED
      BY <1>0, <1>1, <3>2, <3>3 DEF GapInv
  <2>5. SearchInv'
    BY <1>0, <2>1, <2>2, <2>3, <2>4 DEF PathInv, SearchInv, Declared
  <2>6. PathLoadInv' /\ StartInv'
    BY <1>0, <2>1 DEF PathInv, PathLoadInv, StartInv
  <2>7. PathTrue'
    BY <1>0, <2>1 DEF PathTrue, PathClaimsTrue, PathDecides
  <2> QED
    BY <2>5, <2>6, <2>7 DEF PathInv
<1> QED
  BY <1>2, <1>3

LEMMA PathKeeps == ASSUME PathInv, [PathNext]_pathVars PROVE PathInv'
<1>1. CASE UNCHANGED pathVars
  BY <1>1 DEF pathVars, PathInv, PathLoadInv, StartInv, SearchInv, GapInv, LevelInv, QueueOK, Expanded,
              Declared, PathTrue, PathClaimsTrue, PathDecides, PqAll
<1> QED
  BY <1>1, StartPathKeeps, ExpandKeeps, ExpandDoneKeeps, PathCutKeeps, FollowPathEdgeKeeps,
     PathExhaustedKeeps DEF PathNext

\* In any design, a path that query_path returns leads from the one selection to the
\* other and no shorter one does, "not connected" is said of no two that are, and a
\* search that nothing hinders decides.
THEOREM PathIsTrue ==
    ASSUME NEW loads, \A load \in loads : PathLoadOK(load)
    PROVE  PathSpec(loads) => []PathTrue
<1>1. PathInit(loads) => PathInv
  BY PathStarts
<1>2. PathInv /\ [PathNext]_pathVars => PathInv'
  BY PathKeeps
<1>3. PathInv => PathTrue
  BY DEF PathInv
<1> QED
  BY <1>1, <1>2, <1>3, PTL DEF PathSpec
=================================================================================
