------------------------------ MODULE TraceHistory ------------------------------
(***************************************************************************)
(* trace_x_history: a graph of unknown values, walked breadth first over a *)
(* waveform and a route of connectivity backends (DynamicRoute: Verdi NPI, *)
(* then an exact source graph, then static).  A backend that cannot answer *)
(* or whose scope must grow restarts the whole trace; a cumulative budget  *)
(* bounds restarts, nodes and time.  Every step awaits, and the waveform,  *)
(* the compile inputs and the KDB may change in between; at the end their  *)
(* identities are checked again and a stale graph is discarded.            *)
(***************************************************************************)
EXTENDS Integers, Sequences, FiniteSets, SequencesExt

CONSTANTS ThSignals, ThRoot, ThDeps,   \* the design: dependencies of each signal
          ThUnknown,                   \* signals whose value is unknown (x or z)
          ThMaxNodes, ThMaxDepth, ThMaxRestarts, ThMaxTargets,  \* limits
          ThMaxChanges,                \* bound: changes of inputs in a behaviour
          ThNothing                    \* no artifact, no signal

ASSUME TraceAssumption == ThNothing \notin Nat

VARIABLES
    thDisk,      \* generations of wave, compile and kdb
    thPc, thBound, thParser,
    thStage, thArtifact,   \* the route's stage and artifact
    thGuard, thTargets, thKdb,
    thReceipt,             \* what the route says it answered with
    thQueue, thItem, thSeen, thNodes, thFrontier,
    thWalked,              \* the artifact of this walk's answers
    thAdmitted, thRestarts, thStatus

traceVars == <<thDisk, thPc, thBound, thParser, thStage, thArtifact, thGuard, thTargets, thKdb,
               thReceipt, thQueue, thItem, thSeen, thNodes, thFrontier, thWalked, thAdmitted,
               thRestarts, thStatus>>

graphVars == <<thQueue, thItem, thSeen, thNodes, thFrontier, thWalked>>
routeVars == <<thStage, thArtifact, thGuard, thTargets, thKdb, thReceipt>>

NoStage == "none"

TraceInit ==
    /\ thDisk = [wave |-> 0, compile |-> 0, kdb |-> 0]
    /\ thPc = "resolve"
    /\ thBound = ThNothing /\ thParser = ThNothing
    /\ thStage = NoStage /\ thArtifact = ThNothing /\ thGuard = FALSE
    /\ thTargets = {ThRoot} /\ thKdb = ThNothing /\ thReceipt = ThNothing
    /\ thQueue = <<>> /\ thItem = ThNothing /\ thSeen = {} /\ thNodes = {} /\ thFrontier = {}
    /\ thWalked = ThNothing
    /\ thAdmitted = 0 /\ thRestarts = 0
    /\ thStatus = "blocked"

\* resolve_context binds the compile inputs as they are now, or refuses.
ResolveContext ==
    /\ thPc = "resolve"
    /\ \/ thBound' = thDisk.compile /\ thPc' = "begin" /\ UNCHANGED thFrontier
       \/ thBound' = ThNothing /\ thPc' = "final" /\ thFrontier' = {"context"}
    /\ UNCHANGED <<thDisk, thParser, routeVars, thQueue, thItem, thSeen, thNodes, thWalked,
                   thAdmitted, thRestarts, thStatus>>

\* clear_graph, and the state a walk starts from.
BeginWalk ==
    /\ thPc = "begin"
    /\ thNodes' = {} /\ thFrontier' = {} /\ thSeen' = {}
    /\ thQueue' = <<[sig |-> ThRoot, depth |-> 0]>>
    /\ thItem' = ThNothing
    /\ thWalked' = ThNothing
    /\ thPc' = "walk"
    /\ UNCHANGED <<thDisk, thBound, thParser, routeVars, thAdmitted, thRestarts, thStatus>>

\* BudgetExceeded: the graph so far is the answer.
Exceeded(nodes) ==
    /\ thStatus' = IF nodes = {} THEN "inconclusive" ELSE "partial"
    /\ thPc' = "final"

\* guarded(): every read notices that the parser is another one.
ParserChanged == thParser \notin {ThNothing, thDisk.wave}

Key(sig) == [sig |-> sig, stage |-> thStage, artifact |-> thArtifact]

\* The next signal of the queue is read.
ReadSignal ==
    /\ thPc = "walk"
    /\ thQueue # <<>>
    /\ thQueue' = Tail(thQueue)
    /\ LET item == Head(thQueue)
       IN  \/ /\ ParserChanged
              /\ thNodes' = {} /\ thFrontier' = {"parser_generation_changed"}
              /\ thStatus' = "inconclusive"
              /\ thPc' = "final"
              /\ UNCHANGED <<thParser, thItem, thSeen, thAdmitted>>
           \/ /\ ~ParserChanged
              /\ thParser' = thDisk.wave
              /\ \/ /\ Key(item.sig) \in thSeen \/ item.sig \notin ThUnknown
                    /\ thFrontier' = thFrontier \cup {"revisited_or_known"}
                    /\ thStatus' = IF item.depth = 0 THEN "signal_is_clean" ELSE thStatus
                    /\ UNCHANGED <<thPc, thItem, thSeen, thNodes, thAdmitted>>
                 \/ /\ Key(item.sig) \notin thSeen /\ item.sig \in ThUnknown
                    /\ thAdmitted >= ThMaxNodes
                    /\ Exceeded(thNodes)
                    /\ UNCHANGED <<thItem, thSeen, thNodes, thFrontier, thAdmitted>>
                 \/ /\ Key(item.sig) \notin thSeen /\ item.sig \in ThUnknown
                    /\ thAdmitted < ThMaxNodes
                    /\ thAdmitted' = thAdmitted + 1
                    /\ thSeen' = thSeen \cup {Key(item.sig)}
                    /\ thNodes' = thNodes \cup {[sig |-> item.sig, wave |-> thDisk.wave,
                                                 made |-> ThNothing]}
                    /\ IF item.depth >= ThMaxDepth
                         THEN thFrontier' = thFrontier \cup {"max_depth"} /\ UNCHANGED <<thPc, thItem>>
                         ELSE thPc' = "query" /\ thItem' = item /\ UNCHANGED thFrontier
                    /\ UNCHANGED thStatus
    /\ UNCHANGED <<thDisk, thBound, routeVars, thWalked, thRestarts>>

(***************************************************************************)
(* DynamicRoute.query                                                      *)
(***************************************************************************)
\* initialize(): NPI when a KDB can be used, whose identity is taken then.
InitializeRoute ==
    /\ thPc = "query"
    /\ thStage = NoStage
    /\ \/ /\ thStage' = "npi"
          /\ thKdb' = thDisk.kdb
          /\ thArtifact' = [stage |-> "npi", kdb |-> thDisk.kdb, compile |-> thBound, targets |-> {}]
       \/ thStage' = "source_graph" /\ UNCHANGED <<thKdb, thArtifact>>
    /\ UNCHANGED <<thDisk, thPc, thBound, thParser, thGuard, thTargets, thReceipt, graphVars,
                   thAdmitted, thRestarts, thStatus>>

StaticArtifact == [stage |-> "static", kdb |-> ThNothing, compile |-> thBound, targets |-> {}]

\* _prepare_source: an artifact of the sources as they are now, or static.
PrepareSource ==
    /\ thPc = "query"
    /\ thStage = "source_graph" /\ ~thGuard
    /\ \/ /\ thGuard' = TRUE
          /\ thArtifact' = [stage |-> "source_graph", kdb |-> ThNothing, compile |-> thDisk.compile,
                            targets |-> thTargets]
          /\ UNCHANGED thStage
       \/ thStage' = "static" /\ thArtifact' = StaticArtifact /\ UNCHANGED thGuard
    /\ UNCHANGED <<thDisk, thPc, thBound, thParser, thTargets, thKdb, thReceipt, graphVars,
                   thAdmitted, thRestarts, thStatus>>

Ready == thPc = "query" /\ (thStage \in {"npi", "static"} \/ (thStage = "source_graph" /\ thGuard))

\* What the backend's answer was made from.
AnswerFrom == IF thStage = "npi" THEN [thArtifact EXCEPT !.kdb = thDisk.kdb] ELSE thArtifact

\* A restart empties the graph and the receipt, unless the budget has none left.
Restart ==
    /\ thNodes' = {} /\ thFrontier' = {}
    /\ thReceipt' = ThNothing
    /\ IF thRestarts >= ThMaxRestarts
         THEN thStatus' = "inconclusive" /\ thPc' = "final" /\ UNCHANGED thRestarts
         ELSE thRestarts' = thRestarts + 1 /\ thPc' = "begin" /\ UNCHANGED thStatus
    /\ UNCHANGED <<thQueue, thItem, thSeen, thWalked>>

\* The answer becomes the node's structure.  Another artifact than before
\* restarts the trace; a static answer or a boundary has no dependencies.
UseAnswer ==
    /\ Ready
    /\ IF thWalked \notin {ThNothing, thArtifact}
         THEN Restart /\ UNCHANGED thAdmitted
         ELSE /\ thWalked' = thArtifact
              /\ thReceipt' = thArtifact
              /\ thSeen' = thSeen \cup {Key(thItem.sig)}
              /\ thNodes' = {n \in thNodes : n.sig # thItem.sig} \cup
                   {[n EXCEPT !.made = AnswerFrom] : n \in {m \in thNodes : m.sig = thItem.sig}}
              /\ thPc' = "walk"
              /\ \/ /\ thStage = "static"
                    /\ thFrontier' = thFrontier \cup {"static"}
                    /\ UNCHANGED thQueue
                 \/ /\ thStage # "static"
                    /\ thFrontier' = thFrontier \cup {"boundary"}
                    /\ UNCHANGED thQueue
                 \/ /\ thStage # "static"
                    /\ thQueue' = thQueue \o SetToSeq({[sig |-> d, depth |-> thItem.depth + 1] :
                                                         d \in ThDeps[thItem.sig] \cap ThUnknown})
                    /\ UNCHANGED thFrontier
              /\ thItem' = ThNothing
              /\ UNCHANGED <<thAdmitted, thRestarts, thStatus>>
    /\ UNCHANGED <<thDisk, thBound, thParser, thStage, thArtifact, thGuard, thTargets, thKdb>>

\* NPI cannot answer: the source graph is tried from the beginning.
NpiFallback ==
    /\ Ready /\ thStage = "npi"
    /\ thStage' = "source_graph" /\ thGuard' = FALSE
    /\ Restart
    /\ UNCHANGED <<thDisk, thBound, thParser, thArtifact, thTargets, thKdb, thAdmitted>>

\* The source graph cannot answer: static, from the beginning.
SourceFallback ==
    /\ Ready /\ thStage = "source_graph"
    /\ thStage' = "static" /\ thArtifact' = StaticArtifact
    /\ Restart
    /\ UNCHANGED <<thDisk, thBound, thParser, thGuard, thTargets, thKdb, thAdmitted>>

\* _expand: a signal, or one it depends on, lies outside the artifact's scope.
ExpandScope ==
    /\ Ready /\ thStage = "source_graph"
    /\ \E sig \in {thItem.sig} \cup ThDeps[thItem.sig] :
         \/ /\ sig \in thTargets
            /\ thStage' = "static" /\ thArtifact' = StaticArtifact
            /\ Restart
            /\ UNCHANGED <<thGuard, thTargets>>
         \/ /\ sig \notin thTargets /\ Cardinality(thTargets) >= ThMaxTargets
            /\ Exceeded(thNodes)
            /\ UNCHANGED <<thStage, thArtifact, thGuard, thTargets, thReceipt, graphVars, thRestarts>>
         \/ /\ sig \notin thTargets /\ Cardinality(thTargets) < ThMaxTargets
            /\ thTargets' = thTargets \cup {sig}
            /\ thGuard' = FALSE
            /\ Restart
            /\ UNCHANGED <<thStage, thArtifact>>
    /\ UNCHANGED <<thDisk, thBound, thParser, thKdb, thAdmitted>>

WalkDone ==
    /\ thPc = "walk"
    /\ thQueue = <<>>
    /\ thStatus' = IF thStatus = "signal_is_clean" THEN thStatus
                   ELSE IF thNodes = {} THEN "inconclusive" ELSE "partial"
    /\ thPc' = "final"
    /\ UNCHANGED <<thDisk, thBound, thParser, routeVars, graphVars, thAdmitted, thRestarts>>

\* The deadline passes at an await.
TraceTimeout ==
    /\ thPc \in {"resolve", "begin", "walk", "query"}
    /\ Exceeded(thNodes)
    /\ UNCHANGED <<thDisk, thBound, thParser, routeVars, graphVars, thAdmitted, thRestarts>>

\* The caller goes away: no result.
TraceCancelled ==
    /\ thPc \in {"resolve", "begin", "walk", "query", "final", "final_compile", "final_route"}
    /\ thPc' = "cancelled"
    /\ UNCHANGED <<thDisk, thBound, thParser, routeVars, graphVars, thAdmitted, thRestarts, thStatus>>

(***************************************************************************)
(* The checks before the result is returned, with awaits between them.     *)
(***************************************************************************)
WaveChanged    == thDisk.wave # 0 \/ ParserChanged
ContextChanged == thBound # ThNothing /\ thDisk.compile # thBound
\* (Mutant: a KDB rebuilt meanwhile goes unnoticed.)
RouteTrusted == FALSE

RouteChanged   == thStage = "npi" /\ thKdb # thDisk.kdb

CheckStep(pc, next, changed) ==
    /\ thPc = pc
    /\ thPc' = next
    /\ IF changed
         THEN thNodes' = {} /\ thFrontier' = {"changed"} /\ thStatus' = "inconclusive"
         ELSE UNCHANGED <<thNodes, thFrontier, thStatus>>
    /\ UNCHANGED <<thDisk, thBound, thParser, routeVars, thQueue, thItem, thSeen, thWalked,
                   thAdmitted, thRestarts>>

CheckWave    == CheckStep("final", "final_compile", WaveChanged)
CheckContext == CheckStep("final_compile", "final_route", ContextChanged)
CheckRoute   == CheckStep("final_route", "done", RouteChanged)

\* Someone replaces the waveform, edits a source or rebuilds the KDB.
InputChanges ==
    /\ thPc \notin {"done", "cancelled"}
    /\ thDisk.wave + thDisk.compile + thDisk.kdb < ThMaxChanges
    /\ \E input \in {"wave", "compile", "kdb"} : thDisk' = [thDisk EXCEPT ![input] = @ + 1]
    /\ UNCHANGED <<thPc, thBound, thParser, routeVars, graphVars, thAdmitted, thRestarts, thStatus>>

TraceNext ==
    \/ ResolveContext \/ BeginWalk \/ ReadSignal \/ InitializeRoute \/ PrepareSource \/ UseAnswer
    \/ NpiFallback \/ SourceFallback \/ ExpandScope \/ WalkDone \/ CheckWave \/ CheckContext \/ CheckRoute
    \/ TraceTimeout \/ TraceCancelled \/ InputChanges

TraceSpec == TraceInit /\ [][TraceNext]_traceVars

Structured == {n \in thNodes : n.made # ThNothing}

\* A graph that trace_x_history returns was made from one waveform, one artifact
\* of one backend, the compile inputs it was bound to and the KDB it was bound
\* to, through any number of fallbacks, scope expansions and changes of the
\* inputs, and the receipt names the artifact that answered.
SingleProvenance ==
    thPc = "done" =>
        /\ \A m, n \in Structured : m.made = n.made
        /\ \A n \in thNodes : n.wave = 0
        /\ \A n \in Structured : /\ n.made = thReceipt
                                 /\ n.made.compile = thBound
                                 /\ n.made.kdb \in {ThNothing, thKdb}
================================================================================
