--------------------------- MODULE SourceGraphProofs ---------------------------
(***************************************************************************)
(* Proofs about SourceGraphRuntime and SemanticScanRuntime working side by *)
(* side, for any number of queries and scans, any artifacts, timeouts and  *)
(* limits.                                                                 *)
(***************************************************************************)
EXTENDS SemanticScanRuntime, OrderedDictProofs

(***************************************************************************)
(* The inductive invariant                                                 *)
(***************************************************************************)

CallTypes ==
    /\ call \in [Request -> Call]
    /\ pc \in [Request -> {"idle", "waiting", "draining", "done"}]
    /\ result \in [Request -> Status]
    /\ served \in [Request -> [tier : Tier, entry : Request \cup Artifact \cup {None}]]
    /\ cancelled \subseteq Request

FlightTypes ==
    /\ inflight \in [Call -> Request \cup {None}]
    /\ waiter_count \in [Request -> Nat]
    /\ worker_cancel_event \subseteq Request
    /\ task \in [Request -> TaskState]
    /\ outcome \in [Request -> Status]

\* A call that waits or drains awaits a flight of exactly its pair that has
\* been started.
Awaits(r) ==
    /\ served[r].tier = "flight"
    /\ served[r].entry \in Request
    /\ call[served[r].entry] = call[r]
    /\ task[served[r].entry] # "none"

\* Nothing has happened to a call that has not begun, and a call drains only
\* when its worker has been stopped.
CallInv ==
    \A r \in Request :
        /\ pc[r] = "idle" => task[r] = "none" /\ served[r] = NotServed
        /\ pc[r] # "done" => result[r] = "none"
        /\ pc[r] \in {"waiting", "draining"} => Awaits(r)
        /\ pc[r] = "draining" => served[r].entry \in worker_cancel_event

\* A running task is registered, and a registered flight has the key it is
\* registered under.
FlightInv ==
    /\ \A f \in Request : task[f] # "done" => outcome[f] = "none"
    /\ \A k \in Call :
          inflight[k] # None => call[inflight[k]] = k /\ task[inflight[k]] # "none"
    /\ NoDuplicateFlight

\* Until a worker is stopped, the waiters of its flight are counted exactly.
CountInv ==
    \A f \in Request :
        f \notin worker_cancel_event /\ task[f] # "done" =>
            waiter_count[f] = Cardinality(WaitsFor(f))

Begun == {r \in Request : pc[r] # "idle"}
BoundInv == \A f \in Request : waiter_count[f] <= Cardinality(Begun)

\* What a handoff may be: the result of a flight that succeeded, one for a key,
\* not yet given to anybody.
HandoffInv ==
    /\ handoffs \in Seq(Request)
    /\ Distinct(handoffs)
    /\ \A d, e \in ToSet(handoffs) : call[d] = call[e] => d = e
    /\ \A e \in ToSet(handoffs) : outcome[e] = "ready" /\ ~IsReusable(e)
    /\ \A r \in Request :
          served[r].tier = "handoff" =>
              /\ served[r].entry \in Request \ ToSet(handoffs)
              /\ outcome[served[r].entry] = "ready"
              /\ call[served[r].entry] = call[r]
              /\ ~IsReusable(r)
              /\ \A s \in Request : s # r => served[s] # served[r]

AnswerInv ==
    \A r \in Request :
        result[r] = "ready" =>
            IF served[r].tier = "memory"
            THEN /\ IsReusable(r)
                 /\ \/ served[r].entry = artifact(r)
                    \/ <<served[r].entry, artifact(r)>> \in Covers
            ELSE /\ served[r].entry \in Request
                 /\ call[served[r].entry] = call[r]
                 /\ outcome[served[r].entry] = "ready"

CacheInv == cache \in Seq(Artifact) /\ CacheHonest

LockInv == cold_lock \in Request \cup OtherBuild \cup {None} /\ OneColdFrontend

\* A scan that is about to share an artifact has found it worth sharing, and
\* only deep scans ask for the admission.
ScanInv ==
    /\ plan \in ScanPlan
    /\ spc \in [OtherBuild -> ScanState]
    /\ sresult \in [OtherBuild -> ScanResult]
    /\ scan_cache \in Seq(ScanKey) /\ Len(scan_cache) <= MaxScanEntries
    /\ admission \in OtherBuild \cup {None}
    /\ AdmissionReturned
    /\ RecheckedStillCached
    /\ \A s \in OtherBuild :
          /\ spc[s] = "sharing" => plan[s].ask \in Reusable
          /\ spc[s] \in {"entering", "rechecking"} => plan[s].deep

\* What a step of a scan, or of the memory tier, cannot disturb.
QueryInv ==
    /\ CallTypes /\ FlightTypes /\ CallInv /\ FlightInv /\ CountInv /\ BoundInv
    /\ HandoffInv /\ AnswerInv

\* Only a complete key is looked up on disk.
DiskInv ==
    \A f \in Request : task[f] \in {"disk_lookup", "disk_load"} => IsReusable(f)

SInv == QueryInv /\ CacheInv /\ LockInv /\ ScanInv /\ DiskInv

LEMMA SgFacts ==
    /\ None \notin Request \cup OtherBuild
    /\ Request \cap OtherBuild = {}
    /\ IsFiniteSet(Request)
    /\ Reusable \subseteq Artifact
    /\ Call \subseteq Artifact \X Timeout
    /\ CallTypes => \A r \in Request : call[r] \in Call /\ artifact(r) \in Artifact
<1>1. ASSUME CallTypes, NEW r \in Request PROVE call[r] \in Call /\ artifact(r) \in Artifact
  <2>1. call[r] \in Call
    BY <1>1 DEF CallTypes
  <2>2. call[r] \in Artifact \X Timeout
    BY <2>1, SourceGraphAssumption
  <2> QED
    BY <2>1, <2>2 DEF artifact
<1> QED
  BY <1>1, SourceGraphAssumption

\* The sets that are counted are finite.
LEMMA CountsFinite ==
    /\ \A f \in Request : IsFiniteSet(WaitsFor(f)) /\ Cardinality(WaitsFor(f)) \in Nat
    /\ IsFiniteSet(Begun) /\ Cardinality(Begun) \in Nat
    /\ Cardinality(Begun) <= Cardinality(Request)
<1>1. ASSUME NEW f \in Request PROVE WaitsFor(f) \subseteq Request
  BY DEF WaitsFor
<1>2. Begun \subseteq Request
  BY DEF Begun
<1> QED
  BY <1>1, <1>2, SgFacts, FS_Subset, FS_CardinalityType

LEMMA QueryInit == ScanInit => SInv
<1> SUFFICES ASSUME ScanInit PROVE SInv
  OBVIOUS
<1> USE DEF ScanInit, Init
<1>1. CallTypes
  BY SourceGraphAssumption DEF CallTypes, Status, Tier, NotServed
<1>2. FlightTypes
  BY DEF FlightTypes, TaskState, Status
<1>3. CallInv
  BY DEF CallInv
<1>4. FlightInv
  BY DEF FlightInv, NoDuplicateFlight
<1>5. CountInv
  <2>1. \A f \in Request : WaitsFor(f) = {}
    BY DEF WaitsFor
  <2> QED
    BY <2>1, FS_EmptySet DEF CountInv
<1>6. BoundInv
  BY CountsFinite DEF BoundInv
<1>7. handoffs \in Seq(Request) /\ Distinct(handoffs) /\ ToSet(handoffs) = {}
  BY DEF Distinct, ToSet
<1>8. HandoffInv
  BY <1>7 DEF HandoffInv, NotServed
<1>9. AnswerInv
  BY DEF AnswerInv
<1>10. CacheInv
  <2>1. MaxCacheEntries \in Nat /\ MaxCacheBytes \in Nat
    BY SourceGraphAssumption
  <2>2. Fits(cache, CacheBytes, MaxCacheEntries, MaxCacheBytes)
    BY <2>1, EmptyFits
  <2> QED
    BY <2>2 DEF CacheInv, CacheHonest, ToSet
<1>11. LockInv
  BY SgFacts DEF LockInv, OneColdFrontend, Building, Scanning
<1>12. ScanInv
  <2>1. AdmissionReturned
    BY SourceGraphAssumption DEF AdmissionReturned
  <2>2. RecheckedStillCached
    BY DEF RecheckedStillCached
  <2>3. scan_cache \in Seq(ScanKey) /\ Len(scan_cache) <= MaxScanEntries
    BY ScanAssumption
  <2> QED
    BY <2>1, <2>2, <2>3 DEF ScanInv, ScanState, ScanResult
<1>13. DiskInv
  BY DEF DiskInv
<1> QED
  BY <1>1, <1>2, <1>3, <1>4, <1>5, <1>6, <1>8, <1>9, <1>10, <1>11, <1>12, <1>13
     DEF SInv, QueryInv

\* What a query has done is not disturbed by a step that leaves its variables alone.
LEMMA QueryStutter ==
    ASSUME QueryInv, UNCHANGED <<call, callVars, flightVars, handoffs>>
    PROVE  QueryInv'
<1> USE DEF callVars, flightVars
<1>1. CallTypes' /\ FlightTypes'
  BY DEF QueryInv, CallTypes, FlightTypes
<1>2. CallInv' /\ FlightInv'
  BY DEF QueryInv, CallInv, FlightInv, NoDuplicateFlight, FlightKey, Awaits
<1>3. CountInv' /\ BoundInv'
  BY DEF QueryInv, CountInv, BoundInv, WaitsFor, Begun
<1>4. HandoffInv' /\ AnswerInv'
  BY DEF QueryInv, HandoffInv, AnswerInv, IsReusable, artifact, Distinct, ToSet
<1> QED
  BY <1>1, <1>2, <1>3, <1>4 DEF QueryInv

\* An outcome that is ready stays so.
OutcomesStay == \A e \in Request : outcome[e] = "ready" => outcome'[e] = "ready"

\* Handoffs that are only taken away, while no call is given one.
LEMMA HandoffKeep ==
    ASSUME HandoffInv, call' = call, OutcomesStay,
           handoffs' \in Seq(Request), Distinct(handoffs'),
           ToSet(handoffs') \subseteq ToSet(handoffs),
           \A r \in Request : served'[r] = served[r] \/ served'[r].tier # "handoff"
    PROVE  HandoffInv'
<1>1. ToSet(handoffs) \subseteq Request
  BY DEF HandoffInv, ToSet
<1>2. \A d, e \in ToSet(handoffs') : call[d] = call[e] => d = e
  BY DEF HandoffInv
<1>3. \A e \in ToSet(handoffs') : outcome'[e] = "ready" /\ ~IsReusable(e)
  BY <1>1 DEF HandoffInv, OutcomesStay
<1>4. ASSUME NEW r \in Request, served'[r].tier = "handoff"
      PROVE  /\ served'[r].entry \in Request \ ToSet(handoffs')
             /\ outcome'[served'[r].entry] = "ready"
             /\ call[served'[r].entry] = call[r]
             /\ ~IsReusable(r)
             /\ \A s \in Request : s # r => served'[s] # served'[r]
  <2>1. served'[r] = served[r]
    BY <1>4
  <2>2. /\ served[r].entry \in Request \ ToSet(handoffs)
        /\ outcome[served[r].entry] = "ready"
        /\ call[served[r].entry] = call[r]
        /\ ~IsReusable(r)
        /\ \A s \in Request : s # r => served[s] # served[r]
    BY <1>4, <2>1 DEF HandoffInv
  <2>3. ASSUME NEW s \in Request, s # r PROVE served'[s] # served'[r]
    BY <1>4, <2>1, <2>2, <2>3
  <2> QED
    BY <2>1, <2>2, <2>3 DEF OutcomesStay
<1>5. \A e : IsReusable(e)' <=> IsReusable(e)
  BY DEF IsReusable, artifact
<1> HIDE DEF IsReusable
<1> QED
  BY <1>2, <1>3, <1>4, <1>5 DEF HandoffInv, Distinct

\* Calls that keep their answer, or are not answered.
LEMMA AnswerKeep ==
    ASSUME AnswerInv, call' = call, OutcomesStay,
           \A r \in Request : \/ result'[r] # "ready"
                              \/ result'[r] = result[r] /\ served'[r] = served[r]
    PROVE  AnswerInv'
<1> SUFFICES ASSUME NEW r \in Request, result'[r] = "ready"
             PROVE  IF served'[r].tier = "memory"
                    THEN /\ IsReusable(r)'
                         /\ \/ served'[r].entry = artifact(r)'
                            \/ <<served'[r].entry, artifact(r)'>> \in Covers
                    ELSE /\ served'[r].entry \in Request
                         /\ call'[served'[r].entry] = call'[r]
                         /\ outcome'[served'[r].entry] = "ready"
  BY DEF AnswerInv
<1>1. result[r] = "ready" /\ served'[r] = served[r]
  OBVIOUS
<1>2. artifact(r)' = artifact(r) /\ (IsReusable(r)' <=> IsReusable(r))
  BY DEF artifact, IsReusable
<1> QED
  BY <1>1, <1>2 DEF AnswerInv, OutcomesStay

\* Flights whose waiters stay as they were, or that have ended or been stopped.
LEMMA CountKeep ==
    ASSUME CountInv,
           \A f \in Request :
              f \notin worker_cancel_event' /\ task'[f] # "done" =>
                 /\ f \notin worker_cancel_event /\ task[f] # "done"
                 /\ waiter_count'[f] = waiter_count[f]
                 /\ WaitsFor(f)' = WaitsFor(f)
    PROVE  CountInv'
<1> SUFFICES ASSUME NEW f \in Request, f \notin worker_cancel_event', task'[f] # "done"
             PROVE  waiter_count'[f] = Cardinality(WaitsFor(f)')
  BY DEF CountInv
<1> QED
  BY DEF CountInv

\* A handoff queue with some positions popped.
LEMMA HandoffPop ==
    ASSUME HandoffInv, NEW P \in SUBSET DOMAIN handoffs
    PROVE  /\ Pop(handoffs, P) \in Seq(Request)
           /\ Distinct(Pop(handoffs, P))
           /\ ToSet(Pop(handoffs, P)) \subseteq ToSet(handoffs)
           /\ (\A i, j \in P : call[handoffs[i]] = call[handoffs[j]]) =>
                 \A i \in P : handoffs[i] \notin ToSet(Pop(handoffs, P))
<1>1. handoffs \in Seq(Request) /\ Distinct(handoffs)
  BY DEF HandoffInv
<1>2. ASSUME \A i, j \in P : call[handoffs[i]] = call[handoffs[j]]
      PROVE  \A i, j \in P : i = j
  BY <1>2 DEF HandoffInv, Distinct, ToSet
<1> QED
  BY <1>1, <1>2, PopFacts

\* The call begins: the bound on the waiters grows with it.
LEMMA BoundKeep ==
    ASSUME BoundInv, FlightTypes,
           \A r \in Request : pc[r] # "idle" => pc'[r] # "idle",
           \A f \in Request : waiter_count'[f] \in Nat /\ waiter_count'[f] <= waiter_count[f]
    PROVE  BoundInv'
<1>1. Begun \subseteq Begun' /\ Begun' \subseteq Request
  BY DEF Begun
<1>2. IsFiniteSet(Begun') /\ Cardinality(Begun) <= Cardinality(Begun')
  BY <1>1, SgFacts, FS_Subset
<1>3. Cardinality(Begun) \in Nat /\ Cardinality(Begun') \in Nat
  BY <1>2, CountsFinite, FS_CardinalityType
<1> SUFFICES ASSUME NEW f \in Request PROVE waiter_count'[f] <= Cardinality(Begun')
  BY DEF BoundInv
<1>4. waiter_count[f] \in Nat /\ waiter_count[f] <= Cardinality(Begun)
  BY DEF BoundInv, FlightTypes
<1> QED
  BY <1>2, <1>3, <1>4

\* A call that returns without waiting touches no flight.
LEMMA ReturnAtOnce ==
    ASSUME QueryInv, NEW r \in Request, pc[r] = "idle",
           NEW status \in Status,
           NEW by \in [tier : Tier, entry : Request \cup Artifact \cup {None}],
           Return(r, status, by), UNCHANGED <<call, flightVars>>,
           cancelled' \subseteq Request, HandoffInv', AnswerInv'
    PROVE  QueryInv'
<1>0. /\ UNCHANGED <<inflight, waiter_count, worker_cancel_event, task, outcome>>
      /\ call' = call
  BY DEF flightVars
<1>1. CallTypes'
  BY <1>0 DEF QueryInv, CallTypes, Return
<1>2. FlightTypes'
  BY <1>0 DEF QueryInv, FlightTypes
<1>3. /\ pc' \in [Request -> {"idle", "waiting", "draining", "done"}]
      /\ pc'[r] = "done"
      /\ \A s \in Request \ {r} : pc'[s] = pc[s] /\ result'[s] = result[s] /\ served'[s] = served[s]
  BY DEF QueryInv, CallTypes, Return
<1>4. CallInv'
  <2> SUFFICES ASSUME NEW s \in Request
      PROVE  /\ pc'[s] = "idle" => task'[s] = "none" /\ served'[s] = NotServed
             /\ pc'[s] # "done" => result'[s] = "none"
             /\ pc'[s] \in {"waiting", "draining"} => Awaits(s)'
             /\ pc'[s] = "draining" => served'[s].entry \in worker_cancel_event'
    BY DEF CallInv
  <2>1. CASE s = r
    BY <1>3, <2>1
  <2>2. CASE s # r
    BY <1>0, <1>3, <2>2 DEF QueryInv, CallInv, Awaits
  <2> QED
    BY <2>1, <2>2
<1>5. FlightInv'
  BY <1>0 DEF QueryInv, FlightInv, NoDuplicateFlight, FlightKey
<1>6. \A f \in Request : WaitsFor(f)' = WaitsFor(f)
  BY <1>3 DEF WaitsFor
<1>7. CountInv'
  BY <1>0, <1>6, CountKeep DEF QueryInv
<1>8. BoundInv'
  <2>1. \A f \in Request : waiter_count'[f] \in Nat /\ waiter_count'[f] <= waiter_count[f]
    BY <1>0 DEF QueryInv, FlightTypes
  <2>2. \A s \in Request : pc[s] # "idle" => pc'[s] # "idle"
    BY <1>3
  <2> QED
    BY <2>1, <2>2, BoundKeep DEF QueryInv
<1> QED
  BY <1>1, <1>2, <1>4, <1>5, <1>7, <1>8 DEF QueryInv

LEMMA CancelledEarlyStep ==
    ASSUME SInv, NEW r \in Request, PrepareCancelledEarly(r)
    PROVE  QueryInv'
<1> USE DEF PrepareCancelledEarly
<1>0. QueryInv
  BY DEF SInv
<1>1. /\ call' = call /\ outcome' = outcome /\ handoffs' = handoffs
      /\ OutcomesStay
  BY DEF flightVars, storeVars, OutcomesStay
<1>2. /\ result'[r] = "cancelled" /\ served'[r] = NotServed
      /\ \A s \in Request \ {r} : result'[s] = result[s] /\ served'[s] = served[s]
  BY <1>0 DEF QueryInv, CallTypes, Return
<1>3. HandoffInv'
  <2>1. handoffs' \in Seq(Request) /\ Distinct(handoffs') /\ ToSet(handoffs') \subseteq ToSet(handoffs)
    BY <1>0, <1>1 DEF QueryInv, HandoffInv
  <2>2. \A s \in Request : served'[s] = served[s] \/ served'[s].tier # "handoff"
    BY <1>2 DEF NotServed
  <2> QED
    BY <1>0, <1>1, <2>1, <2>2, HandoffKeep DEF QueryInv
<1>4. AnswerInv'
  BY <1>0, <1>1, <1>2, AnswerKeep DEF QueryInv
<1>5. cancelled' \subseteq Request
  BY <1>0 DEF QueryInv, CallTypes
<1>6. "cancelled" \in Status /\ NotServed \in [tier : Tier, entry : Request \cup Artifact \cup {None}]
  BY DEF Status, Tier, NotServed
<1> QED
  BY <1>0, <1>3, <1>4, <1>5, <1>6, ReturnAtOnce

\* What is found in memory is there, and covers what was asked for.
LEMMA FoundFacts ==
    ASSUME CacheInv, NEW a, NEW e \in Found(a)
    PROVE  /\ e \in ToSet(cache) /\ e \in Artifact
           /\ e = a \/ <<e, a>> \in Covers
<1>1. e \in ToSet(cache) /\ (e = a \/ <<e, a>> \in Covers)
  BY DEF Found
<1> QED
  BY <1>1 DEF CacheInv, ToSet

LEMMA HitStep ==
    ASSUME SInv, NEW r \in Request, PrepareHit(r)
    PROVE  QueryInv'
<1>0. QueryInv /\ CacheInv
  BY DEF SInv
<1>1. PICK e \in Found(artifact(r)) :
          Return(r, "ready", [tier |-> "memory", entry |-> e])
  BY DEF PrepareHit
<1>2. pc[r] = "idle" /\ IsReusable(r)
  BY DEF PrepareHit
<1>3. /\ UNCHANGED <<call, cancelled, flightVars, handoffs>>
      /\ outcome' = outcome
      /\ OutcomesStay
  BY DEF PrepareHit, flightVars, OutcomesStay
<1>4. e \in Artifact /\ (e = artifact(r) \/ <<e, artifact(r)>> \in Covers)
  BY <1>0, FoundFacts
<1>5. /\ result'[r] = "ready" /\ served'[r] = [tier |-> "memory", entry |-> e]
      /\ \A s \in Request \ {r} : result'[s] = result[s] /\ served'[s] = served[s]
  BY <1>0, <1>1 DEF QueryInv, CallTypes, Return
<1>6. HandoffInv'
  <2>1. handoffs' \in Seq(Request) /\ Distinct(handoffs') /\ ToSet(handoffs') \subseteq ToSet(handoffs)
    BY <1>0, <1>3 DEF QueryInv, HandoffInv
  <2>2. \A s \in Request : served'[s] = served[s] \/ served'[s].tier # "handoff"
    BY <1>5
  <2> QED
    BY <1>0, <1>3, <2>1, <2>2, HandoffKeep DEF QueryInv
<1>7. AnswerInv'
  BY <1>0, <1>2, <1>3, <1>4, <1>5 DEF QueryInv, AnswerInv, artifact, IsReusable
<1>8. cancelled' \subseteq Request
  BY <1>0, <1>3 DEF QueryInv, CallTypes
<1>9. /\ "ready" \in Status
      /\ [tier |-> "memory", entry |-> e] \in [tier : Tier, entry : Request \cup Artifact \cup {None}]
  BY <1>4 DEF Status, Tier
<1> QED
  BY <1>0, <1>1, <1>2, <1>3, <1>6, <1>7, <1>8, <1>9, ReturnAtOnce

\* Taking a handoff, or letting it expire, removes it and nothing else.
LEMMA WithoutFacts ==
    ASSUME HandoffInv, NEW f
    PROVE  /\ Without(handoffs, f) \in Seq(Request)
           /\ Distinct(Without(handoffs, f))
           /\ ToSet(Without(handoffs, f)) \subseteq ToSet(handoffs)
           /\ f \notin ToSet(Without(handoffs, f))
<1>1. PICK P \in SUBSET DOMAIN handoffs : P = {i \in DOMAIN handoffs : handoffs[i] = f}
  OBVIOUS
<1>2. PICK t : t = Pop(handoffs, P)
  OBVIOUS
<1>3. /\ t \in Seq(Request) /\ Distinct(t) /\ ToSet(t) \subseteq ToSet(handoffs)
      /\ \A i \in P : handoffs[i] \notin ToSet(t)
  BY <1>1, <1>2, HandoffPop
<1>4. f \notin ToSet(t)
  BY <1>1, <1>3 DEF ToSet
<1>5. Without(handoffs, f) = t
  BY <1>1, <1>2 DEF Without
<1> QED
  BY <1>3, <1>4, <1>5

LEMMA HandoffStep ==
    ASSUME SInv, NEW r \in Request, PrepareHandoff(r)
    PROVE  QueryInv'
<1>0. QueryInv /\ HandoffInv
  BY DEF SInv, QueryInv
<1>1. PICK f \in HandoffsFor(r) :
          /\ handoffs' = Without(handoffs, f)
          /\ Return(r, "ready", [tier |-> "handoff", entry |-> f])
  BY DEF PrepareHandoff, TakeHandoff
<1>2. pc[r] = "idle" /\ ~IsReusable(r)
  BY DEF PrepareHandoff
<1>3. /\ UNCHANGED <<call, cancelled, flightVars>>
      /\ call' = call /\ outcome' = outcome
      /\ OutcomesStay
  BY DEF PrepareHandoff, flightVars, OutcomesStay
<1>4. f \in ToSet(handoffs) /\ f \in Request /\ call[f] = call[r] /\ outcome[f] = "ready"
  BY <1>0 DEF HandoffsFor, FlightKey, HandoffInv, ToSet
<1>5. /\ result'[r] = "ready" /\ served'[r] = [tier |-> "handoff", entry |-> f]
      /\ \A s \in Request \ {r} : result'[s] = result[s] /\ served'[s] = served[s]
  BY <1>0, <1>1 DEF QueryInv, CallTypes, Return
<1>6. /\ handoffs' \in Seq(Request) /\ Distinct(handoffs')
      /\ ToSet(handoffs') \subseteq ToSet(handoffs) \ {f}
  BY <1>0, <1>1, WithoutFacts
<1>7. HandoffInv'
  <2>1. \A d, e \in ToSet(handoffs') : call[d] = call[e] => d = e
    BY <1>0, <1>6 DEF HandoffInv
  <2>2. \A e \in ToSet(handoffs') : outcome'[e] = "ready" /\ ~IsReusable(e)
    BY <1>0, <1>3, <1>6 DEF HandoffInv
  <2>3. \A s \in Request \ {r} : served[s].tier = "handoff" => served[s].entry # f
    BY <1>0, <1>4 DEF HandoffInv
  <2>4. ASSUME NEW s \in Request, served'[s].tier = "handoff"
        PROVE  /\ served'[s].entry \in Request \ ToSet(handoffs')
               /\ outcome'[served'[s].entry] = "ready"
               /\ call[served'[s].entry] = call[s]
               /\ ~IsReusable(s)
               /\ \A u \in Request : u # s => served'[u] # served'[s]
    <3>1. CASE s = r
      <4>1. ASSUME NEW u \in Request, u # r PROVE served'[u] # served'[r]
        BY <1>5, <2>3, <4>1
      <4> QED
        BY <1>2, <1>3, <1>4, <1>5, <1>6, <3>1, <4>1
    <3>2. CASE s # r
      <4>1. served'[s] = served[s]
        BY <1>5, <3>2
      <4>2. /\ served[s].entry \in Request \ ToSet(handoffs)
            /\ outcome[served[s].entry] = "ready"
            /\ call[served[s].entry] = call[s]
            /\ ~IsReusable(s)
            /\ \A u \in Request : u # s => served[u] # served[s]
        BY <1>0, <2>4, <4>1 DEF HandoffInv
      <4>3. ASSUME NEW u \in Request, u # s PROVE served'[u] # served'[s]
        BY <1>5, <2>3, <2>4, <3>2, <4>1, <4>2, <4>3
      <4> QED
        BY <1>3, <1>6, <4>1, <4>2, <4>3
    <3> QED
      BY <3>1, <3>2
  <2>5. \A e : IsReusable(e)' <=> IsReusable(e)
    BY <1>3 DEF IsReusable, artifact
  <2> HIDE DEF IsReusable
  <2> QED
    BY <1>3, <1>6, <2>1, <2>2, <2>4, <2>5 DEF HandoffInv, Distinct
<1>8. AnswerInv'
  <2>1. ASSUME NEW s \in Request, result'[s] = "ready"
        PROVE  IF served'[s].tier = "memory"
               THEN /\ IsReusable(s)
                    /\ \/ served'[s].entry = artifact(s)
                       \/ <<served'[s].entry, artifact(s)>> \in Covers
               ELSE /\ served'[s].entry \in Request
                    /\ call[served'[s].entry] = call[s]
                    /\ outcome[served'[s].entry] = "ready"
    BY <1>0, <1>4, <1>5, <2>1 DEF QueryInv, AnswerInv
  <2> QED
    BY <1>3, <2>1 DEF AnswerInv, artifact, IsReusable
<1>9. cancelled' \subseteq Request
  BY <1>0, <1>3 DEF QueryInv, CallTypes
<1>10. /\ "ready" \in Status
       /\ [tier |-> "handoff", entry |-> f] \in [tier : Tier, entry : Request \cup Artifact \cup {None}]
  BY <1>4 DEF Status, Tier
<1> QED
  BY <1>0, <1>1, <1>2, <1>3, <1>7, <1>8, <1>9, <1>10, ReturnAtOnce

\* A miss pops at most the handoffs of the key that was asked for.
LEMMA MissedFacts ==
    ASSUME HandoffInv, NEW r \in Request, Missed(r)
    PROVE  /\ pc[r] = "idle"
           /\ handoffs' \in Seq(Request) /\ Distinct(handoffs')
           /\ ToSet(handoffs') \subseteq ToSet(handoffs)
<1>1. HandoffAt(r) \in SUBSET DOMAIN handoffs
  BY DEF HandoffAt
<1>2. PICK t : t = Pop(handoffs, HandoffAt(r))
  OBVIOUS
<1>3. t \in Seq(Request) /\ Distinct(t) /\ ToSet(t) \subseteq ToSet(handoffs)
  BY <1>1, <1>2, HandoffPop
<1>4. handoffs' = t \/ handoffs' = handoffs
  BY <1>2 DEF Missed
<1> QED
  BY <1>3, <1>4 DEF HandoffInv, Missed

\* One more call has begun.
LEMMA OneMoreBegun ==
    ASSUME CallTypes, NEW r \in Request, pc[r] = "idle",
           pc' = [pc EXCEPT ![r] = "waiting"]
    PROVE  Cardinality(Begun') = Cardinality(Begun) + 1
<1>1. Begun' = Begun \cup {r} /\ r \notin Begun
  BY DEF Begun, CallTypes
<1> QED
  BY <1>1, CountsFinite, FS_AddElement

LEMMA JoinStep ==
    ASSUME SInv, NEW r \in Request, PrepareJoin(r)
    PROVE  QueryInv'
<1> DEFINE f == inflight[FlightKey(r)]
<1>0. QueryInv /\ CallTypes /\ FlightTypes /\ CallInv /\ FlightInv /\ HandoffInv
  BY DEF SInv, QueryInv
<1>1. /\ call[r] \in Call /\ f \in Request /\ call[f] = call[r]
      /\ task[f] \notin {"none", "done"}
  <2>1. call[r] \in Call
    BY <1>0, SgFacts
  <2>2. f \in Request /\ task[f] # "done"
    BY <1>0, <2>1 DEF PrepareJoin, LiveFlight, FlightKey, FlightTypes
  <2> QED
    BY <1>0, <2>1, <2>2, SgFacts DEF FlightInv, FlightKey
<1>2. /\ pc[r] = "idle" /\ handoffs' \in Seq(Request) /\ Distinct(handoffs')
      /\ ToSet(handoffs') \subseteq ToSet(handoffs)
  BY <1>0, MissedFacts DEF PrepareJoin
<1> PICK g \in Request : g = f
  BY <1>1
<1>3. /\ waiter_count' = [waiter_count EXCEPT ![g] = @ + 1]
      /\ served' = [served EXCEPT ![r] = [tier |-> "flight", entry |-> g]]
      /\ pc' = [pc EXCEPT ![r] = "waiting"]
      /\ UNCHANGED <<call, result, cancelled, inflight, worker_cancel_event, task,
                     outcome>>
      /\ call[g] = call[r] /\ task[g] \notin {"none", "done"}
  BY <1>1 DEF PrepareJoin
<1> HIDE DEF f
<1>4. OutcomesStay
  BY <1>3 DEF OutcomesStay
<1>5. CallTypes'
  BY <1>0, <1>3 DEF CallTypes, Tier
<1>6. FlightTypes'
  BY <1>0, <1>3 DEF FlightTypes
<1>7. CallInv'
  <2> SUFFICES ASSUME NEW s \in Request
      PROVE  /\ pc'[s] = "idle" => task'[s] = "none" /\ served'[s] = NotServed
             /\ pc'[s] # "done" => result'[s] = "none"
             /\ pc'[s] \in {"waiting", "draining"} => Awaits(s)'
             /\ pc'[s] = "draining" => served'[s].entry \in worker_cancel_event'
    BY DEF CallInv
  <2>1. CASE s = r
    BY <1>0, <1>2, <1>3, <2>1 DEF CallInv, CallTypes, Awaits
  <2>2. CASE s # r
    BY <1>0, <1>3, <2>2 DEF CallInv, CallTypes, Awaits
  <2> QED
    BY <2>1, <2>2
<1>8. FlightInv'
  BY <1>0, <1>3 DEF FlightInv, NoDuplicateFlight, FlightKey
<1>9. CountInv'
  <2> SUFFICES ASSUME NEW h \in Request, h \notin worker_cancel_event', task'[h] # "done"
               PROVE  waiter_count'[h] = Cardinality(WaitsFor(h)')
    BY DEF CountInv
  <2>1. waiter_count[h] = Cardinality(WaitsFor(h))
    BY <1>0, <1>3 DEF QueryInv, CountInv
  <2>2. CASE h = g
    <3>1. WaitsFor(h)' = WaitsFor(h) \cup {r} /\ r \notin WaitsFor(h)
      BY <1>0, <1>2, <1>3, <2>2 DEF WaitsFor, CallTypes
    <3>2. Cardinality(WaitsFor(h)') = Cardinality(WaitsFor(h)) + 1
      BY <3>1, CountsFinite, FS_AddElement
    <3> QED
      BY <1>0, <1>3, <2>1, <2>2, <3>2 DEF FlightTypes
  <2>3. CASE h # g
    <3>1. WaitsFor(h)' = WaitsFor(h)
      BY <1>0, <1>2, <1>3, <2>3 DEF WaitsFor, CallTypes
    <3> QED
      BY <1>0, <1>3, <2>1, <2>3, <3>1 DEF FlightTypes
  <2> QED
    BY <2>2, <2>3
<1>10. BoundInv'
  <2>1. Cardinality(Begun') = Cardinality(Begun) + 1
    BY <1>0, <1>2, <1>3, OneMoreBegun
  <2> SUFFICES ASSUME NEW h \in Request PROVE waiter_count'[h] <= Cardinality(Begun')
    BY DEF BoundInv
  <2>2. waiter_count[h] \in Nat /\ waiter_count[h] <= Cardinality(Begun)
    BY <1>0 DEF QueryInv, BoundInv, FlightTypes
  <2>3. waiter_count'[h] \in {waiter_count[h], waiter_count[h] + 1}
    BY <1>0, <1>3 DEF FlightTypes
  <2> QED
    BY <2>1, <2>2, <2>3, CountsFinite
<1>11. HandoffInv'
  <2>1. \A s \in Request : served'[s] = served[s] \/ served'[s].tier # "handoff"
    BY <1>0, <1>3 DEF CallTypes
  <2> QED
    BY <1>0, <1>2, <1>3, <1>4, <2>1, HandoffKeep
<1>12. AnswerInv'
  <2>1. result[r] = "none"
    BY <1>0, <1>2 DEF CallInv
  <2>2. \A s \in Request : \/ result'[s] # "ready"
                           \/ result'[s] = result[s] /\ served'[s] = served[s]
    BY <1>0, <1>3, <2>1 DEF CallTypes
  <2> QED
    BY <1>0, <1>3, <1>4, <2>2, AnswerKeep DEF QueryInv
<1> QED
  BY <1>5, <1>6, <1>7, <1>8, <1>9, <1>10, <1>11, <1>12 DEF QueryInv

LEMMA CreateStep ==
    ASSUME SInv, NEW r \in Request, PrepareCreate(r)
    PROVE  QueryInv'
<1>0. QueryInv /\ CallTypes /\ FlightTypes /\ CallInv /\ FlightInv /\ HandoffInv
  BY DEF SInv, QueryInv
<1>1. call[r] \in Call
  BY <1>0, SgFacts
<1>2. /\ pc[r] = "idle" /\ handoffs' \in Seq(Request) /\ Distinct(handoffs')
      /\ ToSet(handoffs') \subseteq ToSet(handoffs)
  BY <1>0, MissedFacts DEF PrepareCreate
<1>3. /\ inflight' = [inflight EXCEPT ![call[r]] = r]
      /\ waiter_count' = [waiter_count EXCEPT ![r] = 1]
      /\ task' = [task EXCEPT ![r] = "start"]
      /\ served' = [served EXCEPT ![r] = [tier |-> "flight", entry |-> r]]
      /\ pc' = [pc EXCEPT ![r] = "waiting"]
      /\ UNCHANGED <<call, result, cancelled, worker_cancel_event, outcome>>
      /\ inflight[call[r]] # None => task[inflight[call[r]]] = "done"
  BY DEF PrepareCreate, FlightKey, LiveFlight
<1>4. OutcomesStay
  BY <1>3 DEF OutcomesStay
<1>5. CallTypes'
  BY <1>0, <1>3 DEF CallTypes, Tier
<1>6. FlightTypes'
  BY <1>0, <1>1, <1>3 DEF FlightTypes, TaskState
<1>7. task[r] = "none" /\ served[r] = NotServed /\ result[r] = "none"
  BY <1>0, <1>2 DEF CallInv
<1>8. CallInv'
  <2> SUFFICES ASSUME NEW s \in Request
      PROVE  /\ pc'[s] = "idle" => task'[s] = "none" /\ served'[s] = NotServed
             /\ pc'[s] # "done" => result'[s] = "none"
             /\ pc'[s] \in {"waiting", "draining"} => Awaits(s)'
             /\ pc'[s] = "draining" => served'[s].entry \in worker_cancel_event'
    BY DEF CallInv
  <2>1. CASE s = r
    BY <1>0, <1>3, <1>7, <2>1 DEF CallTypes, FlightTypes, Awaits
  <2>2. CASE s # r
    BY <1>0, <1>3, <2>2 DEF CallInv, CallTypes, FlightTypes, Awaits
  <2> QED
    BY <2>1, <2>2
<1>9. FlightInv'
  <2>1. \A f \in Request : task'[f] # "done" => outcome'[f] = "none"
    BY <1>0, <1>3, <1>7 DEF FlightInv, FlightTypes
  <2>2. ASSUME NEW k \in Call, inflight'[k] # None
        PROVE  call[inflight'[k]] = k /\ task'[inflight'[k]] # "none"
    <3>1. CASE k = call[r]
      BY <1>0, <1>1, <1>3, <3>1 DEF FlightTypes
    <3>2. CASE k # call[r]
      BY <1>0, <1>1, <1>3, <2>2, <3>2 DEF FlightTypes, FlightInv
    <3> QED
      BY <3>1, <3>2
  <2>3. ASSUME NEW f \in Request, task'[f] \notin {"none", "done"}
        PROVE  inflight'[call[f]] = f
    <3>1. CASE f = r
      BY <1>0, <1>1, <1>3, <3>1 DEF FlightTypes
    <3>2. CASE f # r
      <4>1. task'[f] = task[f] /\ inflight[call[f]] = f
        BY <1>0, <1>3, <2>3, <3>2 DEF FlightTypes, FlightInv, NoDuplicateFlight, FlightKey
      <4>2. call[f] # call[r]
        BY <1>3, <2>3, <4>1, SgFacts
      <4> QED
        BY <1>0, <1>1, <1>3, <4>1, <4>2 DEF FlightTypes
    <3> QED
      BY <3>1, <3>2
  <2> QED
    BY <1>3, <2>1, <2>2, <2>3 DEF FlightInv, NoDuplicateFlight, FlightKey
<1>10. CountInv'
  <2> SUFFICES ASSUME NEW h \in Request, h \notin worker_cancel_event', task'[h] # "done"
               PROVE  waiter_count'[h] = Cardinality(WaitsFor(h)')
    BY DEF CountInv
  <2>2. CASE h = r
    <3>1. WaitsFor(r)' = {r}
      BY <1>0, <1>3, <1>7 DEF WaitsFor, CallTypes, CallInv, Awaits
    <3>2. Cardinality({r}) = 1
      BY FS_Singleton
    <3> QED
      BY <1>0, <1>3, <2>2, <3>1, <3>2 DEF FlightTypes
  <2>3. CASE h # r
    <3>1. WaitsFor(h)' = WaitsFor(h)
      BY <1>0, <1>2, <1>3, <2>3 DEF WaitsFor, CallTypes
    <3>2. task'[h] = task[h]
      BY <1>0, <1>3, <2>3 DEF FlightTypes
    <3> QED
      BY <1>0, <1>3, <2>3, <3>1, <3>2 DEF FlightTypes, QueryInv, CountInv
  <2> QED
    BY <2>2, <2>3
<1>11. BoundInv'
  <2>1. Cardinality(Begun') = Cardinality(Begun) + 1
    BY <1>0, <1>2, <1>3, OneMoreBegun
  <2> SUFFICES ASSUME NEW h \in Request PROVE waiter_count'[h] <= Cardinality(Begun')
    BY DEF BoundInv
  <2>2. waiter_count[h] \in Nat /\ waiter_count[h] <= Cardinality(Begun)
    BY <1>0 DEF QueryInv, BoundInv, FlightTypes
  <2>3. waiter_count'[h] \in {waiter_count[h], 1}
    BY <1>0, <1>3 DEF FlightTypes
  <2> QED
    BY <2>1, <2>2, <2>3, CountsFinite
<1>12. HandoffInv'
  <2>1. \A s \in Request : served'[s] = served[s] \/ served'[s].tier # "handoff"
    BY <1>0, <1>3 DEF CallTypes
  <2> QED
    BY <1>0, <1>2, <1>3, <1>4, <2>1, HandoffKeep
<1>13. AnswerInv'
  <2>2. \A s \in Request : \/ result'[s] # "ready"
                           \/ result'[s] = result[s] /\ served'[s] = served[s]
    BY <1>0, <1>3, <1>7 DEF CallTypes
  <2> QED
    BY <1>0, <1>3, <1>4, <2>2, AnswerKeep DEF QueryInv
<1> QED
  BY <1>5, <1>6, <1>8, <1>9, <1>10, <1>11, <1>12, <1>13 DEF QueryInv

\* A call stops waiting: it is answered by its flight or by nobody, or it goes
\* on to drain a stopped worker.
LEMMA LeaveStep ==
    ASSUME QueryInv, CallTypes', NEW r \in Request, pc[r] \in {"waiting", "draining"},
           UNCHANGED <<call, task, outcome, handoffs, inflight>>,
           waiter_count' \in [Request -> Nat],
           \A g \in Request : waiter_count'[g] <= waiter_count[g],
           worker_cancel_event \subseteq worker_cancel_event',
           worker_cancel_event' \subseteq Request,
           \A s \in Request \ {r} : /\ pc'[s] = pc[s] /\ result'[s] = result[s]
                                    /\ served'[s] = served[s],
           \/ /\ pc'[r] = "done"
              /\ served'[r] \in {served[r], NotServed}
              /\ result'[r] = "ready" => served'[r] = served[r]
                                         /\ outcome[served[r].entry] = "ready"
           \/ /\ pc'[r] = "draining"
              /\ served'[r] = served[r] /\ result'[r] = result[r]
              /\ served[r].entry \in worker_cancel_event',
           CountInv'
    PROVE  QueryInv'
<1>0. CallTypes /\ FlightTypes /\ CallInv /\ FlightInv /\ BoundInv /\ HandoffInv /\ AnswerInv
  BY DEF QueryInv
<1>1. FlightTypes'
  BY <1>0 DEF FlightTypes
<1>2. Awaits(r) /\ result[r] = "none"
  BY <1>0 DEF CallInv
<1>3. CallInv'
  <2> SUFFICES ASSUME NEW s \in Request
      PROVE  /\ pc'[s] = "idle" => task'[s] = "none" /\ served'[s] = NotServed
             /\ pc'[s] # "done" => result'[s] = "none"
             /\ pc'[s] \in {"waiting", "draining"} => Awaits(s)'
             /\ pc'[s] = "draining" => served'[s].entry \in worker_cancel_event'
    BY DEF CallInv
  <2>1. CASE s = r
    BY <1>2, <2>1 DEF Awaits
  <2>2. CASE s # r
    BY <1>0, <2>2 DEF CallInv, Awaits
  <2> QED
    BY <2>1, <2>2
<1>4. FlightInv'
  BY <1>0 DEF FlightInv, NoDuplicateFlight, FlightKey
<1>5. BoundInv'
  <2>1. \A s \in Request : pc[s] # "idle" => pc'[s] # "idle"
    OBVIOUS
  <2>2. \A g \in Request : waiter_count'[g] \in Nat
    OBVIOUS
  <2> QED
    BY <1>0, <2>1, <2>2, BoundKeep
<1>6. OutcomesStay /\ call' = call
  BY DEF OutcomesStay
<1>7. HandoffInv'
  <2>1. \A s \in Request : served'[s] = served[s] \/ served'[s].tier # "handoff"
    BY DEF NotServed
  <2>2. handoffs' \in Seq(Request) /\ Distinct(handoffs') /\ ToSet(handoffs') \subseteq ToSet(handoffs)
    BY <1>0 DEF HandoffInv
  <2> QED
    BY <1>0, <1>6, <2>1, <2>2, HandoffKeep
<1>8. AnswerInv'
  <2> SUFFICES ASSUME NEW s \in Request, result'[s] = "ready"
               PROVE  IF served'[s].tier = "memory"
                      THEN /\ IsReusable(s)'
                           /\ \/ served'[s].entry = artifact(s)'
                              \/ <<served'[s].entry, artifact(s)'>> \in Covers
                      ELSE /\ served'[s].entry \in Request
                           /\ call'[served'[s].entry] = call'[s]
                           /\ outcome'[served'[s].entry] = "ready"
    BY DEF AnswerInv
  <2>1. CASE s = r
    BY <1>2, <2>1 DEF Awaits
  <2>2. CASE s # r
    <3>1. artifact(s)' = artifact(s) /\ (IsReusable(s)' <=> IsReusable(s))
      BY <1>6 DEF artifact, IsReusable
    <3> QED
      BY <1>0, <2>2, <3>1 DEF AnswerInv
  <2> QED
    BY <2>1, <2>2
<1> QED
  BY <1>1, <1>3, <1>4, <1>5, <1>7, <1>8 DEF QueryInv

\* What releasing a place does to the counts.
LEMMA ReleaseFacts ==
    ASSUME FlightTypes, NEW f \in Request, NEW isCancel \in BOOLEAN,
           ReleaseWaiter(f, isCancel)
    PROVE  /\ waiter_count' \in [Request -> Nat]
           /\ waiter_count'[f] = OneLess(waiter_count[f])
           /\ \A g \in Request \ {f} : waiter_count'[g] = waiter_count[g]
           /\ \A g \in Request : waiter_count'[g] <= waiter_count[g]
           /\ inflight' = inflight
           /\ worker_cancel_event' \in {worker_cancel_event, worker_cancel_event \cup {f}}
           /\ worker_cancel_event' # worker_cancel_event => isCancel /\ SoleCancel(f)
           /\ isCancel /\ SoleCancel(f) => f \in worker_cancel_event'
<1>1. waiter_count[f] \in Nat /\ OneLess(waiter_count[f]) \in Nat
      /\ OneLess(waiter_count[f]) <= waiter_count[f]
  BY DEF FlightTypes, OneLess
<1>2. waiter_count' = [waiter_count EXCEPT ![f] = OneLess(waiter_count[f])]
  BY DEF ReleaseWaiter
<1>3. /\ waiter_count' \in [Request -> Nat]
      /\ waiter_count'[f] = OneLess(waiter_count[f])
      /\ \A g \in Request \ {f} : waiter_count'[g] = waiter_count[g]
  BY <1>1, <1>2 DEF FlightTypes
<1>4. \A g \in Request : waiter_count'[g] <= waiter_count[g]
  BY <1>1, <1>3 DEF FlightTypes
<1>5. /\ inflight' = inflight
      /\ worker_cancel_event' \in {worker_cancel_event, worker_cancel_event \cup {f}}
      /\ worker_cancel_event' # worker_cancel_event => isCancel /\ SoleCancel(f)
      /\ isCancel /\ SoleCancel(f) => f \in worker_cancel_event'
  <2> HIDE DEF SoleCancel
  <2> QED
    BY DEF ReleaseWaiter, KeepStopped
<1> QED
  BY <1>3, <1>4, <1>5

\* A cancelled call that waited gives up exactly its own place, so the counts
\* stay exact.
LEMMA CountRelease ==
    ASSUME QueryInv, NEW r \in Request, NEW f \in Request,
           pc[r] \in {"waiting", "draining"}, f = served[r].entry,
           ReleaseWaiter(f, TRUE), UNCHANGED task,
           pc'[r] # "waiting",
           \A s \in Request \ {r} : pc'[s] = pc[s] /\ served'[s] = served[s]
    PROVE  /\ CountInv'
           /\ f \in worker_cancel_event' \ worker_cancel_event => WaitsFor(f)' = {}
<1>0. FlightTypes /\ CountInv /\ CallInv
  BY DEF QueryInv
<1>1. /\ waiter_count'[f] = OneLess(waiter_count[f])
      /\ \A g \in Request \ {f} : waiter_count'[g] = waiter_count[g]
      /\ worker_cancel_event \subseteq worker_cancel_event'
      /\ worker_cancel_event' # worker_cancel_event => SoleCancel(f)
  BY <1>0, ReleaseFacts
<1>2. \A g \in Request \ {f} : WaitsFor(g)' = WaitsFor(g)
  BY DEF WaitsFor
<1>3. CASE pc[r] = "draining"
  <2>1. f \in worker_cancel_event
    BY <1>0, <1>3 DEF CallInv
  <2> QED
    BY <1>0, <1>1, <1>2, <2>1, CountKeep
<1>4. CASE pc[r] = "waiting" /\ f \notin worker_cancel_event /\ task[f] # "done"
  <2>1. WaitsFor(f)' = WaitsFor(f) \ {r} /\ r \in WaitsFor(f)
    BY <1>4 DEF WaitsFor
  <2>2. /\ Cardinality(WaitsFor(f)') = Cardinality(WaitsFor(f)) - 1
        /\ IsFiniteSet(WaitsFor(f)') /\ Cardinality(WaitsFor(f)) \in Nat
        /\ Cardinality(WaitsFor(f)') \in Nat
    BY <2>1, CountsFinite, FS_RemoveElement, FS_CardinalityType
  <2>3. waiter_count[f] = Cardinality(WaitsFor(f))
    BY <1>0, <1>4 DEF CountInv
  <2>4. waiter_count'[f] = Cardinality(WaitsFor(f)')
    BY <1>1, <2>2, <2>3 DEF OneLess
  <2>5. CountInv'
    <3> SUFFICES ASSUME NEW g \in Request, g \notin worker_cancel_event', task'[g] # "done"
                 PROVE  waiter_count'[g] = Cardinality(WaitsFor(g)')
      BY DEF CountInv
    <3> QED
      BY <1>0, <1>1, <1>2, <2>4 DEF CountInv
  <2>6. ASSUME f \in worker_cancel_event' PROVE WaitsFor(f)' = {}
    <3>1. waiter_count'[f] = 0
      BY <1>1, <1>4, <2>6 DEF SoleCancel
    <3> QED
      BY <2>2, <2>4, <3>1, FS_EmptySet
  <2> QED
    BY <2>5, <2>6
<1>5. CASE pc[r] = "waiting" /\ (f \in worker_cancel_event \/ task[f] = "done")
  <2>1. CountInv'
    BY <1>0, <1>1, <1>2, <1>5, CountKeep
  <2>2. f \in worker_cancel_event' => f \in worker_cancel_event
    BY <1>1, <1>5 DEF SoleCancel
  <2> QED
    BY <2>1, <2>2
<1> QED
  BY <1>3, <1>4, <1>5

\* What a call awaits.
LEMMA AwaitedFacts ==
    ASSUME QueryInv, NEW r \in Request, pc[r] \in {"waiting", "draining"}
    PROVE  /\ served[r].entry \in Request /\ served[r].tier = "flight"
           /\ result[r] = "none"
           /\ pc[r] = "draining" => served[r].entry \in worker_cancel_event
  BY DEF QueryInv, CallInv, Awaits

\* The effect of an answer on the variables of the calls.
LEMMA ReturnFacts ==
    ASSUME CallTypes, NEW r \in Request, NEW status \in Status,
           NEW by \in [tier : Tier, entry : Request \cup Artifact \cup {None}],
           Return(r, status, by)
    PROVE  /\ pc' \in [Request -> {"idle", "waiting", "draining", "done"}]
           /\ result' \in [Request -> Status]
           /\ served' \in [Request -> [tier : Tier, entry : Request \cup Artifact \cup {None}]]
           /\ pc'[r] = "done" /\ result'[r] = status /\ served'[r] = by
           /\ \A s \in Request \ {r} : /\ pc'[s] = pc[s] /\ result'[s] = result[s]
                                       /\ served'[s] = served[s]
<1>1. pc' \in [Request -> {"idle", "waiting", "draining", "done"}] /\ pc'[r] = "done"
      /\ \A s \in Request \ {r} : pc'[s] = pc[s]
  BY DEF Return, CallTypes
<1>2. result' \in [Request -> Status] /\ result'[r] = status
      /\ \A s \in Request \ {r} : result'[s] = result[s]
  BY DEF Return, CallTypes
<1>3. served' \in [Request -> [tier : Tier, entry : Request \cup Artifact \cup {None}]]
      /\ served'[r] = by
      /\ \A s \in Request \ {r} : served'[s] = served[s]
  BY DEF Return, CallTypes
<1> QED
  BY <1>1, <1>2, <1>3

LEMMA NobodyServes ==
    /\ NotServed \in [tier : Tier, entry : Request \cup Artifact \cup {None}]
    /\ "cancelled" \in Status /\ "ready" \in Status
  BY DEF NotServed, Tier, Status

LEMMA DeliverStep ==
    ASSUME SInv, NEW r \in Request, Deliver(r)
    PROVE  QueryInv'
<1>0. QueryInv /\ CallTypes /\ FlightTypes /\ CountInv
  BY DEF SInv, QueryInv
<1>1. PICK f : f = served[r].entry
  OBVIOUS
<1>2. /\ pc[r] = "waiting" /\ task[f] = "done"
      /\ Return(r, outcome[f], served[r])
      /\ UNCHANGED <<call, cancelled, task, outcome, cold_lock, storeVars>>
      /\ \/ UNCHANGED <<waiter_count, worker_cancel_event, inflight>>
         \/ ReleaseWaiter(f, FALSE)
  BY <1>1 DEF Deliver
<1>3. f \in Request /\ result[r] = "none"
  BY <1>0, <1>1, <1>2, AwaitedFacts
<1>4. /\ outcome[f] \in Status
      /\ served[r] \in [tier : Tier, entry : Request \cup Artifact \cup {None}]
  BY <1>0, <1>3 DEF CallTypes, FlightTypes
<1>5. /\ CallTypes'
      /\ pc'[r] = "done" /\ result'[r] = outcome[f] /\ served'[r] = served[r]
      /\ \A s \in Request \ {r} : /\ pc'[s] = pc[s] /\ result'[s] = result[s]
                                  /\ served'[s] = served[s]
  BY <1>0, <1>2, <1>4, ReturnFacts DEF CallTypes
<1>6. /\ waiter_count' \in [Request -> Nat]
      /\ \A g \in Request \ {f} : waiter_count'[g] = waiter_count[g]
      /\ \A g \in Request : waiter_count'[g] <= waiter_count[g]
      /\ worker_cancel_event' = worker_cancel_event
      /\ inflight' = inflight
  <2>1. CASE UNCHANGED <<waiter_count, worker_cancel_event, inflight>>
    BY <1>0, <2>1 DEF FlightTypes
  <2>2. CASE ReleaseWaiter(f, FALSE)
    BY <1>0, <1>3, <2>2, ReleaseFacts
  <2> QED
    BY <1>2, <2>1, <2>2
<1>7. CountInv'
  <2>1. \A g \in Request \ {f} : WaitsFor(g)' = WaitsFor(g)
    BY <1>1, <1>5 DEF WaitsFor
  <2> QED
    BY <1>0, <1>2, <1>6, <2>1, CountKeep
<1>8. handoffs' = handoffs /\ worker_cancel_event \subseteq Request
  BY <1>0, <1>2 DEF storeVars, FlightTypes
<1> QED
  BY <1>0, <1>1, <1>2, <1>5, <1>6, <1>7, <1>8, LeaveStep

LEMMA CancelCallerStep ==
    ASSUME SInv, NEW r \in Request, CancelCaller(r)
    PROVE  /\ QueryInv'
           /\ \A f \in worker_cancel_event' \ worker_cancel_event : WaitsFor(f)' = {}
<1>0. QueryInv /\ CallTypes /\ FlightTypes
  BY DEF SInv, QueryInv
<1>1. PICK f : f = served[r].entry
  OBVIOUS
<1>2. /\ pc[r] \in {"waiting", "draining"}
      /\ cancelled' = cancelled \cup {r}
      /\ Return(r, "cancelled", NotServed)
      /\ UNCHANGED <<call, task, outcome, cold_lock, storeVars>>
      /\ ReleaseWaiter(f, TRUE)
  BY <1>1 DEF CancelCaller
<1>3. f \in Request /\ result[r] = "none"
  BY <1>0, <1>1, <1>2, AwaitedFacts
<1>4. /\ CallTypes'
      /\ pc'[r] = "done" /\ result'[r] = "cancelled" /\ served'[r] = NotServed
      /\ \A s \in Request \ {r} : /\ pc'[s] = pc[s] /\ result'[s] = result[s]
                                  /\ served'[s] = served[s]
  BY <1>0, <1>2, ReturnFacts, NobodyServes DEF CallTypes
<1>5. /\ waiter_count' \in [Request -> Nat]
      /\ \A g \in Request : waiter_count'[g] <= waiter_count[g]
      /\ worker_cancel_event' \in {worker_cancel_event, worker_cancel_event \cup {f}}
      /\ inflight' = inflight
  BY <1>0, <1>2, <1>3, ReleaseFacts
<1>6. /\ CountInv'
      /\ f \in worker_cancel_event' \ worker_cancel_event => WaitsFor(f)' = {}
  BY <1>0, <1>1, <1>2, <1>3, <1>4, CountRelease
<1>7. /\ handoffs' = handoffs
      /\ worker_cancel_event \subseteq worker_cancel_event' /\ worker_cancel_event' \subseteq Request
  BY <1>0, <1>2, <1>3, <1>5 DEF storeVars, FlightTypes
<1>8. QueryInv'
  BY <1>0, <1>2, <1>4, <1>5, <1>6, <1>7, LeaveStep
<1> QED
  BY <1>5, <1>6, <1>8

LEMMA CancelExplicitStep ==
    ASSUME SInv, NEW r \in Request, CancelExplicit(r)
    PROVE  /\ QueryInv'
           /\ \A f \in worker_cancel_event' \ worker_cancel_event : WaitsFor(f)' = {}
<1>0. QueryInv /\ CallTypes /\ FlightTypes
  BY DEF SInv, QueryInv
<1>1. PICK f : f = served[r].entry
  OBVIOUS
<1>2. /\ pc[r] = "waiting"
      /\ cancelled' = cancelled \cup {r}
      /\ UNCHANGED <<call, task, outcome, cold_lock, storeVars>>
      /\ ReleaseWaiter(f, TRUE)
      /\ IF SoleCancel(f)
         THEN pc' = [pc EXCEPT ![r] = "draining"] /\ UNCHANGED <<result, served>>
         ELSE Return(r, "cancelled", NotServed)
  BY <1>1 DEF CancelExplicit
<1>3. f \in Request /\ result[r] = "none"
  BY <1>0, <1>1, <1>2, AwaitedFacts
<1>4. /\ waiter_count' \in [Request -> Nat]
      /\ \A g \in Request : waiter_count'[g] <= waiter_count[g]
      /\ worker_cancel_event' \in {worker_cancel_event, worker_cancel_event \cup {f}}
      /\ SoleCancel(f) => f \in worker_cancel_event'
      /\ inflight' = inflight
  <2> HIDE DEF SoleCancel
  <2> QED
    BY <1>0, <1>2, <1>3, ReleaseFacts
<1>5. /\ CallTypes'
      /\ \A s \in Request \ {r} : /\ pc'[s] = pc[s] /\ result'[s] = result[s]
                                  /\ served'[s] = served[s]
      /\ \/ pc'[r] = "done" /\ result'[r] = "cancelled" /\ served'[r] = NotServed
         \/ /\ pc'[r] = "draining"
            /\ served'[r] = served[r] /\ result'[r] = result[r]
            /\ f \in worker_cancel_event'
  <2>1. CASE SoleCancel(f)
    BY <1>0, <1>2, <1>4, <2>1 DEF CallTypes
  <2>2. CASE ~SoleCancel(f)
    <3>1. Return(r, "cancelled", NotServed)
      BY <1>2, <2>2
    <3> QED
      BY <1>0, <1>2, <3>1, ReturnFacts, NobodyServes DEF CallTypes
  <2> QED
    BY <2>1, <2>2
<1>6. /\ CountInv'
      /\ f \in worker_cancel_event' \ worker_cancel_event => WaitsFor(f)' = {}
  BY <1>0, <1>1, <1>2, <1>3, <1>5, CountRelease
<1>7. /\ handoffs' = handoffs
      /\ worker_cancel_event \subseteq worker_cancel_event' /\ worker_cancel_event' \subseteq Request
  BY <1>0, <1>2, <1>3, <1>4 DEF storeVars, FlightTypes
<1>8. QueryInv'
  BY <1>0, <1>1, <1>2, <1>4, <1>5, <1>6, <1>7, LeaveStep
<1> QED
  BY <1>4, <1>6, <1>8

LEMMA DrainedStep ==
    ASSUME SInv, NEW r \in Request, DrainedCaller(r)
    PROVE  QueryInv'
<1>0. QueryInv /\ CallTypes /\ FlightTypes /\ CountInv
  BY DEF SInv, QueryInv
<1>1. /\ pc[r] = "draining"
      /\ Return(r, "cancelled", NotServed)
      /\ UNCHANGED <<call, cancelled, inflight, waiter_count, worker_cancel_event,
                     task, outcome, handoffs>>
  BY DEF DrainedCaller, flightVars, storeVars
<1>2. /\ CallTypes'
      /\ pc'[r] = "done" /\ result'[r] = "cancelled" /\ served'[r] = NotServed
      /\ \A s \in Request \ {r} : /\ pc'[s] = pc[s] /\ result'[s] = result[s]
                                  /\ served'[s] = served[s]
  BY <1>0, <1>1, ReturnFacts, NobodyServes DEF CallTypes
<1>3. CountInv'
  <2>1. \A g \in Request : WaitsFor(g)' = WaitsFor(g)
    BY <1>1, <1>2 DEF WaitsFor
  <2> QED
    BY <1>0, <1>1, <2>1, CountKeep
<1>4. /\ waiter_count' \in [Request -> Nat]
      /\ \A g \in Request : waiter_count'[g] <= waiter_count[g]
      /\ worker_cancel_event \subseteq worker_cancel_event' /\ worker_cancel_event' \subseteq Request
  BY <1>0, <1>1 DEF FlightTypes
<1> QED
  BY <1>0, <1>1, <1>2, <1>3, <1>4, LeaveStep

\* A running flight goes from one phase to another.
LEMMA ProceedStep ==
    ASSUME QueryInv, NEW f \in Request, task[f] \notin {"none", "done"},
           NEW phase \in TaskState \ {"none", "done"}, Proceed(f, phase),
           handoffs' = handoffs
    PROVE  QueryInv'
<1>0. CallTypes /\ FlightTypes /\ CallInv /\ FlightInv /\ CountInv /\ HandoffInv
  BY DEF QueryInv
<1>1. /\ task' = [task EXCEPT ![f] = phase]
      /\ UNCHANGED <<call, pc, result, served, cancelled, inflight, waiter_count,
                     worker_cancel_event, outcome>>
  BY DEF Proceed, callVars
<1>2. /\ task' \in [Request -> TaskState]
      /\ \A g \in Request : (task'[g] = "none" <=> task[g] = "none")
                            /\ (task'[g] = "done" <=> task[g] = "done")
  BY <1>0, <1>1 DEF FlightTypes
<1>3. CallTypes' /\ FlightTypes'
  BY <1>0, <1>1, <1>2 DEF CallTypes, FlightTypes
<1>4. CallInv'
  BY <1>0, <1>1, <1>2 DEF CallInv, Awaits
<1>5. FlightInv'
  BY <1>0, <1>1, <1>2 DEF FlightInv, NoDuplicateFlight, FlightKey, FlightTypes
<1>6. CountInv'
  <2>1. \A g \in Request : WaitsFor(g)' = WaitsFor(g)
    BY <1>1 DEF WaitsFor
  <2> QED
    BY <1>0, <1>1, <1>2, <2>1, CountKeep
<1>7. BoundInv'
  BY <1>1 DEF QueryInv, BoundInv, Begun
<1>8. OutcomesStay
  BY <1>1 DEF OutcomesStay
<1>9. HandoffInv'
  BY <1>0, <1>1, <1>8, HandoffKeep DEF HandoffInv
<1>10. AnswerInv'
  BY <1>1, <1>8, AnswerKeep DEF QueryInv
<1> QED
  BY <1>3, <1>4, <1>5, <1>6, <1>7, <1>9, <1>10 DEF QueryInv

\* A running flight ends, and what it leaves is a handoff that may be given.
LEMMA FinishStep ==
    ASSUME QueryInv, NEW f \in Request, task[f] \notin {"none", "done"},
           NEW status \in Status, Finish(f, status), HandoffInv'
    PROVE  QueryInv'
<1>0. CallTypes /\ FlightTypes /\ CallInv /\ FlightInv /\ CountInv
  BY DEF QueryInv
<1>1. /\ task' = [task EXCEPT ![f] = "done"]
      /\ outcome' = [outcome EXCEPT ![f] = status]
      /\ inflight' = IF inflight[call[f]] = f THEN [inflight EXCEPT ![call[f]] = None]
                     ELSE inflight
      /\ UNCHANGED <<call, pc, result, served, cancelled, waiter_count,
                     worker_cancel_event>>
  BY DEF Finish, callVars, FlightKey
<1>2. /\ task' \in [Request -> TaskState] /\ outcome' \in [Request -> Status]
      /\ task'[f] = "done"
      /\ \A g \in Request \ {f} : task'[g] = task[g] /\ outcome'[g] = outcome[g]
  BY <1>0, <1>1 DEF FlightTypes, TaskState
<1>3. /\ inflight' \in [Call -> Request \cup {None}]
      /\ \A k \in Call : inflight'[k] = IF k = call[f] /\ inflight[k] = f THEN None
                                        ELSE inflight[k]
  <2>1. call[f] \in Call
    BY <1>0, SgFacts
  <2> QED
    BY <1>0, <1>1, <2>1 DEF FlightTypes
<1>4. CallTypes' /\ FlightTypes'
  BY <1>0, <1>1, <1>2, <1>3 DEF CallTypes, FlightTypes
<1>5. CallInv'
  BY <1>0, <1>1, <1>2 DEF CallInv, Awaits
<1>6. FlightInv'
  <2>1. \A g \in Request : task'[g] # "done" => outcome'[g] = "none"
    BY <1>0, <1>2 DEF FlightInv
  <2>2. ASSUME NEW k \in Call, inflight'[k] # None
        PROVE  call[inflight'[k]] = k /\ task'[inflight'[k]] # "none"
    <3>1. inflight'[k] = inflight[k] /\ inflight[k] \in Request
      BY <1>0, <1>3, <2>2 DEF FlightTypes
    <3> QED
      BY <1>0, <1>2, <2>2, <3>1 DEF FlightInv
  <2>3. ASSUME NEW g \in Request, task'[g] \notin {"none", "done"}
        PROVE  inflight'[call[g]] = g
    <3>1. g # f /\ task'[g] = task[g] /\ call[g] \in Call
      BY <1>0, <1>2, <2>3, SgFacts
    <3>2. inflight[call[g]] = g
      BY <1>0, <2>3, <3>1 DEF FlightInv, NoDuplicateFlight, FlightKey
    <3> QED
      BY <1>3, <3>1, <3>2
  <2> QED
    BY <1>1, <2>1, <2>2, <2>3 DEF FlightInv, NoDuplicateFlight, FlightKey
<1>7. CountInv'
  <2>1. \A g \in Request : WaitsFor(g)' = WaitsFor(g)
    BY <1>1 DEF WaitsFor
  <2> QED
    BY <1>0, <1>1, <1>2, <2>1, CountKeep
<1>8. BoundInv'
  BY <1>1 DEF QueryInv, BoundInv, Begun
<1>9. OutcomesStay
  BY <1>0, <1>2 DEF OutcomesStay, FlightInv
<1>10. AnswerInv'
  BY <1>1, <1>9, AnswerKeep DEF QueryInv
<1> QED
  BY <1>4, <1>5, <1>6, <1>7, <1>8, <1>10 DEF QueryInv

\* Nothing becomes a handoff when a flight ends.
LEMMA FinishKeeps ==
    ASSUME QueryInv, NEW f \in Request, task[f] \notin {"none", "done"},
           NEW status \in Status, Finish(f, status), handoffs' = handoffs
    PROVE  QueryInv'
<1>1. /\ FlightInv /\ FlightTypes /\ HandoffInv
      /\ call' = call /\ served' = served
      /\ outcome' = [outcome EXCEPT ![f] = status]
  BY DEF QueryInv, Finish, callVars
<1>2. OutcomesStay
  BY <1>1 DEF OutcomesStay, FlightInv, FlightTypes
<1>3. HandoffInv'
  BY <1>1, <1>2, HandoffKeep DEF HandoffInv
<1> QED
  BY <1>3, FinishStep

\* A published handoff is the only one of its key.
LEMMA PublishHandoffFacts ==
    ASSUME CallTypes, HandoffInv, NEW f \in Request, PublishHandoff(f)
    PROVE  \/ handoffs' = handoffs
           \/ \E kept \in Seq(Request) :
                 /\ handoffs' = Append(kept, f)
                 /\ Distinct(kept)
                 /\ ToSet(kept) \subseteq ToSet(handoffs)
                 /\ \A e \in ToSet(kept) : call[e] # call[f]
<1> DEFINE P == HandoffAt(f)
           others == Pop(handoffs, P)
           bytes == CacheBytes[artifact(f)]
           room(s) == Len(s) < MaxHandoffs /\ HandoffBytes(s) + bytes <= MaxHandoffBytes
           I == {i \in 1 .. Len(others) + 1 : room(SubSeq(others, i, Len(others)))}
           kept == SubSeq(others, Min(I), Len(others))
<1>1. CASE artifact(f) \notin Eligible \/ bytes > MaxHandoffBytes
  BY <1>1 DEF PublishHandoff
<1>2. CASE ~(artifact(f) \notin Eligible \/ bytes > MaxHandoffBytes)
  <2>1. handoffs' = Append(kept, f)
    <3> HIDE DEF HandoffAt, HandoffBytes
    <3> QED
      BY <1>2 DEF PublishHandoff
  <2>2. P \in SUBSET DOMAIN handoffs
    BY DEF HandoffAt
  <2>3. \A i, j \in P : call[handoffs[i]] = call[handoffs[j]]
    BY DEF HandoffAt, FlightKey
  <2>4. /\ others \in Seq(Request) /\ Distinct(others)
        /\ ToSet(others) \subseteq ToSet(handoffs)
        /\ \A i \in P : handoffs[i] \notin ToSet(others)
    <3> HIDE DEF P
    <3> QED
      BY <2>2, <2>3, HandoffPop
  <2>5. \A e \in ToSet(others) : call[e] # call[f]
    <3> SUFFICES ASSUME NEW e \in ToSet(others), call[e] = call[f] PROVE FALSE
      OBVIOUS
    <3>1. PICK i \in DOMAIN handoffs : handoffs[i] = e
      BY <2>4 DEF ToSet
    <3>2. i \in P
      BY <3>1 DEF HandoffAt, FlightKey
    <3> QED
      BY <2>4, <3>1, <3>2
  <2> HIDE DEF others, P
  <2>6. Len(others) \in Nat
    BY <2>4, LenProperties
  <2>7. Len(others) + 1 \in I
    <3>1. SubSeq(others, Len(others) + 1, Len(others)) = <<>>
      BY <2>6, SubSeqEmpty
    <3>2. Len(<<>>) = 0 /\ HandoffBytes(<<>>) = 0
      <4>1. \A size : SizeOf(<<>>, size) = 0
        <5>1. ToSet(<<>>) = {}
          BY DEF ToSet
        <5> QED
          BY <5>1, FS_EmptySet DEF SizeOf
      <4> QED
        BY <4>1 DEF HandoffBytes
    <3>3. /\ MaxHandoffs \in Nat \ {0} /\ MaxHandoffBytes \in Nat /\ bytes \in Nat
          /\ bytes <= MaxHandoffBytes
      BY <1>2, SourceGraphAssumption, SgFacts
    <3>4. room(<<>>)
      <4> HIDE DEF bytes
      <4> QED
        BY <3>2, <3>3
    <3>5. room(SubSeq(others, Len(others) + 1, Len(others)))
      BY <3>1, <3>4, Zenon
    <3>6. Len(others) + 1 \in 1 .. Len(others) + 1
      BY <2>6
    <3> HIDE DEF room
    <3> QED
      BY <3>5, <3>6
  <2>8. Min(I) \in 1 .. Len(others) + 1
    <3>1. I \in SUBSET Nat /\ I # {}
      BY <2>6, <2>7
    <3>2. Min(I) \in I
      <4> HIDE DEF I
      <4> QED
        BY <3>1, LeastIn
    <3> QED
      BY <3>2
  <2> HIDE DEF I
  <2>9. /\ kept \in Seq(Request)
        /\ ToSet(kept) \subseteq ToSet(others)
        /\ Distinct(kept)
    BY <2>4, <2>8, SuffixFacts
  <2> HIDE DEF kept
  <2> QED
    BY <2>1, <2>4, <2>5, <2>9
<1> QED
  BY <1>1, <1>2

\* A flight that succeeded leaves its result to one later call of its key.
LEMMA FinishHandsOff ==
    ASSUME QueryInv, NEW f \in Request, task[f] \notin {"none", "done"},
           Finish(f, "ready"), ~IsReusable(f), PublishHandoff(f)
    PROVE  QueryInv'
<1>0. /\ CallTypes /\ FlightInv /\ FlightTypes /\ HandoffInv
      /\ call' = call /\ served' = served
      /\ outcome' = [outcome EXCEPT ![f] = "ready"]
  BY DEF QueryInv, Finish, callVars
<1>1. OutcomesStay /\ outcome[f] = "none" /\ outcome'[f] = "ready"
  BY <1>0 DEF OutcomesStay, FlightInv, FlightTypes
<1>2. CASE handoffs' = handoffs
  BY <1>2, FinishKeeps DEF Status
<1>3. ASSUME NEW kept \in Seq(Request),
             handoffs' = Append(kept, f), Distinct(kept),
             ToSet(kept) \subseteq ToSet(handoffs),
             \A e \in ToSet(kept) : call[e] # call[f]
      PROVE  QueryInv'
  <2>1. PICK t \in Seq(Request) : t = Append(kept, f)
    BY AppendProperties
  <2>2. f \notin ToSet(handoffs)
    BY <1>0, <1>1 DEF HandoffInv
  <2>3. \A e : e \in ToSet(t) <=> e \in ToSet(kept) \/ e = f
    BY <2>1, AppendFacts
  <2>4. Distinct(t)
    BY <1>3, <2>1, <2>2, AppendFacts
  <2>5. handoffs' = t
    BY <1>3, <2>1
  <2>6. \A d, e \in ToSet(t) : call[d] = call[e] => d = e
    BY <1>0, <1>3, <2>3 DEF HandoffInv
  <2>7. ToSet(handoffs) \subseteq Request
    BY <1>0 DEF HandoffInv, ToSet
  <2>8. \A e \in ToSet(t) : outcome'[e] = "ready" /\ ~IsReusable(e)
    <3> HIDE DEF IsReusable
    <3> QED
      BY <1>0, <1>1, <1>3, <2>3, <2>7 DEF HandoffInv, OutcomesStay
  <2>9. ASSUME NEW r \in Request, served[r].tier = "handoff"
        PROVE  /\ served[r].entry \in Request \ ToSet(t)
               /\ outcome'[served[r].entry] = "ready"
               /\ call[served[r].entry] = call[r]
               /\ ~IsReusable(r)
               /\ \A s \in Request : s # r => served[s] # served[r]
    <3>1. /\ served[r].entry \in Request \ ToSet(handoffs)
          /\ outcome[served[r].entry] = "ready"
          /\ call[served[r].entry] = call[r]
          /\ ~IsReusable(r)
          /\ \A s \in Request : s # r => served[s] # served[r]
      BY <1>0, <2>9 DEF HandoffInv
    <3>2. served[r].entry # f
      BY <1>1, <3>1
    <3> QED
      BY <1>1, <1>3, <2>3, <3>1, <3>2 DEF OutcomesStay
  <2>10. \A e : IsReusable(e)' <=> IsReusable(e)
    BY <1>0 DEF IsReusable, artifact
  <2>11. HandoffInv'
    <3> HIDE DEF IsReusable
    <3> QED
      BY <1>0, <2>4, <2>5, <2>6, <2>8, <2>9, <2>10 DEF HandoffInv, Distinct
  <2> QED
    BY <2>11, FinishStep DEF Status
<1> QED
  BY <1>0, <1>2, <1>3, PublishHandoffFacts

LEMMA FlightQuery ==
    ASSUME SInv, NEW f \in Request, FlightStep(f)
    PROVE  QueryInv'
<1>0. QueryInv
  BY DEF SInv
<1>1. /\ {"cancelled", "failed", "ready"} \subseteq Status
      /\ {"start", "disk_lookup", "disk_load", "admission", "building", "loading",
          "publishing"} \subseteq TaskState \ {"none", "done"}
  BY DEF Status, TaskState
<1>2. ASSUME NEW status \in {"cancelled", "failed", "ready"}, Finish(f, status),
             task[f] \notin {"none", "done"}, handoffs' = handoffs
      PROVE  QueryInv'
  BY <1>0, <1>1, <1>2, FinishKeeps
<1>3. ASSUME NEW phase \in {"start", "disk_lookup", "disk_load", "admission", "building",
                            "loading", "publishing"},
             Proceed(f, phase), task[f] \notin {"none", "done"}, handoffs' = handoffs
      PROVE  QueryInv'
  BY <1>0, <1>1, <1>3, ProceedStep
<1>4. ASSUME Finish(f, "ready"), Publish(f), task[f] \notin {"none", "done"}
      PROVE  QueryInv'
  <2>1. CASE IsReusable(f)
    <3>1. handoffs' = handoffs
      BY <1>4, <2>1 DEF Publish
    <3> QED
      BY <1>2, <1>4, <3>1
  <2>2. CASE ~IsReusable(f)
    <3>1. PublishHandoff(f)
      BY <1>4, <2>2 DEF Publish
    <3> QED
      BY <1>0, <1>4, <2>2, <3>1, FinishHandsOff
  <2> QED
    BY <2>1, <2>2
<1>5. CASE StartFlight(f)
  BY <1>2, <1>3, <1>5 DEF StartFlight, storeVars
<1>6. CASE DiskLookup(f)
  BY <1>2, <1>3, <1>6 DEF DiskLookup, storeVars
<1>7. CASE DiskLoad(f)
  BY <1>2, <1>3, <1>7 DEF DiskLoad
<1>8. CASE CancelAdmission(f)
  BY <1>2, <1>8 DEF CancelAdmission, storeVars
<1>9. CASE Admit(f)
  BY <1>3, <1>9 DEF Admit, storeVars
<1>10. CASE WorkerReturns(f)
  BY <1>2, <1>3, <1>10 DEF WorkerReturns, storeVars
<1>11. CASE LoadPayload(f)
  BY <1>2, <1>3, <1>4, <1>11 DEF LoadPayload, storeVars
<1>12. CASE DiskPublish(f)
  BY <1>2, <1>4, <1>12 DEF DiskPublish, storeVars
<1> QED
  BY <1>5, <1>6, <1>7, <1>8, <1>9, <1>10, <1>11, <1>12 DEF FlightStep

LEMMA ExpireStep ==
    ASSUME SInv, NEW f \in Request, ExpireHandoff(f)
    PROVE  QueryInv'
<1>0. QueryInv /\ HandoffInv
  BY DEF SInv, QueryInv
<1>1. /\ UNCHANGED <<call, pc, result, served, cancelled>>
      /\ UNCHANGED <<inflight, waiter_count, worker_cancel_event, task, outcome>>
      /\ handoffs' = Without(handoffs, f)
  BY DEF ExpireHandoff, callVars, flightVars
<1>2. CallTypes' /\ FlightTypes'
  BY <1>0, <1>1 DEF QueryInv, CallTypes, FlightTypes
<1>3. CallInv' /\ FlightInv'
  BY <1>0, <1>1 DEF QueryInv, CallInv, FlightInv, NoDuplicateFlight, FlightKey, Awaits
<1>4. CountInv' /\ BoundInv'
  BY <1>0, <1>1 DEF QueryInv, CountInv, BoundInv, WaitsFor, Begun
<1>5. OutcomesStay
  BY <1>1 DEF OutcomesStay
<1>6. HandoffInv'
  BY <1>0, <1>1, <1>5, WithoutFacts, HandoffKeep
<1>7. AnswerInv'
  BY <1>0, <1>1, <1>5, AnswerKeep DEF QueryInv
<1> QED
  BY <1>2, <1>3, <1>4, <1>6, <1>7 DEF QueryInv

(***************************************************************************)
(* The memory tier, the admission and the disk tier under a query's step   *)
(***************************************************************************)

\* What a step may do to the memory tier.
CacheStep ==
    \/ cache' = cache
    \/ \E e \in ToSet(cache) : cache' = Touch(cache, e)
    \/ \E a \in Reusable : PublishEntry(a)

LEMMA CacheKept ==
    ASSUME CacheInv, CacheStep
    PROVE  CacheInv'
<1>0. /\ cache \in Seq(Artifact) /\ Distinct(cache) /\ ToSet(cache) \subseteq Reusable
      /\ Fits(cache, CacheBytes, MaxCacheEntries, MaxCacheBytes)
  BY DEF CacheInv, CacheHonest, Distinct
<1>1. CASE cache' = cache
  BY <1>1 DEF CacheInv, CacheHonest
<1>2. ASSUME NEW e \in ToSet(cache), cache' = Touch(cache, e)
      PROVE  CacheInv'
  <2>1. e \in Artifact
    BY <1>0, <1>2 DEF ToSet
  <2>2. PICK t : t = Touch(cache, e)
    OBVIOUS
  <2>3. /\ t \in Seq(Artifact) /\ Distinct(t)
        /\ ToSet(t) = ToSet(cache) /\ Len(t) = Len(cache)
    <3>1. /\ Touch(cache, e) \in Seq(Artifact)
          /\ ToSet(Touch(cache, e)) = ToSet(cache) \cup {e}
          /\ Len(Touch(cache, e)) = Len(cache)
          /\ Distinct(Touch(cache, e))
      BY <1>0, <2>1, TouchFacts
    <3> HIDE DEF Touch
    <3> QED
      BY <2>2, <3>1
  <2>4. Fits(t, CacheBytes, MaxCacheEntries, MaxCacheBytes)
    BY <1>0, <2>3 DEF Fits, SizeOf
  <2> QED
    BY <1>0, <1>2, <2>2, <2>3, <2>4 DEF CacheInv, CacheHonest, Distinct
<1>3. ASSUME NEW a \in Reusable, PublishEntry(a)
      PROVE  CacheInv'
  <2>1. a \in Artifact /\ MaxCacheEntries \in Nat /\ MaxCacheBytes \in Nat
    BY SourceGraphAssumption
  <2>2. PICK t : t = Touch(cache, a)
    OBVIOUS
  <2>3. /\ t \in Seq(Artifact) /\ Distinct(t)
        /\ ToSet(t) = ToSet(cache) \cup {a}
    BY <1>0, <2>1, <2>2, TouchFacts
  <2>4. cache' = EvictOldest(t, CacheBytes, MaxCacheEntries, MaxCacheBytes)
    BY <1>3, <2>2 DEF PublishEntry
  <2>5. PICK u : u = EvictOldest(t, CacheBytes, MaxCacheEntries, MaxCacheBytes)
    OBVIOUS
  <2>6. /\ u \in Seq(Artifact) /\ ToSet(u) \subseteq ToSet(t)
        /\ Fits(u, CacheBytes, MaxCacheEntries, MaxCacheBytes)
        /\ Distinct(t) => Distinct(u)
    BY <2>1, <2>3, <2>5, EvictFacts
  <2>7. ToSet(u) \subseteq Reusable
    BY <1>0, <2>3, <2>6
  <2> QED
    BY <2>3, <2>4, <2>5, <2>6, <2>7 DEF CacheInv, CacheHonest, Distinct
<1> QED
  BY <1>1, <1>2, <1>3 DEF CacheStep

LEMMA CallCache ==
    ASSUME SInv, NEW r \in Request, CallStep(r)
    PROVE  CacheStep
<1>0. CacheInv
  BY DEF SInv
<1>1. CASE PrepareHit(r)
  <2>1. PICK e \in Found(artifact(r)) : cache' = Touch(cache, e)
    BY <1>1 DEF PrepareHit
  <2>2. e \in ToSet(cache)
    BY <1>0, <2>1, FoundFacts
  <2> QED
    BY <2>1, <2>2 DEF CacheStep
<1>2. CASE ~PrepareHit(r)
  <2>1. cache' = cache
    BY <1>2 DEF CallStep, PrepareCancelledEarly, PrepareHandoff, PrepareJoin, PrepareCreate,
                Deliver, CancelCaller, CancelExplicit, DrainedCaller, storeVars
  <2> QED
    BY <2>1 DEF CacheStep
<1> QED
  BY <1>1, <1>2

LEMMA FlightCache ==
    ASSUME SInv, NEW f \in Request, FlightStep(f)
    PROVE  CacheStep
<1>1. ASSUME IsReusable(f), PublishReusable(f) PROVE CacheStep
  <2>1. cache' = cache \/ PublishEntry(artifact(f))
    BY <1>1 DEF PublishReusable
  <2>2. artifact(f) \in Reusable
    BY <1>1 DEF IsReusable
  <2> QED
    BY <2>1, <2>2 DEF CacheStep
<1>2. ASSUME Publish(f) PROVE CacheStep
  <2>1. CASE IsReusable(f)
    <3>1. PublishReusable(f)
      BY <1>2, <2>1 DEF Publish
    <3> QED
      BY <1>1, <2>1, <3>1
  <2>2. CASE ~IsReusable(f)
    BY <1>2, <2>2 DEF Publish, CacheStep
  <2> QED
    BY <2>1, <2>2
<1>3. CASE DiskLoad(f)
  <2>1. IsReusable(f)
    BY <1>3 DEF DiskLoad, SInv, DiskInv
  <2>2. cache' = cache \/ PublishReusable(f)
    BY <1>3 DEF DiskLoad
  <2> QED
    BY <1>1, <2>1, <2>2 DEF CacheStep
<1>4. CASE LoadPayload(f)
  <2>1. cache' = cache \/ Publish(f)
    BY <1>4 DEF LoadPayload, storeVars
  <2> QED
    BY <1>2, <2>1 DEF CacheStep
<1>5. CASE DiskPublish(f)
  <2>1. cache' = cache \/ Publish(f)
    BY <1>5 DEF DiskPublish, storeVars
  <2> QED
    BY <1>2, <2>1 DEF CacheStep
<1>6. CASE ~(DiskLoad(f) \/ LoadPayload(f) \/ DiskPublish(f))
  <2>1. cache' = cache
    BY <1>6 DEF FlightStep, StartFlight, DiskLookup, CancelAdmission, Admit, WorkerReturns,
                storeVars
  <2> QED
    BY <2>1 DEF CacheStep
<1> QED
  BY <1>3, <1>4, <1>5, <1>6

\* The admission, for queries and for scans.
LockParts ==
    /\ cold_lock \in Request \cup OtherBuild \cup {None}
    /\ \A f \in Request : task[f] = "building" <=> cold_lock = f
    /\ \A s \in OtherBuild : spc[s] = "running" <=> cold_lock = s

LEMMA LockSplit == (LockInv <=> LockParts) /\ (LockInv' <=> LockParts')
<1>1. Request \cap OtherBuild = {}
  BY SgFacts
<1>2. LockInv <=> LockParts
  BY <1>1 DEF LockInv, LockParts, OneColdFrontend, Building, Scanning
<1>3. LockInv' <=> LockParts'
  BY <1>1 DEF LockInv, LockParts, OneColdFrontend, Building, Scanning
<1> QED
  BY <1>2, <1>3

\* The tasks of the flights under a step of a call.
LEMMA CallTask ==
    ASSUME SInv, NEW r \in Request, CallStep(r)
    PROVE  /\ cold_lock' = cold_lock /\ call' = call
           /\ \A f \in Request : task'[f] = task[f] \/ (task'[f] = "start" /\ task[f] = "none")
<1>1. CASE PrepareCreate(r)
  <2>1. task' = [task EXCEPT ![r] = "start"] /\ pc[r] = "idle" /\ call' = call
        /\ cold_lock' = cold_lock
    BY <1>1 DEF PrepareCreate, Missed
  <2>2. task[r] = "none" /\ task \in [Request -> TaskState]
    BY <2>1 DEF SInv, QueryInv, CallInv, FlightTypes
  <2> QED
    BY <2>1, <2>2
<1>2. CASE ~PrepareCreate(r)
  <2>1. task' = task /\ cold_lock' = cold_lock /\ call' = call
    BY <1>2 DEF CallStep, PrepareCancelledEarly, PrepareHit, PrepareHandoff, PrepareJoin,
                Deliver, CancelCaller, CancelExplicit, DrainedCaller, flightVars
  <2> QED
    BY <2>1
<1> QED
  BY <1>1, <1>2

\* The task of a flight under its own steps, and the admission with it.
LEMMA FlightTask ==
    ASSUME SInv, NEW f \in Request, FlightStep(f)
    PROVE  /\ call' = call
           /\ \A g \in Request \ {f} : task'[g] = task[g]
           /\ task'[f] \in {"disk_lookup", "disk_load"} => IsReusable(f)
           /\ \/ /\ task[f] # "building" /\ task'[f] # "building"
                 /\ cold_lock' = cold_lock
              \/ /\ task[f] # "building" /\ task'[f] = "building"
                 /\ cold_lock = None /\ cold_lock' = f
              \/ /\ task[f] = "building" /\ task'[f] # "building"
                 /\ cold_lock' = None
<1>0. task \in [Request -> TaskState] /\ DiskInv
  BY DEF SInv, QueryInv, FlightTypes
<1>1. ASSUME NEW phase, Proceed(f, phase)
      PROVE  /\ call' = call /\ task'[f] = phase
             /\ \A g \in Request \ {f} : task'[g] = task[g]
  BY <1>0, <1>1 DEF Proceed
<1>2. ASSUME NEW status, Finish(f, status)
      PROVE  /\ call' = call /\ task'[f] = "done"
             /\ \A g \in Request \ {f} : task'[g] = task[g]
  BY <1>0, <1>2 DEF Finish
<1>3. CASE StartFlight(f)
  <2>1. task[f] = "start" /\ cold_lock' = cold_lock
    BY <1>3 DEF StartFlight
  <2>2. \/ Proceed(f, "admission") \/ Finish(f, "cancelled")
        \/ IsReusable(f) /\ Proceed(f, "disk_lookup")
    BY <1>3 DEF StartFlight
  <2> QED
    BY <1>1, <1>2, <2>1, <2>2
<1>4. CASE DiskLookup(f)
  <2>1. task[f] = "disk_lookup" /\ cold_lock' = cold_lock /\ IsReusable(f)
    BY <1>0, <1>4 DEF DiskLookup, DiskInv
  <2>2. Proceed(f, "admission") \/ Finish(f, "cancelled") \/ Proceed(f, "disk_load")
    BY <1>4 DEF DiskLookup
  <2> QED
    BY <1>1, <1>2, <2>1, <2>2
<1>5. CASE DiskLoad(f)
  <2>1. task[f] = "disk_load" /\ cold_lock' = cold_lock
    BY <1>5 DEF DiskLoad
  <2>2. Proceed(f, "admission") \/ Finish(f, "cancelled") \/ Finish(f, "ready")
    BY <1>5 DEF DiskLoad
  <2> QED
    BY <1>1, <1>2, <2>1, <2>2
<1>6. CASE CancelAdmission(f)
  BY <1>2, <1>6 DEF CancelAdmission
<1>7. CASE Admit(f)
  BY <1>1, <1>7 DEF Admit, LockFree
<1>8. CASE WorkerReturns(f)
  <2>1. task[f] = "building" /\ cold_lock' = None
    BY <1>8 DEF WorkerReturns, ReleaseColdBuild
  <2>2. Proceed(f, "loading") \/ Finish(f, "cancelled") \/ Finish(f, "failed")
    BY <1>8 DEF WorkerReturns
  <2> QED
    BY <1>1, <1>2, <2>1, <2>2
<1>9. CASE LoadPayload(f)
  <2>1. task[f] = "loading" /\ cold_lock' = cold_lock
    BY <1>9 DEF LoadPayload
  <2>2. \/ Proceed(f, "publishing") \/ Finish(f, "cancelled") \/ Finish(f, "failed")
        \/ Finish(f, "ready")
    BY <1>9 DEF LoadPayload
  <2> QED
    BY <1>1, <1>2, <2>1, <2>2
<1>10. CASE DiskPublish(f)
  <2>1. task[f] = "publishing" /\ cold_lock' = cold_lock
    BY <1>10 DEF DiskPublish
  <2>2. Finish(f, "cancelled") \/ Finish(f, "ready")
    BY <1>10 DEF DiskPublish
  <2> QED
    BY <1>2, <2>1, <2>2
<1> QED
  BY <1>3, <1>4, <1>5, <1>6, <1>7, <1>8, <1>9, <1>10 DEF FlightStep

\* A query's step keeps the whole invariant.
LEMMA NextKeeps ==
    ASSUME SInv, Next, UNCHANGED <<plan, scanVars>>
    PROVE  SInv'
<1>0. /\ LockParts /\ CacheInv /\ ScanInv /\ DiskInv
      /\ UNCHANGED <<plan, spc, sresult, scan_cache, admission>>
  BY LockSplit DEF SInv, scanVars
<1>1. ScanInv'
  BY <1>0 DEF ScanInv, AdmissionReturned, RecheckedStillCached, Cached, KeyOf, ToSet
<1>2. ASSUME NEW r \in Request, CallStep(r) PROVE SInv'
  <2>1. QueryInv'
    <3> HIDE DEF SInv, QueryInv
    <3> QED
      BY <1>2, CancelledEarlyStep, HitStep, HandoffStep, JoinStep, CreateStep,
         DeliverStep, CancelCallerStep, CancelExplicitStep, DrainedStep DEF CallStep
  <2>2. CacheInv'
    BY <1>0, <1>2, CallCache, CacheKept
  <2>3. /\ cold_lock' = cold_lock /\ call' = call
        /\ \A f \in Request : task'[f] = task[f] \/ (task'[f] = "start" /\ task[f] = "none")
    BY <1>2, CallTask
  <2>4. LockInv'
    <3>1. LockParts'
      BY <1>0, <2>3 DEF LockParts
    <3> QED
      BY <3>1, LockSplit
  <2>5. DiskInv'
    BY <1>0, <2>3 DEF DiskInv, IsReusable, artifact
  <2> QED
    BY <1>1, <2>1, <2>2, <2>4, <2>5 DEF SInv
<1>3. ASSUME NEW f \in Request, FlightStep(f) PROVE SInv'
  <2>1. QueryInv'
    BY <1>3, FlightQuery
  <2>2. CacheInv'
    BY <1>0, <1>3, FlightCache, CacheKept
  <2>3. /\ call' = call
        /\ \A g \in Request \ {f} : task'[g] = task[g]
        /\ task'[f] \in {"disk_lookup", "disk_load"} => IsReusable(f)
        /\ \/ /\ task[f] # "building" /\ task'[f] # "building"
              /\ cold_lock' = cold_lock
           \/ /\ task[f] # "building" /\ task'[f] = "building"
              /\ cold_lock = None /\ cold_lock' = f
           \/ /\ task[f] = "building" /\ task'[f] # "building"
              /\ cold_lock' = None
    BY <1>3, FlightTask
  <2>4. LockInv'
    <3>1. LockParts'
      BY <1>0, <2>3, SgFacts DEF LockParts
    <3> QED
      BY <3>1, LockSplit
  <2>5. DiskInv'
    BY <1>0, <2>3 DEF DiskInv, IsReusable, artifact
  <2> QED
    BY <1>1, <2>1, <2>2, <2>4, <2>5 DEF SInv
<1>4. ASSUME NEW f \in Request, ExpireHandoff(f) PROVE SInv'
  <2>1. QueryInv'
    BY <1>4, ExpireStep
  <2>2. cache' = cache /\ cold_lock' = cold_lock /\ task' = task /\ call' = call
    BY <1>4 DEF ExpireHandoff, flightVars
  <2>3. CacheInv'
    BY <1>0, <2>2, CacheKept DEF CacheStep
  <2>4. LockInv'
    <3>1. LockParts'
      BY <1>0, <2>2 DEF LockParts
    <3> QED
      BY <3>1, LockSplit
  <2>5. DiskInv'
    BY <1>0, <2>2 DEF DiskInv, IsReusable, artifact
  <2> QED
    BY <1>1, <2>1, <2>3, <2>4, <2>5 DEF SInv
<1> QED
  BY <1>2, <1>3, <1>4 DEF Next

(***************************************************************************)
(* A scan's step                                                           *)
(***************************************************************************)

Holding(s) ==
    \/ spc[s] \in {"rechecking", "polling", "running", "timed_out", "validating", "sharing"}
    \/ spc[s] = "preparing" /\ plan[s].deep

\* The types of ScanInv, without what a scan holds.
ScanTypes ==
    /\ plan \in ScanPlan
    /\ spc \in [OtherBuild -> ScanState]
    /\ sresult \in [OtherBuild -> ScanResult]
    /\ scan_cache \in Seq(ScanKey) /\ Len(scan_cache) <= MaxScanEntries
    /\ admission \in OtherBuild \cup {None}

\* What a step does to the result cache of the scans: it moves an entry to the
\* end, or the holder of the admission publishes.
ScanCacheStep(s) ==
    \/ scan_cache' = scan_cache
    \/ Cached(s) /\ scan_cache' = Touch(scan_cache, KeyOf(s))
    \/ Holding(s) /\ PublishScan(s)

LEMMA ScanKeys ==
    ASSUME ScanTypes, NEW s \in OtherBuild
    PROVE  KeyOf(s) \in ScanKey /\ plan[s] \in [key : ScanKey, deep : BOOLEAN, ask : Artifact \cup {None}]
<1>1. plan \in [OtherBuild -> [key : ScanKey, deep : BOOLEAN, ask : Artifact \cup {None}]]
  BY ScanAssumption DEF ScanTypes
<1>2. plan[s] \in [key : ScanKey, deep : BOOLEAN, ask : Artifact \cup {None}]
  BY <1>1
<1> QED
  BY <1>2 DEF KeyOf

LEMMA ScanCacheKept ==
    ASSUME ScanTypes, NEW s \in OtherBuild, ScanCacheStep(s)
    PROVE  /\ scan_cache' \in Seq(ScanKey) /\ Len(scan_cache') <= MaxScanEntries
           /\ ToSet(scan_cache') = ToSet(scan_cache) \/ Holding(s)
<1>0. KeyOf(s) \in ScanKey /\ scan_cache \in Seq(ScanKey) /\ Len(scan_cache) <= MaxScanEntries
  BY ScanKeys DEF ScanTypes
<1>1. CASE scan_cache' = scan_cache
  BY <1>0, <1>1
<1>2. CASE Cached(s) /\ scan_cache' = Touch(scan_cache, KeyOf(s))
  <2>1. KeyOf(s) \in ToSet(scan_cache)
    BY <1>2 DEF Cached
  <2>2. PICK k \in ScanKey : k = KeyOf(s)
    BY <1>0
  <2>3. /\ Touch(scan_cache, k) \in Seq(ScanKey)
        /\ ToSet(Touch(scan_cache, k)) = ToSet(scan_cache) \cup {k}
        /\ Len(Touch(scan_cache, k)) = Len(scan_cache)
    BY <1>0, <2>1, <2>2, TouchFacts
  <2>4. scan_cache' = Touch(scan_cache, k)
    BY <1>2, <2>2
  <2> HIDE DEF Touch
  <2> QED
    BY <1>0, <2>1, <2>2, <2>3, <2>4
<1>3. CASE Holding(s) /\ PublishScan(s)
  <2>1. PICK t \in Seq(ScanKey) : t = Touch(scan_cache, KeyOf(s))
    BY <1>0, TouchFacts
  <2>2. PICK u : u = EvictOldest(t, ScanBytes, MaxScanEntries, MaxScanBytes)
    OBVIOUS
  <2>3. MaxScanEntries \in Nat /\ MaxScanBytes \in Nat
    BY ScanAssumption
  <2>4. u \in Seq(ScanKey) /\ Fits(u, ScanBytes, MaxScanEntries, MaxScanBytes)
    BY <2>2, <2>3, EvictFacts
  <2>5. scan_cache' = u
    BY <1>3, <2>1, <2>2 DEF PublishScan
  <2> QED
    BY <1>3, <2>4, <2>5 DEF Fits
<1> QED
  BY <1>1, <1>2, <1>3 DEF ScanCacheStep

\* The control of one scan, and what it gives up or gets with it.
LEMMA ScanControl ==
    ASSUME ScanInv, LockParts, CacheInv, NEW s \in OtherBuild,
           plan' = plan, spc' \in [OtherBuild -> ScanState],
           sresult' \in [OtherBuild -> ScanResult],
           \A u \in OtherBuild \ {s} : spc'[u] = spc[u],
           ScanCacheStep(s),
           \/ admission' = admission /\ (Holding(s)' <=> Holding(s))
           \/ ~Holding(s) /\ Holding(s)' /\ admission = None /\ admission' = s
           \/ ~Holding(s)' /\ admission' = (IF admission = s THEN None ELSE admission),
           spc'[s] = "rechecking" => Cached(s) /\ scan_cache' = scan_cache,
           spc'[s] = "sharing" => plan[s].ask \in Reusable,
           spc'[s] \in {"entering", "rechecking"} => plan[s].deep,
           UNCHANGED <<call, callVars, flightVars, handoffs>>,
           \/ cold_lock' = cold_lock /\ (spc'[s] = "running" <=> spc[s] = "running")
           \/ cold_lock = None /\ cold_lock' = s /\ spc'[s] = "running"
           \/ spc[s] = "running" /\ spc'[s] # "running" /\ cold_lock' = None,
           CacheStep, SInv
    PROVE  SInv'
<1>0. ScanTypes /\ AdmissionReturned /\ RecheckedStillCached
  BY DEF ScanInv, ScanTypes
<1>1. QueryInv' /\ CacheInv'
  BY QueryStutter, CacheKept DEF SInv
<1>2. LockParts'
  BY SgFacts DEF LockParts, flightVars
<1>3. DiskInv'
  BY DEF SInv, DiskInv, IsReusable, artifact, flightVars
<1>4. /\ scan_cache' \in Seq(ScanKey) /\ Len(scan_cache') <= MaxScanEntries
      /\ ToSet(scan_cache') = ToSet(scan_cache) \/ Holding(s)
  BY <1>0, ScanCacheKept
<1>5. \A u \in OtherBuild : admission = u <=> Holding(u)
  BY <1>0 DEF AdmissionReturned, Holding
<1>6. \A u \in OtherBuild \ {s} : Holding(u)' <=> Holding(u)
  BY DEF Holding
<1>7. admission' \in OtherBuild \cup {None}
  BY <1>0 DEF ScanTypes
<1>8. \A u \in OtherBuild : admission' = u <=> Holding(u)'
  <2>1. ASSUME NEW u \in OtherBuild PROVE admission' = u <=> Holding(u)'
    <3>1. CASE u = s
      <4> HIDE DEF Holding
      <4> QED
        BY <1>5, <3>1, SgFacts
    <3>2. CASE u # s
      <4> HIDE DEF Holding
      <4> QED
        BY <1>5, <1>6, <3>2, SgFacts
    <3> QED
      BY <3>1, <3>2
  <2> QED
    BY <2>1
<1>9. AdmissionReturned'
  BY <1>8 DEF AdmissionReturned, Holding
<1>10. RecheckedStillCached'
  <2> SUFFICES ASSUME NEW u \in OtherBuild, spc'[u] = "rechecking"
               PROVE  KeyOf(u) \in ToSet(scan_cache')
    BY DEF RecheckedStillCached, Cached, KeyOf
  <2>1. CASE u = s
    BY <2>1 DEF Cached, ToSet
  <2>2. CASE u # s
    <3>1. spc[u] = "rechecking" /\ Holding(u)
      BY <2>2 DEF Holding
    <3>2. ~Holding(s)
      <4> HIDE DEF Holding
      <4> QED
        BY <1>5, <2>2, <3>1
    <3>3. KeyOf(u) \in ToSet(scan_cache)
      BY <1>0, <3>1 DEF RecheckedStillCached, Cached
    <3> QED
      BY <1>4, <3>2, <3>3
  <2> QED
    BY <2>1, <2>2
<1>11. \A u \in OtherBuild : /\ spc'[u] = "sharing" => plan'[u].ask \in Reusable
                             /\ spc'[u] \in {"entering", "rechecking"} => plan'[u].deep
  BY DEF ScanInv
<1>12. ScanInv'
  BY <1>0, <1>4, <1>7, <1>9, <1>10, <1>11 DEF ScanInv, ScanTypes
<1> QED
  BY <1>1, <1>2, <1>3, <1>12, LockSplit DEF SInv

\* Where a scan goes.
LEMMA ScanMoves ==
    ASSUME ScanTypes, NEW s \in OtherBuild
    PROVE  /\ \A phase \in ScanState :
                 Enter(s, phase) =>
                    /\ spc' \in [OtherBuild -> ScanState] /\ sresult' \in [OtherBuild -> ScanResult]
                    /\ spc'[s] = phase
                    /\ \A u \in OtherBuild \ {s} : spc'[u] = spc[u]
           /\ \A status \in ScanResult :
                 Leave(s, status) =>
                    /\ spc' \in [OtherBuild -> ScanState] /\ sresult' \in [OtherBuild -> ScanResult]
                    /\ spc'[s] = "done"
                    /\ \A u \in OtherBuild \ {s} : spc'[u] = spc[u]
<1>1. "done" \in ScanState
  BY DEF ScanState
<1>2. spc \in [OtherBuild -> ScanState] /\ sresult \in [OtherBuild -> ScanResult]
  BY DEF ScanTypes
<1>3. ASSUME NEW phase \in ScanState, Enter(s, phase)
      PROVE  /\ spc' \in [OtherBuild -> ScanState] /\ sresult' \in [OtherBuild -> ScanResult]
             /\ spc'[s] = phase
             /\ \A u \in OtherBuild \ {s} : spc'[u] = spc[u]
  BY <1>2, <1>3 DEF Enter
<1>4. ASSUME NEW status \in ScanResult, Leave(s, status)
      PROVE  /\ spc' \in [OtherBuild -> ScanState] /\ sresult' \in [OtherBuild -> ScanResult]
             /\ spc'[s] = "done"
             /\ \A u \in OtherBuild \ {s} : spc'[u] = spc[u]
  BY <1>1, <1>2, <1>4 DEF Leave
<1> QED
  BY <1>3, <1>4

LEMMA ScanWords ==
    /\ {"idle", "checking", "borrowing", "entering", "rechecking", "preparing", "polling",
        "running", "timed_out", "validating", "sharing", "done"} = ScanState
    /\ {"hit", "not_run", "borrowed", "partial", "complete", "unavailable", "cancelled",
        "key_error"} \subseteq ScanResult
  BY DEF ScanState, ScanResult

\* The steps that leave the queries alone.
LEMMA ScanBefore ==
    ASSUME SInv, NEW s \in OtherBuild,
           ScanStart(s) \/ ScanChecked(s) \/ ScanBorrowed(s) \/ ScanAuto(s)
    PROVE  SInv'
<1>0. ScanInv /\ ScanTypes /\ LockParts /\ CacheInv
  BY LockSplit DEF SInv, ScanInv, ScanTypes
<1>1. /\ ~Holding(s) /\ spc[s] \notin {"running"}
      /\ plan' = plan /\ admission' = admission /\ cold_lock' = cold_lock
      /\ UNCHANGED <<call, callVars, flightVars, handoffs>>
  BY DEF ScanStart, ScanChecked, ScanBorrowed, ScanAuto, Holding, vars, storeVars
<1>2. ASSUME Miss(s)
      PROVE  /\ spc' \in [OtherBuild -> ScanState] /\ sresult' \in [OtherBuild -> ScanResult]
             /\ \A u \in OtherBuild \ {s} : spc'[u] = spc[u]
             /\ \/ spc'[s] = "done"
                \/ spc'[s] = "entering" /\ plan[s].deep
                \/ spc'[s] = "preparing" /\ ~plan[s].deep
  <2>1. CASE plan[s].deep
    <3>1. Enter(s, "entering") \/ Leave(s, "unavailable")
      BY <1>2, <2>1 DEF Miss
    <3> QED
      BY <1>0, <2>1, <3>1, ScanMoves, ScanWords
  <2>2. CASE ~plan[s].deep
    <3>1. Enter(s, "preparing")
      BY <1>2, <2>2 DEF Miss
    <3> QED
      BY <1>0, <2>2, <3>1, ScanMoves, ScanWords
  <2> QED
    BY <2>1, <2>2
<1>3. CacheStep
  <2>1. CASE ScanAuto(s)
    <3>1. cache' = cache \/ \E e \in Found(plan[s].ask) : cache' = Touch(cache, e)
      BY <2>1 DEF ScanAuto, vars, storeVars
    <3> QED
      BY <1>0, <3>1, FoundFacts DEF CacheStep
  <2>2. CASE ~ScanAuto(s)
    BY <2>2 DEF ScanStart, ScanChecked, ScanBorrowed, vars, storeVars, CacheStep
  <2> QED
    BY <2>1, <2>2
<1>4. ScanCacheStep(s)
  BY DEF ScanStart, ScanChecked, ScanBorrowed, ScanAuto, ScanCacheStep
<1>5. /\ spc' \in [OtherBuild -> ScanState] /\ sresult' \in [OtherBuild -> ScanResult]
      /\ \A u \in OtherBuild \ {s} : spc'[u] = spc[u]
      /\ \/ spc'[s] \in {"checking", "borrowing", "done"}
         \/ spc'[s] = "entering" /\ plan[s].deep
         \/ spc'[s] = "preparing" /\ ~plan[s].deep
  <2>1. CASE ScanStart(s)
    <3>1. Enter(s, "checking") \/ Miss(s)
      BY <2>1 DEF ScanStart
    <3> QED
      BY <1>0, <1>2, <3>1, ScanMoves, ScanWords
  <2>2. CASE ScanChecked(s)
    <3>1. Leave(s, "hit") \/ Leave(s, "key_error") \/ Miss(s)
      BY <2>2 DEF ScanChecked
    <3> QED
      BY <1>0, <1>2, <3>1, ScanMoves, ScanWords
  <2>3. CASE ScanBorrowed(s)
    <3>1. Leave(s, "borrowed") \/ Leave(s, "not_run")
      BY <2>3 DEF ScanBorrowed
    <3> QED
      BY <1>0, <3>1, ScanMoves, ScanWords
  <2>4. CASE ScanAuto(s)
    <3>1. Leave(s, "not_run") \/ Enter(s, "borrowing")
      BY <2>4 DEF ScanAuto
    <3> QED
      BY <1>0, <3>1, ScanMoves, ScanWords
  <2> QED
    BY <2>1, <2>2, <2>3, <2>4
<1>6. /\ ~Holding(s)' /\ spc'[s] \notin {"rechecking", "sharing", "running"}
      /\ spc'[s] \in {"entering", "rechecking"} => plan[s].deep
  BY <1>1, <1>5 DEF Holding
<1> QED
  <2> HIDE DEF Holding
  <2> QED
    BY <1>0, <1>1, <1>3, <1>4, <1>5, <1>6, ScanControl

\* The steps under the scan's admission.
LEMMA ScanWithin ==
    ASSUME SInv, NEW s \in OtherBuild,
           \/ ScanEnter(s) \/ ScanRechecked(s) \/ ScanPrepared(s) \/ ScanAdmitted(s)
           \/ ScanAdmissionTimeout(s) \/ ScanReturns(s) \/ ScanTimedOut(s)
    PROVE  SInv'
<1>0. ScanInv /\ ScanTypes /\ LockParts /\ CacheInv
  BY LockSplit DEF SInv, ScanInv, ScanTypes
<1>1. /\ plan' = plan /\ scan_cache' = scan_cache
      /\ UNCHANGED <<call, callVars, flightVars, handoffs, cache>>
  BY DEF ScanEnter, ScanRechecked, ScanPrepared, ScanAdmitted, ScanAdmissionTimeout,
         ScanReturns, ScanTimedOut, vars, storeVars
<1>2. CacheStep /\ ScanCacheStep(s)
  BY <1>1 DEF CacheStep, ScanCacheStep
<1>3. ASSUME NEW phase \in ScanState, Enter(s, phase)
      PROVE  /\ spc' \in [OtherBuild -> ScanState] /\ sresult' \in [OtherBuild -> ScanResult]
             /\ spc'[s] = phase /\ \A u \in OtherBuild \ {s} : spc'[u] = spc[u]
  BY <1>0, <1>3, ScanMoves
<1>4. ASSUME NEW status \in ScanResult, Leave(s, status)
      PROVE  /\ spc' \in [OtherBuild -> ScanState] /\ sresult' \in [OtherBuild -> ScanResult]
             /\ spc'[s] = "done" /\ \A u \in OtherBuild \ {s} : spc'[u] = spc[u]
  BY <1>0, <1>4, ScanMoves
<1>5. CASE ScanEnter(s)
  <2>1. /\ spc[s] = "entering" /\ admission = None /\ admission' = s /\ cold_lock' = cold_lock
        /\ Enter(s, IF Cached(s) THEN "rechecking" ELSE "preparing")
    BY <1>5 DEF ScanEnter, AdmissionFree, vars
  <2>2. plan[s].deep
    BY <1>0, <2>1 DEF ScanInv
  <2>3. /\ spc' \in [OtherBuild -> ScanState] /\ sresult' \in [OtherBuild -> ScanResult]
        /\ spc'[s] \in {"rechecking", "preparing"}
        /\ spc'[s] = "rechecking" => Cached(s)
        /\ \A u \in OtherBuild \ {s} : spc'[u] = spc[u]
    <3>1. CASE Cached(s)
      BY <1>3, <2>1, <3>1, ScanWords
    <3>2. CASE ~Cached(s)
      BY <1>3, <2>1, <3>2, ScanWords
    <3> QED
      BY <3>1, <3>2
  <2>4. ~Holding(s) /\ Holding(s)'
    BY <1>1, <2>1, <2>2, <2>3 DEF Holding
  <2> HIDE DEF Holding, Cached
  <2> QED
    BY <1>0, <1>1, <1>2, <2>1, <2>2, <2>3, <2>4, ScanControl
<1>6. CASE ScanRechecked(s) \/ ScanPrepared(s) \/ ScanTimedOut(s)
  <2>1. /\ spc[s] \in {"rechecking", "preparing", "timed_out"} /\ cold_lock' = cold_lock
        /\ spc[s] = "preparing" => plan[s].deep
        /\ \/ Leave(s, "hit") /\ LeaveAdmission(s)
           \/ Leave(s, "unavailable") /\ LeaveAdmission(s)
           \/ Leave(s, "partial") /\ LeaveAdmission(s)
           \/ Enter(s, "preparing") /\ spc[s] = "rechecking" /\ admission' = admission
           \/ Enter(s, "polling") /\ admission' = admission
    BY <1>6 DEF ScanRechecked, ScanPrepared, ScanTimedOut, vars
  <2>2. Holding(s)
    BY <2>1 DEF Holding
  <2>3. CASE LeaveAdmission(s) /\ spc'[s] = "done"
             /\ spc' \in [OtherBuild -> ScanState] /\ sresult' \in [OtherBuild -> ScanResult]
             /\ \A u \in OtherBuild \ {s} : spc'[u] = spc[u]
    <3>1. ~Holding(s)' /\ admission' = IF admission = s THEN None ELSE admission
      BY <2>3 DEF Holding, LeaveAdmission
    <3> HIDE DEF Holding
    <3> QED
      BY <1>0, <1>1, <1>2, <2>1, <2>3, <3>1, ScanControl
  <2>4. CASE Enter(s, "polling") /\ admission' = admission
    <3>1. /\ spc'[s] = "polling"
          /\ spc' \in [OtherBuild -> ScanState] /\ sresult' \in [OtherBuild -> ScanResult]
          /\ \A u \in OtherBuild \ {s} : spc'[u] = spc[u]
      BY <1>3, <2>4, ScanWords
    <3>2. Holding(s)'
      BY <3>1 DEF Holding
    <3> HIDE DEF Holding
    <3> QED
      BY <1>0, <1>1, <1>2, <2>1, <2>2, <2>4, <3>1, <3>2, ScanControl
  <2>5. CASE Enter(s, "preparing") /\ spc[s] = "rechecking" /\ admission' = admission
    <3>1. /\ spc'[s] = "preparing"
          /\ spc' \in [OtherBuild -> ScanState] /\ sresult' \in [OtherBuild -> ScanResult]
          /\ \A u \in OtherBuild \ {s} : spc'[u] = spc[u]
      BY <1>3, <2>5, ScanWords
    <3>2. plan[s].deep
      BY <1>0, <2>5 DEF ScanInv
    <3>3. Holding(s)'
      BY <1>1, <3>1, <3>2 DEF Holding
    <3> HIDE DEF Holding
    <3> QED
      BY <1>0, <1>1, <1>2, <2>1, <2>2, <2>5, <3>1, <3>3, ScanControl
  <2> QED
    BY <1>4, <2>1, <2>3, <2>4, <2>5, ScanWords
<1>7. CASE ScanAdmitted(s)
  <2>1. /\ spc[s] = "polling" /\ cold_lock = None /\ cold_lock' = s /\ admission' = admission
        /\ Enter(s, "running")
    BY <1>7 DEF ScanAdmitted, LockFree
  <2>2. /\ spc'[s] = "running"
        /\ spc' \in [OtherBuild -> ScanState] /\ sresult' \in [OtherBuild -> ScanResult]
        /\ \A u \in OtherBuild \ {s} : spc'[u] = spc[u]
    BY <1>3, <2>1, ScanWords
  <2>3. Holding(s) /\ Holding(s)'
    BY <2>1, <2>2 DEF Holding
  <2> HIDE DEF Holding
  <2> QED
    BY <1>0, <1>1, <1>2, <2>1, <2>2, <2>3, ScanControl
<1>8. CASE ScanAdmissionTimeout(s) \/ ScanReturns(s)
  <2>1. /\ spc[s] \in {"polling", "running"} /\ admission' = admission
        /\ cold_lock' = (IF spc[s] = "running" THEN None ELSE cold_lock)
        /\ Enter(s, "timed_out") \/ Enter(s, "validating")
    BY <1>8 DEF ScanAdmissionTimeout, ScanReturns, ReleaseAdmitted
  <2>2. /\ spc'[s] \in {"timed_out", "validating"}
        /\ spc' \in [OtherBuild -> ScanState] /\ sresult' \in [OtherBuild -> ScanResult]
        /\ \A u \in OtherBuild \ {s} : spc'[u] = spc[u]
    BY <1>3, <2>1, ScanWords
  <2>3. Holding(s) /\ Holding(s)'
    BY <2>1, <2>2 DEF Holding
  <2> HIDE DEF Holding
  <2> QED
    BY <1>0, <1>1, <1>2, <2>1, <2>2, <2>3, ScanControl
<1> QED
  BY <1>5, <1>6, <1>7, <1>8

\* The steps that may publish.
LEMMA ScanAfter ==
    ASSUME SInv, NEW s \in OtherBuild,
           ScanValidated(s) \/ ScanShared(s) \/ ScanCancelled(s)
    PROVE  SInv'
<1>0. ScanInv /\ ScanTypes /\ LockParts /\ CacheInv
  BY LockSplit DEF SInv, ScanInv, ScanTypes
<1>1. /\ plan' = plan
      /\ UNCHANGED <<call, callVars, flightVars, handoffs>>
      /\ \/ cold_lock' = cold_lock /\ spc[s] # "running"
         \/ spc[s] = "running" /\ cold_lock' = None
  BY DEF ScanValidated, ScanShared, ScanCancelled, vars, storeVars, ReleaseAdmitted
<1>2. ASSUME Conclude(s), Holding(s)
      PROVE  /\ LeaveAdmission(s) /\ ScanCacheStep(s)
             /\ Leave(s, "complete") \/ Leave(s, "partial")
  BY <1>2 DEF Conclude, ScanCacheStep
<1>3. CASE ScanValidated(s) /\ ~Conclude(s)
  <2>1. /\ spc[s] = "validating" /\ plan[s].ask \in Reusable /\ Enter(s, "sharing")
        /\ admission' = admission /\ scan_cache' = scan_cache
        /\ cache' = cache /\ cold_lock' = cold_lock
    BY <1>3 DEF ScanValidated, vars, storeVars
  <2>2. /\ spc'[s] = "sharing"
        /\ spc' \in [OtherBuild -> ScanState] /\ sresult' \in [OtherBuild -> ScanResult]
        /\ \A u \in OtherBuild \ {s} : spc'[u] = spc[u]
    BY <1>0, <2>1, ScanMoves, ScanWords
  <2>3. Holding(s) /\ Holding(s)'
    BY <2>1, <2>2 DEF Holding
  <2>4. CacheStep /\ ScanCacheStep(s)
    BY <2>1 DEF CacheStep, ScanCacheStep
  <2> HIDE DEF Holding
  <2> QED
    BY <1>0, <1>1, <2>1, <2>2, <2>3, <2>4, ScanControl
<1>4. CASE (ScanValidated(s) /\ Conclude(s)) \/ ScanShared(s) \/ ScanCancelled(s)
  <2>1. /\ LeaveAdmission(s) /\ ScanCacheStep(s)
        /\ Leave(s, "complete") \/ Leave(s, "partial") \/ Leave(s, "cancelled")
    <3>1. CASE ScanCancelled(s)
      BY <3>1 DEF ScanCancelled, ScanCacheStep
    <3>2. CASE ~ScanCancelled(s)
      <4>1. Conclude(s)
        BY <1>4, <3>2 DEF ScanShared
      <4>2. Holding(s)
        BY <1>4, <3>2 DEF ScanValidated, ScanShared, Holding
      <4> QED
        BY <1>2, <4>1, <4>2
    <3> QED
      BY <3>1, <3>2
  <2>2. /\ spc'[s] = "done"
        /\ spc' \in [OtherBuild -> ScanState] /\ sresult' \in [OtherBuild -> ScanResult]
        /\ \A u \in OtherBuild \ {s} : spc'[u] = spc[u]
    BY <1>0, <2>1, ScanMoves, ScanWords
  <2>3. ~Holding(s)' /\ admission' = (IF admission = s THEN None ELSE admission)
    BY <2>1, <2>2 DEF Holding, LeaveAdmission
  <2>4. CacheStep
    <3>1. cache' = cache \/ (ScanShared(s) /\ PublishEntry(plan[s].ask))
      BY <1>4 DEF ScanValidated, ScanShared, ScanCancelled, vars, storeVars
    <3>2. ScanShared(s) => plan[s].ask \in Reusable
      BY <1>0 DEF ScanShared, ScanInv
    <3> QED
      BY <3>1, <3>2 DEF CacheStep
  <2> HIDE DEF Holding
  <2> QED
    BY <1>0, <1>1, <2>1, <2>2, <2>3, <2>4, ScanControl
<1> QED
  BY <1>3, <1>4

(***************************************************************************)
(* The invariant, and what it says                                         *)
(***************************************************************************)

LEMMA ScanStutter ==
    ASSUME SInv, UNCHANGED allVars
    PROVE  SInv'
<1>0. /\ UNCHANGED <<call, callVars, flightVars, handoffs>>
      /\ UNCHANGED <<plan, spc, sresult, scan_cache, admission, cache, cold_lock>>
  BY DEF allVars, vars, storeVars, scanVars
<1>1. QueryInv'
  BY <1>0, QueryStutter DEF SInv
<1>2. CacheInv'
  BY <1>0, CacheKept DEF SInv, CacheStep
<1>3. LockInv'
  <2>1. LockParts'
    BY <1>0, LockSplit DEF SInv, LockParts, flightVars
  <2> QED
    BY <2>1, LockSplit
<1>4. ScanInv'
  BY <1>0 DEF SInv, ScanInv, AdmissionReturned, RecheckedStillCached, Cached, KeyOf, ToSet
<1>5. DiskInv'
  BY <1>0 DEF SInv, DiskInv, IsReusable, artifact, flightVars
<1> QED
  BY <1>1, <1>2, <1>3, <1>4, <1>5 DEF SInv

LEMMA ScanNextKeeps ==
    ASSUME SInv, [ScanNext]_allVars
    PROVE  SInv'
<1>1. CASE UNCHANGED allVars
  BY <1>1, ScanStutter
<1>2. CASE Next /\ UNCHANGED <<plan, scanVars>>
  BY <1>2, NextKeeps
<1>3. ASSUME NEW s \in OtherBuild,
             ScanStart(s) \/ ScanStep(s) \/ ScanAdmissionTimeout(s) \/ ScanCancelled(s)
      PROVE  SInv'
  <2> HIDE DEF SInv
  <2> QED
    BY <1>3, ScanBefore, ScanWithin, ScanAfter DEF ScanStep
<1> QED
  BY <1>1, <1>2, <1>3 DEF ScanNext

LEMMA ScanAlways == ScanSpec => []SInv
<1>1. ScanInit => SInv
  BY QueryInit
<1>2. SInv /\ [ScanNext]_allVars => SInv'
  BY ScanNextKeeps
<1> QED
  BY <1>1, <1>2, PTL DEF ScanSpec

\* What SInv says of the two modules' own properties.
LEMMA TypesHold == SInv => TypeOK
<1> SUFFICES ASSUME SInv PROVE TypeOK
  OBVIOUS
<1>1. CallTypes /\ FlightTypes /\ BoundInv /\ HandoffInv /\ CacheInv /\ LockInv
  BY DEF SInv, QueryInv
<1>2. waiter_count \in [Request -> 0 .. Cardinality(Request)]
  <2>1. Cardinality(Request) \in Nat
    BY SgFacts, FS_CardinalityType
  <2>2. \A f \in Request : waiter_count[f] \in 0 .. Cardinality(Request)
    BY <1>1, <2>1, CountsFinite DEF FlightTypes, BoundInv
  <2> QED
    BY <1>1, <2>2 DEF FlightTypes
<1> QED
  BY <1>1, <1>2 DEF TypeOK, CallTypes, FlightTypes, HandoffInv, CacheInv, LockInv

\* One worker at a time builds, whoever asked for it, and the admission names it;
\* and the same preparation never runs twice (_PROCESS_COLD_BUILD_LOCK, _inflight).
THEOREM SourceGraphBuildsOnce == ScanSpec => []BuildsOnce
<1>1. SInv => BuildsOnce
  <2> SUFFICES ASSUME SInv PROVE BuildsOnce
    OBVIOUS
  <2>1. LockParts /\ NoDuplicateFlight
    BY LockSplit DEF SInv, QueryInv, FlightInv
  <2> QED
    BY <2>1 DEF BuildsOnce, OneColdBuild, Building, LockParts
<1> QED
  BY <1>1, ScanAlways, PTL

\* The memory tier holds complete artifacts only, one entry of each, within both
\* of its limits, though queries and scans both publish into it.
THEOREM SourceGraphStoreIsHonest == ScanSpec => []StoreHonest
<1>1. SInv => StoreHonest
  BY TypesHold DEF StoreHonest, SInv, CacheInv
<1> QED
  BY <1>1, ScanAlways, PTL

\* Every answer covers what was asked for, and a handoff answers one call.
THEOREM SourceGraphAnswerFits == ScanSpec => []AnswerFits
<1>1. SInv => AnswerFits
  <2> SUFFICES ASSUME SInv PROVE AnswerFits
    OBVIOUS
  <2>1. AnswerInv /\ HandoffInv
    BY DEF SInv, QueryInv
  <2>2. AnswerCovers
    BY <2>1 DEF AnswerCovers, AnswerInv, artifact
  <2>3. HandoffOneShot
    BY <2>1 DEF HandoffOneShot, HandoffInv
  <2> QED
    BY <2>2, <2>3 DEF AnswerFits
<1> QED
  BY <1>1, ScanAlways, PTL

\* "cancellation or timeout while waiting cannot release another operation's
\* admission": both admissions are held exactly by the work they were given to.
THEOREM ScanAdmissionsAreHonest == ScanSpec => []AdmissionsHonest
<1>1. SInv => AdmissionsHonest
  BY TypesHold DEF AdmissionsHonest, ScanTypeOK, SInv, LockInv, ScanInv
<1> QED
  BY <1>1, ScanAlways, PTL

\* "One waiter cannot cancel a worker still needed by another": the step that
\* stops a worker leaves nobody waiting for it, as the waiters of a flight are
\* counted exactly until then (_release_waiter).
THEOREM SourceGraphStopsOnlyUnneeded == ScanSpec => StopsOnlyUnneeded
<1> DEFINE Fine == \A f \in worker_cancel_event' \ worker_cancel_event : WaitsFor(f)' = {}
<1>1. ASSUME SInv, [ScanNext]_allVars
      PROVE  Fine \/ UNCHANGED vars
  <2>1. ASSUME worker_cancel_event' = worker_cancel_event PROVE Fine
    BY <2>1
  <2>2. CASE UNCHANGED allVars
    BY <2>2 DEF allVars
  <2>3. ASSUME NEW s \in OtherBuild,
               ScanStart(s) \/ ScanStep(s) \/ ScanAdmissionTimeout(s) \/ ScanCancelled(s)
        PROVE  Fine
    <3>1. worker_cancel_event' = worker_cancel_event
      BY <2>3 DEF ScanStart, ScanStep, ScanChecked, ScanAuto, ScanBorrowed, ScanEnter,
                  ScanRechecked, ScanPrepared, ScanAdmitted, ScanReturns, ScanValidated,
                  ScanTimedOut, ScanShared, ScanAdmissionTimeout, ScanCancelled, vars,
                  flightVars
    <3> QED
      BY <2>1, <3>1
  <2>4. ASSUME NEW r \in Request, CallStep(r) PROVE Fine
    <3>1. CASE CancelCaller(r)
      BY <1>1, <3>1, CancelCallerStep
    <3>2. CASE CancelExplicit(r)
      BY <1>1, <3>2, CancelExplicitStep
    <3>3. CASE ~(CancelCaller(r) \/ CancelExplicit(r))
      <4>1. worker_cancel_event' = worker_cancel_event
        BY <2>4, <3>3 DEF CallStep, PrepareCancelledEarly, PrepareHit, PrepareHandoff,
           PrepareJoin, PrepareCreate, Deliver, DrainedCaller, flightVars, ReleaseWaiter
      <4> QED
        BY <2>1, <4>1
    <3> QED
      BY <3>1, <3>2, <3>3
  <2>5. ASSUME NEW f \in Request, FlightStep(f) PROVE Fine
    <3>1. \E phase, status : Proceed(f, phase) \/ Finish(f, status)
      BY <2>5 DEF FlightStep, StartFlight, DiskLookup, DiskLoad, CancelAdmission, Admit,
                  WorkerReturns, LoadPayload, DiskPublish
    <3>2. worker_cancel_event' = worker_cancel_event
      BY <3>1 DEF Proceed, Finish
    <3> QED
      BY <2>1, <3>2
  <2>6. ASSUME NEW f \in Request, ExpireHandoff(f) PROVE Fine
    BY <2>1, <2>6 DEF ExpireHandoff, flightVars
  <2> HIDE DEF Fine
  <2> QED
    BY <1>1, <2>2, <2>3, <2>4, <2>5, <2>6 DEF ScanNext, Next
<1>2. SInv /\ [ScanNext]_allVars => [Fine]_vars
  BY <1>1
<1> QED
  BY <1>2, ScanAlways, PTL DEF ScanSpec, StopsOnlyUnneeded
===============================================================================
