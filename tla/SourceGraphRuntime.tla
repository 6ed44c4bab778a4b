-------------------------- MODULE SourceGraphRuntime --------------------------
(***************************************************************************)
(* src/src/source_graph_runtime.py: SourceGraphRuntime.prepare() gives a    *)
(* query the compiled connectivity artifact of its design scope.  It looks *)
(* in the memory LRU, then takes the one-shot handoff of an incomplete     *)
(* identity, then joins or starts the flight that reads the disk tier or   *)
(* builds the artifact in a worker process.  Cold builds of the whole      *)
(* process share one admission lock.                                       *)
(*                                                                         *)
(* One Request is one call of prepare().  A flight, and the entry it       *)
(* produces, is named by the call that created it.  _state_lock is never   *)
(* held over an await, so the sections it guards are steps.                *)
(***************************************************************************)
EXTENDS OrderedDict

CONSTANTS
    Request,            \* calls of prepare()
    OtherBuild,         \* other holders of _PROCESS_COLD_BUILD_LOCK
    None,
    Artifact,           \* artifact digests (design, snapshots and scope)
    Timeout,            \* effective worker timeouts
    Call,               \* the <<artifact, timeout>> pairs that are asked for
    Workload,           \* the assignments of calls to requests considered
    Explicit,           \* calls that pass a cancel_event
    Reusable,           \* artifacts with a complete, cross-request key
    Eligible,           \* incomplete ones anchored well enough for a handoff
    Covers,             \* <<a, b>>: the scope of a strictly contains b's
    CacheBytes,         \* serialized size of each artifact
    MaxCacheEntries, MaxCacheBytes,
    MaxHandoffs, MaxHandoffBytes,
    DiskEnabled         \* whether a disk cache is configured

ASSUME SourceGraphAssumption ==
    /\ None \notin Request \cup OtherBuild
    /\ Request \cap OtherBuild = {}
    /\ IsFiniteSet(Request)
    /\ Explicit \subseteq Request
    /\ Reusable \subseteq Artifact
    /\ Eligible \subseteq Artifact \ Reusable
    /\ Call \subseteq Artifact \X Timeout
    /\ Workload \subseteq [Request -> Call]
    /\ Covers \subseteq Artifact \X Artifact
    /\ CacheBytes \in [Artifact -> Nat]
    /\ MaxCacheEntries \in Nat \ {0} /\ MaxCacheBytes \in Nat \ {0}
    /\ MaxHandoffs \in Nat \ {0} /\ MaxHandoffBytes \in Nat \ {0}
    /\ DiskEnabled \in BOOLEAN

VARIABLES
    call,                   \* the pair each call asks for
    pc, result, served,     \* per call: control, status, entry that answered
    cancelled,              \* calls whose own caller cancelled them
    inflight,               \* _inflight
    waiter_count,           \* _Flight.waiter_count
    worker_cancel_event,    \* flights whose worker_cancel_event is set
    task, outcome,          \* per flight: progress and shared outcome
    cold_lock,              \* holder of _PROCESS_COLD_BUILD_LOCK
    cache,                  \* _cache: artifacts, least recently used first
    handoffs                \* _incomplete_handoffs: flights, oldest first

callVars   == <<pc, result, served, cancelled>>
flightVars == <<inflight, waiter_count, worker_cancel_event, task, outcome>>
storeVars  == <<cache, handoffs>>
vars       == <<call, callVars, flightVars, cold_lock, storeVars>>

artifact(r) == call[r][1]
IsReusable(r) == artifact(r) \in Reusable

\* _exact_flight_key: the worker timeout is part of a flight's identity.
FlightKey(r) == call[r]

TaskState == {"none", "start", "disk_lookup", "disk_load", "admission",
              "building", "loading", "publishing", "done"}
Status    == {"none", "ready", "cancelled", "failed"}
Tier      == {"none", "memory", "handoff", "flight"}

TypeOK ==
    /\ call \in [Request -> Call]
    /\ pc \in [Request -> {"idle", "waiting", "draining", "done"}]
    /\ result \in [Request -> Status]
    /\ served \in [Request -> [tier : Tier,
                              entry : Request \cup Artifact \cup {None}]]
    /\ cancelled \subseteq Request
    /\ inflight \in [Call -> Request \cup {None}]
    /\ waiter_count \in [Request -> 0..Cardinality(Request)]
    /\ worker_cancel_event \subseteq Request
    /\ task \in [Request -> TaskState]
    /\ outcome \in [Request -> Status]
    /\ cold_lock \in Request \cup OtherBuild \cup {None}
    /\ cache \in Seq(Artifact)
    /\ handoffs \in Seq(Request)

NotServed == [tier |-> "none", entry |-> None]

Init ==
    /\ call \in Workload
    /\ pc = [r \in Request |-> "idle"]
    /\ result = [r \in Request |-> "none"]
    /\ served = [r \in Request |-> NotServed]
    /\ cancelled = {}
    /\ inflight = [k \in Call |-> None]
    /\ waiter_count = [r \in Request |-> 0]
    /\ worker_cancel_event = {}
    /\ task = [r \in Request |-> "none"]
    /\ outcome = [r \in Request |-> "none"]
    /\ cold_lock = None
    /\ cache = <<>>
    /\ handoffs = <<>>

(***************************************************************************)
(* The memory LRU and the handoff queue                                    *)
(***************************************************************************)

\* _publish_cache_entry_locked: an entry of the same digest is replaced.
PublishEntry(a) ==
    cache' = EvictOldest(Touch(cache, a), CacheBytes, MaxCacheEntries, MaxCacheBytes)

\* An entry larger than the whole cache bypasses it.
PublishReusable(f) ==
    IF CacheBytes[artifact(f)] > MaxCacheBytes
    THEN UNCHANGED cache ELSE PublishEntry(artifact(f))

\* _find_cached_locked: the exact entry, else one whose scope contains the
\* requested one.  (Mutant: one whose scope lies inside the requested one.)
FoundInside(a) == {e \in ToSet(cache) : e = a \/ <<a, e>> \in Covers}
Found(a) ==
    IF a \in ToSet(cache) THEN {a}
    ELSE {e \in ToSet(cache) : <<e, a>> \in Covers}

\* _publish_incomplete_handoff_locked: room is made before the insertion, for
\* an entry that fits at all.
HandoffBytes(s) == SizeOf(s, [e \in Request |-> CacheBytes[artifact(e)]])
HandoffAt(r) == {i \in DOMAIN handoffs : FlightKey(handoffs[i]) = FlightKey(r)}
PublishHandoff(f) ==
    LET others  == Pop(handoffs, HandoffAt(f))
        bytes   == CacheBytes[artifact(f)]
        room(s) == Len(s) < MaxHandoffs /\ HandoffBytes(s) + bytes <= MaxHandoffBytes
        suffix(i) == SubSeq(others, i, Len(others))
        kept    == suffix(Min({i \in 1..Len(others) + 1 : room(suffix(i))}))
    IN  IF artifact(f) \notin Eligible \/ bytes > MaxHandoffBytes
        THEN UNCHANGED handoffs
        ELSE handoffs' = Append(kept, f)

HandoffsFor(r) == {e \in ToSet(handoffs) : FlightKey(e) = FlightKey(r)}

\* _take_incomplete_handoff_locked pops the handoff it returns.
TakeHandoff(f) == Without(handoffs, f)

(***************************************************************************)
(* prepare(), up to its await                                              *)
(***************************************************************************)

Return(r, status, by) ==
    /\ pc' = [pc EXCEPT ![r] = "done"]
    /\ result' = [result EXCEPT ![r] = status]
    /\ served' = [served EXCEPT ![r] = by]

\* The cancel_event is set before anything is looked up.
PrepareCancelledEarly(r) ==
    /\ pc[r] = "idle"
    /\ r \in Explicit
    /\ cancelled' = cancelled \cup {r}
    /\ Return(r, "cancelled", NotServed)
    /\ UNCHANGED <<call, flightVars, cold_lock, storeVars>>

\* A memory hit moves the entry to the end of the LRU.
PrepareHit(r) ==
    /\ pc[r] = "idle"
    /\ IsReusable(r)
    /\ \E e \in Found(artifact(r)) :
          /\ cache' = Touch(cache, e)
          /\ Return(r, "ready", [tier |-> "memory", entry |-> e])
    /\ UNCHANGED <<call, cancelled, flightVars, cold_lock, handoffs>>

\* An incomplete identity takes the handoff left for its flight key.
PrepareHandoff(r) ==
    /\ pc[r] = "idle"
    /\ ~IsReusable(r)
    /\ \E f \in HandoffsFor(r) :
          /\ handoffs' = TakeHandoff(f)
          /\ Return(r, "ready", [tier |-> "handoff", entry |-> f])
    /\ UNCHANGED <<call, cancelled, flightVars, cold_lock, cache>>

\* Nothing answers from memory.  A handoff that is past its expiry but whose
\* timer has not run yet is popped and ignored.
Missed(r) ==
    /\ pc[r] = "idle"
    /\ IsReusable(r) => Found(artifact(r)) = {}
    /\ handoffs' = IF IsReusable(r) THEN handoffs
                   ELSE Pop(handoffs, HandoffAt(r))

LiveFlight(k) == inflight[k] # None /\ task[inflight[k]] # "done"

PrepareJoin(r) ==
    /\ Missed(r)
    /\ LiveFlight(FlightKey(r))
    /\ waiter_count' = [waiter_count EXCEPT ![inflight[FlightKey(r)]] = @ + 1]
    /\ served' = [served EXCEPT ![r] = [tier |-> "flight",
                                        entry |-> inflight[FlightKey(r)]]]
    /\ pc' = [pc EXCEPT ![r] = "waiting"]
    /\ UNCHANGED <<call, result, cancelled, inflight, worker_cancel_event, task,
                   outcome, cold_lock, cache>>

PrepareCreate(r) ==
    /\ Missed(r)
    /\ ~LiveFlight(FlightKey(r))
    /\ inflight' = [inflight EXCEPT ![FlightKey(r)] = r]
    /\ waiter_count' = [waiter_count EXCEPT ![r] = 1]
    /\ task' = [task EXCEPT ![r] = "start"]
    /\ served' = [served EXCEPT ![r] = [tier |-> "flight", entry |-> r]]
    /\ pc' = [pc EXCEPT ![r] = "waiting"]
    /\ UNCHANGED <<call, result, cancelled, worker_cancel_event, outcome,
                   cold_lock, cache>>

(***************************************************************************)
(* prepare(), after its await.  served[r].entry is the awaited flight.     *)
(***************************************************************************)

\* The last waiter to be cancelled stops the worker.  (Mutant: any waiter
\* that is cancelled does.)
StopOnAnyCancel(f) == task[f] # "done"
SoleCancel(f) == waiter_count'[f] = 0 /\ task[f] # "done"

\* A flight whose worker has been stopped stays registered until its task
\* ends.
KeepStopped(f) == inflight' = inflight

\* max(0, waiter_count - 1): a caller that drains has given up its place and
\* gives it up again when it is cancelled.
OneLess(n) == IF n > 0 THEN n - 1 ELSE 0

\* _release_waiter()
ReleaseWaiter(f, isCancel) ==
    /\ waiter_count' = [waiter_count EXCEPT ![f] = OneLess(@)]
    /\ IF isCancel /\ SoleCancel(f)
       THEN /\ worker_cancel_event' = worker_cancel_event \cup {f}
            /\ KeepStopped(f)
       ELSE UNCHANGED <<worker_cancel_event, inflight>>

\* The shared task returned.  A call that passed a cancel_event returns a
\* cancelled outcome without releasing its place.
Deliver(r) ==
    LET f == served[r].entry
    IN  /\ pc[r] = "waiting"
        /\ task[f] = "done"
        /\ Return(r, outcome[f], served[r])
        /\ IF r \in Explicit /\ outcome[f] = "cancelled"
           THEN UNCHANGED <<waiter_count, worker_cancel_event, inflight>>
           ELSE ReleaseWaiter(f, FALSE)
        /\ UNCHANGED <<call, cancelled, task, outcome, cold_lock, storeVars>>

\* The calling task is cancelled while it waits or drains.
CancelCaller(r) ==
    /\ pc[r] \in {"waiting", "draining"}
    /\ cancelled' = cancelled \cup {r}
    /\ ReleaseWaiter(served[r].entry, TRUE)
    /\ Return(r, "cancelled", NotServed)
    /\ UNCHANGED <<call, task, outcome, cold_lock, storeVars>>

\* The cancel_event fires first: the sole waiter goes on to wait for the
\* worker to exit, another one returns at once.
CancelExplicit(r) ==
    LET f == served[r].entry
    IN  /\ pc[r] = "waiting"
        /\ r \in Explicit
        /\ task[f] # "done"
        /\ cancelled' = cancelled \cup {r}
        /\ ReleaseWaiter(f, TRUE)
        /\ IF SoleCancel(f)
           THEN /\ pc' = [pc EXCEPT ![r] = "draining"]
                /\ UNCHANGED <<result, served>>
           ELSE Return(r, "cancelled", NotServed)
        /\ UNCHANGED <<call, task, outcome, cold_lock, storeVars>>

DrainedCaller(r) ==
    /\ pc[r] = "draining"
    /\ task[served[r].entry] = "done"
    /\ Return(r, "cancelled", NotServed)
    /\ UNCHANGED <<call, cancelled, flightVars, cold_lock, storeVars>>

(***************************************************************************)
(* _execute_flight()                                                       *)
(***************************************************************************)

Stopped(f) == f \in worker_cancel_event

\* The task returns its outcome and, in its finally block, unregisters the
\* flight if it is still the registered one.
Finish(f, status) ==
    /\ task' = [task EXCEPT ![f] = "done"]
    /\ outcome' = [outcome EXCEPT ![f] = status]
    /\ inflight' = IF inflight[FlightKey(f)] = f
                   THEN [inflight EXCEPT ![FlightKey(f)] = None]
                   ELSE inflight
    /\ UNCHANGED <<call, callVars, waiter_count, worker_cancel_event>>

Proceed(f, phase) ==
    /\ task' = [task EXCEPT ![f] = phase]
    /\ UNCHANGED <<call, callVars, inflight, waiter_count, worker_cancel_event,
                   outcome>>

\* The task's first step: with a disk tier and a reusable key it looks on disk.
StartFlight(f) ==
    /\ task[f] = "start"
    /\ IF ~DiskEnabled \/ ~IsReusable(f) THEN Proceed(f, "admission")
       ELSE IF Stopped(f) THEN Finish(f, "cancelled")
       ELSE Proceed(f, "disk_lookup")
    /\ UNCHANGED <<cold_lock, storeVars>>

\* disk_cache.lookup(): a miss, damage or an I/O error sends the flight on to
\* a cold build; the lookup itself notices a cancellation at its checks.
DiskLookup(f) ==
    /\ task[f] = "disk_lookup"
    /\ \/ Stopped(f) /\ Finish(f, "cancelled")
       \/ ~Stopped(f) /\ Proceed(f, "disk_load")
       \/ Proceed(f, "admission")
    /\ UNCHANGED <<cold_lock, storeVars>>

\* A validated disk artifact becomes a memory entry, unless loading fails.
DiskLoad(f) ==
    /\ task[f] = "disk_load"
    /\ \/ Proceed(f, "admission") /\ UNCHANGED cache
       \/ Stopped(f) /\ Finish(f, "cancelled") /\ UNCHANGED cache
       \/ ~Stopped(f) /\ Finish(f, "ready") /\ PublishReusable(f)
    /\ UNCHANGED <<cold_lock, handoffs>>

\* One poll of the admission loop.  (Mutant: the lock is not consulted.)
LockIgnored == TRUE
LockFree == cold_lock = None

CancelAdmission(f) ==
    /\ task[f] = "admission"
    /\ Stopped(f)
    /\ Finish(f, "cancelled")
    /\ UNCHANGED <<cold_lock, storeVars>>

Admit(f) ==
    /\ task[f] = "admission"
    /\ ~Stopped(f)
    /\ LockFree
    /\ cold_lock' = f
    /\ Proceed(f, "building")
    /\ UNCHANGED storeVars

\* The finally block around the worker run.  (Mutant: the lock is released
\* only after a run that answered.)
ReleaseOnSuccess(f) == cold_lock' = IF task'[f] = "loading" THEN None ELSE cold_lock
ReleaseColdBuild(f) == cold_lock' = None

\* The worker runner returns and the admission is released: ready, stopped by
\* the cancellation, or timed out, crashed or malformed.
WorkerReturns(f) ==
    /\ task[f] = "building"
    /\ \/ ~Stopped(f) /\ Proceed(f, "loading")
       \/ Stopped(f) /\ Finish(f, "cancelled")
       \/ Finish(f, "failed")
    /\ ReleaseColdBuild(f)
    /\ UNCHANGED storeVars

\* Which results may leave the flight for later requests: those of complete
\* identities enter the memory LRU, the others at most a handoff.
\* (Mutant: every result is cached.)
CacheEverything(f) == PublishReusable(f) /\ UNCHANGED handoffs
Publish(f) ==
    IF IsReusable(f) THEN PublishReusable(f) /\ UNCHANGED handoffs
                     ELSE PublishHandoff(f) /\ UNCHANGED cache

\* The payload is decoded and validated in a thread.
LoadPayload(f) ==
    /\ task[f] = "loading"
    /\ \/ Finish(f, "failed") /\ UNCHANGED storeVars
       \/ Stopped(f) /\ Finish(f, "cancelled") /\ UNCHANGED storeVars
       \/ /\ ~Stopped(f)
          /\ IF DiskEnabled /\ IsReusable(f)
             THEN Proceed(f, "publishing") /\ UNCHANGED storeVars
             ELSE Finish(f, "ready") /\ Publish(f)
    /\ UNCHANGED cold_lock

\* disk_cache.publish() in a thread.  Its failure is not the flight's; a
\* cancellation it notices is.
DiskPublish(f) ==
    /\ task[f] = "publishing"
    /\ \/ Stopped(f) /\ Finish(f, "cancelled") /\ UNCHANGED storeVars
       \/ Finish(f, "ready") /\ Publish(f)
    /\ UNCHANGED cold_lock

\* The expiry timer of a handoff.
ExpireHandoff(f) ==
    /\ f \in ToSet(handoffs)
    /\ handoffs' = Without(handoffs, f)
    /\ UNCHANGED <<call, callVars, flightVars, cold_lock, cache>>

CallStep(r) ==
    \/ PrepareCancelledEarly(r) \/ PrepareHit(r) \/ PrepareHandoff(r)
    \/ PrepareJoin(r) \/ PrepareCreate(r)
    \/ Deliver(r) \/ CancelCaller(r) \/ CancelExplicit(r) \/ DrainedCaller(r)

FlightStep(f) ==
    \/ StartFlight(f) \/ DiskLookup(f) \/ DiskLoad(f)
    \/ CancelAdmission(f) \/ Admit(f) \/ WorkerReturns(f)
    \/ LoadPayload(f) \/ DiskPublish(f)

Next == \E r \in Request : CallStep(r) \/ FlightStep(r) \/ ExpireHandoff(r)

\* The loop runs every ready task, threads return, and a worker run ends: it
\* answers, times out or is killed.  Nobody has to call or to cancel.
Fairness ==
    \A r \in Request : WF_vars(FlightStep(r)) /\ WF_vars(Deliver(r))
                       /\ WF_vars(DrainedCaller(r))

Spec == Init /\ [][Next]_vars

FairSpec == Spec /\ Fairness

(***************************************************************************)
(* Properties                                                              *)
(***************************************************************************)

Building == {f \in Request : task[f] = "building"}
WaitsFor(f) == {r \in Request : pc[r] = "waiting" /\ served[r].entry = f}

\* At most one cold frontend runs in the process, and the admission lock is
\* held by exactly that build: no cancellation, timeout or failure leaves it
\* taken or frees another's.
OneColdBuild ==
    \A f \in Request : f \in Building <=> cold_lock = f

\* The memory tier holds at most one entry per digest, within both limits,
\* and only artifacts with complete identities.
CacheHonest ==
    /\ Fits(cache, CacheBytes, MaxCacheEntries, MaxCacheBytes)
    /\ \A i, j \in DOMAIN cache : cache[i] = cache[j] => i = j
    /\ ToSet(cache) \subseteq Reusable

\* A handoff answers one call, for exactly its artifact and timeout.
HandoffOneShot ==
    \A r, s \in Request :
        served[r].tier = "handoff" =>
            /\ call[served[r].entry] = call[r]
            /\ ~IsReusable(r)
            /\ r # s => served[s] # served[r]

\* A call that succeeds is answered by a memory entry whose scope is or
\* contains the one it asked for, or by a preparation of exactly its artifact
\* that succeeded.
AnswerCovers ==
    \A r \in Request :
        result[r] = "ready" =>
            LET e == served[r].entry
            IN  IF served[r].tier = "memory"
                THEN /\ IsReusable(r)
                     /\ e = artifact(r) \/ <<e, artifact(r)>> \in Covers
                ELSE artifact(e) = artifact(r) /\ outcome[e] = "ready"

\* The same preparation never runs twice at the same time: a flight whose
\* task is running is the registered one of its key.
NoDuplicateFlight ==
    \A f \in Request :
        task[f] \notin {"none", "done"} => inflight[FlightKey(f)] = f

\* A step that stops a worker leaves nobody waiting for it: "One waiter
\* cannot cancel a worker still needed by another."
StopsOnlyUnneeded ==
    [][\A f \in worker_cancel_event' \ worker_cancel_event : WaitsFor(f)' = {}]_vars

\* Every call of prepare() that has started to wait returns.
CallReturns == \A r \in Request : pc[r] # "idle" ~> pc[r] = "done"

\* "The flight itself is removed on ... final-waiter cancellation. One waiter
\* cannot cancel a worker still needed by another" (docs/architecture.md): a
\* call reports a cancellation only if its own caller cancelled it.
OnlyCancelledCallsCancel ==
    \A r \in Request : result[r] = "cancelled" => r \in cancelled

\* One cold build at a time and one flight for each preparation.
BuildsOnce == OneColdBuild /\ NoDuplicateFlight

\* The cache and the waiter counts are what their types and limits say.
StoreHonest == TypeOK /\ CacheHonest

\* What answers a call is what it asked for, and a handoff answers only one.
AnswerFits == AnswerCovers /\ HandoffOneShot
===============================================================================
