-------------------------- MODULE SemanticScanRuntime --------------------------
(***************************************************************************)
(* src/src/structural_semantic_runtime.py beside the source-graph runtime:  *)
(* a semantic scan reuses a completed result, borrows a query artifact, or *)
(* (mode "deep") builds a frontend under the same process-wide cold-build  *)
(* admission as the queries, and may publish the query artifact it built.  *)
(*                                                                         *)
(* One OtherBuild is one call of SemanticScanRuntime.scan().  The scans    *)
(* publish while they hold the runtime's own asyncio lock, but their first *)
(* cache check is outside it.                                              *)
(***************************************************************************)
EXTENDS SourceGraphRuntime

CONSTANTS
    ScanKey,            \* digest of identity, options, frontend and rules
    ScanPlan,           \* the assignments of [key, deep, ask] to scans
    ScanBytes,          \* encoded size of each key's result
    MaxScanEntries,     \* 4 in the code
    MaxScanBytes        \* 32 MiB in the code

ASSUME ScanAssumption ==
    /\ ScanPlan \subseteq [OtherBuild -> [key : ScanKey, deep : BOOLEAN,
                                          ask : Artifact \cup {None}]]
    /\ ScanBytes \in [ScanKey -> Nat]
    /\ MaxScanEntries \in Nat \ {0} /\ MaxScanBytes \in Nat \ {0}

VARIABLES
    plan,           \* plan[s].ask: the query artifact the scan may share
    spc, sresult,   \* per scan: control and status
    scan_cache,     \* _cache, least recently used first
    admission       \* holder of _admission

scanVars == <<spc, sresult, scan_cache, admission>>
allVars  == <<vars, plan, scanVars>>

ScanState  == {"idle", "checking", "borrowing", "entering", "rechecking",
               "preparing", "polling", "running", "timed_out", "validating",
               "sharing", "done"}
ScanResult == {"none", "hit", "not_run", "borrowed", "partial", "complete",
               "unavailable", "cancelled", "key_error"}

ScanTypeOK ==
    /\ TypeOK
    /\ plan \in ScanPlan
    /\ spc \in [OtherBuild -> ScanState]
    /\ sresult \in [OtherBuild -> ScanResult]
    /\ scan_cache \in Seq(ScanKey) /\ Len(scan_cache) <= MaxScanEntries
    /\ admission \in OtherBuild \cup {None}

ScanInit ==
    /\ Init
    /\ plan \in ScanPlan
    /\ spc = [s \in OtherBuild |-> "idle"]
    /\ sresult = [s \in OtherBuild |-> "none"]
    /\ scan_cache = <<>>
    /\ admission = None

KeyOf(s) == plan[s].key
Cached(s) == KeyOf(s) \in ToSet(scan_cache)

Enter(s, phase) == spc' = [spc EXCEPT ![s] = phase] /\ UNCHANGED sresult
Leave(s, status) ==
    /\ spc' = [spc EXCEPT ![s] = "done"]
    /\ sresult' = [sresult EXCEPT ![s] = status]

\* Where a scan goes that found no completed result.  A deep scan needs an
\* enabled frontend.
Miss(s) ==
    IF plan[s].deep THEN Enter(s, "entering") \/ Leave(s, "unavailable")
                    ELSE Enter(s, "preparing")

(***************************************************************************)
(* scan() before its admission                                             *)
(***************************************************************************)
ScanStart(s) ==
    /\ spc[s] = "idle"
    /\ IF Cached(s) THEN Enter(s, "checking") ELSE Miss(s)
    /\ UNCHANGED <<vars, plan, scan_cache, admission>>

\* identity.current() returns from its thread.  move_to_end() raises KeyError
\* if the entry seen before the await has been evicted meanwhile.
ScanChecked(s) ==
    /\ spc[s] = "checking"
    /\ \/ /\ Cached(s)
          /\ scan_cache' = Touch(scan_cache, KeyOf(s))
          /\ Leave(s, "hit")
       \/ ~Cached(s) /\ Leave(s, "key_error") /\ UNCHANGED scan_cache
       \/ Miss(s) /\ UNCHANGED scan_cache
    /\ UNCHANGED <<vars, plan, admission>>

\* Mode "auto": lookup_prepared() finds a query artifact, or not_run.
ScanAuto(s) ==
    /\ spc[s] = "preparing"
    /\ ~plan[s].deep
    /\ \/ Leave(s, "not_run") /\ UNCHANGED vars
       \/ /\ plan[s].ask \in Reusable
          /\ \E e \in Found(plan[s].ask) : cache' = Touch(cache, e)
          /\ Enter(s, "borrowing")
          /\ UNCHANGED <<call, callVars, flightVars, cold_lock, handoffs>>
    /\ UNCHANGED <<plan, scan_cache, admission>>

\* The manifests agree and the identity is still current, or not.
ScanBorrowed(s) ==
    /\ spc[s] = "borrowing"
    /\ Leave(s, "borrowed") \/ Leave(s, "not_run")
    /\ UNCHANGED <<vars, plan, scan_cache, admission>>

(***************************************************************************)
(* scan() under its admission, and run_isolated_scan()                     *)
(***************************************************************************)

\* "async with self._admission".
AdmissionFree(s) == admission = None
LeaveAdmission(s) == admission' = IF admission = s THEN None ELSE admission

ScanEnter(s) ==
    /\ spc[s] = "entering"
    /\ AdmissionFree(s)
    /\ admission' = s
    /\ Enter(s, IF Cached(s) THEN "rechecking" ELSE "preparing")
    /\ UNCHANGED <<vars, plan, scan_cache>>

\* The second check reads the entry after its await without looking again.
ScanRechecked(s) ==
    /\ spc[s] = "rechecking"
    /\ \/ Leave(s, "hit") /\ LeaveAdmission(s)
       \/ Enter(s, "preparing") /\ UNCHANGED admission
    /\ UNCHANGED <<vars, plan, scan_cache>>

\* The payload is built in a thread, or shows that there is nothing to scan.
ScanPrepared(s) ==
    /\ spc[s] = "preparing"
    /\ plan[s].deep
    /\ \/ Enter(s, "polling") /\ UNCHANGED admission
       \/ Leave(s, "unavailable") /\ LeaveAdmission(s)
    /\ UNCHANGED <<vars, plan, scan_cache>>

ScanAdmitted(s) ==
    /\ spc[s] = "polling"
    /\ LockFree
    /\ cold_lock' = s
    /\ Enter(s, "running")
    /\ UNCHANGED <<call, callVars, flightVars, storeVars, plan, scan_cache,
                   admission>>

\* The finally block of run_isolated_scan().  (Mutant: it releases the lock
\* whether or not this scan was admitted.)
ReleaseAlways(s) == cold_lock' = None
ReleaseAdmitted(s) == cold_lock' = IF spc[s] = "running" THEN None ELSE cold_lock

\* The timeout passes while the lock is held by others, or just after it was
\* taken: a partial result.
ScanAdmissionTimeout(s) ==
    /\ spc[s] \in {"polling", "running"}
    /\ ReleaseAdmitted(s)
    /\ Enter(s, "timed_out")
    /\ UNCHANGED <<call, callVars, flightVars, storeVars, plan, scan_cache,
                   admission>>

\* The worker has been reaped, with or without an answer.
ScanReturns(s) ==
    /\ spc[s] = "running"
    /\ ReleaseAdmitted(s)
    /\ Enter(s, "validating")
    /\ UNCHANGED <<call, callVars, flightVars, storeVars, plan, scan_cache,
                   admission>>

\* Publication of a complete result.
PublishScan(s) ==
    scan_cache' = EvictOldest(Touch(scan_cache, KeyOf(s)), ScanBytes,
                              MaxScanEntries, MaxScanBytes)

\* A complete result of a complete and still current identity is cached,
\* unless it is larger than the cache; any other result is only returned.
Conclude(s) ==
    /\ \/ /\ ScanBytes[KeyOf(s)] <= MaxScanBytes
          /\ Leave(s, "complete")
          /\ PublishScan(s)
       \/ Leave(s, "complete") /\ UNCHANGED scan_cache
       \/ Leave(s, "partial") /\ UNCHANGED scan_cache
    /\ LeaveAdmission(s)

\* identity.current() returns.  With a query artifact worth publishing, and a
\* current identity, the artifact goes through the loader first.
ScanValidated(s) ==
    /\ spc[s] = "validating"
    /\ \/ /\ plan[s].ask \in Reusable
          /\ CacheBytes[plan[s].ask] <= MaxCacheBytes
          /\ Enter(s, "sharing")
          /\ UNCHANGED <<scan_cache, admission>>
       \/ Conclude(s)
    /\ UNCHANGED <<vars, plan>>

ScanTimedOut(s) ==
    /\ spc[s] = "timed_out"
    /\ Leave(s, "partial")
    /\ LeaveAdmission(s)
    /\ UNCHANGED <<vars, plan, scan_cache>>

\* publish_prepared(): the artifact passes the loader in a thread and enters
\* the queries' memory LRU, or is rejected.
ScanShared(s) ==
    /\ spc[s] = "sharing"
    /\ PublishEntry(plan[s].ask) \/ UNCHANGED cache
    /\ Conclude(s)
    /\ UNCHANGED <<call, callVars, flightVars, cold_lock, handoffs, plan>>

\* The calling task is cancelled at any await: the locks it holds, and only
\* those, are released on the way out (a running worker is reaped before).
ScanCancelled(s) ==
    /\ spc[s] \notin {"idle", "done"}
    /\ ReleaseAdmitted(s)
    /\ LeaveAdmission(s)
    /\ Leave(s, "cancelled")
    /\ UNCHANGED <<call, callVars, flightVars, storeVars, plan, scan_cache>>

ScanStep(s) ==
    \/ ScanChecked(s) \/ ScanAuto(s) \/ ScanBorrowed(s)
    \/ ScanEnter(s) \/ ScanRechecked(s) \/ ScanPrepared(s) \/ ScanAdmitted(s)
    \/ ScanReturns(s) \/ ScanValidated(s) \/ ScanTimedOut(s) \/ ScanShared(s)

ScanNext ==
    \/ Next /\ UNCHANGED <<plan, scanVars>>
    \/ \E s \in OtherBuild :
          \/ ScanStart(s) \/ ScanStep(s)
          \/ ScanAdmissionTimeout(s) \/ ScanCancelled(s)

\* Threads and workers return; a poller that stays shut out times out.
ScanFairness ==
    /\ Fairness
    /\ \A s \in OtherBuild : WF_allVars(ScanStep(s) \/ ScanAdmissionTimeout(s))

ScanSpec == ScanInit /\ [][ScanNext]_allVars

FairScanSpec == ScanSpec /\ ScanFairness

(***************************************************************************)
(* Properties                                                              *)
(***************************************************************************)

Scanning == {s \in OtherBuild : spc[s] = "running"}

\* Queries and deep scans together run at most one cold frontend, and the
\* lock names it: "cancellation or timeout while waiting cannot release
\* another operation's admission."
OneColdFrontend ==
    \A b \in Request \cup OtherBuild :
        b \in Building \cup Scanning <=> cold_lock = b

\* The scan's own lock is held exactly while an admitted scan is under way,
\* so a cancelled or failed scan never blocks the next one.
AdmissionReturned ==
    \A s \in OtherBuild :
        admission = s <=>
            \/ spc[s] \in {"rechecking", "polling", "running", "timed_out",
                           "validating", "sharing"}
            \/ spc[s] = "preparing" /\ plan[s].deep

\* The check under the admission reads an entry it saw before its await: the
\* entry is still there, because whoever evicts holds the admission.
RecheckedStillCached ==
    \A s \in OtherBuild : spc[s] = "rechecking" => Cached(s)

\* Every scan returns, whatever holds the cold-build admission.
ScanReturnsEventually ==
    \A s \in OtherBuild : spc[s] # "idle" ~> spc[s] = "done"

\* "default `auto` reuses a compatible completed semantic result or explicitly
\* reports `not_run`" (docs/architecture.md): an auto scan that saw a completed
\* result never fails because another scan evicted it.
HitOrNotRun ==
    \A s \in OtherBuild : ~plan[s].deep => sresult[s] # "key_error"

\* The admissions of scans and queries: each held by exactly the work it was given
\* to, through every timeout, cancellation and failure.
AdmissionsHonest ==
    /\ ScanTypeOK
    /\ OneColdFrontend
    /\ AdmissionReturned
    /\ RecheckedStillCached
===============================================================================
