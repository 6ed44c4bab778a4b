------------------------- MODULE CompileSourceRuntime -------------------------
(***************************************************************************)
(* src/src/compile_source_runtime.py: concurrent callers that need the raw *)
(* source text of one compile snapshot share one CompileSourceIndex.  The  *)
(* first caller of acquire() starts a flight that builds the index in a    *)
(* thread; later callers join it.  A finished flight becomes a session,    *)
(* counted by the leases on it, and the last release closes the index,     *)
(* which drops its text.                                                   *)
(*                                                                         *)
(* One Request is one call of acquire() together with the lease it         *)
(* returns.  A flight, and the index it builds, is named by the request    *)
(* that created it: each call creates at most one.  All bookkeeping runs   *)
(* on one event loop, so a step is the code between two awaits; only the   *)
(* build runs in another thread.                                           *)
(***************************************************************************)
EXTENDS Integers, FiniteSets

CONSTANTS
    Request,    \* calls of acquire()
    Key,        \* (digest, max_bytes, max_files)
    None        \* Python's None

ASSUME NoneAssumption == None \notin Request
ASSUME FiniteAssumption == IsFiniteSet(Request)

VARIABLES
    key,            \* key[r]: the runtime_key of call r, fixed by the caller
    pc,             \* pc[r]: where call r, or the lease it returned, is
    flights,        \* _flights: the registered flight of each key
    session,        \* _sessions: the index of each key's session
    holder_count,   \* _Session.holder_count
    waiter_count,   \* _Flight.waiter_count
    task,           \* _Flight.task
    cancel_event,   \* flights whose cancel_event is set
    content,        \* what the build put into the index
    index,          \* whether the index of a flight retains text
    joined,         \* joined[r]: the flight that call r awaits
    lease           \* lease[r]: the index of the lease that call r returned

reqVars  == <<pc, joined, lease>>
regVars  == <<flights, session, holder_count, waiter_count, cancel_event>>
taskVars == <<task, content>>
vars     == <<key, reqVars, regVars, taskVars, index>>

PcState      == {"idle", "waiting", "holding", "released", "missed",
                 "cancelled", "failed"}
TaskState    == {"none", "running", "built", "done", "failed"}
ContentState == {"none", "full", "io_fallback", "cancel_fallback"}

TypeOK ==
    /\ key \in [Request -> Key]
    /\ pc \in [Request -> PcState]
    /\ flights \in [Key -> Request \cup {None}]
    /\ session \in [Key -> Request \cup {None}]
    /\ holder_count \in [Key -> Nat]
    /\ waiter_count \in [Request -> Nat]
    /\ task \in [Request -> TaskState]
    /\ cancel_event \in SUBSET Request
    /\ content \in [Request -> ContentState]
    /\ index \in [Request -> {"none", "open", "closed"}]
    /\ joined \in [Request -> Request \cup {None}]
    /\ lease \in [Request -> Request \cup {None}]

Init ==
    /\ key \in [Request -> Key]
    /\ pc = [r \in Request |-> "idle"]
    /\ flights = [k \in Key |-> None]
    /\ session = [k \in Key |-> None]
    /\ holder_count = [k \in Key |-> 0]
    /\ waiter_count = [r \in Request |-> 0]
    /\ task = [r \in Request |-> "none"]
    /\ cancel_event = {}
    /\ content = [r \in Request |-> "none"]
    /\ index = [r \in Request |-> "none"]
    /\ joined = [r \in Request |-> None]
    /\ lease = [r \in Request |-> None]

(***************************************************************************)
(* acquire(), up to its await                                              *)
(***************************************************************************)

\* No session answers this call.  (Mutant: the check is forgotten.)
SessionIgnored(r) == TRUE
NoSession(r) == session[key[r]] = None

\* An active session answers at once with a lease on its index.
AcquireHit(r) ==
    /\ pc[r] = "idle"
    /\ session[key[r]] # None
    /\ holder_count' = [holder_count EXCEPT ![key[r]] = @ + 1]
    /\ lease' = [lease EXCEPT ![r] = session[key[r]]]
    /\ pc' = [pc EXCEPT ![r] = "holding"]
    /\ UNCHANGED <<key, joined, flights, session, waiter_count, cancel_event,
                   taskVars, index>>

\* A live flight is joined.
AcquireJoin(r) ==
    /\ pc[r] = "idle"
    /\ NoSession(r)
    /\ flights[key[r]] # None
    /\ waiter_count' = [waiter_count EXCEPT ![flights[key[r]]] = @ + 1]
    /\ joined' = [joined EXCEPT ![r] = flights[key[r]]]
    /\ pc' = [pc EXCEPT ![r] = "waiting"]
    /\ UNCHANGED <<key, lease, flights, session, holder_count, cancel_event,
                   taskVars, index>>

\* Neither exists: the call registers a flight and starts its task ...
AcquireCreate(r) ==
    /\ pc[r] = "idle"
    /\ NoSession(r)
    /\ flights[key[r]] = None
    /\ flights' = [flights EXCEPT ![key[r]] = r]
    /\ waiter_count' = [waiter_count EXCEPT ![r] = 1]
    /\ task' = [task EXCEPT ![r] = "running"]
    /\ joined' = [joined EXCEPT ![r] = r]
    /\ pc' = [pc EXCEPT ![r] = "waiting"]
    /\ UNCHANGED <<key, lease, session, holder_count, cancel_event, content,
                   index>>

\* ... or, with create_if_missing=False, returns None.
AcquireMiss(r) ==
    /\ pc[r] = "idle"
    /\ NoSession(r)
    /\ flights[key[r]] = None
    /\ pc' = [pc EXCEPT ![r] = "missed"]
    /\ UNCHANGED <<key, joined, lease, regVars, taskVars, index>>

(***************************************************************************)
(* _execute_flight()                                                       *)
(***************************************************************************)

\* The thread's build() returns an index.  OSError, MemoryError and the
\* cooperative cancellation leave an empty fallback index.  A cancel_event
\* set after build()'s last check goes unnoticed.
Build(f) ==
    /\ task[f] = "running"
    /\ \E c \in {"full", "io_fallback", "cancel_fallback"} :
          /\ c = "cancel_fallback" => f \in cancel_event
          /\ content' = [content EXCEPT ![f] = c]
    /\ task' = [task EXCEPT ![f] = "built"]
    /\ index' = [index EXCEPT ![f] = "open"]
    /\ UNCHANGED <<key, reqVars, regVars>>

\* Any other exception of build() fails the task.
BuildFails(f) ==
    /\ task[f] = "running"
    /\ task' = [task EXCEPT ![f] = "failed"]
    /\ UNCHANGED <<key, reqVars, regVars, content, index>>

\* The flight is no longer the registered one of its key.  (Mutant: never.)
OrphanCheckDropped(f) == FALSE
Orphaned(f) == flights[key[f]] # f

\* Back on the loop: an index whose flight is no longer registered has no
\* waiter left and is closed.
FinishFlight(f) ==
    /\ task[f] = "built"
    /\ task' = [task EXCEPT ![f] = "done"]
    /\ index' = IF Orphaned(f)
                THEN [index EXCEPT ![f] = "closed"]
                ELSE index
    /\ UNCHANGED <<key, reqVars, regVars, content>>

(***************************************************************************)
(* acquire(), after its await                                              *)
(***************************************************************************)

\* A counter is decremented unless it is zero already.
Decrement(n) == IF n > 0 THEN n - 1 ELSE 0

\* A flight leaves _flights when its last waiter does, if it is still the
\* one registered.  (Mutant: it stays.)
StayRegistered(f) == flights' = flights
Unregister(f) ==
    flights' = IF waiter_count'[f] = 0 /\ flights[key[f]] = f
               THEN [flights EXCEPT ![key[f]] = None]
               ELSE flights

\* The awaited task has returned.  (Mutant: only the first waiter is woken.)
FirstWaiterOnly(r) == task[joined[r]] = "done" /\ session[key[r]] = None
Answered(r) == task[joined[r]] = "done"

\* The shielded await returns: the first waiter creates the session.
ResumeWaiter(r) ==
    LET f == joined[r]
        k == key[r]
    IN  /\ pc[r] = "waiting"
        /\ Answered(r)
        /\ waiter_count' = [waiter_count EXCEPT ![f] = Decrement(@)]
        /\ session' = IF session[k] = None
                      THEN [session EXCEPT ![k] = f]
                      ELSE session
        /\ holder_count' = [holder_count EXCEPT
                               ![k] = IF session[k] = None THEN 1 ELSE @ + 1]
        /\ Unregister(f)
        /\ lease' = [lease EXCEPT ![r] = f]
        /\ pc' = [pc EXCEPT ![r] = "holding"]
        /\ UNCHANGED <<key, joined, cancel_event, taskVars, index>>

\* _cancel_waiter(): the caller is cancelled in its await, possibly after
\* the task is done but before the caller ran again.
CancelWaiter(r) ==
    LET f == joined[r]
        k == key[r]
        last == waiter_count'[f] = 0
    IN  /\ pc[r] = "waiting"
        /\ pc' = [pc EXCEPT ![r] = "cancelled"]
        /\ waiter_count' = [waiter_count EXCEPT ![f] = Decrement(@)]
        /\ Unregister(f)
        /\ IF last /\ session[k] = None
           THEN /\ cancel_event' = cancel_event \cup {f}
                /\ index' = IF task[f] = "done"
                            THEN [index EXCEPT ![f] = "closed"]
                            ELSE index
                /\ UNCHANGED session
           ELSE IF last /\ holder_count[k] = 0
           THEN /\ session' = [session EXCEPT ![k] = None]
                /\ index' = [index EXCEPT ![session[k]] = "closed"]
                /\ UNCHANGED cancel_event
           ELSE UNCHANGED <<session, cancel_event, index>>
        /\ UNCHANGED <<key, joined, lease, holder_count, taskVars>>

\* _fail_waiter(): the shared task failed.
FailWaiter(r) ==
    /\ pc[r] = "waiting"
    /\ task[joined[r]] = "failed"
    /\ waiter_count' = [waiter_count EXCEPT ![joined[r]] = Decrement(@)]
    /\ Unregister(joined[r])
    /\ pc' = [pc EXCEPT ![r] = "failed"]
    /\ UNCHANGED <<key, joined, lease, session, holder_count, cancel_event,
                   taskVars, index>>

(***************************************************************************)
(* CompileSourceIndexLease.release().  The _released flag makes a second   *)
(* call a no-op: a lease is released once.                                 *)
(***************************************************************************)
\* The _released flag is clear.  (Mutant: it is not looked at.)
ReleasedAgain(r) == pc[r] \in {"holding", "released"}
NotReleased(r) == pc[r] = "holding"

Release(r) ==
    LET k == key[r]
        ours == session[k] # None /\ session[k] = lease[r]
        remaining == Decrement(holder_count[k])
        waited == flights[k] # None /\ waiter_count[flights[k]] # 0
        final == ours /\ remaining = 0 /\ ~waited
    IN  /\ NotReleased(r)
        /\ pc' = [pc EXCEPT ![r] = "released"]
        /\ holder_count' = IF ours
                           THEN [holder_count EXCEPT ![k] = remaining]
                           ELSE holder_count
        /\ session' = IF final THEN [session EXCEPT ![k] = None] ELSE session
        /\ index' = IF final
                    THEN [index EXCEPT ![lease[r]] = "closed"]
                    ELSE index
        /\ UNCHANGED <<key, joined, lease, flights, waiter_count,
                       cancel_event, taskVars>>

Next ==
    \E r \in Request :
        \/ AcquireHit(r) \/ AcquireJoin(r) \/ AcquireCreate(r) \/ AcquireMiss(r)
        \/ Build(r) \/ BuildFails(r) \/ FinishFlight(r)
        \/ ResumeWaiter(r) \/ CancelWaiter(r) \/ FailWaiter(r)
        \/ Release(r)

\* The thread pool finishes every build, the loop runs every ready task, and
\* every caller releases its lease in a finally block.  Calls need not be
\* made and waiters need not be cancelled.
Fairness ==
    \A r \in Request :
        /\ WF_vars(Build(r) \/ BuildFails(r))
        /\ WF_vars(FinishFlight(r))
        /\ WF_vars(ResumeWaiter(r) \/ FailWaiter(r))
        /\ WF_vars(Release(r))

Spec == Init /\ [][Next]_vars

FairSpec == Spec /\ Fairness

(***************************************************************************)
(* Properties                                                              *)
(***************************************************************************)

Holding(k) == {r \in Request : pc[r] = "holding" /\ key[r] = k}
Waiting(f) == {r \in Request : pc[r] = "waiting" /\ joined[r] = f}

\* No lease that a caller still holds refers to an index whose text has been
\* dropped, whoever else released, cancelled or orphaned the shared flight.
NoUseAfterClose ==
    \A r \in Request : pc[r] = "holding" => index[lease[r]] = "open"

\* Raw text is retained only for somebody: an index with text is leased, is
\* awaited by a live waiter, or belongs to a flight whose task has yet to run
\* its orphan check.  Once the last waiter and holder are gone no index leaks.
NoRetainedText ==
    \A i \in Request :
        index[i] = "open" =>
            \/ task[i] = "built"
            \/ Waiting(i) # {}
            \/ \E r \in Request : pc[r] = "holding" /\ lease[r] = i

\* The empty index that a cancelled build leaves behind is never leased: a
\* caller that did not cancel gets the text, or an I/O fallback.
NoCancelledIndexLeased ==
    \A r \in Request : pc[r] = "holding" => content[lease[r]] # "cancel_fallback"

\* Callers of one key that hold leases at the same time share one index, so
\* the text of a snapshot is never resident twice for them.
OneIndexPerKey ==
    \A r, s \in Request :
        pc[r] = "holding" /\ pc[s] = "holding" /\ key[r] = key[s]
            => lease[r] = lease[s]

\* A caller that joined a flight is answered, and every index that was built
\* is eventually closed once its callers are done with it.
WaiterAnswered == \A r \in Request : pc[r] = "waiting" ~> pc[r] # "waiting"
TextDropped == \A i \in Request : index[i] = "open" ~> index[i] = "closed"

\* What a caller sees of the runtime is the shared lease of SharedLease: the
\* holders' leases, and the indexes that have been closed.
Abstract ==
    INSTANCE SharedLease WITH
        lease <- [r \in Request |-> IF pc[r] = "holding" THEN lease[r] ELSE None],
        returned <- {r \in Request : pc[r] = "released"},
        dropped <- {i \in Request : index[i] = "closed"}

\* The runtime implements the promise, in every interleaving of flights,
\* waiters, cancellations and releases.
ImplementsSharedLease == Abstract!Spec

\* Nobody who waits is forgotten and no text is kept for good.
AnsweredAndDropped == WaiterAnswered /\ TextDropped
===============================================================================
