--------------------------- MODULE HierarchyRecovery ---------------------------
(***************************************************************************)
(* Explicit hierarchy recovery: server.py _resolve_explicit_driver_context *)
(* over src/src/hierarchy_recovery.py HierarchyRecoveryRuntime.            *)
(*                                                                         *)
(* A caller looks its context up in the handle store and, when it is not   *)
(* there, joins the live flight of its key or starts one.  A flight is a   *)
(* task: it waits for the one admission, then builds in an abandonable     *)
(* thread under the source limits, then registers the handle.  A flight    *)
(* is named after the caller that started it.  The clock is discrete, and  *)
(* it does not pass a deadline whose timer has not fired.                  *)
(***************************************************************************)
EXTENDS Naturals, FiniteSets

CONSTANTS
    RecoveryCaller,     \* concurrent explain_signal_driver calls
    RecoveryKey,        \* context, log identity and limits
    MaxFlights,         \* 4 in the code
    RecoveryTimeout,    \* 30 s in the code
    RecoveryHorizon,    \* bound on the clock
    SourceFile,         \* the files a build may read
    SourceBytes,        \* their sizes
    MaxSourceFiles,     \* 4096 in the code
    MaxSourceBytes,     \* 128 MiB in the code
    NoFlight

ASSUME RecoveryAssumption ==
    /\ MaxFlights \in Nat \ {0} /\ RecoveryTimeout \in Nat \ {0}
    /\ RecoveryHorizon \in Nat
    /\ SourceBytes \in [SourceFile -> Nat]
    /\ MaxSourceFiles \in Nat \ {0} /\ MaxSourceBytes \in Nat \ {0}
    /\ NoFlight \notin RecoveryCaller

VARIABLES
    rv_key,         \* the workload: the key of each caller
    rv_now,         \* the clock
    rv_pc,          \* caller: "idle", "resolving", "waiting", "done"
    rv_due,         \* caller: the deadline of anyio.fail_after
    rv_on,          \* caller: the flight it awaits
    rv_result,      \* caller: its outcome
    rv_flights,     \* _flights: key -> flight
    rv_waiters,     \* flight.waiters
    rv_task,        \* flight.task: "none", "queued", "building", "cancelling", "ended"
    rv_deadline,    \* the deadline of the task's asyncio.timeout
    rv_outcome,     \* the outcome of an ended task
    rv_thread,      \* "none", "reading", "returned", "abandoned"
    rv_read,        \* the reader's paths and bytes_read
    rv_admission,   \* holder of _admission
    rv_store        \* keys whose handle is registered

rvClient == <<rv_pc, rv_due, rv_on, rv_result>>
rvFlight == <<rv_flights, rv_waiters, rv_task, rv_deadline, rv_outcome>>
rvWork   == <<rv_thread, rv_read, rv_admission, rv_store>>
recoveryVars == <<rv_key, rv_now, rvClient, rvFlight, rvWork>>

TaskLive(f) == rv_task[f] \in {"queued", "building"}
Registered  == {k \in RecoveryKey : rv_flights[k] # NoFlight}

NothingRead == [paths |-> {}, bytes |-> 0]

RecoveryInit(workload) ==
    /\ rv_key \in workload
    /\ rv_now = 0
    /\ rv_pc = [c \in RecoveryCaller |-> "idle"]
    /\ rv_due = [c \in RecoveryCaller |-> 0]
    /\ rv_on = [c \in RecoveryCaller |-> NoFlight]
    /\ rv_result = [c \in RecoveryCaller |-> "none"]
    /\ rv_flights = [k \in RecoveryKey |-> NoFlight]
    /\ rv_waiters = [f \in RecoveryCaller |-> 0]
    /\ rv_task = [f \in RecoveryCaller |-> "none"]
    /\ rv_deadline = [f \in RecoveryCaller |-> 0]
    /\ rv_outcome = [f \in RecoveryCaller |-> "none"]
    /\ rv_thread = [f \in RecoveryCaller |-> "none"]
    /\ rv_read = [f \in RecoveryCaller |-> NothingRead]
    /\ rv_admission = NoFlight
    /\ rv_store = {}

Answer(c, status) ==
    /\ rv_pc' = [rv_pc EXCEPT ![c] = "done"]
    /\ rv_result' = [rv_result EXCEPT ![c] = status]
    /\ rv_due' = [rv_due EXCEPT ![c] = 0]

(***************************************************************************)
(* The caller                                                              *)
(***************************************************************************)

\* The deadline is armed and the store is read in a thread.
BeginResolve(c) ==
    /\ rv_pc[c] = "idle"
    /\ rv_pc' = [rv_pc EXCEPT ![c] = "resolving"]
    /\ rv_due' = [rv_due EXCEPT ![c] = rv_now + RecoveryTimeout]
    /\ UNCHANGED <<rv_key, rv_now, rv_on, rv_result, rvFlight, rvWork>>

\* The context is registered, or its tokens no longer agree with the files.
ResolveAnswers(c) ==
    /\ rv_pc[c] = "resolving"
    /\ \/ rv_key[c] \in rv_store /\ Answer(c, "hit")
       \/ Answer(c, "blocked")
    /\ UNCHANGED <<rv_key, rv_now, rv_on, rvFlight, rvWork>>

Await(c, f) ==
    /\ rv_pc' = [rv_pc EXCEPT ![c] = "waiting"]
    /\ rv_on' = [rv_on EXCEPT ![c] = f]
    /\ rv_waiters' = [rv_waiters EXCEPT ![f] = @ + 1]
    /\ UNCHANGED <<rv_due, rv_result>>

\* "hierarchy_unavailable", and run() finds a live flight of the key.
JoinFlight(c) ==
    /\ rv_pc[c] = "resolving"
    /\ rv_key[c] \notin rv_store
    /\ rv_key[c] \in Registered
    /\ Await(c, rv_flights[rv_key[c]])
    /\ UNCHANGED <<rv_key, rv_now, rv_flights, rv_task, rv_deadline, rv_outcome, rvWork>>

\* run() creates the flight, and the deadline of its task, unless it is busy.
Busy == Cardinality(Registered) >= MaxFlights

StartFlight(c) ==
    /\ rv_pc[c] = "resolving"
    /\ rv_key[c] \notin rv_store
    /\ rv_key[c] \notin Registered
    /\ IF Busy
       THEN Answer(c, "busy") /\ UNCHANGED <<rv_on, rvFlight>>
       ELSE /\ Await(c, c)
            /\ rv_flights' = [rv_flights EXCEPT ![rv_key[c]] = c]
            /\ rv_task' = [rv_task EXCEPT ![c] = "queued"]
            /\ rv_deadline' = [rv_deadline EXCEPT ![c] = rv_now + RecoveryTimeout]
            /\ UNCHANGED rv_outcome
    /\ UNCHANGED <<rv_key, rv_now, rvWork>>

\* run()'s finally: the last waiter unregisters the flight and cancels its
\* task in the same step.  (Mutant: the key is left until the task ends.)
StayRegistered(f) == UNCHANGED rv_flights
PopFlight(f) == rv_flights' = [rv_flights EXCEPT ![rv_key[f]] = NoFlight]

LeaveFlight(c) ==
    LET f == rv_on[c] IN
    /\ rv_waiters' = [rv_waiters EXCEPT ![f] = @ - 1]
    /\ IF rv_waiters[f] = 1
       THEN /\ PopFlight(f)
            /\ rv_task' = [rv_task EXCEPT ![f] = IF TaskLive(f) THEN "cancelling" ELSE @]
       ELSE UNCHANGED <<rv_flights, rv_task>>
    /\ rv_on' = [rv_on EXCEPT ![c] = NoFlight]
    /\ UNCHANGED <<rv_deadline, rv_outcome>>

\* The shielded task has ended: its waiters are resumed one after another.
ResumeCaller(c) ==
    /\ rv_pc[c] = "waiting"
    /\ rv_task[rv_on[c]] = "ended"
    /\ Answer(c, rv_outcome[rv_on[c]])
    /\ LeaveFlight(c)
    /\ UNCHANGED <<rv_key, rv_now, rvWork>>

\* The client abandons the call, or its own deadline passes.
InterruptCaller(c, status) ==
    /\ rv_pc[c] \in {"resolving", "waiting"}
    /\ Answer(c, status)
    /\ IF rv_pc[c] = "waiting" THEN LeaveFlight(c)
                               ELSE UNCHANGED <<rv_on, rvFlight>>
    /\ UNCHANGED <<rv_key, rv_now, rvWork>>

AbandonCall(c) == InterruptCaller(c, "abandoned")
CallDeadline(c) == rv_now >= rv_due[c] /\ InterruptCaller(c, "timeout")

(***************************************************************************)
(* The flight's task and its thread                                        *)
(***************************************************************************)
\* "async with self._admission" is left however the build ends.  (Mutant: a
\* cancelled build keeps it.)
KeptByCancelled(f, outcome) ==
    rv_admission' = IF rv_admission = f /\ outcome # "cancelled" THEN NoFlight ELSE rv_admission
ReleaseAdmission(f, outcome) ==
    rv_admission' = IF rv_admission = f THEN NoFlight ELSE rv_admission

EndTask(f, outcome) ==
    /\ rv_task' = [rv_task EXCEPT ![f] = "ended"]
    /\ rv_outcome' = [rv_outcome EXCEPT ![f] = outcome]
    /\ ReleaseAdmission(f, outcome)
    /\ rv_deadline' = [rv_deadline EXCEPT ![f] = 0]
    /\ UNCHANGED <<rv_flights, rv_waiters>>

AdmitFlight(f) ==
    /\ rv_task[f] = "queued"
    /\ rv_admission = NoFlight
    /\ rv_admission' = f
    /\ rv_task' = [rv_task EXCEPT ![f] = "building"]
    /\ rv_thread' = [rv_thread EXCEPT ![f] = "reading"]
    /\ UNCHANGED <<rv_key, rv_now, rvClient, rv_flights, rv_waiters, rv_deadline,
                   rv_outcome, rv_read, rv_store>>

\* BoundedSourceReader.read: a path counts once, its bytes every time.
WithinLimits(r, p) ==
    /\ p \in r.paths \/ Cardinality(r.paths) < MaxSourceFiles
    /\ SourceBytes[p] <= MaxSourceBytes - r.bytes

ReadSource(f) ==
    /\ rv_thread[f] = "reading"
    /\ rv_task[f] # "cancelling"
    /\ \E p \in SourceFile :
          /\ WithinLimits(rv_read[f], p)
          /\ rv_read' = [rv_read EXCEPT ![f] = [paths |-> @.paths \cup {p},
                                                bytes |-> @.bytes + SourceBytes[p]]]
    /\ UNCHANGED <<rv_key, rv_now, rvClient, rvFlight, rv_thread, rv_admission, rv_store>>

\* The thread returns or raises; an abandoned one has nobody to return to.
ThreadReturns(f) ==
    /\ rv_thread[f] \in {"reading", "abandoned"}
    /\ rv_thread' = [rv_thread EXCEPT ![f] = IF @ = "reading" THEN "returned" ELSE "none"]
    /\ rv_read' = [rv_read EXCEPT ![f] = NothingRead]
    /\ UNCHANGED <<rv_key, rv_now, rvClient, rvFlight, rv_admission, rv_store>>

\* The task resumes with the thread's result and registers the handle.
\* (Mutant: the handle is registered whether or not the task was cancelled.)
LandAlways(f) == TRUE
StillBuilding(f) == rv_task[f] = "building"

FinishBuild(f) ==
    /\ rv_thread[f] = "returned"
    /\ StillBuilding(f)
    /\ rv_thread' = [rv_thread EXCEPT ![f] = "none"]
    /\ \/ EndTask(f, "rebuilt") /\ rv_store' = rv_store \cup {rv_key[f]}
       \/ EndTask(f, "blocked") /\ UNCHANGED rv_store
    /\ UNCHANGED <<rv_key, rv_now, rvClient, rv_read>>

\* The cancellation, or the task's own timeout, is delivered: the admission
\* is returned at once and the thread is left to notice.
Abandon(f) ==
    /\ rv_thread' = [rv_thread EXCEPT ![f] = IF @ = "reading" THEN "abandoned" ELSE "none"]
    /\ rv_read' = [rv_read EXCEPT ![f] = NothingRead]

CancelDelivered(f) ==
    /\ rv_task[f] = "cancelling"
    /\ EndTask(f, "cancelled")
    /\ Abandon(f)
    /\ UNCHANGED <<rv_key, rv_now, rvClient, rv_store>>

FlightDeadline(f) ==
    /\ TaskLive(f)
    /\ rv_now >= rv_deadline[f]
    /\ EndTask(f, "timeout")
    /\ Abandon(f)
    /\ UNCHANGED <<rv_key, rv_now, rvClient, rv_store>>

(***************************************************************************)
(* Surroundings                                                            *)
(***************************************************************************)

\* build_tb_hierarchy drops every registered handle.
InvalidateHandles ==
    /\ rv_store # {}
    /\ rv_store' = {}
    /\ UNCHANGED <<rv_key, rv_now, rvClient, rvFlight, rv_thread, rv_read, rv_admission>>

Timer(c) ==
    \/ rv_pc[c] \in {"resolving", "waiting"} /\ rv_due[c] <= rv_now
    \/ TaskLive(c) /\ rv_deadline[c] <= rv_now

RecoveryTick ==
    /\ rv_now < RecoveryHorizon
    /\ \A c \in RecoveryCaller : ~Timer(c)
    /\ \E c \in RecoveryCaller : rv_pc[c] \in {"resolving", "waiting"}
    /\ rv_now' = rv_now + 1
    /\ UNCHANGED <<rv_key, rvClient, rvFlight, rvWork>>

RecoveryServes(c) ==
    \/ ResolveAnswers(c) \/ JoinFlight(c) \/ StartFlight(c) \/ ResumeCaller(c)
    \/ CallDeadline(c) \/ AdmitFlight(c) \/ ThreadReturns(c) \/ FinishBuild(c)
    \/ CancelDelivered(c) \/ FlightDeadline(c)

RecoveryNext ==
    \/ \E c \in RecoveryCaller :
          RecoveryServes(c) \/ BeginResolve(c) \/ AbandonCall(c) \/ ReadSource(c)
    \/ InvalidateHandles \/ RecoveryTick

RecoverySpec == RecoveryInit([RecoveryCaller -> RecoveryKey]) /\ [][RecoveryNext]_recoveryVars

RecoveryBusy == \E c \in RecoveryCaller : rv_pc[c] \in {"resolving", "waiting"}
RecoveryProgress == \E c \in RecoveryCaller : RecoveryServes(c)

(***************************************************************************)
(* Properties                                                              *)
(***************************************************************************)

\* Bounds: live flights, admitted builds, and the files and bytes a build
\* has read stay within the limits, whatever joins, times out or is cancelled.
RecoveryBounded ==
    /\ Cardinality(Registered) <= MaxFlights
    /\ Cardinality({f \in RecoveryCaller : rv_task[f] = "building"}) <= 1
    /\ \A f \in RecoveryCaller :
          /\ Cardinality(rv_read[f].paths) <= MaxSourceFiles
          /\ rv_read[f].bytes <= MaxSourceBytes

\* No caller is cancelled because another one was: a flight whose last waiter
\* left cannot be joined any more, and a caller that joined late still has
\* a live or an ended flight to wait for.
NotCancelledForAnother ==
    \A c \in RecoveryCaller :
        /\ rv_result[c] # "cancelled"
        /\ rv_pc[c] = "waiting" => rv_task[rv_on[c]] # "cancelling"

\* "Cancelled workers never land": a handle is registered only by a flight
\* somebody still waits for, and within the flight's own deadline.
OnlyWantedLand ==
    [][\A k \in rv_store' \ rv_store :
          \E f \in RecoveryCaller :
             rv_key[f] = k /\ rv_waiters[f] > 0 /\ rv_now <= rv_deadline[f]]_recoveryVars

\* Within the limits, and nobody pays for another's cancellation.
RecoverySound == RecoveryBounded /\ NotCancelledForAnother
================================================================================
