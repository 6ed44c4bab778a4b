------------------------------- MODULE WaveLocks -------------------------------
(***************************************************************************)
(* src/server.py: _run_in_wave_thread() runs a waveform tool in a worker   *)
(* thread.  The worker takes one lock per VCD path and a single lock for   *)
(* all FSDB work, and keeps them until it unwinds, even when its caller    *)
(* has been cancelled.  An interactive call that finds the FSDB lock held  *)
(* by a background sweep sets the sweep's cancel event.                    *)
(*                                                                         *)
(* Lock 0 stands for _FSDB_WAVE_LOCK, whose key sorts before every path;   *)
(* the other locks are VCD paths, ordered as integers.                     *)
(***************************************************************************)
EXTENDS Integers, Sequences, FiniteSets, FiniteSetsExt

CONSTANTS
    Call,
    Paths,          \* wave_paths of each call: a sequence of paths
    Fsdb,           \* the paths that end in .fsdb
    Background,     \* calls made with _WAVE_PRIORITY_BACKGROUND
    MaxThreads,     \* tokens of the AnyIO limiter, 40 by default
    None

VARIABLES
    pc,             \* per call: where its worker is
    caller,         \* per call: what its request task has seen
    event,          \* calls whose cancel_event is set
    owner,          \* per lock: the call whose worker holds it
    active,         \* _FSDB_ACTIVE
    queue,          \* calls that wait for a thread; the limiter is fair
    threads         \* calls that hold a token of the limiter

limiter == <<queue, threads>>
vars == <<pc, caller, event, owner, active, limiter>>

FsdbLock == 0
LockOf(path) == IF path \in Fsdb THEN FsdbLock ELSE path
\* _wave_locks_for(): each lock once.  (Mutant: FSDB files are locked by path.)
LocksByPath(c) == {Paths[c][i] : i \in DOMAIN Paths[c]}
Locks(c) == {LockOf(Paths[c][i]) : i \in DOMAIN Paths[c]}
Lock == {FsdbLock} \cup UNION {LocksByPath(c) : c \in Call}

UsesFsdb(c) == \E i \in DOMAIN Paths[c] : Paths[c][i] \in Fsdb

ASSUME WaveAssumption ==
    /\ IsFiniteSet(Call)
    /\ None \notin Call
    /\ Paths \in [Call -> Seq(Nat \ {0})]
    /\ Background \subseteq Call
    /\ MaxThreads \in Nat \ {0}

\* Every variable has its type, and the lock of FSDB is registered only for
\* the call that holds it.
WaveTypeOK ==
    /\ pc \in [Call -> {"idle", "slot", "acquiring", "registering", "running",
                        "leaving", "releasing", "done"}]
    /\ caller \in [Call -> {"none", "waiting", "answered", "cancelled"}]
    /\ event \subseteq Call
    /\ owner \in [Lock -> Call \cup {None}]
    /\ active \in Call \cup {None}
    /\ active # None => owner[FsdbLock] = active
    /\ queue \in Seq(Call)
    /\ threads \subseteq Call /\ Cardinality(threads) <= MaxThreads

Init ==
    /\ pc = [c \in Call |-> "idle"]
    /\ caller = [c \in Call |-> "none"]
    /\ event = {}
    /\ owner = [l \in Lock |-> None]
    /\ active = None
    /\ queue = <<>>
    /\ threads = {}

Goto(c, label) == pc' = [pc EXCEPT ![c] = label]

Held(c) == {l \in Lock : owner[l] = c}
Missing(c) == Locks(c) \ Held(c)

\* The locks are taken in one global order.  (Mutant: in the order in which
\* the call names its paths.)
NextGiven(c) ==
    LockOf(Paths[c][Min({i \in DOMAIN Paths[c] : LockOf(Paths[c][i]) \in Missing(c)})])
NextLock(c) == Min(Missing(c))

(***************************************************************************)
(* Preemption                                                              *)
(***************************************************************************)

\* (Mutant: the priorities are not compared.)
AnyOther(c) == active \notin {None, c}
Preempts(c) == active \in Background /\ c \notin Background

\* _preempt_lower_priority_fsdb()
Preempt(c) == event' = IF Preempts(c) THEN event \cup {active} ELSE event

(***************************************************************************)
(* The request task                                                        *)
(***************************************************************************)

\* A call signals the holder once before it queues for a thread.
Submit(c) ==
    /\ pc[c] = "idle"
    /\ Goto(c, "slot")
    /\ caller' = [caller EXCEPT ![c] = "waiting"]
    /\ IF UsesFsdb(c) THEN Preempt(c) ELSE UNCHANGED event
    /\ queue' = Append(queue, c)
    /\ UNCHANGED <<owner, active, threads>>

StartThread(c) ==
    /\ queue # <<>> /\ Head(queue) = c
    /\ Cardinality(threads) < MaxThreads
    /\ queue' = Tail(queue)
    /\ threads' = threads \cup {c}
    /\ Goto(c, "acquiring")
    /\ UNCHANGED <<caller, event, owner, active>>

\* The request is cancelled.  A worker that runs is abandoned: it keeps its
\* locks.  (Mutant: they are released for it.)
ReleaseAbandoned(c) == owner' = [l \in Lock |-> IF owner[l] = c THEN None ELSE owner[l]]
KeepLocks(c) == owner' = owner

LeaveQueue(c) ==
    \/ /\ \A i \in DOMAIN queue : queue[i] # c
       /\ UNCHANGED queue
    \/ \E i \in DOMAIN queue :
          /\ queue[i] = c
          /\ queue' = [k \in 1..(Len(queue) - 1) |-> queue[IF k < i THEN k ELSE k + 1]]

CancelCall(c) ==
    /\ caller[c] = "waiting"
    /\ caller' = [caller EXCEPT ![c] = "cancelled"]
    /\ event' = event \cup {c}
    /\ threads' = threads \ {c}
    /\ LeaveQueue(c)
    /\ pc' = IF pc[c] = "slot" THEN [pc EXCEPT ![c] = "done"] ELSE pc
    /\ KeepLocks(c)
    /\ UNCHANGED active

(***************************************************************************)
(* The worker                                                              *)
(***************************************************************************)

\* A worker that waits for the FSDB lock signals again at every poll.
\* (Mutant: it relies on the signal sent when the call was submitted.)
SignalledOnce(c) == FALSE
SignalsAgain(c) == NextLock(c) = FsdbLock /\ Preempts(c) /\ active \notin event

Poll(c) ==
    /\ pc[c] = "acquiring"
    /\ Missing(c) # {}
    /\ SignalsAgain(c)
    /\ Preempt(c)
    /\ UNCHANGED <<pc, caller, owner, active, limiter>>

Acquire(c) ==
    /\ pc[c] = "acquiring"
    /\ Missing(c) # {}
    /\ owner[NextLock(c)] = None
    /\ owner' = [owner EXCEPT ![NextLock(c)] = c]
    /\ Goto(c, IF NextLock(c) = FsdbLock THEN "registering" ELSE "acquiring")
    /\ UNCHANGED <<caller, event, active, limiter>>

\* _set_active_fsdb(), a moment after the lock was taken.
Register(c) ==
    /\ pc[c] = "registering"
    /\ active' = c
    /\ Goto(c, "acquiring")
    /\ UNCHANGED <<caller, event, owner, limiter>>

\* The poll of a lock times out and the event is set.
GiveUp(c) ==
    /\ pc[c] = "acquiring"
    /\ Missing(c) # {}
    /\ owner[NextLock(c)] # None
    /\ c \in event
    /\ Goto(c, "leaving")
    /\ UNCHANGED <<caller, event, owner, active, limiter>>

\* check_cancelled() between the last lock and the body.
EnterUnlessCancelled(c) == Goto(c, IF c \in event THEN "leaving" ELSE "running")

Enter(c) ==
    /\ pc[c] = "acquiring"
    /\ Missing(c) = {}
    /\ EnterUnlessCancelled(c)
    /\ UNCHANGED <<caller, event, owner, active, limiter>>

\* The body returns; a body that meets a checkpoint with its event set stops.
BodyReturns(c) ==
    /\ pc[c] = "running"
    /\ Goto(c, "leaving")
    /\ UNCHANGED <<caller, event, owner, active, limiter>>

BodyStops(c) ==
    /\ pc[c] = "running"
    /\ c \in event
    /\ Goto(c, "leaving")
    /\ UNCHANGED <<caller, event, owner, active, limiter>>

\* _clear_active_fsdb() comes before the locks are released.
ClearActive(c) == IF active = c THEN None ELSE active

Leave(c) ==
    /\ pc[c] = "leaving"
    /\ active' = ClearActive(c)
    /\ Goto(c, "releasing")
    /\ UNCHANGED <<caller, event, owner, limiter>>

\* The locks are released one by one, the last one taken first.
Release(c) ==
    /\ pc[c] = "releasing"
    /\ \E l \in Held(c) : /\ \A k \in Held(c) : k <= l
                          /\ owner' = [owner EXCEPT ![l] = None]
    /\ UNCHANGED <<pc, caller, event, active, limiter>>

\* The thread ends, with a result or with OperationCancelled, and a caller
\* that still waits gets either.
EndThread(c) ==
    /\ pc[c] = "releasing"
    /\ Held(c) = {}
    /\ Goto(c, "done")
    /\ caller' = IF caller[c] = "waiting" THEN [caller EXCEPT ![c] = "answered"] ELSE caller
    /\ threads' = threads \ {c}
    /\ UNCHANGED <<event, owner, active, queue>>

WorkerStep(c) ==
    \/ Poll(c) \/ Acquire(c) \/ Register(c) \/ GiveUp(c) \/ Enter(c)
    \/ BodyStops(c) \/ Leave(c) \/ Release(c) \/ EndThread(c)

Next ==
    \E c \in Call : \/ Submit(c) \/ StartThread(c) \/ CancelCall(c)
                    \/ WorkerStep(c) \/ BodyReturns(c)

Spec == Init /\ [][Next]_vars

\* Threads run and interactive bodies end.  A background sweep need not end
\* in any useful time: it is only known to pass checkpoints.
FairSpec ==
    /\ Spec
    /\ \A c \in Call : WF_vars(WorkerStep(c)) /\ WF_vars(StartThread(c))
    /\ \A c \in Call \ Background : WF_vars(BodyReturns(c))

(***************************************************************************)
(* Properties                                                              *)
(***************************************************************************)

\* Two bodies never touch the same parser at the same time, and never both
\* FSDB, even when one of them is abandoned ("FFR calls never overlap").
ParserExclusive ==
    \A c, d \in Call :
        c # d /\ pc[c] = "running" /\ pc[d] = "running" =>
            /\ Locks(c) \cap Locks(d) = {}
            /\ ~(UsesFsdb(c) /\ UsesFsdb(d))

\* Two calls that name the same files in different orders never wait for
\* each other.
WaitsOn(c, d) == pc[c] = "acquiring" /\ Missing(c) # {} /\ owner[NextLock(c)] = d
NoMutualWait == \A c, d \in Call : WaitsOn(c, d) => ~WaitsOn(d, c)

\* A cancel event is set by the call's own cancellation or while the call is
\* a background one that holds the FSDB lock: an interactive call, or a sweep
\* that has already released the lock, is never struck.
PreemptsOnlyHolders ==
    [][\A c \in event' \ event :
          \/ caller'[c] = "cancelled"
          \/ c \in Background /\ owner[FsdbLock] = c]_vars

\* Every interactive call ends although sweeps do not: it waits neither for
\* a sweep it can preempt nor in a cycle.
InteractiveServed ==
    \A c \in Call \ Background : pc[c] = "slot" ~> pc[c] = "done"

\* Locks are taken in one order and registered only by their holder.
LocksOrdered == WaveTypeOK /\ NoMutualWait
===============================================================================
