------------------------------ MODULE ServerProofs ------------------------------
(***************************************************************************)
(* Proofs about the two parts of src/server.py that keep state between     *)
(* calls: WaveLocks and ServerSession.  They share no variable.            *)
(*                                                                         *)
(* WaveLocks, for any calls, paths, priorities and number of threads:      *)
(* ParserExclusive follows from what a running body holds (HoldsInv): all  *)
(* the locks of its call, which nobody but its own worker releases.        *)
(* PreemptsOnlyHolders follows from what _FSDB_ACTIVE names (ActiveInv):   *)
(* nobody, or the call that holds the FSDB lock and has not begun to       *)
(* release.  Neither depends on the order in which locks are taken.        *)
(* LocksOrdered does, and on the limiter: a worker holds the locks below   *)
(* those it still needs (OrderInv), and a call queues for a thread at most *)
(* once (LimiterInv).  Waits therefore go upwards in the order, and no     *)
(* circle of calls can wait for each other (WaitsNeverCycle).              *)
(*                                                                         *)
(* ServerSession, for any cases, logs, calls in flight and orders in which *)
(* they land: the invariant ServerInv says of each kept result which       *)
(* versions of its log it may have been read from, of a call in flight in  *)
(* which order it looked at its log, and of the session's records which of *)
(* them belong together.                                                   *)
(***************************************************************************)
EXTENDS WaveLocks, ServerSession, FiniteSetTheorems, SequenceTheorems, WellFoundedInduction, TLAPS

\* The types the argument needs.
TypeInv ==
    /\ pc \in [Call -> {"idle", "slot", "acquiring", "registering", "running",
                        "leaving", "releasing", "done"}]
    /\ caller \in [Call -> {"none", "waiting", "answered", "cancelled"}]
    /\ event \subseteq Call
    /\ owner \in [Lock -> Call \cup {None}]
    /\ active \in Call \cup {None}

\* A body runs with every lock of its call.
HoldsInv ==
    \A c \in Call : pc[c] = "running" => \A l \in Locks(c) : owner[l] = c

\* A call that is about to register, or is registered, holds the FSDB lock.
ActiveInv ==
    /\ \A c \in Call : pc[c] = "registering" => owner[FsdbLock] = c
    /\ active # None =>
          /\ owner[FsdbLock] = active
          /\ pc[active] \in {"acquiring", "running", "leaving"}

IInv == TypeInv /\ HoldsInv /\ ActiveInv

\* The FSDB lock is a lock, a call's locks are locks, and a call that touches
\* an FSDB file needs the FSDB lock.
LEMMA LockFacts ==
    /\ FsdbLock \in Lock
    /\ None \notin Call
    /\ \A c \in Call : Locks(c) \subseteq Lock
    /\ \A c \in Call : UsesFsdb(c) => FsdbLock \in Locks(c)
<1>1. FsdbLock \in Lock
  BY DEF Lock
<1>2. None \notin Call
  BY WaveAssumption
<1>3. ASSUME NEW c \in Call PROVE Locks(c) \subseteq Lock
  BY DEF Locks, Lock, LocksByPath, LockOf
<1>4. ASSUME NEW c \in Call, UsesFsdb(c) PROVE FsdbLock \in Locks(c)
  BY <1>4 DEF Locks, UsesFsdb, LockOf
<1> QED
  BY <1>1, <1>2, <1>3, <1>4

\* Nothing is held, run or registered at the start.
LEMMA InitInv == Init => IInv
  BY LockFacts DEF Init, IInv, TypeInv, HoldsInv, ActiveInv

\* Arming an event touches only the set of events.
LEMMA PreemptFacts ==
    ASSUME TypeInv, NEW c \in Call, Preempt(c)
    PROVE  /\ event' \subseteq Call
           /\ \A d \in event' \ event : d = active /\ d \in Background
  BY WaveAssumption DEF TypeInv, Preempt, Preempts

\* A step that leaves locks, control of running and registering calls and
\* the registration alone keeps the invariant.
LEMMA QuietStep ==
    ASSUME IInv, TypeInv', UNCHANGED <<owner, active>>,
           \A c \in Call : pc'[c] \in {"running", "registering"} => pc'[c] = pc[c],
           active # None => pc'[active] \in {"acquiring", "running", "leaving"}
    PROVE  IInv'
<1>1. HoldsInv'
  BY DEF IInv, HoldsInv
<1>2. ActiveInv'
  BY DEF IInv, ActiveInv
<1> QED
  BY <1>1, <1>2 DEF IInv

\* Control moves only at the call itself.
LEMMA GotoFacts ==
    ASSUME TypeInv, NEW c \in Call, NEW label, Goto(c, label)
    PROVE  /\ pc'[c] = label
           /\ \A d \in Call : d # c => pc'[d] = pc[d]
  BY DEF TypeInv, Goto

\* Actions of the request task: they take and free no lock.
LEMMA SubmitInv == ASSUME IInv, NEW c \in Call, Submit(c) PROVE IInv'
<1>1. event' \subseteq Call
  BY PreemptFacts DEF IInv, TypeInv, Submit
<1>2. TypeInv'
  BY <1>1 DEF IInv, TypeInv, Submit, Goto
<1>3. pc'[c] = "slot" /\ \A d \in Call : d # c => pc'[d] = pc[d]
  BY GotoFacts DEF IInv, Submit
<1>4. active # None => pc'[active] \in {"acquiring", "running", "leaving"}
  BY <1>3 DEF IInv, ActiveInv, TypeInv, Submit
<1> QED
  BY <1>2, <1>3, <1>4, QuietStep DEF Submit

LEMMA StartThreadInv == ASSUME IInv, NEW c \in Call, StartThread(c) PROVE IInv'
<1>1. TypeInv'
  BY DEF IInv, TypeInv, StartThread, Goto
<1>2. pc'[c] = "acquiring" /\ \A d \in Call : d # c => pc'[d] = pc[d]
  BY GotoFacts DEF IInv, StartThread
<1>3. active # None => pc'[active] \in {"acquiring", "running", "leaving"}
  BY <1>2 DEF IInv, ActiveInv, TypeInv, StartThread
<1> QED
  BY <1>1, <1>2, <1>3, QuietStep DEF StartThread

LEMMA CancelCallInv == ASSUME IInv, NEW c \in Call, CancelCall(c) PROVE IInv'
<1>1. TypeInv'
  BY DEF IInv, TypeInv, CancelCall, KeepLocks
<1>2. \A d \in Call : pc'[d] = pc[d] \/ (pc[d] = "slot" /\ pc'[d] = "done")
  BY DEF IInv, TypeInv, CancelCall
<1>3. UNCHANGED <<owner, active>>
  BY DEF CancelCall, KeepLocks
<1>4. active # None => pc'[active] \in {"acquiring", "running", "leaving"}
  BY <1>2 DEF IInv, ActiveInv, TypeInv
<1> QED
  BY <1>1, <1>2, <1>3, <1>4, QuietStep

\* Actions of the worker that take and free no lock.
LEMMA PollInv == ASSUME IInv, NEW c \in Call, Poll(c) PROVE IInv'
<1>1. event' \subseteq Call
  BY PreemptFacts DEF IInv, Poll
<1>2. TypeInv'
  BY <1>1 DEF IInv, TypeInv, Poll
<1>3. active # None => pc'[active] \in {"acquiring", "running", "leaving"}
  BY DEF IInv, ActiveInv, Poll
<1> QED
  BY <1>2, <1>3, QuietStep DEF Poll

LEMMA LeaveBodyInv ==
    ASSUME IInv, NEW c \in Call, Goto(c, "leaving"),
           pc[c] \in {"acquiring", "running"},
           UNCHANGED <<caller, event, owner, active>>
    PROVE  IInv'
<1>1. TypeInv'
  BY DEF IInv, TypeInv, Goto
<1>2. pc'[c] = "leaving" /\ \A d \in Call : d # c => pc'[d] = pc[d]
  BY GotoFacts DEF IInv
<1>3. active # None => pc'[active] \in {"acquiring", "running", "leaving"}
  BY <1>2 DEF IInv, ActiveInv, TypeInv
<1> QED
  BY <1>1, <1>2, <1>3, QuietStep

\* Entering the body: no lock is missing.
LEMMA EnterInv == ASSUME IInv, NEW c \in Call, Enter(c) PROVE IInv'
<1>1. CASE c \in event
  BY <1>1, LeaveBodyInv DEF Enter, EnterUnlessCancelled
<1>2. CASE c \notin event
  <2>1. Goto(c, "running") /\ UNCHANGED <<caller, event, owner, active>>
    BY <1>2 DEF Enter, EnterUnlessCancelled
  <2>2. TypeInv'
    BY <2>1 DEF IInv, TypeInv, Goto
  <2>3. pc'[c] = "running" /\ \A d \in Call : d # c => pc'[d] = pc[d]
    BY <2>1, GotoFacts DEF IInv
  <2>4. \A l \in Locks(c) : owner[l] = c
    BY DEF Enter, Missing, Held
  <2>5. HoldsInv'
    BY <2>1, <2>3, <2>4 DEF IInv, HoldsInv
  <2>6. ActiveInv'
    BY <2>1, <2>3 DEF IInv, ActiveInv, TypeInv
  <2> QED
    BY <2>2, <2>5, <2>6 DEF IInv
<1> QED
  BY <1>1, <1>2

\* Taking a lock that is free disturbs nobody who holds one.
LEMMA AcquireInv == ASSUME IInv, NEW c \in Call, Acquire(c) PROVE IInv'
<1> DEFINE n == NextLock(c)
<1>1. /\ owner[n] = None
      /\ owner' = [owner EXCEPT ![n] = c]
      /\ pc[c] = "acquiring"
      /\ Goto(c, IF n = FsdbLock THEN "registering" ELSE "acquiring")
      /\ UNCHANGED <<caller, event, active>>
  BY DEF Acquire
<1> HIDE DEF n
<1>2. TypeInv'
  BY <1>1 DEF IInv, TypeInv, Goto
<1>3. /\ pc'[c] = IF n = FsdbLock THEN "registering" ELSE "acquiring"
      /\ \A d \in Call : d # c => pc'[d] = pc[d]
  BY <1>1, GotoFacts DEF IInv
<1>4. \A l \in Lock : owner[l] # None => owner'[l] = owner[l]
  BY <1>1 DEF IInv, TypeInv
<1>5. HoldsInv'
  <2> SUFFICES ASSUME NEW d \in Call, pc'[d] = "running", NEW l \in Locks(d)
               PROVE  owner'[l] = d
    BY DEF HoldsInv
  <2>1. pc[d] = "running"
    BY <1>3
  <2>2. owner[l] = d /\ l \in Lock /\ d # None
    BY <2>1, LockFacts DEF IInv, HoldsInv
  <2> QED
    BY <2>2, <1>4
<1>6. \A d \in Call : owner[FsdbLock] = d => owner'[FsdbLock] = d
  BY <1>4, LockFacts
<1>7. ASSUME NEW d \in Call, pc'[d] = "registering" PROVE owner'[FsdbLock] = d
  <2>1. CASE d = c
    <3>1. n = FsdbLock
      BY <1>3, <1>7, <2>1
    <3> QED
      BY <3>1, <2>1, <1>1, LockFacts DEF IInv, TypeInv
  <2>2. CASE d # c
    BY <2>2, <1>3, <1>6, <1>7 DEF IInv, ActiveInv
  <2> QED
    BY <2>1, <2>2
<1>8. ASSUME active' # None
      PROVE  owner'[FsdbLock] = active' /\ pc'[active'] \in {"acquiring", "running", "leaving"}
  <2>1. active \in Call /\ active' = active /\ owner[FsdbLock] = active
        /\ pc[active] \in {"acquiring", "running", "leaving"}
    BY <1>8, <1>1 DEF IInv, ActiveInv, TypeInv
  <2>2. owner[FsdbLock] # None
    BY <2>1, LockFacts
  <2>3. n # FsdbLock
    BY <2>2, <1>1
  <2> QED
    BY <2>1, <2>3, <1>3, <1>6
<1>9. ActiveInv'
  BY <1>7, <1>8 DEF ActiveInv
<1> QED
  BY <1>2, <1>5, <1>9 DEF IInv

\* Registration: the call has just taken the lock.
LEMMA RegisterInv == ASSUME IInv, NEW c \in Call, Register(c) PROVE IInv'
<1>1. TypeInv'
  BY DEF IInv, TypeInv, Register, Goto
<1>2. pc'[c] = "acquiring" /\ \A d \in Call : d # c => pc'[d] = pc[d]
  BY GotoFacts DEF IInv, Register
<1>3. HoldsInv'
  BY <1>2 DEF IInv, HoldsInv, Register
<1>4. owner[FsdbLock] = c
  BY DEF IInv, ActiveInv, Register
<1>5. ActiveInv'
  BY <1>2, <1>4 DEF IInv, ActiveInv, Register
<1> QED
  BY <1>1, <1>3, <1>5 DEF IInv

\* Clearing the registration comes before the first release.
LEMMA LeaveInv == ASSUME IInv, NEW c \in Call, Leave(c) PROVE IInv'
<1>1. TypeInv'
  BY DEF IInv, TypeInv, Leave, Goto, ClearActive
<1>2. pc'[c] = "releasing" /\ \A d \in Call : d # c => pc'[d] = pc[d]
  BY GotoFacts DEF IInv, Leave
<1>3. HoldsInv'
  BY <1>2 DEF IInv, HoldsInv, Leave
<1>4. active' # c /\ (active' # None => active' = active)
  BY LockFacts DEF Leave, ClearActive
<1>5. ActiveInv'
  BY <1>2, <1>4 DEF IInv, ActiveInv, TypeInv, Leave
<1> QED
  BY <1>1, <1>3, <1>5 DEF IInv

\* A release frees a lock of a call that neither runs nor is registered.
LEMMA ReleaseInv == ASSUME IInv, NEW c \in Call, Release(c) PROVE IInv'
<1>1. pc[c] = "releasing" /\ UNCHANGED <<pc, caller, event, active>>
  BY DEF Release
<1>2. PICK m \in Held(c) : owner' = [owner EXCEPT ![m] = None]
  BY DEF Release
<1>3. m \in Lock /\ owner[m] = c
  BY <1>2 DEF Held
<1>4. TypeInv'
  BY <1>1, <1>2 DEF IInv, TypeInv
<1>5. \A l \in Lock : owner[l] # c => owner'[l] = owner[l]
  BY <1>2, <1>3 DEF IInv, TypeInv
<1>6. HoldsInv'
  <2> SUFFICES ASSUME NEW d \in Call, pc[d] = "running", NEW l \in Locks(d)
               PROVE  owner'[l] = d
    BY <1>1 DEF HoldsInv
  <2>1. d # c /\ owner[l] = d /\ l \in Lock
    BY <1>1, LockFacts DEF IInv, HoldsInv
  <2> QED
    BY <2>1, <1>5
<1>7. \A d \in Call : d # c /\ owner[FsdbLock] = d => owner'[FsdbLock] = d
  BY <1>5, LockFacts
<1>8. ActiveInv'
  <2>1. \A d \in Call : pc'[d] = "registering" => owner'[FsdbLock] = d
    BY <1>1, <1>7 DEF IInv, ActiveInv
  <2>2. active # None => active \in Call /\ active # c
    BY <1>1 DEF IInv, ActiveInv, TypeInv
  <2>3. active # None => owner'[FsdbLock] = active
    BY <2>2, <1>7 DEF IInv, ActiveInv
  <2> QED
    BY <1>1, <2>1, <2>3 DEF IInv, ActiveInv
<1> QED
  BY <1>4, <1>6, <1>8 DEF IInv

LEMMA EndThreadInv == ASSUME IInv, NEW c \in Call, EndThread(c) PROVE IInv'
<1>1. TypeInv'
  BY DEF IInv, TypeInv, EndThread, Goto
<1>2. pc'[c] = "done" /\ \A d \in Call : d # c => pc'[d] = pc[d]
  BY GotoFacts DEF IInv, EndThread
<1>3. active # None => pc'[active] \in {"acquiring", "running", "leaving"}
  BY <1>2 DEF IInv, ActiveInv, TypeInv, EndThread
<1> QED
  BY <1>1, <1>2, <1>3, QuietStep DEF EndThread

\* The invariant holds in every reachable state.
THEOREM Invariance == Spec => []IInv
<1>1. IInv /\ [Next]_vars => IInv'
  <2> SUFFICES ASSUME IInv, [Next]_vars PROVE IInv'
    OBVIOUS
  <2>1. CASE UNCHANGED vars
    BY <2>1 DEF IInv, TypeInv, HoldsInv, ActiveInv, vars
  <2>2. ASSUME NEW c \in Call, Submit(c) PROVE IInv'
    BY <2>2, SubmitInv
  <2>3. ASSUME NEW c \in Call, StartThread(c) PROVE IInv'
    BY <2>3, StartThreadInv
  <2>4. ASSUME NEW c \in Call, CancelCall(c) PROVE IInv'
    BY <2>4, CancelCallInv
  <2>5. ASSUME NEW c \in Call, Poll(c) PROVE IInv'
    BY <2>5, PollInv
  <2>6. ASSUME NEW c \in Call, Acquire(c) PROVE IInv'
    BY <2>6, AcquireInv
  <2>7. ASSUME NEW c \in Call, Register(c) PROVE IInv'
    BY <2>7, RegisterInv
  <2>8. ASSUME NEW c \in Call, GiveUp(c) \/ BodyReturns(c) \/ BodyStops(c) PROVE IInv'
    BY <2>8, LeaveBodyInv DEF GiveUp, BodyReturns, BodyStops
  <2>9. ASSUME NEW c \in Call, Enter(c) PROVE IInv'
    BY <2>9, EnterInv
  <2>10. ASSUME NEW c \in Call, Leave(c) PROVE IInv'
    BY <2>10, LeaveInv
  <2>11. ASSUME NEW c \in Call, Release(c) PROVE IInv'
    BY <2>11, ReleaseInv
  <2>12. ASSUME NEW c \in Call, EndThread(c) PROVE IInv'
    BY <2>12, EndThreadInv
  <2> QED
    BY <2>1, <2>2, <2>3, <2>4, <2>5, <2>6, <2>7, <2>8, <2>9, <2>10, <2>11, <2>12
       DEF Next, WorkerStep
<1> QED
  BY <1>1, InitInv, PTL DEF Spec

\* For every number of calls, files and threads: two bodies never touch the
\* same parser, nor both FSDB, even when the caller of one has been cancelled
\* and its worker is abandoned.
THEOREM ParsersExclusive == Spec => []ParserExclusive
<1>1. IInv => ParserExclusive
  <2> SUFFICES ASSUME IInv, NEW c \in Call, NEW d \in Call, c # d,
                      pc[c] = "running", pc[d] = "running"
               PROVE  /\ Locks(c) \cap Locks(d) = {}
                      /\ ~(UsesFsdb(c) /\ UsesFsdb(d))
    BY DEF ParserExclusive
  <2>1. Locks(c) \cap Locks(d) = {}
    BY DEF IInv, HoldsInv
  <2> QED
    BY <2>1, LockFacts
<1> QED
  BY <1>1, Invariance, PTL

\* For every mix of priorities: a step that sets a cancel event cancels the
\* call itself, or strikes a background call that holds the FSDB lock at that
\* moment.
THEOREM OnlyHoldersPreempted == Spec => PreemptsOnlyHolders
<1>1. IInv /\ [Next]_vars =>
        [\A c \in event' \ event :
            \/ caller'[c] = "cancelled"
            \/ c \in Background /\ owner[FsdbLock] = c]_vars
  <2> SUFFICES ASSUME IInv, Next, NEW e \in event' \ event
               PROVE  caller'[e] = "cancelled" \/ (e \in Background /\ owner[FsdbLock] = e)
    OBVIOUS
  <2>1. PICK c \in Call : \/ Submit(c) \/ StartThread(c) \/ CancelCall(c)
                          \/ WorkerStep(c) \/ BodyReturns(c)
    BY DEF Next
  <2>2. CASE Preempt(c)
    <3>1. e = active /\ e \in Background
      BY <2>2, PreemptFacts DEF IInv
    <3>2. e # None
      BY <3>1, WaveAssumption
    <3> QED
      BY <3>1, <3>2 DEF IInv, ActiveInv
  <2>3. CASE CancelCall(c)
    BY <2>3 DEF CancelCall, IInv, TypeInv
  <2>4. CASE UNCHANGED event
    BY <2>4
  <2> QED
    BY <2>1, <2>2, <2>3, <2>4 DEF Submit, StartThread, WorkerStep, Poll, Acquire,
       Register, GiveUp, Enter, BodyStops, Leave, Release, EndThread, BodyReturns
<1> QED
  BY <1>1, Invariance, PTL DEF Spec, PreemptsOnlyHolders

(***************************************************************************)
(* The order of the locks, and the limiter.                                *)
(***************************************************************************)

\* A worker that still collects holds only locks below the ones it misses, and a
\* call without a worker holds none.
OrderInv ==
    \A c \in Call :
       /\ pc[c] \in {"idle", "slot"} => Held(c) = {}
       /\ pc[c] \in {"acquiring", "registering"} =>
             \A l \in Held(c), m \in Missing(c) : l < m

\* Queued calls wait for a thread, each once; the tokens are within the limit.
LimiterInv ==
    /\ queue \in Seq(Call)
    /\ \A i \in DOMAIN queue : pc[queue[i]] = "slot"
    /\ \A i \in DOMAIN queue, j \in DOMAIN queue : queue[i] = queue[j] => i = j
    /\ threads \subseteq Call /\ Cardinality(threads) <= MaxThreads

OInv == IInv /\ OrderInv /\ LimiterInv

\* Along a chain of waiting workers the awaited locks rise: no cycle of waits,
\* of whatever length.
WaitsRise ==
    \A c, d, e \in Call : WaitsOn(c, d) /\ WaitsOn(d, e) => NextLock(c) < NextLock(d)

\* A set of naturals that is not empty has a least member, and Min returns it.
LEMMA NatMin ==
    ASSUME NEW S \in SUBSET Nat, S # {}
    PROVE  Min(S) \in S /\ \A y \in S : Min(S) <= y
<1> DEFINE R == {ss \in Nat \X Nat : ss[1] < ss[2]}
<1>0. IsWellFoundedOn(R, Nat)
  BY NatLessThanWellFounded DEF OpToRel
<1>1. PICK x \in S : \A y \in S : ~(<<y, x>> \in R)
  <2> HIDE DEF R
  <2> QED
    BY <1>0, WFMin
<1>2. ASSUME NEW y \in S, ~(x <= y) PROVE FALSE
  <2>1. <<y, x>> \in Nat \X Nat /\ y < x
    BY <1>2
  <2> QED
    BY <1>1, <2>1
<1> QED
  BY <1>2 DEF Min

\* Positions of a sequence that are not none have a last one, and Max returns it.
LEMMA LastIn ==
    ASSUME NEW n \in Nat, NEW I \in SUBSET (1..n), I # {}
    PROVE  Max(I) \in I /\ \A j \in I : Max(I) >= j
<1> DEFINE D == {k \in Nat : n - k \in I}
<1>1. D # {}
  <2> PICK i \in I : TRUE
    OBVIOUS
  <2>1. n - i \in Nat /\ n - (n - i) = i
    OBVIOUS
  <2> QED
    BY <2>1
<1>2. Min(D) \in D /\ \A k \in D : Min(D) <= k
  <2> HIDE DEF D
  <2>1. D \in SUBSET Nat
    BY DEF D
  <2> QED
    BY <1>1, <2>1, NatMin
<1> PICK m \in D : m = Min(D)
  BY <1>2
<1>3. n - m \in I
  OBVIOUS
<1>4. ASSUME NEW j \in I PROVE n - m >= j
  <2>1. n - j \in D
    OBVIOUS
  <2>2. m <= n - j
    BY <1>2, <2>1
  <2> QED
    BY <2>2
<1> QED
  BY <1>3, <1>4 DEF Max

LEMMA LocksAreNat == Lock \subseteq Nat /\ \A c \in Call : Locks(c) \subseteq Nat
<1>1. \A c \in Call : \A i \in DOMAIN Paths[c] : Paths[c][i] \in Nat
  BY WaveAssumption
<1> QED
  BY <1>1 DEF Lock, Locks, LocksByPath, LockOf, FsdbLock

\* The next lock is the least one that is missing.
LEMMA NextIsLeast ==
    ASSUME NEW c \in Call, Missing(c) # {}
    PROVE  NextLock(c) \in Missing(c) /\ NextLock(c) \in Lock /\ \A m \in Missing(c) : NextLock(c) <= m
<1>1. Missing(c) \in SUBSET Nat /\ Missing(c) \subseteq Lock
  BY LocksAreNat, LockFacts DEF Missing
<1> QED
  BY <1>1, NatMin DEF NextLock

LEMMA OrderInit == Init => OInv
<1> SUFFICES ASSUME Init PROVE OInv
  OBVIOUS
<1>1. OrderInv
  BY WaveAssumption DEF Init, OrderInv, Held
<1>2. LimiterInv
  BY WaveAssumption, FS_EmptySet DEF Init, LimiterInv
<1> QED
  BY <1>1, <1>2, InitInv DEF OInv

\* A step that takes and frees no lock, and starts no worker.
LEMMA OrderKept ==
    ASSUME OrderInv, UNCHANGED owner,
           \A c \in Call : /\ pc'[c] \in {"idle", "slot"} => pc[c] \in {"idle", "slot"}
                           /\ pc'[c] \in {"acquiring", "registering"} =>
                                 pc[c] \in {"acquiring", "registering"}
    PROVE  OrderInv'
<1>1. \A c \in Call : Held(c)' = Held(c) /\ Missing(c)' = Missing(c)
  BY DEF Held, Missing
<1> QED
  BY <1>1 DEF OrderInv

\* A step that leaves the limiter and the queued calls alone.
LEMMA LimiterKept ==
    ASSUME LimiterInv, UNCHANGED limiter,
           \A c \in Call : pc[c] = "slot" => pc'[c] = "slot"
    PROVE  LimiterInv'
<1>1. \A i \in DOMAIN queue : queue[i] \in Call
  BY DEF LimiterInv
<1> QED
  BY <1>1 DEF LimiterInv, limiter

LEMMA SubmitOrder == ASSUME OInv, NEW c \in Call, Submit(c) PROVE OrderInv' /\ LimiterInv'
<1>1. pc[c] = "idle" /\ pc'[c] = "slot" /\ \A d \in Call : d # c => pc'[d] = pc[d]
  BY GotoFacts DEF OInv, IInv, Submit
<1>2. OrderInv'
  BY <1>1, OrderKept DEF OInv, Submit
<1>3. queue \in Seq(Call) /\ queue' = Append(queue, c) /\ UNCHANGED threads
  BY DEF OInv, LimiterInv, Submit
<1>4. /\ queue' \in Seq(Call) /\ Len(queue') = Len(queue) + 1 /\ queue'[Len(queue) + 1] = c
      /\ \A i \in 1..Len(queue) : queue'[i] = queue[i]
  BY <1>3
<1>5. \A i \in 1..Len(queue) : queue[i] \in Call /\ queue[i] # c /\ pc'[queue[i]] = "slot"
  BY <1>1, <1>3 DEF OInv, LimiterInv
<1>6. \A i \in DOMAIN queue' : i \in 1..Len(queue) \/ i = Len(queue) + 1
  BY <1>3, <1>4
<1>7. \A i \in DOMAIN queue' : pc'[queue'[i]] = "slot"
  BY <1>1, <1>4, <1>5, <1>6
<1>8. \A i \in DOMAIN queue', j \in DOMAIN queue' : queue'[i] = queue'[j] => i = j
  BY <1>3, <1>4, <1>5, <1>6 DEF OInv, LimiterInv
<1> QED
  BY <1>2, <1>3, <1>4, <1>7, <1>8 DEF OInv, LimiterInv

LEMMA StartThreadOrder == ASSUME OInv, NEW c \in Call, StartThread(c) PROVE OrderInv' /\ LimiterInv'
<1>1. pc'[c] = "acquiring" /\ \A d \in Call : d # c => pc'[d] = pc[d]
  BY GotoFacts DEF OInv, IInv, StartThread
<1>2. queue \in Seq(Call) /\ queue # <<>> /\ queue' = Tail(queue) /\ queue[1] = c
  BY DEF OInv, LimiterInv, StartThread
<1>3. 1 \in DOMAIN queue /\ pc[c] = "slot"
  BY <1>2 DEF OInv, LimiterInv
<1>4. OrderInv'
  <2>1. \A d \in Call : Held(d)' = Held(d) /\ Missing(d)' = Missing(d)
    BY DEF Held, Missing, StartThread
  <2>2. Held(c) = {}
    BY <1>3 DEF OInv, OrderInv
  <2> QED
    BY <1>1, <2>1, <2>2 DEF OInv, OrderInv
<1>5. /\ queue' \in Seq(Call)
      /\ \A i \in DOMAIN queue' : i + 1 \in DOMAIN queue /\ i + 1 # 1 /\ queue'[i] = queue[i + 1]
  BY <1>2
<1>6. \A i \in DOMAIN queue' : queue'[i] \in Call /\ queue'[i] # c
  BY <1>2, <1>3, <1>5 DEF OInv, LimiterInv
<1>7. \A i \in DOMAIN queue' : pc'[queue'[i]] = "slot"
  BY <1>1, <1>5, <1>6 DEF OInv, LimiterInv
<1>8. \A i \in DOMAIN queue', j \in DOMAIN queue' : queue'[i] = queue'[j] => i = j
  <2> SUFFICES ASSUME NEW i \in DOMAIN queue', NEW j \in DOMAIN queue', queue'[i] = queue'[j] PROVE i = j
    OBVIOUS
  <2>1. i + 1 = j + 1
    BY <1>5 DEF OInv, LimiterInv
  <2>2. i \in Nat /\ j \in Nat
    BY <1>5
  <2> QED
    BY <2>1, <2>2
<1>9. threads' \subseteq Call /\ Cardinality(threads') <= MaxThreads
  <2>1. threads \subseteq Call /\ threads' = threads \cup {c} /\ Cardinality(threads) < MaxThreads
    BY DEF OInv, LimiterInv, StartThread
  <2>2. IsFiniteSet(threads) /\ Cardinality(threads) \in Nat
    BY <2>1, WaveAssumption, FS_Subset, FS_CardinalityType
  <2>3. Cardinality(threads') = IF c \in threads THEN Cardinality(threads) ELSE Cardinality(threads) + 1
    BY <2>1, <2>2, FS_AddElement
  <2> QED
    BY <2>1, <2>2, <2>3, WaveAssumption
<1> QED
  BY <1>4, <1>5, <1>7, <1>8, <1>9 DEF LimiterInv

\* Fewer tokens are within the limit.
LEMMA TokenBack ==
    ASSUME LimiterInv, NEW c \in Call
    PROVE  threads \ {c} \subseteq Call /\ Cardinality(threads \ {c}) <= MaxThreads
<1>1. threads \subseteq Call /\ Cardinality(threads) <= MaxThreads
  BY DEF LimiterInv
<1>2. IsFiniteSet(threads) /\ Cardinality(threads) \in Nat
  BY <1>1, WaveAssumption, FS_Subset, FS_CardinalityType
<1>3. Cardinality(threads \ {c}) <= Cardinality(threads) /\ Cardinality(threads \ {c}) \in Nat
  BY <1>2, FS_Subset, FS_CardinalityType
<1> QED
  BY <1>1, <1>2, <1>3, WaveAssumption

LEMMA CancelCallOrder == ASSUME OInv, NEW c \in Call, CancelCall(c) PROVE OrderInv' /\ LimiterInv'
<1>1. \A d \in Call : IF d = c /\ pc[d] = "slot" THEN pc'[d] = "done" ELSE pc'[d] = pc[d]
  BY DEF OInv, IInv, TypeInv, CancelCall
<1>2. OrderInv'
  BY <1>1, OrderKept DEF OInv, CancelCall, KeepLocks
<1>3. queue \in Seq(Call) /\ LeaveQueue(c)
  BY DEF OInv, LimiterInv, CancelCall
<1>4. threads' \subseteq Call /\ Cardinality(threads') <= MaxThreads
  BY TokenBack DEF OInv, CancelCall
<1>5. CASE (\A i \in DOMAIN queue : queue[i] # c) /\ UNCHANGED queue
  BY <1>1, <1>2, <1>3, <1>4, <1>5 DEF OInv, LimiterInv
<1>6. CASE \E i \in DOMAIN queue :
              /\ queue[i] = c
              /\ queue' = [k \in 1..(Len(queue) - 1) |-> queue[IF k < i THEN k ELSE k + 1]]
  <2>1. PICK i \in DOMAIN queue :
              /\ queue[i] = c
              /\ queue' = [k \in 1..(Len(queue) - 1) |-> queue[IF k < i THEN k ELSE k + 1]]
    BY <1>6
  <2> DEFINE From(k) == IF k < i THEN k ELSE k + 1
  <2>2. Len(queue) \in Nat /\ DOMAIN queue = 1..Len(queue) /\ i \in 1..Len(queue) /\ Len(queue) - 1 \in Nat
    BY <1>3, <2>1
  <2>3. \A k \in 1..(Len(queue) - 1) : From(k) \in DOMAIN queue /\ From(k) # i
    BY <2>2
  <2>4. DOMAIN queue' = 1..(Len(queue) - 1) /\ \A k \in DOMAIN queue' : queue'[k] = queue[From(k)]
    BY <2>1
  <2>5. \A k \in DOMAIN queue' : queue'[k] \in Call /\ queue'[k] # c /\ pc'[queue'[k]] = "slot"
    <3> SUFFICES ASSUME NEW k \in DOMAIN queue'
                 PROVE  queue'[k] \in Call /\ queue'[k] # c /\ pc'[queue'[k]] = "slot"
      OBVIOUS
    <3> HIDE DEF From
    <3>1. From(k) \in DOMAIN queue /\ From(k) # i /\ queue'[k] = queue[From(k)]
      BY <2>3, <2>4
    <3>2. queue[From(k)] \in Call /\ queue[From(k)] # c /\ pc[queue[From(k)]] = "slot"
      BY <1>3, <2>1, <3>1 DEF OInv, LimiterInv
    <3> QED
      BY <1>1, <3>1, <3>2
  <2>6. queue' \in Seq(Call)
    BY <2>1, <2>2, <2>4, <2>5
  <2>7. \A k \in DOMAIN queue', m \in DOMAIN queue' : queue'[k] = queue'[m] => k = m
    <3> SUFFICES ASSUME NEW k \in DOMAIN queue', NEW m \in DOMAIN queue', queue'[k] = queue'[m]
                 PROVE  k = m
      OBVIOUS
    <3>1. From(k) = From(m)
      <4> HIDE DEF From
      <4> QED
        BY <2>3, <2>4 DEF OInv, LimiterInv
    <3>2. k \in Nat /\ m \in Nat /\ i \in Nat
      BY <2>2, <2>4
    <3> QED
      BY <3>1, <3>2
  <2> QED
    BY <1>2, <1>4, <2>5, <2>6, <2>7 DEF LimiterInv
<1> QED
  BY <1>3, <1>5, <1>6 DEF LeaveQueue

\* The least missing lock is taken: it is above the locks held, by the invariant,
\* and below those that are still missing.
LEMMA AcquireOrder == ASSUME OInv, NEW c \in Call, Acquire(c) PROVE OrderInv' /\ LimiterInv'
<1> DEFINE n == NextLock(c)
<1>0. PICK m : m = n
  OBVIOUS
<1>1. /\ pc[c] = "acquiring" /\ owner[m] = None /\ owner' = [owner EXCEPT ![m] = c]
      /\ pc'[c] \in {"acquiring", "registering"} /\ \A d \in Call : d # c => pc'[d] = pc[d]
  BY <1>0, GotoFacts DEF OInv, IInv, Acquire
<1>2. m \in Missing(c) /\ m \in Lock /\ \A k \in Missing(c) : m <= k
  BY <1>0, NextIsLeast DEF Acquire
<1>3. owner'[m] = c /\ \A l \in Lock : l # m => owner'[l] = owner[l]
  BY <1>1, <1>2 DEF OInv, IInv, TypeInv
<1>4. \A d \in Call : d # c => Held(d)' = Held(d) /\ Missing(d)' = Missing(d)
  BY <1>1, <1>3, WaveAssumption DEF Held, Missing
<1>5. Held(c)' = Held(c) \cup {m} /\ Missing(c)' = Missing(c) \ {m}
  BY <1>2, <1>3 DEF Held, Missing
<1>6. Missing(c) \subseteq Nat /\ Held(c) \subseteq Nat
  BY LocksAreNat DEF Missing, Held
<1>7. \A l \in Held(c)', k \in Missing(c)' : l < k
  <2>1. \A l \in Held(c), k \in Missing(c) : l < k
    BY <1>1 DEF OInv, OrderInv
  <2>2. \A k \in Missing(c) \ {m} : m < k
    BY <1>2, <1>6
  <2> QED
    BY <1>5, <2>1, <2>2
<1>8. OrderInv'
  BY <1>1, <1>4, <1>7 DEF OInv, OrderInv
<1>9. LimiterInv'
  BY <1>1, LimiterKept DEF OInv, Acquire
<1> QED
  BY <1>8, <1>9

LEMMA ReleaseOrder == ASSUME OInv, NEW c \in Call, Release(c) PROVE OrderInv' /\ LimiterInv'
<1>1. pc[c] = "releasing" /\ UNCHANGED <<pc, limiter>>
  BY DEF Release
<1>2. PICK m \in Held(c) : owner' = [owner EXCEPT ![m] = None]
  BY DEF Release
<1>3. m \in Lock /\ owner[m] = c /\ \A l \in Lock : l # m => owner'[l] = owner[l]
  BY <1>2 DEF Held, OInv, IInv, TypeInv
<1>4. owner'[m] = None
  BY <1>2, <1>3 DEF OInv, IInv, TypeInv
<1>5. \A d \in Call : d # c => Held(d)' = Held(d) /\ Missing(d)' = Missing(d)
  BY <1>3, <1>4, WaveAssumption DEF Held, Missing
<1>6. OrderInv'
  BY <1>1, <1>5 DEF OInv, OrderInv
<1> QED
  BY <1>1, <1>6, LimiterKept DEF OInv

\* The other steps of a worker move its control on and leave locks and queue alone.
LEMMA WorkerOrder ==
    ASSUME OInv, NEW c \in Call, NEW label, Goto(c, label), pc[c] # "slot", UNCHANGED owner,
           label \in {"acquiring", "registering", "running", "leaving", "releasing", "done"},
           label \in {"acquiring", "registering"} => pc[c] \in {"acquiring", "registering"}
    PROVE  OrderInv' /\ (UNCHANGED limiter => LimiterInv')
<1>1. pc'[c] = label /\ \A d \in Call : d # c => pc'[d] = pc[d]
  BY GotoFacts DEF OInv, IInv
<1>2. OrderInv'
  BY <1>1, OrderKept DEF OInv
<1>3. UNCHANGED limiter => LimiterInv'
  BY <1>1, LimiterKept DEF OInv
<1> QED
  BY <1>2, <1>3

LEMMA EndThreadOrder == ASSUME OInv, NEW c \in Call, EndThread(c) PROVE OrderInv' /\ LimiterInv'
<1>1. OrderInv'
  BY WorkerOrder DEF EndThread
<1>2. pc[c] = "releasing" /\ \A d \in Call : d # c => pc'[d] = pc[d]
  BY GotoFacts DEF OInv, IInv, EndThread
<1>3. threads' \subseteq Call /\ Cardinality(threads') <= MaxThreads
  BY TokenBack DEF OInv, EndThread
<1>4. UNCHANGED queue /\ \A i \in DOMAIN queue : queue[i] \in Call /\ pc[queue[i]] = "slot"
  BY DEF OInv, LimiterInv, EndThread
<1>5. LimiterInv'
  BY <1>2, <1>3, <1>4 DEF OInv, LimiterInv
<1> QED
  BY <1>1, <1>5

LEMMA OrderStep == OInv /\ [Next]_vars => OrderInv' /\ LimiterInv'
<1> SUFFICES ASSUME OInv, [Next]_vars PROVE OrderInv' /\ LimiterInv'
  OBVIOUS
<1>1. CASE UNCHANGED vars
  BY <1>1, OrderKept, LimiterKept DEF OInv, vars
<1>2. ASSUME NEW c \in Call, Poll(c) PROVE OrderInv' /\ LimiterInv'
  BY <1>2, OrderKept, LimiterKept DEF OInv, Poll
<1>3. ASSUME NEW c \in Call,
             Register(c) \/ GiveUp(c) \/ Enter(c) \/ BodyStops(c) \/ BodyReturns(c) \/ Leave(c)
      PROVE  OrderInv' /\ LimiterInv'
  BY <1>3, WorkerOrder DEF Register, GiveUp, Enter, EnterUnlessCancelled, BodyStops, BodyReturns, Leave
<1> QED
  BY <1>1, <1>2, <1>3, SubmitOrder, StartThreadOrder, CancelCallOrder, AcquireOrder, ReleaseOrder,
     EndThreadOrder DEF Next, WorkerStep

\* A worker that waits for a lock of another waiting worker waits for a lower lock.
LEMMA WaitsRiseInv == OInv => WaitsRise
<1> SUFFICES ASSUME OInv, NEW c \in Call, NEW d \in Call, NEW e \in Call, WaitsOn(c, d), WaitsOn(d, e)
             PROVE  NextLock(c) < NextLock(d)
  BY DEF WaitsRise
<1>1. NextLock(c) \in Lock /\ NextLock(c) \in Held(d)
  BY NextIsLeast DEF WaitsOn, Held
<1>2. NextLock(d) \in Missing(d)
  BY NextIsLeast DEF WaitsOn
<1> QED
  BY <1>1, <1>2 DEF WaitsOn, OInv, OrderInv

\* Every variable has its type, the FSDB registration names the holder, and two calls
\* never wait for each other, in whatever order they name their files.
THEOREM LocksAreOrdered == Spec => []LocksOrdered
<1>1. OInv => LocksOrdered
  <2> SUFFICES ASSUME OInv PROVE LocksOrdered
    OBVIOUS
  <2>1. WaveTypeOK
    BY DEF WaveTypeOK, OInv, IInv, TypeInv, ActiveInv, LimiterInv
  <2>2. NoMutualWait
    <3> SUFFICES ASSUME NEW c \in Call, NEW d \in Call, WaitsOn(c, d), WaitsOn(d, c) PROVE FALSE
      BY DEF NoMutualWait
    <3>1. NextLock(c) < NextLock(d) /\ NextLock(d) < NextLock(c)
      BY WaitsRiseInv DEF WaitsRise
    <3>2. NextLock(c) \in Nat /\ NextLock(d) \in Nat
      BY NextIsLeast, LocksAreNat DEF WaitsOn
    <3> QED
      BY <3>1, <3>2
  <2> QED
    BY <2>1, <2>2 DEF LocksOrdered
<1> QED
  BY <1>1, Invariance, OrderInit, OrderStep, PTL DEF Spec, OInv

\* There is no cycle of waiting workers of any length: along a chain of waits the
\* awaited locks strictly rise.
THEOREM WaitsNeverCycle == Spec => []WaitsRise
  BY Invariance, OrderInit, OrderStep, WaitsRiseInv, PTL DEF Spec, OInv

(***************************************************************************)
(* ServerSession: the invariant                                            *)
(***************************************************************************)
\* The types of the session and its calls.
CallRecord ==
    [tool : CallTool \cup {"none"}, case : Case \cup {Nothing}, supp : Supplement,
     pc : {"idle", "read", "fingerprint", "land"}, began : 0..LogVersions, of : Nat,
     ver : 0..LogVersions]

FilesType ==
    /\ compileVer \in [Case -> 1..LogVersions]
    /\ simVer \in [Case -> 1..SimVersions]
    /\ simEvents \in [Case -> Events]
LogsType ==
    /\ history \in [Case -> Seq(Events)]
    /\ lastRead \in [Case -> Events \cup {Nothing}]
    /\ lastDiff \in DiffRecord \cup {Nothing}
ContextsType ==
    /\ contexts \in Seq(ContextRecord) /\ Len(contexts) <= MaxContexts
    /\ lastContext \in [Case -> ContextRecord \cup {Nothing}]
GateType ==
    /\ simState \in Case \cup {Nothing}
    /\ anchor \in Case \cup {Nothing}
    /\ found \in Discovery \cup {Nothing}
    /\ hierState \in HierRecord \cup {Nothing}
ResultsType ==
    /\ results \in [Tool -> ResultRecord \cup {Nothing}]
    /\ DOMAIN handles \subseteq Case \X Supplement \X (1..LogVersions)
CallsType == calls \in [SessionCall -> CallRecord]

ServerType == FilesType /\ LogsType /\ ContextsType /\ GateType /\ ResultsType /\ CallsType

\* A build reads its log no earlier than it took the log's identity, and takes the
\* fingerprint no earlier than it read; now are the versions of the compile logs.
CallFits(f, now) ==
    /\ f.pc # "idle" => f.tool # "none" /\ f.case \in Case
    /\ f.pc = "fingerprint" => f.tool \in CompileTools /\ f.of \in 1..now[f.case]
    /\ f.pc = "land" => f.tool # "bootstrap"
    /\ (f.pc # "idle" /\ f.tool = "hierarchy") => f.began \in 1..now[f.case]
    /\ (f.pc \in {"fingerprint", "land"} /\ f.tool = "hierarchy") => f.began <= f.of
    /\ (f.pc = "land" /\ f.tool = "hierarchy") => f.of <= f.ver /\ f.ver <= now[f.case]
CallInv == \A x \in SessionCall : CallFits(calls[x], compileVer)

\* A handle's payload was parsed from the version the handle names.
HandleInv == \A h \in DOMAIN handles : handles[h] = h[3]

\* The session's record is of the hierarchy that is kept, which was parsed from the
\* version its fingerprint names.
HierResultInv ==
    results["hierarchy"] # Nothing =>
        LET r == results["hierarchy"]
        IN  /\ hierState = [log |-> r.log, supp |-> r.supp, ver |-> r.ver]
            /\ r.of = r.ver /\ r.ver \in 1..compileVer[r.log]

\* A log's record names a version no later than the one that was parsed.
LogResultInv ==
    results["log"] # Nothing =>
        LET r == results["log"] IN r.ver <= r.of /\ r.of <= simVer[r.log]

\* A cached discovery is what the anchor was taken from, and the hierarchy kept for
\* its case is at least as new.
FoundInv ==
    found # Nothing =>
        /\ anchor = found.case
        /\ found.ver <= compileVer[found.case]
        /\ (results["hierarchy"] # Nothing /\ results["hierarchy"].log = found.case) =>
              results["hierarchy"].ver >= found.ver

\* While no other log has been parsed, the context parsed last is cached.
ContextInv ==
    /\ \A c \in Case : lastContext[c] # Nothing => lastContext[c].log = c
    /\ \A c \in Case :
          (lastContext[c] # Nothing /\ \A d \in Case \ {c} : lastContext[d] = Nothing) =>
              \E i \in DOMAIN contexts : contexts[i] = lastContext[c]

ServerInv ==
    /\ ServerType /\ CallInv /\ HandleInv /\ HierResultInv /\ LogResultInv
    /\ GateBacked /\ FoundInv /\ ContextInv /\ BaselineEarlier /\ CursorKept

\* Nothing has been found, parsed or called at the start.
LEMMA ServerStarts == ServerInit => ServerInv
<1> SUFFICES ASSUME ServerInit PROVE ServerInv
  OBVIOUS
<1> USE StoresAssumption DEF ServerInit, StoresInit
<1>1. FilesType
  BY DEF FilesType
<1>2. LogsType
  BY DEF LogsType
<1>3. ContextsType
  BY DEF ContextsType
<1>4. GateType
  BY DEF GateType
<1>5. ResultsType
  BY DEF ResultsType
<1>6. CallsType
  BY DEF CallsType, CallRecord, Idle
<1>7. CallInv
  BY DEF CallInv, CallFits, Idle
<1>8. HandleInv
  BY DEF HandleInv
<1>9. HierResultInv /\ LogResultInv /\ GateBacked
  BY DEF HierResultInv, LogResultInv, GateBacked, Tool
<1>10. FoundInv
  BY DEF FoundInv
<1>11. ContextInv
  BY DEF ContextInv
<1>12. BaselineEarlier /\ CursorKept
  BY DEF BaselineEarlier, CursorKept
<1> QED
  BY <1>1, <1>2, <1>3, <1>4, <1>5, <1>6, <1>7, <1>8, <1>9, <1>10, <1>11, <1>12
  DEF ServerInv, ServerType

\* Who writes which part of the session's state.
LEMMA Writers ==
    ASSUME ServerNext
    PROVE
    /\ \/ UNCHANGED fileVars
       \/ CompilerWrites \/ \E e \in Events : SimulatorWrites(e)
       \/ \E c \in Case, e \in Events : ParseWhileRewritten(c, e)
    /\ \/ UNCHANGED logVars
       \/ \E c \in Case : GetSimPaths(c) \/ ParseSimLog(c)
       \/ \E c \in Case, e \in Events : ParseWhileRewritten(c, e)
       \/ DiffSimFailureResults
    /\ \/ UNCHANGED contextVars
       \/ \E c \in Case : GetSimPaths(c)
       \/ \E x \in SessionCall : Fingerprint(x)
    /\ \/ UNCHANGED cursorVars
       \/ Cursors \/ \E c \in Case : GetSimPaths(c)
    /\ \/ UNCHANGED gateVars
       \/ \E c \in Case : GetSimPaths(c)
       \/ \E h \in DOMAIN handles : HandleTool(h)
       \/ \E x \in SessionCall : LandHierarchy(x)
       \/ BuildKdb
    /\ \/ UNCHANGED results
       \/ \E c \in Case : GetSimPaths(c) \/ ParseSimLog(c)
       \/ \E c \in Case, e \in Events : ParseWhileRewritten(c, e)
       \/ \E x \in SessionCall : LandHierarchy(x) \/ LandResult(x)
    /\ \/ UNCHANGED handles
       \/ \E c \in Case : GetSimPaths(c) \/ RegisterRecovered(c)
       \/ \E x \in SessionCall : LandHierarchy(x)
    /\ \/ UNCHANGED calls
       \/ \E x \in SessionCall :
              \/ \E tool \in CallTool, c \in Case, supp \in Supplement : Begin(x, tool, c, supp)
              \/ Read(x) \/ Fingerprint(x) \/ LandHierarchy(x) \/ LandResult(x) \/ EndCall(x)
<1> USE DEF sessionStateVars, gateVars, fileVars, logVars, contextVars, cursorVars
<1>1. ASSUME NEW c \in Case, GetSimPaths(c) PROVE UNCHANGED <<fileVars, calls>>
  BY <1>1 DEF GetSimPaths
<1>2. ASSUME NEW c \in Case, ParseSimLog(c)
      PROVE  UNCHANGED <<fileVars, contextVars, cursorVars, gateVars, handles, calls>>
  BY <1>2 DEF ParseSimLog
<1>3. ASSUME NEW c \in Case, NEW e \in Events, ParseWhileRewritten(c, e)
      PROVE  UNCHANGED <<contextVars, cursorVars, gateVars, handles, calls>>
  BY <1>3 DEF ParseWhileRewritten
<1>4. ASSUME NEW c \in Case, RegisterRecovered(c)
      PROVE  UNCHANGED <<fileVars, logVars, contextVars, cursorVars, gateVars, results, calls>>
  BY <1>4 DEF RegisterRecovered
<1>5. ASSUME NEW h \in DOMAIN handles, HandleTool(h)
      PROVE  UNCHANGED <<fileVars, logVars, contextVars, cursorVars, results, handles, calls>>
  BY <1>5 DEF HandleTool
<1>6. ASSUME NEW x \in SessionCall, NEW tool \in CallTool, NEW c \in Case, NEW supp \in Supplement,
             Begin(x, tool, c, supp)
      PROVE  UNCHANGED <<fileVars, logVars, contextVars, cursorVars, sessionStateVars>>
  BY <1>6 DEF Begin
<1>7. ASSUME NEW x \in SessionCall, Read(x) \/ EndCall(x)
      PROVE  UNCHANGED <<fileVars, logVars, contextVars, cursorVars, sessionStateVars>>
  BY <1>7 DEF Read, EndCall
<1>8. ASSUME NEW x \in SessionCall, Fingerprint(x)
      PROVE  UNCHANGED <<fileVars, logVars, cursorVars, sessionStateVars>>
  BY <1>8 DEF Fingerprint
<1>9. ASSUME NEW x \in SessionCall, LandHierarchy(x)
      PROVE  UNCHANGED <<fileVars, logVars, contextVars, cursorVars>>
  BY <1>9 DEF LandHierarchy
<1>10. ASSUME NEW x \in SessionCall, LandResult(x)
       PROVE  UNCHANGED <<fileVars, logVars, contextVars, cursorVars, gateVars, handles>>
  BY <1>10 DEF LandResult
<1>11. DiffSimFailureResults => UNCHANGED <<fileVars, contextVars, cursorVars, sessionStateVars, calls>>
  BY DEF DiffSimFailureResults
<1>12. BuildKdb => UNCHANGED <<fileVars, logVars, contextVars, cursorVars, results, handles, calls>>
  BY DEF BuildKdb
<1>13. Cursors => UNCHANGED <<fileVars, logVars, contextVars, sessionStateVars, calls>>
  BY DEF Cursors
<1>14. (CompilerWrites \/ \E e \in Events : SimulatorWrites(e))
          => UNCHANGED <<logVars, contextVars, cursorVars, sessionStateVars, calls>>
  BY DEF CompilerWrites, SimulatorWrites
<1> QED
  BY <1>1, <1>2, <1>3, <1>4, <1>5, <1>6, <1>7, <1>8, <1>9, <1>10, <1>11, <1>12, <1>13, <1>14,
     Zenon
  DEF ServerNext

\* Logs are rewritten, never taken back: versions grow.
LEMMA FilesStep ==
    ASSUME ServerInv, ServerNext
    PROVE  /\ FilesType'
           /\ \A c \in Case : compileVer[c] <= compileVer'[c] /\ simVer[c] <= simVer'[c]
<1> USE StoresAssumption DEF FilesType, fileVars
<1>0. FilesType
  BY DEF ServerInv, ServerType
<1>1. CASE UNCHANGED fileVars
  BY <1>0, <1>1
<1>2. ASSUME NEW c \in Case, Recompile(c)
      PROVE  /\ FilesType'
             /\ \A d \in Case : compileVer[d] <= compileVer'[d] /\ simVer[d] <= simVer'[d]
  BY <1>0, <1>2 DEF Recompile
<1>3. ASSUME NEW c \in Case, NEW e \in Events, Rerun(c, e)
      PROVE  /\ FilesType'
             /\ \A d \in Case : compileVer[d] <= compileVer'[d] /\ simVer[d] <= simVer'[d]
  BY <1>0, <1>3 DEF Rerun
<1> QED
  BY <1>1, <1>2, <1>3, Writers DEF CompilerWrites, SimulatorWrites, ParseWhileRewritten

(***************************************************************************)
(* The stores                                                              *)
(***************************************************************************)
\* Capturing a result keeps what was known and adds at most that result.
LEMMA CapturedFacts ==
    ASSUME NEW past \in Seq(Events), NEW e \in Events, NEW now, now = Captured(past, e)
    PROVE  /\ now \in Seq(Events)
           /\ \A i \in DOMAIN now : now[i] = e \/ now[i] \in ToSet(past)
  BY DEF Captured, Contains, ToSet

\* The previous snapshot is one of the history other than the excluded one; there
\* is none only if there is no other.
LEMMA PreviousFacts ==
    ASSUME NEW past \in Seq(Events), NEW exclude, NEW p, p = FindPrevious(past, exclude)
    PROVE  /\ p # Nothing => p \in ToSet(past) /\ p # exclude /\ p \in Events
           /\ p = Nothing => \A i \in DOMAIN past : past[i] = exclude
<1> DEFINE I == {i \in 1..Len(past) : past[i] # exclude}
<1>1. CASE I = {}
  BY <1>1 DEF FindPrevious, SelectLastInSeq
<1>2. CASE I # {}
  <2>1. Max(I) \in I
    <3>1. I \in SUBSET (1..Len(past)) /\ Len(past) \in Nat
      OBVIOUS
    <3> HIDE DEF I
    <3> QED
      BY <1>2, <3>1, LastIn
  <2> PICK m \in 1..Len(past) : m = Max(I) /\ past[m] # exclude
    BY <2>1
  <2>2. SelectLastInSeq(past, LAMBDA e : e # exclude) = m
    BY <1>2 DEF SelectLastInSeq
  <2>3. p = past[m]
    BY <2>2 DEF FindPrevious
  <2>4. m \in DOMAIN past /\ past[m] \in Events /\ past[m] # exclude
    <3> HIDE DEF I
    <3> QED
      OBVIOUS
  <2>5. past[m] \in ToSet(past)
    BY <2>4 DEF ToSet
  <2>6. Nothing \notin Events
    BY StoresAssumption
  <2> QED
    BY <2>3, <2>4, <2>5, <2>6
<1> QED
  BY <1>1, <1>2

\* A parse compares with something it did not find itself.
LEMMA ParseStep ==
    ASSUME LogsType, NEW c \in Case, NEW e \in Events, CaptureParse(c, e)
    PROVE  LogsType' /\ BaselineEarlier'
<1> USE StoresAssumption
<1>0. history \in [Case -> Seq(Events)] /\ lastRead \in [Case -> Events \cup {Nothing}]
  BY DEF LogsType
<1> PICK past \in Seq(Events) : past = history[c]
  BY <1>0
<1> PICK now : now = Captured(past, e)
  OBVIOUS
<1>1. now \in Seq(Events) /\ \A i \in DOMAIN now : now[i] = e \/ now[i] \in ToSet(past)
  BY CapturedFacts
<1>2. history' = [history EXCEPT ![c] = now] /\ history'[c] = now
  BY <1>0 DEF CaptureParse
<1> PICK p : p = FindPrevious(now, e)
  OBVIOUS
<1>3. p # Nothing => p \in ToSet(now) /\ p # e /\ p \in Events
  BY <1>1, PreviousFacts
<1>4. p \in (ToSet(past) \cup {Nothing}) \ {e}
  BY <1>1, <1>3 DEF ToSet
<1>5. ToSet(past) \in SUBSET Events
  BY DEF ToSet
<1>6. lastDiff' = [base |-> p, new |-> e, known |-> ToSet(past), last |-> lastRead[c],
                   by |-> "parse"]
  BY <1>2 DEF CaptureParse
<1>7. lastDiff' \in DiffRecord
  BY <1>0, <1>3, <1>5, <1>6 DEF DiffRecord
<1>8. lastRead' \in [Case -> Events \cup {Nothing}]
  BY <1>0 DEF CaptureParse
<1> QED
  BY <1>0, <1>1, <1>2, <1>4, <1>6, <1>7, <1>8 DEF LogsType, BaselineEarlier

\* A diff by path compares with what was known before its log was read.
LEMMA DiffSamePathStep ==
    ASSUME LogsType, simEvents \in [Case -> Events], NEW c \in Case,
           NEW basePath \in BOOLEAN, DiffSamePath(c, basePath)
    PROVE  LogsType' /\ BaselineEarlier'
<1> USE StoresAssumption
<1>0. history \in [Case -> Seq(Events)] /\ lastRead \in [Case -> Events \cup {Nothing}]
  BY DEF LogsType
<1> PICK past \in Seq(Events) : past = history[c]
  BY <1>0
<1> PICK e \in Events : e = simEvents[c]
  OBVIOUS
<1> PICK now : now = Captured(past, e)
  OBVIOUS
<1>1. now \in Seq(Events)
  BY CapturedFacts
<1>2. history' = [history EXCEPT ![c] = now]
  BY DEF DiffSamePath
<1> PICK p : p = FindPrevious(past, Nothing)
  OBVIOUS
<1>3. /\ p # Nothing => p \in ToSet(past) /\ p \in Events
      /\ p = Nothing => past = <<>>
  <2>1. p = Nothing => \A i \in DOMAIN past : past[i] = Nothing
    BY PreviousFacts
  <2>2. past # <<>> => 1 \in DOMAIN past /\ past[1] \in Events
    OBVIOUS
  <2> QED
    BY <2>1, <2>2, PreviousFacts
<1> PICK base : base = DiffBase(past, e, basePath)
  OBVIOUS
<1>4. base # Nothing
  BY DEF DiffSamePath
<1>5. base \in Events /\ (past # <<>> => base \in ToSet(past))
  BY <1>3, <1>4 DEF DiffBase
<1>6. ToSet(past) \in SUBSET Events
  BY DEF ToSet
<1>7. lastDiff' = [base |-> base, new |-> e, known |-> ToSet(past), last |-> lastRead[c],
                   by |-> IF past = <<>> THEN "paths" ELSE "diff"]
  BY DEF DiffSamePath
<1>8. lastDiff' \in DiffRecord
  BY <1>0, <1>5, <1>6, <1>7 DEF DiffRecord
<1>9. lastRead' \in [Case -> Events \cup {Nothing}]
  BY <1>0 DEF DiffSamePath
<1> QED
  BY <1>0, <1>1, <1>2, <1>5, <1>7, <1>8, <1>9 DEF LogsType, BaselineEarlier

\* So does one against a snapshot that is named.
LEMMA DiffSnapshotStep ==
    ASSUME LogsType, simEvents \in [Case -> Events], NEW c \in Case, NEW id \in Events,
           DiffSnapshot(c, id)
    PROVE  LogsType' /\ BaselineEarlier'
<1> USE StoresAssumption
<1>0. history \in [Case -> Seq(Events)] /\ lastRead \in [Case -> Events \cup {Nothing}]
  BY DEF LogsType
<1> PICK past \in Seq(Events) : past = history[c]
  BY <1>0
<1> PICK e \in Events : e = simEvents[c]
  OBVIOUS
<1> PICK now : now = Captured(past, e)
  OBVIOUS
<1>1. now \in Seq(Events)
  BY CapturedFacts
<1>2. history' = [history EXCEPT ![c] = now]
  BY DEF DiffSnapshot
<1>3. id \in ToSet(past) /\ ToSet(past) \in SUBSET Events
  BY DEF DiffSnapshot, Contains, ToSet
<1>4. lastDiff' = [base |-> id, new |-> e, known |-> ToSet(past), last |-> lastRead[c],
                   by |-> "snapshot"]
  BY DEF DiffSnapshot
<1>5. lastDiff' \in DiffRecord
  BY <1>0, <1>3, <1>4 DEF DiffRecord
<1>6. lastRead' \in [Case -> Events \cup {Nothing}]
  BY <1>0 DEF DiffSnapshot
<1> QED
  BY <1>0, <1>1, <1>2, <1>3, <1>4, <1>5, <1>6 DEF LogsType, BaselineEarlier

\* A diff of two paths reads both and uses no baseline.
LEMMA DiffPathsStep ==
    ASSUME LogsType, simEvents \in [Case -> Events], NEW b \in Case, NEW c \in Case,
           DiffPaths(b, c)
    PROVE  LogsType' /\ BaselineEarlier'
<1>1. ASSUME NEW d \in Case PROVE Captured(history[d], simEvents[d]) \in Seq(Events)
  BY CapturedFacts DEF LogsType
<1>2. history' \in [Case -> Seq(Events)]
  BY <1>1 DEF DiffPaths, LogsType
<1>3. lastRead' \in [Case -> Events \cup {Nothing}]
  BY DEF DiffPaths, LogsType
<1>4. lastDiff' = Nothing
  BY DEF DiffPaths
<1> QED
  BY <1>2, <1>3, <1>4 DEF LogsType, BaselineEarlier

\* Whichever handler parses, diffs or forgets.
LEMMA LogsStep ==
    ASSUME ServerInv, ServerNext
    PROVE  LogsType' /\ BaselineEarlier'
<1>0. LogsType /\ BaselineEarlier /\ simEvents \in [Case -> Events]
  BY DEF ServerInv, ServerType, FilesType
<1>1. CASE UNCHANGED logVars
  BY <1>0, <1>1 DEF logVars, LogsType, BaselineEarlier
<1>2. ASSUME NEW c \in Case, ParseSimLog(c) PROVE LogsType' /\ BaselineEarlier'
  BY <1>0, <1>2, ParseStep DEF ParseSimLog
<1>3. ASSUME NEW c \in Case, NEW e \in Events, ParseWhileRewritten(c, e)
      PROVE  LogsType' /\ BaselineEarlier'
  BY <1>0, <1>3, ParseStep DEF ParseWhileRewritten
<1>4. CASE DiffSimFailureResults
  <2>1. PICK c \in Case :
            \/ \E basePath \in BOOLEAN : DiffSamePath(c, basePath)
            \/ \E id \in Events : DiffSnapshot(c, id)
            \/ \E b \in Case \ {c} : DiffPaths(b, c)
    BY <1>4 DEF DiffSimFailureResults
  <2> QED
    BY <1>0, <2>1, DiffSamePathStep, DiffSnapshotStep, DiffPathsStep
<1>5. ForgetLogs => LogsType' /\ BaselineEarlier'
  BY DEF ForgetLogs, LogsType, BaselineEarlier
<1>6. ASSUME NEW c \in Case, GetSimPaths(c) PROVE UNCHANGED logVars \/ ForgetLogs
  BY <1>6 DEF GetSimPaths
<1> QED
  BY <1>1, <1>2, <1>3, <1>4, <1>5, <1>6, Writers

\* What the end of a sequence is.
LEMMA TailFacts ==
    ASSUME NEW S, NEW t \in Seq(S), NEW a \in 1..Len(t), NEW now, now = SubSeq(t, a, Len(t))
    PROVE  now \in Seq(S) /\ Len(now) = Len(t) - a + 1 /\ now[Len(now)] = t[Len(t)]
<1>1. Len(t) \in Nat /\ a \in Int /\ \A i \in a..Len(t) : t[i] \in S
  BY LenProperties
<1>2. now \in Seq(S)
  BY <1>1, SubSeqProperties
<1>3. Len(now) = Len(t) - a + 1 /\ \A i \in 1..(Len(t) - a + 1) : now[i] = t[a + i - 1]
  BY <1>1, SubSeqProperties
<1> QED
  BY <1>1, <1>2, <1>3

\* Caching keeps the bound; the context just cached is there, in a new place or in
\* the one its key had.
LEMMA CacheFacts ==
    ASSUME NEW cache \in Seq(ContextRecord), Len(cache) <= MaxContexts,
           NEW r \in ContextRecord, NEW now, now = Evicted(Inserted(cache, r))
    PROVE  /\ now \in Seq(ContextRecord) /\ Len(now) <= MaxContexts
           /\ \E i \in DOMAIN now : now[i] = r
<1>0. MaxContexts \in Nat \ {0}
  BY StoresAssumption
<1>1. CASE \E i \in DOMAIN cache : SameSnapshot(cache[i], r)
  <2> PICK t : t = Inserted(cache, r)
    OBVIOUS
  <2>1. t = [i \in 1..Len(cache) |-> IF SameSnapshot(cache[i], r) THEN r ELSE cache[i]]
    BY <1>1 DEF Inserted
  <2>2. t \in Seq(ContextRecord) /\ Len(t) = Len(cache)
    BY <2>1
  <2>3. \E i \in DOMAIN t : t[i] = r
    BY <1>1, <2>1
  <2>4. now = t
    BY <1>0, <2>2 DEF Evicted
  <2> QED
    BY <2>2, <2>3, <2>4
<1>2. CASE ~(\E i \in DOMAIN cache : SameSnapshot(cache[i], r))
  <2>0. Append(cache, r) \in Seq(ContextRecord)
    OBVIOUS
  <2> PICK t \in Seq(ContextRecord) : t = Append(cache, r)
    BY <2>0
  <2>1. Len(t) \in Nat /\ Len(t) = Len(cache) + 1 /\ Len(cache) \in Nat /\ t[Len(t)] = r
    OBVIOUS
  <2>2. now = IF Len(t) > MaxContexts
              THEN SubSeq(t, Len(t) - MaxContexts + 1, Len(t)) ELSE t
    BY <1>2 DEF Evicted, Inserted
  <2>3. CASE Len(t) > MaxContexts
    <3>0. Len(t) - MaxContexts + 1 \in 1..Len(t)
      BY <1>0, <2>1, <2>3
    <3> PICK a \in 1..Len(t) : a = Len(t) - MaxContexts + 1
      BY <3>0
    <3>1. now = SubSeq(t, a, Len(t))
      BY <2>2, <2>3
    <3>2. now \in Seq(ContextRecord) /\ Len(now) = Len(t) - a + 1 /\ now[Len(now)] = t[Len(t)]
      BY <2>1, <3>1, TailFacts
    <3>3. Len(now) = MaxContexts
      BY <1>0, <2>1, <3>2
    <3> QED
      BY <1>0, <2>1, <3>2, <3>3
  <2>4. CASE ~(Len(t) > MaxContexts)
    BY <1>0, <2>1, <2>2, <2>4
  <2> QED
    BY <2>3, <2>4
<1> QED
  BY <1>1, <1>2

\* A bootstrap or a build caches its context, or a case switch forgets them all.
LEMMA ContextsStep ==
    ASSUME ServerInv, ServerNext
    PROVE  ContextsType' /\ ContextInv'
<1> USE StoresAssumption
<1>0. ContextsType /\ ContextInv /\ FilesType /\ CallsType /\ CallInv
  BY DEF ServerInv, ServerType
<1>1. CASE UNCHANGED contextVars
  BY <1>0, <1>1 DEF contextVars, ContextsType, ContextInv
<1>2. ASSUME NEW x \in SessionCall, Fingerprint(x) PROVE ContextsType' /\ ContextInv'
  <2> PICK f \in CallRecord : f = calls[x]
    BY <1>0 DEF CallsType
  <2>1. f.pc = "fingerprint" /\ f.case \in Case /\ f.of \in 1..compileVer[f.case]
    BY <1>0, <1>2 DEF Fingerprint, CallInv, CallFits
  <2> PICK r : r = [log |-> f.case, supp |-> f.supp, ver |-> compileVer[f.case], of |-> f.of]
    OBVIOUS
  <2>2. r \in ContextRecord /\ r.log = f.case
    BY <1>0, <2>1 DEF ContextRecord, CallRecord, FilesType
  <2>3. lastContext' = [lastContext EXCEPT ![r.log] = r]
    BY <1>2 DEF Fingerprint, CacheContext
  <2> PICK cache \in Seq(ContextRecord) : cache = contexts /\ Len(cache) <= MaxContexts
    BY <1>0 DEF ContextsType
  <2> PICK now : now = Evicted(Inserted(cache, r))
    OBVIOUS
  <2>8. /\ now \in Seq(ContextRecord) /\ Len(now) <= MaxContexts
        /\ \E i \in DOMAIN now : now[i] = r
    <3>1. now \in Seq(ContextRecord)
      BY <2>2, CacheFacts
    <3>2. Len(now) <= MaxContexts
      BY <2>2, CacheFacts
    <3>3. \E i \in DOMAIN now : now[i] = r
      BY <2>2, CacheFacts
    <3> QED
      BY <3>1, <3>2, <3>3
  <2>9. contexts' = now
    BY <1>2 DEF Fingerprint, CacheContext
  <2>4. /\ contexts' \in Seq(ContextRecord) /\ Len(contexts') <= MaxContexts
        /\ \E i \in DOMAIN contexts' : contexts'[i] = r
    BY <2>8, <2>9
  <2>5. r # Nothing
    BY <2>2
  <2>6. lastContext' \in [Case -> ContextRecord \cup {Nothing}]
    BY <1>0, <2>1, <2>2, <2>3 DEF ContextsType
  <2>7. lastContext'[f.case] = r /\ \A d \in Case \ {f.case} : lastContext'[d] = lastContext[d]
    BY <1>0, <2>1, <2>2, <2>3 DEF ContextsType
  <2> QED
    BY <1>0, <2>1, <2>2, <2>4, <2>5, <2>6, <2>7 DEF ContextsType, ContextInv
<1>3. ForgetContexts => ContextsType' /\ ContextInv'
  BY DEF ForgetContexts, ContextsType, ContextInv
<1>4. ASSUME NEW c \in Case, GetSimPaths(c) PROVE UNCHANGED contextVars \/ ForgetContexts
  BY <1>4 DEF GetSimPaths
<1> QED
  BY <1>1, <1>2, <1>3, <1>4, Writers

\* A bootstrap that names the supplements of the context parsed last finds it.
LEMMA SeedFound == ServerInv => SeedKept
<1> USE StoresAssumption
<1> SUFFICES ASSUME ServerInv, NEW c \in Case,
                    lastContext[c] # Nothing, lastContext[c].ver = compileVer[c],
                    \A d \in Case \ {c} : lastContext[d] = Nothing
             PROVE  ResolveContext(c, lastContext[c].supp) # Nothing
  BY DEF SeedKept
<1>0. ContextsType /\ ContextInv
  BY DEF ServerInv, ServerType
<1> PICK r \in ContextRecord : r = lastContext[c]
  BY <1>0 DEF ContextsType
<1> DEFINE I == {i \in 1..Len(contexts) : ContextMatches(contexts[i], c, r.supp)}
<1>1. r.log = c /\ \E i \in DOMAIN contexts : contexts[i] = r
  BY <1>0 DEF ContextInv
<1>2. I # {}
  BY <1>0, <1>1 DEF ContextsType, ContextMatches
<1>3. Max(I) \in I
  <2>1. I \in SUBSET (1..Len(contexts)) /\ Len(contexts) \in Nat
    BY <1>0 DEF ContextsType
  <2> HIDE DEF I
  <2> QED
    BY <1>2, <2>1, LastIn
<1> PICK m \in I : m = Max(I)
  BY <1>3
<1>4. contexts[m] \in ContextRecord
  BY <1>0 DEF ContextsType
<1>5. SelectLastInSeq(contexts, LAMBDA s : ContextMatches(s, c, r.supp)) = m
  BY <1>2 DEF SelectLastInSeq
<1>6. ResolveContext(c, r.supp) = contexts[m]
  BY <1>5 DEF ResolveContext
<1> QED
  BY <1>4, <1>6

\* An automatic name is free or has that time already; every other writer of a name
\* takes it back from what was handed out.
LEMMA CursorsStep == ASSUME ServerInv, ServerNext PROVE CursorKept'
<1> USE StoresAssumption DEF CursorKept
<1>0. CursorKept
  BY DEF ServerInv
<1>1. CASE UNCHANGED cursorVars
  BY <1>0, <1>1 DEF cursorVars
<1>2. ASSUME NEW n \in CursorName, NEW t \in CursorTime, SetCursor(n, t) PROVE CursorKept'
  BY <1>0, <1>2 DEF SetCursor, Put
<1>3. ASSUME NEW n \in CursorName, DeleteCursor(n) PROVE CursorKept'
  BY <1>0, <1>3 DEF DeleteCursor
<1>4. ASSUME NEW s \in CursorSeed, NEW t \in CursorTime, AutoSet(s, t) PROVE CursorKept'
  <2>0. AutoNames(s, t) \in SUBSET Nat /\ AutoNames(s, t) # {}
    BY <1>4 DEF AutoSet, AutoNames
  <2>1. Min(AutoNames(s, t)) \in AutoNames(s, t)
    BY <2>0, NatMin
  <2> PICK k \in AutoNames(s, t) : k = Min(AutoNames(s, t))
    BY <2>1
  <2> PICK n : n = <<s, k>>
    OBVIOUS
  <2>2. n \notin DOMAIN cursors \/ cursors[n] = t
    BY DEF AutoNames
  <2>3. cursors' = Put(cursors, n, t) /\ handedOut' = handedOut \cup {<<n, t>>}
    BY <1>4 DEF AutoSet
  <2> QED
    BY <1>0, <2>2, <2>3 DEF Put
<1>5. ForgetCursors => CursorKept'
  BY DEF ForgetCursors
<1>6. ASSUME NEW c \in Case, GetSimPaths(c) PROVE UNCHANGED cursorVars \/ ForgetCursors
  BY <1>6 DEF GetSimPaths
<1> QED
  BY <1>1, <1>2, <1>3, <1>4, <1>5, <1>6, Writers DEF Cursors

(***************************************************************************)
(* The calls                                                               *)
(***************************************************************************)
\* A call that does not move fits as the logs grow.
LEMMA CallKept ==
    ASSUME FilesType, FilesType',
           \A c \in Case : compileVer[c] <= compileVer'[c],
           NEW f \in CallRecord, CallFits(f, compileVer)
    PROVE  CallFits(f, compileVer')
<1> USE DEF CallFits, FilesType
<1>1. CASE f.pc = "idle"
  BY <1>1
<1>2. CASE f.pc # "idle"
  <2>1. f.case \in Case /\ compileVer[f.case] <= compileVer'[f.case]
        /\ compileVer[f.case] \in Nat /\ compileVer'[f.case] \in Nat
    BY <1>2, StoresAssumption
  <2>2. f.of \in Nat /\ f.began \in Nat /\ f.ver \in Nat
    BY DEF CallRecord
  <2> QED
    BY <1>2, <2>1, <2>2
<1> QED
  BY <1>1, <1>2

\* Each step of a call keeps the order in which it reads.
LEMMA CallsStep ==
    ASSUME ServerInv, ServerNext
    PROVE  CallsType' /\ CallInv'
<1>0. FilesType /\ CallsType /\ \A x \in SessionCall : calls[x] \in CallRecord /\ CallFits(calls[x], compileVer)
  BY DEF ServerInv, ServerType, CallsType, CallInv
<1>1. FilesType' /\ \A c \in Case : compileVer[c] <= compileVer'[c]
  BY FilesStep
<1>2. \A f \in CallRecord : CallFits(f, compileVer) => CallFits(f, compileVer')
  BY <1>0, <1>1, CallKept
\* One call moves.
<1>3. ASSUME NEW x \in SessionCall, NEW f \in CallRecord, CallFits(f, compileVer'),
             calls' = [calls EXCEPT ![x] = f]
      PROVE  CallsType' /\ \A y \in SessionCall : CallFits(calls'[y], compileVer')
  <2>1. CallsType'
    BY <1>0, <1>3 DEF CallsType
  <2>2. ASSUME NEW y \in SessionCall PROVE CallFits(calls'[y], compileVer')
    <3>1. CASE y = x
      BY <1>0, <1>3, <3>1 DEF CallsType
    <3>2. CASE y # x
      <4>1. calls'[y] = calls[y]
        BY <1>0, <1>3, <3>2 DEF CallsType
      <4> QED
        BY <1>0, <1>2, <4>1
    <3> QED
      BY <3>1, <3>2
  <2> QED
    BY <2>1, <2>2
<1>4. Idle \in CallRecord /\ CallFits(Idle, compileVer')
  BY StoresAssumption DEF Idle, CallRecord, CallFits
<1>5. ASSUME UNCHANGED calls
      PROVE  CallsType' /\ \A y \in SessionCall : CallFits(calls'[y], compileVer')
  <2>1. CallsType'
    BY <1>0, <1>5 DEF CallsType
  <2>2. ASSUME NEW y \in SessionCall PROVE CallFits(calls'[y], compileVer')
    <3>1. calls'[y] = calls[y]
      BY <1>5
    <3> QED
      BY <1>0, <1>2, <3>1
  <2> QED
    BY <2>1, <2>2
<1>6. ASSUME NEW x \in SessionCall, NEW tool \in CallTool, NEW c \in Case, NEW supp \in Supplement,
             Begin(x, tool, c, supp)
      PROVE  CallsType' /\ \A y \in SessionCall : CallFits(calls'[y], compileVer')
  <2> PICK f : f = [tool |-> tool, case |-> c, supp |-> supp,
                    pc |-> IF tool = "sweep" THEN "land" ELSE "read",
                    began |-> IF tool = "hierarchy" THEN compileVer[c] ELSE 0, of |-> 0, ver |-> 0]
    OBVIOUS
  <2>1. compileVer[c] \in 1..LogVersions /\ compileVer' = compileVer
    BY <1>0, <1>6 DEF FilesType, Begin, fileVars
  <2>2. f \in CallRecord
    BY <2>1, StoresAssumption DEF CallRecord
  <2>3. CallFits(f, compileVer')
    BY <2>1, StoresAssumption DEF CallFits, CallTool
  <2>4. calls' = [calls EXCEPT ![x] = f]
    BY <1>6 DEF Begin
  <2> QED
    BY <1>3, <2>2, <2>3, <2>4
<1>7. ASSUME NEW x \in SessionCall, Read(x)
      PROVE  CallsType' /\ \A y \in SessionCall : CallFits(calls'[y], compileVer')
  <2> PICK g \in CallRecord : g = calls[x] /\ CallFits(g, compileVer)
    BY <1>0
  <2>1. g.pc = "read" /\ g.case \in Case /\ UNCHANGED compileVer
    BY <1>7 DEF Read, CallFits, fileVars
  <2>2. compileVer[g.case] \in 1..LogVersions /\ simVer[g.case] \in Nat /\ LogVersions \in Nat
    BY <1>0, <2>1, StoresAssumption DEF FilesType
  <2> PICK p \in {"fingerprint", "land"} :
          p = IF g.tool \in CompileTools THEN "fingerprint" ELSE "land"
    OBVIOUS
  <2> PICK v \in Nat : v = IF g.tool \in CompileTools THEN compileVer[g.case] ELSE simVer[g.case]
    BY <2>2
  <2> PICK f : f = [g EXCEPT !.pc = p, !.of = v]
    OBVIOUS
  <2>3. f \in CallRecord
    BY DEF CallRecord
  <2>4. f.case = g.case /\ f.tool = g.tool /\ f.began = g.began /\ f.pc = p /\ f.of = v
        /\ g.began \in Nat
    BY <2>2 DEF CallRecord
  <2>5. CallFits(f, compileVer')
    BY <2>1, <2>2, <2>4 DEF CallFits, CompileTools
  <2>6. calls' = [calls EXCEPT ![x] = f]
    BY <1>0, <1>7 DEF Read, CallsType, CallRecord
  <2> QED
    BY <1>3, <2>3, <2>5, <2>6
<1>8. ASSUME NEW x \in SessionCall, Fingerprint(x)
      PROVE  CallsType' /\ \A y \in SessionCall : CallFits(calls'[y], compileVer')
  <2> PICK g \in CallRecord : g = calls[x] /\ CallFits(g, compileVer)
    BY <1>0
  <2>1. g.pc = "fingerprint" /\ g.case \in Case /\ UNCHANGED compileVer
    BY <1>8 DEF Fingerprint, CallFits, fileVars
  <2>2. compileVer[g.case] \in 1..LogVersions /\ g.began \in Nat /\ g.of \in Nat
        /\ LogVersions \in Nat
    BY <1>0, <2>1, StoresAssumption DEF FilesType, CallRecord
  <2> PICK v \in 0..LogVersions : v = compileVer[g.case]
    BY <2>2
  <2> PICK f : f = [g EXCEPT !.pc = "land", !.ver = v]
    OBVIOUS
  <2>3. f \in CallRecord
    BY DEF CallRecord
  <2>4. /\ f.case = g.case /\ f.tool = g.tool /\ f.began = g.began /\ f.of = g.of
        /\ f.pc = "land" /\ f.ver = compileVer[g.case]
    BY DEF CallRecord
  <2>5. g.tool # "bootstrap" => CallFits(f, compileVer')
    BY <2>1, <2>2, <2>4 DEF CallFits
  <2>6. calls' = [calls EXCEPT ![x] = IF g.tool = "bootstrap" THEN Idle ELSE f]
    BY <1>8 DEF Fingerprint
  <2> QED
    BY <1>3, <1>4, <2>3, <2>5, <2>6
<1>9. ASSUME NEW x \in SessionCall, LandHierarchy(x) \/ LandResult(x) \/ EndCall(x)
      PROVE  CallsType' /\ \A y \in SessionCall : CallFits(calls'[y], compileVer')
  <2>1. calls' = [calls EXCEPT ![x] = Idle]
    BY <1>9 DEF LandHierarchy, LandResult, EndCall
  <2> QED
    BY <1>3, <1>4, <2>1
<1>10. \/ UNCHANGED calls
      \/ \E x \in SessionCall :
             \/ \E tool \in CallTool, c \in Case, supp \in Supplement : Begin(x, tool, c, supp)
             \/ Read(x) \/ Fingerprint(x) \/ LandHierarchy(x) \/ LandResult(x) \/ EndCall(x)
  BY Writers
<1>11. CallsType' /\ \A y \in SessionCall : CallFits(calls'[y], compileVer')
  BY <1>5, <1>6, <1>7, <1>8, <1>9, <1>10
<1> QED
  BY <1>11 DEF CallInv

(***************************************************************************)
(* Session state, results and handles                                      *)
(***************************************************************************)
\* What dropping results leaves.
LEMMA WithoutFacts ==
    ASSUME results \in [Tool -> ResultRecord \cup {Nothing}], NEW tools,
           NEW r, r = Without(results, tools)
    PROVE  /\ r \in [Tool -> ResultRecord \cup {Nothing}]
           /\ \A t \in Tool : r[t] = IF t \in tools THEN Nothing ELSE results[t]
  BY DEF Without

\* As long as the hierarchy, the session's record of it and the discovery stay, the
\* growth of logs disturbs nothing that is known of them.
LEMMA HierarchyKept ==
    ASSUME ServerInv, ServerNext,
           UNCHANGED gateVars, results'["hierarchy"] = results["hierarchy"],
           DOMAIN handles \subseteq DOMAIN handles'
    PROVE  GateType' /\ HierResultInv' /\ GateBacked' /\ FoundInv'
<1>0. GateType /\ ResultsType /\ FilesType /\ HierResultInv /\ GateBacked /\ FoundInv
  BY DEF ServerInv, ServerType
<1>1. FilesType' /\ \A c \in Case : compileVer[c] <= compileVer'[c]
  BY FilesStep
<1>2. \A c \in Case : compileVer[c] \in Nat /\ compileVer'[c] \in Nat
  BY <1>0, <1>1, StoresAssumption DEF FilesType
<1>3. GateType'
  BY <1>0 DEF GateType, gateVars
<1>4. GateBacked'
  BY <1>0 DEF GateBacked, gateVars, Handle
<1>5. ASSUME results["hierarchy"] # Nothing, NEW r, r = results["hierarchy"]
      PROVE  r \in ResultRecord /\ r.log \in Case /\ r.ver \in Nat
  BY <1>0, <1>5 DEF ResultsType, Tool, ResultRecord
<1>6. HierResultInv'
  BY <1>0, <1>1, <1>2, <1>5 DEF HierResultInv, gateVars
<1>7. found # Nothing => found.case \in Case /\ found.ver \in Nat
  BY <1>0, StoresAssumption DEF GateType, Discovery
<1>8. FoundInv'
  BY <1>0, <1>1, <1>2, <1>5, <1>7 DEF FoundInv, gateVars
<1> QED
  BY <1>3, <1>4, <1>6, <1>8

\* A log's record stays true while the log is rewritten.
LEMMA LogResultKept ==
    ASSUME ServerInv, ServerNext, results'["log"] \in {results["log"], Nothing}
    PROVE  LogResultInv'
<1>0. ResultsType /\ FilesType /\ LogResultInv
  BY DEF ServerInv, ServerType
<1>1. FilesType' /\ \A c \in Case : simVer[c] <= simVer'[c]
  BY FilesStep
<1>2. \A c \in Case : simVer[c] \in Nat /\ simVer'[c] \in Nat
  BY <1>0, <1>1, StoresAssumption DEF FilesType
<1>3. results["log"] # Nothing =>
          results["log"] \in ResultRecord /\ results["log"].log \in Case
          /\ results["log"].of \in Nat
  BY <1>0 DEF ResultsType, Tool, ResultRecord
<1> QED
  BY <1>0, <1>1, <1>2, <1>3 DEF LogResultInv

SessionInv ==
    GateType /\ ResultsType /\ HandleInv /\ HierResultInv /\ LogResultInv /\ GateBacked /\ FoundInv

\* A discovery keeps the hierarchy only if it is of the log that is on disk.
LEMMA GetSimPathsStep ==
    ASSUME ServerInv, ServerNext, NEW c \in Case, GetSimPaths(c)
    PROVE  SessionInv'
<1> USE DEF GetSimPaths
<1>0. /\ GateType /\ ResultsType /\ FilesType /\ HandleInv
      /\ HierResultInv /\ GateBacked /\ FoundInv
  BY DEF ServerInv, ServerType
<1> PICK seen : seen = [case |-> c, ver |-> compileVer[c]]
  OBVIOUS
<1>1. seen \in Discovery /\ seen.case = c /\ seen.ver = compileVer[c]
      /\ compileVer[c] \in 1..LogVersions /\ compileVer[c] \in Nat
  BY <1>0, StoresAssumption DEF Discovery, FilesType
<1>2. found' = seen /\ anchor' = c /\ simState' = c /\ compileVer' = compileVer /\ simVer' = simVer
  BY DEF fileVars
<1> PICK switched \in BOOLEAN : switched = (found \notin {Nothing, seen})
  OBVIOUS
<1> PICK rebuilt \in BOOLEAN : rebuilt = (hierState # Nothing /\ ~HierarchySnapshotIsCurrent)
  OBVIOUS
<1>3. results' = Without(results, DroppedByDiscovery(switched, rebuilt))
  OBVIOUS
<1>4. /\ results' \in [Tool -> ResultRecord \cup {Nothing}]
      /\ \A t \in Tool : results'[t] = IF t \in DroppedByDiscovery(switched, rebuilt)
                                       THEN Nothing ELSE results[t]
  BY <1>0, <1>3, WithoutFacts DEF ResultsType
<1>5. results'["log"] = Nothing
  BY <1>4 DEF DroppedByDiscovery, Downstream, Tool
<1>6. LogResultInv'
  BY <1>5 DEF LogResultInv
<1>7. CASE switched \/ rebuilt
  <2>1. hierState' = Nothing /\ handles' = << >>
    BY <1>7
  <2>2. results'["hierarchy"] = Nothing
    BY <1>4, <1>7 DEF DroppedByDiscovery, Tool
  <2>3. GateType' /\ ResultsType'
    BY <1>0, <1>1, <1>2, <1>4, <2>1 DEF GateType, ResultsType
  <2>4. HandleInv' /\ HierResultInv' /\ GateBacked'
    BY <2>1, <2>2, SMTT(30) DEF HandleInv, HierResultInv, GateBacked
  <2>5. FoundInv'
    BY <1>1, <1>2, <2>2 DEF FoundInv
  <2> QED
    BY <1>6, <2>3, <2>4, <2>5 DEF SessionInv
<1>8. CASE ~switched /\ ~rebuilt
  <2>1. hierState' = hierState /\ handles' = handles
    BY <1>8
  <2>2. results'["hierarchy"] = results["hierarchy"]
    BY <1>4, <1>8 DEF DroppedByDiscovery, Downstream, Tool
  <2>3. GateType' /\ ResultsType'
    BY <1>0, <1>1, <1>2, <1>4, <2>1 DEF GateType, ResultsType
  <2>4. HandleInv' /\ HierResultInv' /\ GateBacked'
    BY <1>0, <1>2, <2>1, <2>2 DEF HandleInv, HierResultInv, GateBacked, Handle
  <2>5. ASSUME results["hierarchy"] # Nothing, results["hierarchy"].log = c
        PROVE  results["hierarchy"].ver = compileVer[c]
    <3> PICK r \in ResultRecord : r = results["hierarchy"]
      BY <1>0, <2>5 DEF ResultsType, Tool
    <3>1. hierState # Nothing /\ hierState = [log |-> r.log, supp |-> r.supp, ver |-> r.ver]
      BY <1>0, <2>5 DEF HierResultInv, GateBacked
    <3>2. HierarchySnapshotIsCurrent
      BY <1>8, <3>1
    <3>3. PICK s \in {hierState, r} : s.ver = compileVer[s.log]
      BY <3>2 DEF HierarchySnapshotIsCurrent, HierarchyRecords
    <3>4. s.ver = r.ver /\ s.log = r.log
      BY <3>1, <3>3
    <3> QED
      BY <2>5, <3>3, <3>4
  <2>6. FoundInv'
    BY <1>1, <1>2, <2>2, <2>5 DEF FoundInv
  <2> QED
    BY <1>6, <2>3, <2>4, <2>6 DEF SessionInv
<1> QED
  BY <1>7, <1>8

\* A parse records a version no later than the one it read.
LEMMA ParseResultStep ==
    ASSUME ServerInv, ServerNext, NEW c \in Case,
           ParseSimLog(c) \/ \E e \in Events : ParseWhileRewritten(c, e)
    PROVE  SessionInv'
<1>0. ResultsType /\ FilesType /\ HandleInv
  BY DEF ServerInv, ServerType
<1>1. FilesType' /\ \A d \in Case : simVer[d] <= simVer'[d]
  BY FilesStep
<1> PICK kept : kept = Without(results, Downstream("log"))
  OBVIOUS
<1> PICK r : r = [log |-> c, supp |-> NoSupplement, ver |-> simVer[c], of |-> simVer'[c]]
  OBVIOUS
<1>2. simVer[c] \in Nat /\ simVer'[c] \in Nat /\ simVer[c] <= simVer'[c]
  BY <1>0, <1>1, StoresAssumption DEF FilesType
<1>3. r \in ResultRecord /\ r.log = c /\ r.ver = simVer[c] /\ r.of = simVer'[c]
  BY <1>2, StoresAssumption DEF ResultRecord
<1>4. results' = [kept EXCEPT !["log"] = r]
  BY DEF ParseSimLog, ParseWhileRewritten, ParseRecord, fileVars
<1>5. /\ kept \in [Tool -> ResultRecord \cup {Nothing}]
      /\ \A t \in Tool : kept[t] = IF t \in Downstream("log") THEN Nothing ELSE results[t]
  BY <1>0, WithoutFacts DEF ResultsType
<1>6. results' \in [Tool -> ResultRecord \cup {Nothing}]
  BY <1>3, <1>4, <1>5
<1>7. results'["hierarchy"] = results["hierarchy"] /\ results'["log"] = r
  BY <1>4, <1>5 DEF Downstream, Tool
<1>8. UNCHANGED gateVars /\ UNCHANGED handles
  BY DEF ParseSimLog, ParseWhileRewritten
<1>9. ResultsType' /\ HandleInv'
  BY <1>0, <1>6, <1>8 DEF ResultsType, HandleInv
<1>10. LogResultInv'
  BY <1>2, <1>3, <1>7 DEF LogResultInv
<1>11. GateType' /\ HierResultInv' /\ GateBacked' /\ FoundInv'
  BY <1>7, <1>8, HierarchyKept
<1> QED
  BY <1>9, <1>10, <1>11 DEF SessionInv

\* A build publishes only if the log is what it was when the build began, so what it
\* parsed is what its fingerprint names and what is on disk.
LEMMA LandHierarchyStep ==
    ASSUME ServerInv, ServerNext, NEW x \in SessionCall, LandHierarchy(x)
    PROVE  SessionInv'
<1>0. /\ GateType /\ ResultsType /\ FilesType /\ HandleInv /\ CallsType /\ CallInv
      /\ LogResultInv /\ GateBacked /\ FoundInv
  BY DEF ServerInv, ServerType
<1> PICK f \in CallRecord : f = calls[x]
  BY <1>0 DEF CallsType
<1>1. f.pc = "land" /\ f.tool = "hierarchy" /\ f.began = compileVer[f.case]
  BY DEF LandHierarchy, LogsUnchanged
<1>2. /\ f.case \in Case /\ f.supp \in Supplement
      /\ f.of \in Nat /\ f.began \in Nat /\ f.ver \in 0..LogVersions
      /\ f.began \in 1..compileVer[f.case] /\ f.began <= f.of /\ f.of <= f.ver
      /\ f.ver <= compileVer[f.case] /\ compileVer[f.case] \in 1..LogVersions
  BY <1>0, <1>1, StoresAssumption DEF CallInv, CallFits, CallRecord, FilesType
<1>3. f.of = compileVer[f.case] /\ f.ver = compileVer[f.case]
  BY <1>1, <1>2, StoresAssumption
<1> PICK r : r = [log |-> f.case, supp |-> f.supp, ver |-> f.ver, of |-> f.of]
  OBVIOUS
<1> PICK h : h = <<f.case, f.supp, f.ver>>
  OBVIOUS
<1> PICK s : s = [log |-> f.case, supp |-> f.supp, ver |-> f.ver]
  OBVIOUS
<1>4. r \in ResultRecord /\ r # Nothing /\ r.log = f.case /\ r.supp = f.supp
      /\ r.ver = f.ver /\ r.of = f.of
  BY <1>2, ServerAssumption DEF ResultRecord
<1>5. h \in Case \X Supplement \X (1..LogVersions) /\ h[3] = f.ver /\ Handle(r) = h /\ Handle(s) = h
  BY <1>2, <1>3, <1>4 DEF Handle
<1>6. s \in HierRecord /\ s # Nothing
  BY <1>2, ServerAssumption DEF HierRecord
<1> PICK kept : kept = Without(results, Downstream("hierarchy"))
  OBVIOUS
<1>7. /\ results' = [kept EXCEPT !["hierarchy"] = r]
      /\ handles' = Put(handles, h, f.of)
      /\ hierState' = s
      /\ UNCHANGED <<simState, found, anchor, compileVer, simVer>>
  BY <1>5 DEF LandHierarchy, fileVars
<1>8. /\ kept \in [Tool -> ResultRecord \cup {Nothing}]
      /\ \A t \in Tool : kept[t] = IF t \in Downstream("hierarchy") THEN Nothing ELSE results[t]
  BY <1>0, WithoutFacts DEF ResultsType
<1>9. results' \in [Tool -> ResultRecord \cup {Nothing}]
  BY <1>4, <1>7, <1>8
<1>10. results'["hierarchy"] = r /\ results'["log"] = results["log"]
  BY <1>7, <1>8 DEF Downstream, Tool
<1>11. GateType'
  BY <1>0, <1>6, <1>7 DEF GateType
<1>12. ResultsType' /\ HandleInv'
  BY <1>0, <1>3, <1>5, <1>7, <1>9 DEF ResultsType, HandleInv, Put
<1>13. HierResultInv'
  BY <1>2, <1>3, <1>4, <1>7, <1>10, SMTT(30) DEF HierResultInv
<1>14. LogResultInv'
  BY <1>10, LogResultKept
<1>15. GateBacked'
  BY <1>5, <1>6, <1>7 DEF GateBacked, Put
<1>16. FoundInv'
  BY <1>0, <1>2, <1>3, <1>4, <1>7, <1>10, SMTT(30) DEF FoundInv
<1> QED
  BY <1>11, <1>12, <1>13, <1>14, <1>15, <1>16 DEF SessionInv

\* Other results land without touching the hierarchy or the log.
LEMMA LandResultStep ==
    ASSUME ServerInv, ServerNext, NEW x \in SessionCall, LandResult(x)
    PROVE  SessionInv'
<1>0. ResultsType /\ FilesType /\ HandleInv /\ CallsType /\ CallInv
  BY DEF ServerInv, ServerType
<1> PICK f \in CallRecord : f = calls[x]
  BY <1>0 DEF CallsType
<1>1. f.pc = "land" /\ f.tool \in {"scan", "sweep", "recommend"} /\ f.case \in Case
  BY <1>0 DEF LandResult, CallInv, CallFits, CallRecord, CallTool
<1> PICK r : r = [log |-> f.case, supp |-> f.supp, of |-> f.of,
                  ver |-> IF f.tool = "recommend" THEN simVer[f.case] ELSE f.ver]
  OBVIOUS
<1>2. simVer[f.case] \in Nat /\ f.of \in Nat /\ f.ver \in Nat /\ f.supp \in Supplement
  BY <1>0, <1>1, StoresAssumption DEF FilesType, CallRecord
<1>3. r \in ResultRecord
  BY <1>1, <1>2 DEF ResultRecord
<1> PICK tools : tools = IF f.tool = "scan" THEN Downstream("scan") ELSE {}
  OBVIOUS
<1> PICK kept : kept = Without(results, tools)
  OBVIOUS
<1>4. results' = [kept EXCEPT ![f.tool] = r]
  BY DEF LandResult
<1>5. /\ kept \in [Tool -> ResultRecord \cup {Nothing}]
      /\ \A t \in Tool : kept[t] = IF t \in tools THEN Nothing ELSE results[t]
  BY <1>0, WithoutFacts DEF ResultsType
<1>6. results' \in [Tool -> ResultRecord \cup {Nothing}]
  BY <1>3, <1>4, <1>5
<1>7. results'["hierarchy"] = results["hierarchy"] /\ results'["log"] = results["log"]
  BY <1>1, <1>4, <1>5 DEF Downstream, Tool
<1>8. UNCHANGED gateVars /\ UNCHANGED handles
  BY DEF LandResult
<1>9. ResultsType' /\ HandleInv'
  BY <1>0, <1>6, <1>8 DEF ResultsType, HandleInv
<1>10. LogResultInv'
  BY <1>7, LogResultKept
<1>11. GateType' /\ HierResultInv' /\ GateBacked' /\ FoundInv'
  BY <1>7, <1>8, HierarchyKept
<1> QED
  BY <1>9, <1>10, <1>11 DEF SessionInv

\* Dropping the discovery, restoring a session's record and registering a recovered
\* hierarchy.
LEMMA GateStep ==
    ASSUME ServerInv, ServerNext,
           \/ BuildKdb
           \/ \E h \in DOMAIN handles : HandleTool(h)
           \/ \E c \in Case : RegisterRecovered(c)
    PROVE  SessionInv'
<1>0. /\ GateType /\ ResultsType /\ FilesType /\ HandleInv
      /\ HierResultInv /\ LogResultInv /\ GateBacked /\ FoundInv
  BY DEF ServerInv, ServerType
<1>1. CASE BuildKdb
  <2>1. found' = Nothing /\ UNCHANGED <<simState, anchor, hierState, results, handles, compileVer, simVer>>
    BY <1>1 DEF BuildKdb, fileVars
  <2> QED
    BY <1>0, <2>1
    DEF SessionInv, GateType, ResultsType, HandleInv, HierResultInv, LogResultInv, GateBacked,
        FoundInv, Handle
<1>2. ASSUME NEW h \in DOMAIN handles, HandleTool(h) PROVE SessionInv'
  <2>1. hierState = Nothing /\ UNCHANGED <<simState, found, anchor, results, handles, compileVer, simVer>>
    BY <1>2 DEF HandleTool, fileVars
  <2>2. results["hierarchy"] = Nothing
    BY <1>0, <2>1 DEF GateBacked
  <2>3. hierState' = [log |-> Nothing, supp |-> NoSupplement, ver |-> 0]
    BY <1>2, <2>2 DEF HandleTool
  <2>4. hierState' \in HierRecord /\ hierState'.ver = 0
    BY <2>3, StoresAssumption DEF HierRecord
  <2>5. GateType' /\ ResultsType' /\ HandleInv' /\ LogResultInv'
    BY <1>0, <2>1, <2>4 DEF GateType, ResultsType, HandleInv, LogResultInv
  <2>6. HierResultInv' /\ GateBacked' /\ FoundInv'
    BY <1>0, <2>1, <2>2, <2>4 DEF HierResultInv, GateBacked, FoundInv
  <2> QED
    BY <2>5, <2>6 DEF SessionInv
<1>3. ASSUME NEW c \in Case, RegisterRecovered(c) PROVE SessionInv'
  <2> PICK h : h = <<c, NoSupplement, compileVer[c]>>
    OBVIOUS
  <2>1. h \in Case \X Supplement \X (1..LogVersions) /\ h[3] = compileVer[c]
    BY <1>0, StoresAssumption DEF FilesType
  <2>2. /\ handles' = Put(handles, h, compileVer[c])
        /\ UNCHANGED <<gateVars, results, compileVer, simVer>>
    BY <1>3 DEF RegisterRecovered, NowHandle, fileVars
  <2>3. DOMAIN handles' = DOMAIN handles \cup {h} /\ ResultsType' /\ HandleInv'
    BY <1>0, <2>1, <2>2 DEF ResultsType, HandleInv, Put
  <2>4. GateType' /\ HierResultInv' /\ GateBacked' /\ FoundInv'
    BY <2>2, <2>3, HierarchyKept
  <2>5. LogResultInv'
    BY <2>2, LogResultKept
  <2> QED
    BY <2>3, <2>4, <2>5 DEF SessionInv
<1> QED
  BY <1>1, <1>2, <1>3

\* Everything else leaves the session's state as it is, whatever happens to the logs.
LEMMA SessionStep == ASSUME ServerInv, ServerNext PROVE SessionInv'
<1>1. CASE UNCHANGED <<gateVars, results, handles>>
  <2>1. ResultsType' /\ HandleInv'
    BY <1>1 DEF ServerInv, ServerType, ResultsType, HandleInv
  <2>2. GateType' /\ HierResultInv' /\ GateBacked' /\ FoundInv'
    BY <1>1, HierarchyKept
  <2>3. LogResultInv'
    BY <1>1, LogResultKept
  <2> QED
    BY <2>1, <2>2, <2>3 DEF SessionInv
<1>2. \/ UNCHANGED <<gateVars, results, handles>>
      \/ \E c \in Case : GetSimPaths(c)
      \/ \E c \in Case : ParseSimLog(c) \/ \E e \in Events : ParseWhileRewritten(c, e)
      \/ \E x \in SessionCall : LandHierarchy(x) \/ LandResult(x)
      \/ BuildKdb
      \/ \E h \in DOMAIN handles : HandleTool(h)
      \/ \E c \in Case : RegisterRecovered(c)
  BY Writers
<1> QED
  BY <1>1, <1>2, GetSimPathsStep, ParseResultStep, LandHierarchyStep, LandResultStep, GateStep

(***************************************************************************)
(* Theorems                                                                *)
(***************************************************************************)
\* The invariant holds of every session.
THEOREM ServerInvariance == ServerSpec => []ServerInv
<1>1. ServerInv /\ [ServerNext]_serverVars => ServerInv'
  <2> SUFFICES ASSUME ServerInv, [ServerNext]_serverVars PROVE ServerInv'
    OBVIOUS
  <2>1. CASE ServerNext
    BY <2>1, FilesStep, LogsStep, ContextsStep, CursorsStep, CallsStep, SessionStep
    DEF ServerInv, ServerType, SessionInv
  <2>2. CASE UNCHANGED serverVars
    BY <2>2, SMTT(30)
    DEF ServerInv, ServerType, FilesType, LogsType, ContextsType, GateType, ResultsType,
        CallsType, CallInv, HandleInv, HierResultInv, LogResultInv, GateBacked, FoundInv,
        ContextInv, BaselineEarlier, CursorKept, Handle, serverVars, fileVars, logVars, contextVars,
        cursorVars, sessionStateVars
  <2> QED
    BY <2>1, <2>2
<1> QED
  BY <1>1, ServerStarts, PTL DEF ServerSpec

\* A session past the hierarchy gate has a hierarchy behind it, and one that is
\* served to a query was parsed from the compile log that is on disk: whatever
\* builds, recoveries, discoveries and rewrites interleave.
THEOREM HierarchiesAreServedFresh == ServerSpec => []ServerSound
<1>1. ServerInv => ServerSound
  <2> SUFFICES ASSUME ServerInv PROVE ServerSound
    OBVIOUS
  <2>1. SessionTypeOK
    BY DEF ServerInv, ServerType, SessionTypeOK, FilesType, GateType, ResultsType, ContextsType
  <2>2. HierarchyServed
    BY DEF ServerInv, HandleInv, HierarchyServed, Servable
  <2> QED
    BY <2>1, <2>2 DEF ServerSound, ServerInv
<1> QED
  BY <1>1, ServerInvariance, PTL

\* A diagnostic snapshot for a named target shows as fresh only what is of that
\* case, a hierarchy no older than the discovery, and an analysis of the log on
\* disk.
THEOREM SnapshotsAreHonest == ServerSpec => []SnapshotHonest
<1>1. ServerInv => SnapshotHonest
  <2> SUFFICES ASSUME ServerInv, found # Nothing, NEW target \in Case, NEW tool \in Checked,
                      ShownFresh(tool, target)
               PROVE  /\ results[tool].log = target
                      /\ tool = "hierarchy" => results[tool].of >= found.ver
                      /\ tool = "log" => results[tool].of = simVer[target]
    BY DEF SnapshotHonest
  <2>0. /\ GateType /\ ResultsType /\ FilesType
        /\ HierResultInv /\ LogResultInv /\ FoundInv
    BY DEF ServerInv, ServerType
  <2>1. found.case = target /\ anchor = target
    BY <2>0, StoresAssumption DEF ShownFresh, CaseMismatch, FoundInv
  <2> PICK r \in ResultRecord : r = results[tool]
    BY <2>0 DEF ShownFresh, ResultsType, Checked
  <2>2. r # Nothing /\ r.log = target /\ (tool = "log" => r.ver = simVer[target])
    BY <2>1 DEF ShownFresh, MatchesAnchor
  <2>3. r.ver \in Nat /\ r.of \in Nat /\ simVer[target] \in Nat /\ found.ver \in Nat
    BY <2>0, StoresAssumption DEF ResultRecord, FilesType, GateType, Discovery
  <2>4. tool = "hierarchy" => r.of >= found.ver
    BY <2>0, <2>1, <2>2, <2>3 DEF HierResultInv, FoundInv
  <2>5. tool = "log" => r.of = simVer[target]
    BY <2>0, <2>2, <2>3 DEF LogResultInv
  <2> QED
    BY <2>2, <2>4, <2>5
<1> QED
  BY <1>1, ServerInvariance, PTL

\* Baselines are earlier than what they are compared with, seeds are found, and
\* names that were handed out keep their times.
THEOREM StoresAreSound == ServerSpec => []StoresSound
<1>1. ServerInv => StoresSound
  BY SeedFound DEF ServerInv, StoresSound
<1> QED
  BY <1>1, ServerInvariance, PTL
=================================================================================
