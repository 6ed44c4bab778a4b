------------------------------ MODULE RequestProofs ------------------------------
(***************************************************************************)
(* Proofs about what requests share: the flights of hierarchy recovery     *)
(* (HierarchyRecovery) and the slots of the FST readers (FstRequests), for *)
(* any number of callers, keys, files and limits.                          *)
(***************************************************************************)
EXTENDS HierarchyRecovery, FstRequests, FiniteSetTheorems, TLAPS

(***************************************************************************)
(* HierarchyRecovery                                                       *)
(*                                                                         *)
(* flight.waiters is exactly the number of callers that await the flight   *)
(* (CountInv), a flight is registered under its key exactly as long as     *)
(* that number is not zero, and a task is cancelled only once it is        *)
(* (FlightInv).  So nobody joins a flight that is being cancelled, and     *)
(* nobody awaits one that was.                                             *)
(***************************************************************************)

RecoveryTypeInv ==
    /\ rv_key \in [RecoveryCaller -> RecoveryKey]
    /\ rv_now \in Nat
    /\ rv_pc \in [RecoveryCaller -> {"idle", "resolving", "waiting", "done"}]
    /\ rv_on \in [RecoveryCaller -> RecoveryCaller \cup {NoFlight}]
    /\ DOMAIN rv_result = RecoveryCaller
    /\ rv_flights \in [RecoveryKey -> RecoveryCaller \cup {NoFlight}]
    /\ rv_waiters \in [RecoveryCaller -> Nat]
    /\ rv_task \in [RecoveryCaller -> {"none", "queued", "building", "cancelling", "ended"}]
    /\ rv_deadline \in [RecoveryCaller -> Nat]
    /\ DOMAIN rv_outcome = RecoveryCaller
    /\ rv_read \in [RecoveryCaller -> [paths : SUBSET SourceFile, bytes : Nat]]
    /\ rv_admission \in RecoveryCaller \cup {NoFlight}

\* The callers that await a flight, and that flight.waiters counts them.
Awaiting(f) == {c \in RecoveryCaller : rv_pc[c] = "waiting" /\ rv_on[c] = f}
CountInv ==
    /\ \A f \in RecoveryCaller :
          IsFiniteSet(Awaiting(f)) /\ rv_waiters[f] = Cardinality(Awaiting(f))
    /\ \A c \in RecoveryCaller : rv_pc[c] = "waiting" => rv_on[c] \in RecoveryCaller

\* A flight somebody awaits is the one of its key, was not cancelled and is not
\* being cancelled; one that nobody awaits does not run.
FlightInv ==
    /\ \A f \in RecoveryCaller :
          /\ rv_waiters[f] > 0 => /\ rv_flights[rv_key[f]] = f
                                  /\ rv_task[f] \in {"queued", "building", "ended"}
                                  /\ rv_outcome[f] # "cancelled"
          /\ TaskLive(f) => rv_waiters[f] > 0 /\ rv_now <= rv_deadline[f]
          /\ rv_pc[f] \in {"idle", "resolving"} => rv_task[f] = "none" /\ rv_outcome[f] = "none"
    /\ \A k \in Registered :
          rv_key[rv_flights[k]] = k /\ rv_waiters[rv_flights[k]] > 0

\* What is counted is finite, and the build that runs has the admission.
BoundInv ==
    /\ IsFiniteSet(Registered) /\ Cardinality(Registered) <= MaxFlights
    /\ \A f \in RecoveryCaller :
          /\ rv_task[f] = "building" => rv_admission = f
          /\ IsFiniteSet(rv_read[f].paths) /\ Cardinality(rv_read[f].paths) <= MaxSourceFiles
          /\ rv_read[f].bytes <= MaxSourceBytes

ResultInv == \A c \in RecoveryCaller : rv_result[c] # "cancelled"

RecoveryInv == RecoveryTypeInv /\ CountInv /\ FlightInv /\ BoundInv /\ ResultInv

\* A flight some caller awaits has a waiter.
LEMMA Awaited ==
    ASSUME RecoveryInv, NEW c \in RecoveryCaller, rv_pc[c] = "waiting"
    PROVE  rv_on[c] \in RecoveryCaller /\ rv_waiters[rv_on[c]] > 0
<1>1. rv_on[c] \in RecoveryCaller
  BY DEF RecoveryInv, CountInv
<1>2. c \in Awaiting(rv_on[c])
  BY DEF Awaiting
<1>3. Cardinality(Awaiting(rv_on[c])) # 0
  BY <1>1, <1>2, FS_EmptySet DEF RecoveryInv, CountInv
<1> QED
  BY <1>1, <1>3 DEF RecoveryInv, CountInv, RecoveryTypeInv

LEMMA RecoveryInitInv == RecoveryInit([RecoveryCaller -> RecoveryKey]) => RecoveryInv
<1> SUFFICES ASSUME RecoveryInit([RecoveryCaller -> RecoveryKey]) PROVE RecoveryInv
  OBVIOUS
<1> USE RecoveryAssumption DEF RecoveryInit
<1>1. RecoveryTypeInv
  BY DEF RecoveryTypeInv, NothingRead
<1>2. CountInv
  <2>1. \A f \in RecoveryCaller : Awaiting(f) = {}
    BY DEF Awaiting
  <2> QED
    BY <2>1, FS_EmptySet DEF CountInv
<1>3. Registered = {}
  BY DEF Registered
<1>4. FlightInv
  BY <1>3 DEF FlightInv, TaskLive
<1>5. BoundInv
  <2>1. \A f \in RecoveryCaller : rv_read[f].paths = {} /\ rv_read[f].bytes = 0
    BY DEF NothingRead
  <2>2. IsFiniteSet({}) /\ Cardinality({}) = 0
    BY FS_EmptySet
  <2> QED
    BY <1>3, <2>1, <2>2 DEF BoundInv
<1> QED
  BY <1>1, <1>2, <1>4, <1>5 DEF RecoveryInv, ResultInv

\* The counts are kept by a step that leaves the awaited flights alone.
LEMMA CountsKept ==
    ASSUME RecoveryInv, rv_waiters' = rv_waiters, rv_on' = rv_on,
           \A c \in RecoveryCaller : (rv_pc'[c] = "waiting") <=> (rv_pc[c] = "waiting")
    PROVE  CountInv'
<1>1. \A f \in RecoveryCaller : Awaiting(f)' = Awaiting(f)
  BY DEF Awaiting
<1> QED
  BY <1>1 DEF RecoveryInv, CountInv

\* They are kept by one more waiter, and by one fewer.
LEMMA AwaitCounts ==
    ASSUME RecoveryInv, NEW c \in RecoveryCaller, NEW f \in RecoveryCaller,
           rv_pc[c] # "waiting", Await(c, f)
    PROVE  CountInv'
<1>1. Awaiting(f)' = Awaiting(f) \cup {c} /\ c \notin Awaiting(f)
  BY DEF Await, Awaiting, RecoveryInv, RecoveryTypeInv
<1>2. ASSUME NEW g \in RecoveryCaller, g # f PROVE Awaiting(g)' = Awaiting(g)
  BY <1>2 DEF Await, Awaiting, RecoveryInv, RecoveryTypeInv
<1>3. IsFiniteSet(Awaiting(f)') /\ rv_waiters'[f] = Cardinality(Awaiting(f)')
  BY <1>1, FS_AddElement DEF Await, RecoveryInv, CountInv, RecoveryTypeInv
<1>4. \A g \in RecoveryCaller : g # f => rv_waiters'[g] = rv_waiters[g]
  BY DEF Await, RecoveryInv, RecoveryTypeInv
<1>5. \A d \in RecoveryCaller : rv_pc'[d] = "waiting" => rv_on'[d] \in RecoveryCaller
  BY DEF Await, RecoveryInv, CountInv, RecoveryTypeInv
<1> QED
  BY <1>2, <1>3, <1>4, <1>5 DEF RecoveryInv, CountInv

LEMMA LeaveCounts ==
    ASSUME RecoveryInv, NEW c \in RecoveryCaller, rv_pc[c] = "waiting",
           rv_pc' = [rv_pc EXCEPT ![c] = "done"], LeaveFlight(c)
    PROVE  CountInv'
<1>0. PICK f \in RecoveryCaller : f = rv_on[c]
  BY Awaited
<1>1. Awaiting(f)' = Awaiting(f) \ {c} /\ c \in Awaiting(f)
  BY <1>0 DEF LeaveFlight, Awaiting, RecoveryInv, RecoveryTypeInv
<1>2. ASSUME NEW g \in RecoveryCaller, g # f PROVE Awaiting(g)' = Awaiting(g)
  BY <1>0, <1>2 DEF LeaveFlight, Awaiting, RecoveryInv, RecoveryTypeInv
<1>3. IsFiniteSet(Awaiting(f)') /\ rv_waiters'[f] = Cardinality(Awaiting(f)')
  BY <1>0, <1>1, FS_RemoveElement DEF LeaveFlight, RecoveryInv, CountInv, RecoveryTypeInv
<1>4. \A g \in RecoveryCaller : g # f => rv_waiters'[g] = rv_waiters[g]
  BY <1>0 DEF LeaveFlight, RecoveryInv, RecoveryTypeInv
<1>5. \A d \in RecoveryCaller : rv_pc'[d] = "waiting" => rv_on'[d] \in RecoveryCaller
  BY DEF LeaveFlight, RecoveryInv, CountInv, RecoveryTypeInv
<1> QED
  BY <1>2, <1>3, <1>4, <1>5 DEF RecoveryInv, CountInv

\* A caller that leaves its flight with an outcome of the flight or one of its own.
LEMMA LeaveInv ==
    ASSUME RecoveryInv, NEW c \in RecoveryCaller, rv_pc[c] = "waiting", NEW status,
           status # "cancelled", Answer(c, status), LeaveFlight(c),
           UNCHANGED <<rv_key, rv_now, rvWork>>
    PROVE  RecoveryInv'
<1>0. PICK f \in RecoveryCaller :
          f = rv_on[c] /\ rv_waiters[f] > 0 /\ rv_flights[rv_key[f]] = f /\ rv_key[f] \in RecoveryKey
  BY Awaited DEF RecoveryInv, FlightInv, RecoveryTypeInv
<1> USE RecoveryAssumption DEF LeaveFlight, Answer, rvWork
<1>1. RecoveryTypeInv'
  <2>1. rv_waiters' \in [RecoveryCaller -> Nat]
    BY <1>0 DEF RecoveryInv, RecoveryTypeInv
  <2>2. rv_flights' \in [RecoveryKey -> RecoveryCaller \cup {NoFlight}]
    BY <1>0 DEF RecoveryInv, RecoveryTypeInv, PopFlight
  <2>3. rv_task' \in [RecoveryCaller -> {"none", "queued", "building", "cancelling", "ended"}]
    BY <1>0 DEF RecoveryInv, RecoveryTypeInv
  <2> QED
    BY <2>1, <2>2, <2>3 DEF RecoveryInv, RecoveryTypeInv
<1>2. CountInv'
  BY LeaveCounts
<1>3. CASE rv_waiters[f] = 1
  <2>1. Registered' = Registered \ {rv_key[f]}
    BY <1>0, <1>3 DEF Registered, PopFlight, RecoveryInv, RecoveryTypeInv
  <2>2. rv_waiters'[f] = 0 /\ ~TaskLive(f)'
    BY <1>0, <1>3 DEF RecoveryInv, RecoveryTypeInv, TaskLive
  <2>3. \A g \in RecoveryCaller : g # f => /\ rv_waiters'[g] = rv_waiters[g]
                                           /\ rv_task'[g] = rv_task[g]
    BY <1>0, <1>3 DEF RecoveryInv, RecoveryTypeInv, TaskLive
  <2>4. \A k \in RecoveryKey \ {rv_key[f]} : rv_flights'[k] = rv_flights[k]
    BY <1>0, <1>3 DEF PopFlight, RecoveryInv, RecoveryTypeInv
  <2>5. \A g \in RecoveryCaller : g # f /\ rv_waiters[g] > 0 => rv_key[g] \in RecoveryKey \ {rv_key[f]}
    BY <1>0 DEF RecoveryInv, FlightInv, RecoveryTypeInv
  <2>6. \A k \in Registered' : k \in RecoveryKey \ {rv_key[f]} /\ rv_flights[k] # f /\ rv_flights[k] \in RecoveryCaller
    BY <1>0, <2>1 DEF Registered, RecoveryInv, RecoveryTypeInv, FlightInv
  <2>7. \A g \in RecoveryCaller : rv_pc'[g] \in {"idle", "resolving"} => rv_pc[g] \in {"idle", "resolving"} /\ rv_task'[g] = rv_task[g]
    BY <1>0, <1>3 DEF RecoveryInv, RecoveryTypeInv, FlightInv, TaskLive
  <2>8. FlightInv'
    BY <1>0, <2>1, <2>2, <2>3, <2>4, <2>5, <2>6, <2>7, SMTT(30) DEF RecoveryInv, FlightInv, TaskLive
  <2>9. BoundInv'
    <3>1. IsFiniteSet(Registered') /\ Cardinality(Registered') <= MaxFlights
      <4>1. /\ IsFiniteSet(Registered \ {rv_key[f]})
            /\ Cardinality(Registered \ {rv_key[f]}) <= Cardinality(Registered)
            /\ Cardinality(Registered \ {rv_key[f]}) \in Nat /\ Cardinality(Registered) \in Nat
        BY FS_Subset, FS_CardinalityType DEF RecoveryInv, BoundInv
      <4> QED
        BY <2>1, <4>1 DEF RecoveryInv, BoundInv
    <3>2. \A g \in RecoveryCaller : rv_task'[g] = "building" => rv_task[g] = "building"
      BY <2>2, <2>3 DEF TaskLive
    <3> QED
      BY <3>1, <3>2 DEF RecoveryInv, BoundInv
  <2> QED
    BY <1>1, <1>2, <2>8, <2>9 DEF RecoveryInv, ResultInv, RecoveryTypeInv
<1>4. CASE rv_waiters[f] # 1
  <2>1. rv_waiters'[f] > 0 /\ \A g \in RecoveryCaller : g # f => rv_waiters'[g] = rv_waiters[g]
    BY <1>0, <1>4 DEF RecoveryInv, RecoveryTypeInv
  <2>2. UNCHANGED <<rv_flights, rv_task, Registered>>
    BY <1>0, <1>4 DEF Registered
  <2>3. \A k \in Registered : rv_flights[k] \in RecoveryCaller
    BY DEF Registered, RecoveryInv, RecoveryTypeInv
  <2>4. \A g \in RecoveryCaller : rv_pc'[g] \in {"idle", "resolving"} => rv_pc[g] \in {"idle", "resolving"}
    BY DEF RecoveryInv, RecoveryTypeInv
  <2>5. FlightInv'
    BY <1>0, <2>1, <2>2, <2>3, <2>4 DEF RecoveryInv, FlightInv, TaskLive
  <2>6. BoundInv'
    BY <2>2 DEF RecoveryInv, BoundInv
  <2> QED
    BY <1>1, <1>2, <2>5, <2>6 DEF RecoveryInv, ResultInv, RecoveryTypeInv
<1> QED
  BY <1>3, <1>4

\* Steps that leave the flights, their tasks and what they have read alone.
LEMMA QuietInv ==
    ASSUME RecoveryInv, rv_pc' \in [RecoveryCaller -> {"idle", "resolving", "waiting", "done"}],
           \A c \in RecoveryCaller :
              /\ (rv_pc'[c] = "waiting") <=> (rv_pc[c] = "waiting")
              /\ rv_pc'[c] \in {"idle", "resolving"} => rv_pc[c] \in {"idle", "resolving"},
           DOMAIN rv_result' = RecoveryCaller, ResultInv',
           UNCHANGED <<rv_key, rv_now, rv_on, rvFlight, rv_read, rv_admission>>
    PROVE  RecoveryInv'
<1> USE DEF rvFlight
<1>1. RecoveryTypeInv'
  BY DEF RecoveryInv, RecoveryTypeInv
<1>2. CountInv'
  BY CountsKept
<1>3. FlightInv'
  BY DEF RecoveryInv, FlightInv, Registered, TaskLive
<1>4. BoundInv'
  BY DEF RecoveryInv, BoundInv, Registered
<1> QED
  BY <1>1, <1>2, <1>3, <1>4 DEF RecoveryInv

LEMMA BeginResolveInv ==
    ASSUME RecoveryInv, NEW c \in RecoveryCaller, BeginResolve(c)
    PROVE  RecoveryInv'
  BY QuietInv DEF BeginResolve, RecoveryInv, RecoveryTypeInv, ResultInv, rvWork

\* A caller that is not waiting and gets its answer.
LEMMA AnswerInv ==
    ASSUME RecoveryInv, NEW c \in RecoveryCaller, NEW status, status # "cancelled",
           rv_pc[c] = "resolving", Answer(c, status),
           UNCHANGED <<rv_key, rv_now, rv_on, rvFlight, rvWork>>
    PROVE  RecoveryInv'
  BY QuietInv DEF Answer, RecoveryInv, RecoveryTypeInv, ResultInv, rvWork

LEMMA ResolveAnswersInv ==
    ASSUME RecoveryInv, NEW c \in RecoveryCaller, ResolveAnswers(c)
    PROVE  RecoveryInv'
  BY AnswerInv DEF ResolveAnswers

LEMMA JoinFlightInv ==
    ASSUME RecoveryInv, NEW c \in RecoveryCaller, JoinFlight(c)
    PROVE  RecoveryInv'
<1> USE DEF JoinFlight, Await, rvWork
<1>0. PICK f \in RecoveryCaller :
          f = rv_flights[rv_key[c]] /\ rv_key[f] = rv_key[c] /\ rv_waiters[f] > 0 /\ rv_key[c] \in RecoveryKey
  BY DEF Registered, RecoveryInv, RecoveryTypeInv, FlightInv
<1>1. RecoveryTypeInv'
  BY <1>0 DEF RecoveryInv, RecoveryTypeInv
<1>2. CountInv'
  BY <1>0, AwaitCounts
<1>3. rv_waiters'[f] > 0 /\ \A g \in RecoveryCaller : g # f => rv_waiters'[g] = rv_waiters[g]
  BY <1>0 DEF RecoveryInv, RecoveryTypeInv
<1>4. UNCHANGED Registered /\ \A k \in Registered : rv_flights[k] \in RecoveryCaller
  BY DEF Registered, RecoveryInv, RecoveryTypeInv
<1>5. \A g \in RecoveryCaller : rv_pc'[g] \in {"idle", "resolving"} => rv_pc[g] \in {"idle", "resolving"}
  BY DEF RecoveryInv, RecoveryTypeInv
<1>6. FlightInv'
  BY <1>0, <1>3, <1>4, <1>5 DEF RecoveryInv, FlightInv, TaskLive
<1>7. BoundInv'
  BY <1>4 DEF RecoveryInv, BoundInv
<1> QED
  BY <1>1, <1>2, <1>6, <1>7 DEF RecoveryInv, ResultInv

LEMMA StartFlightInv ==
    ASSUME RecoveryInv, NEW c \in RecoveryCaller, StartFlight(c)
    PROVE  RecoveryInv'
<1>1. CASE Busy
  BY <1>1, AnswerInv DEF StartFlight
<1>2. CASE ~Busy
  <2> USE <1>2, RecoveryAssumption DEF StartFlight, Await, rvWork
  <2>0. /\ rv_key[c] \in RecoveryKey /\ rv_flights[rv_key[c]] = NoFlight
        /\ rv_task[c] = "none" /\ rv_outcome[c] = "none" /\ rv_waiters[c] = 0
    BY DEF Registered, RecoveryInv, RecoveryTypeInv, FlightInv
  <2>1. RecoveryTypeInv'
    <3>1. rv_waiters' = [rv_waiters EXCEPT ![c] = @ + 1]
      OBVIOUS
    <3>2. rv_waiters' \in [RecoveryCaller -> Nat]
      BY <3>1 DEF RecoveryInv, RecoveryTypeInv
    <3>3. rv_deadline' \in [RecoveryCaller -> Nat]
      BY DEF RecoveryInv, RecoveryTypeInv
    <3>4. rv_flights' \in [RecoveryKey -> RecoveryCaller \cup {NoFlight}]
      BY <2>0 DEF RecoveryInv, RecoveryTypeInv
    <3>5. rv_pc' \in [RecoveryCaller -> {"idle", "resolving", "waiting", "done"}]
      BY DEF RecoveryInv, RecoveryTypeInv
    <3>6. rv_on' \in [RecoveryCaller -> RecoveryCaller \cup {NoFlight}]
      BY DEF RecoveryInv, RecoveryTypeInv
    <3>7. rv_task' \in [RecoveryCaller -> {"none", "queued", "building", "cancelling", "ended"}]
      BY DEF RecoveryInv, RecoveryTypeInv
    <3> QED
      BY <3>2, <3>3, <3>4, <3>5, <3>6, <3>7 DEF RecoveryInv, RecoveryTypeInv
  <2>2. CountInv'
    BY AwaitCounts
  <2>3. Registered' = Registered \cup {rv_key[c]} /\ rv_key[c] \notin Registered
    BY <2>0 DEF Registered, RecoveryInv, RecoveryTypeInv
  <2>4. /\ rv_waiters'[c] = 1 /\ rv_task'[c] = "queued" /\ rv_deadline'[c] = rv_now + RecoveryTimeout
        /\ rv_flights'[rv_key[c]] = c
    BY <2>0 DEF RecoveryInv, RecoveryTypeInv
  <2>5. \A g \in RecoveryCaller : g # c => /\ rv_waiters'[g] = rv_waiters[g]
                                           /\ rv_task'[g] = rv_task[g]
                                           /\ rv_deadline'[g] = rv_deadline[g]
    BY DEF RecoveryInv, RecoveryTypeInv
  <2>6. \A k \in RecoveryKey \ {rv_key[c]} : rv_flights'[k] = rv_flights[k]
    BY DEF RecoveryInv, RecoveryTypeInv
  <2>7. \A k \in Registered : k \in RecoveryKey \ {rv_key[c]} /\ rv_flights[k] \in RecoveryCaller \ {c}
    BY <2>0, <2>3 DEF Registered, RecoveryInv, RecoveryTypeInv, FlightInv
  <2>8. \A g \in RecoveryCaller : rv_waiters[g] > 0 => rv_key[g] \in RecoveryKey \ {rv_key[c]}
    BY <2>0 DEF RecoveryInv, RecoveryTypeInv, FlightInv
  <2>9. \A g \in RecoveryCaller : rv_pc'[g] \in {"idle", "resolving"} => g # c /\ rv_pc[g] \in {"idle", "resolving"}
    BY DEF RecoveryInv, RecoveryTypeInv
  <2>10. rv_now <= rv_now + RecoveryTimeout
    BY DEF RecoveryInv, RecoveryTypeInv
  <2>11. FlightInv'
    BY <2>0, <2>3, <2>4, <2>5, <2>6, <2>7, <2>8, <2>9, <2>10 DEF RecoveryInv, FlightInv, TaskLive
  <2>12. IsFiniteSet(Registered') /\ Cardinality(Registered') <= MaxFlights
    <3>1. IsFiniteSet(Registered) /\ Cardinality(Registered) \in Nat
      BY FS_CardinalityType DEF RecoveryInv, BoundInv
    <3>2. IsFiniteSet(Registered') /\ Cardinality(Registered') = Cardinality(Registered) + 1
      BY <2>3, <3>1, FS_AddElement
    <3> QED
      BY <3>1, <3>2 DEF Busy
  <2>13. BoundInv'
    BY <2>4, <2>5, <2>12 DEF RecoveryInv, BoundInv
  <2> QED
    BY <2>1, <2>2, <2>11, <2>13 DEF RecoveryInv, ResultInv
<1> QED
  BY <1>1, <1>2

LEMMA ResumeCallerInv ==
    ASSUME RecoveryInv, NEW c \in RecoveryCaller, ResumeCaller(c)
    PROVE  RecoveryInv'
<1>1. rv_outcome[rv_on[c]] # "cancelled"
  BY Awaited DEF ResumeCaller, RecoveryInv, FlightInv
<1> QED
  BY <1>1, LeaveInv DEF ResumeCaller

LEMMA InterruptCallerInv ==
    ASSUME RecoveryInv, NEW c \in RecoveryCaller, AbandonCall(c) \/ CallDeadline(c)
    PROVE  RecoveryInv'
<1>1. PICK status \in {"abandoned", "timeout"} : InterruptCaller(c, status)
  BY DEF AbandonCall, CallDeadline
<1>2. CASE rv_pc[c] = "waiting"
  BY <1>1, <1>2, LeaveInv DEF InterruptCaller
<1>3. CASE rv_pc[c] = "resolving"
  BY <1>1, <1>3, AnswerInv DEF InterruptCaller
<1> QED
  BY <1>1, <1>2, <1>3 DEF InterruptCaller

\* A task that ends: its flight stays registered while it has waiters.
LEMMA EndTaskInv ==
    ASSUME RecoveryInv, NEW f \in RecoveryCaller, NEW outcome, EndTask(f, outcome),
           rv_task[f] \in {"building", "queued", "cancelling"},
           outcome = "cancelled" => rv_task[f] = "cancelling",
           rv_read' = rv_read \/ rv_read' = [rv_read EXCEPT ![f] = NothingRead],
           UNCHANGED <<rv_key, rv_now, rvClient>>
    PROVE  RecoveryInv'
<1> USE DEF EndTask, rvClient
<1>1. /\ rv_read' \in [RecoveryCaller -> [paths : SUBSET SourceFile, bytes : Nat]]
      /\ \A g \in RecoveryCaller : rv_read'[g] \in {rv_read[g], NothingRead}
  BY DEF RecoveryInv, RecoveryTypeInv, NothingRead
<1>2. RecoveryTypeInv'
  BY <1>1 DEF RecoveryInv, RecoveryTypeInv, ReleaseAdmission
<1>3. CountInv'
  BY CountsKept
<1>4. rv_task'[f] = "ended" /\ rv_outcome'[f] = outcome
  BY DEF RecoveryInv, RecoveryTypeInv
<1>5. \A g \in RecoveryCaller : g # f => /\ rv_task'[g] = rv_task[g]
                                         /\ rv_outcome'[g] = rv_outcome[g]
                                         /\ rv_deadline'[g] = rv_deadline[g]
  BY DEF RecoveryInv, RecoveryTypeInv
<1>6. rv_waiters[f] > 0 => outcome # "cancelled"
  BY DEF RecoveryInv, FlightInv
<1>7. rv_pc[f] \notin {"idle", "resolving"}
  BY DEF RecoveryInv, FlightInv
<1>8. FlightInv'
  BY <1>4, <1>5, <1>6, <1>7 DEF RecoveryInv, FlightInv, TaskLive, Registered
<1>9. BoundInv'
  <2>1. \A g \in RecoveryCaller : rv_task'[g] = "building" => rv_admission' = g
    BY <1>4, <1>5 DEF RecoveryInv, BoundInv, ReleaseAdmission
  <2>2. /\ IsFiniteSet(NothingRead.paths) /\ Cardinality(NothingRead.paths) <= MaxSourceFiles
        /\ NothingRead.bytes <= MaxSourceBytes
    BY FS_EmptySet, RecoveryAssumption DEF NothingRead
  <2> QED
    BY <1>1, <2>1, <2>2 DEF RecoveryInv, BoundInv, Registered
<1> QED
  BY <1>2, <1>3, <1>8, <1>9 DEF RecoveryInv, ResultInv

LEMMA EndingsInv ==
    ASSUME RecoveryInv, NEW f \in RecoveryCaller,
           FinishBuild(f) \/ CancelDelivered(f) \/ FlightDeadline(f)
    PROVE  RecoveryInv'
<1>1. CASE FinishBuild(f)
  <2>1. PICK outcome \in {"rebuilt", "blocked"} : EndTask(f, outcome)
    BY <1>1 DEF FinishBuild
  <2> QED
    BY <1>1, <2>1, EndTaskInv DEF FinishBuild, StillBuilding
<1>2. CASE CancelDelivered(f)
  BY <1>2, EndTaskInv DEF CancelDelivered, Abandon
<1>3. CASE FlightDeadline(f)
  BY <1>3, EndTaskInv DEF FlightDeadline, Abandon, TaskLive
<1> QED
  BY <1>1, <1>2, <1>3

LEMMA AdmitFlightInv ==
    ASSUME RecoveryInv, NEW f \in RecoveryCaller, AdmitFlight(f)
    PROVE  RecoveryInv'
<1> USE RecoveryAssumption DEF AdmitFlight, rvClient
<1>1. RecoveryTypeInv'
  BY DEF RecoveryInv, RecoveryTypeInv
<1>2. CountInv'
  BY CountsKept
<1>3. rv_task'[f] = "building" /\ \A g \in RecoveryCaller : g # f => rv_task'[g] = rv_task[g]
  BY DEF RecoveryInv, RecoveryTypeInv
<1>4. FlightInv'
  BY <1>3 DEF RecoveryInv, FlightInv, TaskLive, Registered
<1>5. BoundInv'
  BY <1>3 DEF RecoveryInv, BoundInv, Registered
<1> QED
  BY <1>1, <1>2, <1>4, <1>5 DEF RecoveryInv, ResultInv

\* One more path, or a read of a path again, stays within the reader's limits.
LEMMA ReadSourceInv ==
    ASSUME RecoveryInv, NEW f \in RecoveryCaller, ReadSource(f)
    PROVE  RecoveryInv'
<1> USE RecoveryAssumption DEF ReadSource, rvClient, rvFlight
<1>1. PICK p \in SourceFile :
          /\ WithinLimits(rv_read[f], p)
          /\ rv_read' = [rv_read EXCEPT ![f] = [paths |-> @.paths \cup {p},
                                                bytes |-> @.bytes + SourceBytes[p]]]
  OBVIOUS
<1> DEFINE r == rv_read[f]
           s == [paths |-> r.paths \cup {p}, bytes |-> r.bytes + SourceBytes[p]]
<1>2. r \in [paths : SUBSET SourceFile, bytes : Nat] /\ SourceBytes[p] \in Nat
  BY DEF RecoveryInv, RecoveryTypeInv
<1>3. s \in [paths : SUBSET SourceFile, bytes : Nat] /\ s.bytes <= MaxSourceBytes
  BY <1>1, <1>2 DEF WithinLimits
<1>4. IsFiniteSet(s.paths) /\ Cardinality(s.paths) <= MaxSourceFiles
  <2>1. IsFiniteSet(r.paths) /\ Cardinality(r.paths) \in Nat /\ Cardinality(r.paths) <= MaxSourceFiles
    BY FS_CardinalityType DEF RecoveryInv, BoundInv
  <2>2. /\ IsFiniteSet(r.paths \cup {p})
        /\ Cardinality(r.paths \cup {p}) = IF p \in r.paths THEN Cardinality(r.paths) ELSE Cardinality(r.paths) + 1
    BY <2>1, FS_AddElement
  <2> QED
    BY <1>1, <2>1, <2>2 DEF WithinLimits
<1>5. rv_read' = [rv_read EXCEPT ![f] = s]
  BY <1>1
<1>6. rv_read'[f] = s /\ \A g \in RecoveryCaller : g # f => rv_read'[g] = rv_read[g]
  BY <1>5 DEF RecoveryInv, RecoveryTypeInv
<1> HIDE DEF s
<1>7. RecoveryTypeInv'
  BY <1>3, <1>5 DEF RecoveryInv, RecoveryTypeInv
<1>8. CountInv'
  BY CountsKept
<1>9. FlightInv'
  BY DEF RecoveryInv, FlightInv, TaskLive, Registered
<1>10. BoundInv'
  BY <1>3, <1>4, <1>6 DEF RecoveryInv, BoundInv, Registered
<1> QED
  BY <1>7, <1>8, <1>9, <1>10 DEF RecoveryInv, ResultInv

LEMMA ThreadReturnsInv ==
    ASSUME RecoveryInv, NEW f \in RecoveryCaller, ThreadReturns(f)
    PROVE  RecoveryInv'
<1> USE RecoveryAssumption DEF ThreadReturns, rvClient, rvFlight
<1>1. NothingRead \in [paths : SUBSET SourceFile, bytes : Nat] /\ NothingRead.paths = {} /\ NothingRead.bytes = 0
  BY DEF NothingRead
<1>2. rv_read'[f] = NothingRead /\ \A g \in RecoveryCaller : g # f => rv_read'[g] = rv_read[g]
  BY DEF RecoveryInv, RecoveryTypeInv
<1>3. RecoveryTypeInv'
  BY <1>1 DEF RecoveryInv, RecoveryTypeInv
<1>4. CountInv'
  BY CountsKept
<1>5. FlightInv'
  BY DEF RecoveryInv, FlightInv, TaskLive, Registered
<1>6. BoundInv'
  <2>1. IsFiniteSet(NothingRead.paths) /\ Cardinality(NothingRead.paths) <= MaxSourceFiles
    BY <1>1, FS_EmptySet
  <2>2. NothingRead.bytes <= MaxSourceBytes
    BY <1>1
  <2>3. UNCHANGED <<Registered, rv_task, rv_admission>>
    BY DEF Registered
  <2>4. \A g \in RecoveryCaller : rv_read'[g] \in {rv_read[g], NothingRead}
    BY <1>2
  <2> QED
    BY <2>1, <2>2, <2>3, <2>4 DEF RecoveryInv, BoundInv
<1> QED
  BY <1>3, <1>4, <1>5, <1>6 DEF RecoveryInv, ResultInv

\* The clock does not pass the deadline of a task that has not been ended by it.
LEMMA RecoveryTickInv ==
    ASSUME RecoveryInv, RecoveryTick
    PROVE  RecoveryInv'
<1> USE DEF RecoveryTick, rvClient, rvFlight, rvWork
<1>1. RecoveryTypeInv'
  BY DEF RecoveryInv, RecoveryTypeInv
<1>2. CountInv'
  BY CountsKept
<1>3. \A f \in RecoveryCaller : TaskLive(f) => rv_now' <= rv_deadline'[f]
  BY DEF Timer, RecoveryInv, RecoveryTypeInv
<1>4. FlightInv'
  BY <1>3 DEF RecoveryInv, FlightInv, TaskLive, Registered
<1>5. BoundInv'
  BY DEF RecoveryInv, BoundInv, Registered
<1> QED
  BY <1>1, <1>2, <1>4, <1>5 DEF RecoveryInv, ResultInv

LEMMA RecoveryStepInv == RecoveryInv /\ [RecoveryNext]_recoveryVars => RecoveryInv'
<1> SUFFICES ASSUME RecoveryInv, [RecoveryNext]_recoveryVars PROVE RecoveryInv'
  OBVIOUS
<1>1. CASE UNCHANGED recoveryVars
  <2>1. UNCHANGED <<rv_key, rv_now, rv_pc, rv_on, rv_result, rvFlight, rv_read, rv_admission>>
    BY <1>1 DEF recoveryVars, rvClient, rvWork
  <2> QED
    BY <2>1, QuietInv DEF RecoveryInv, RecoveryTypeInv, ResultInv
<1>2. ASSUME NEW c \in RecoveryCaller, RecoveryServes(c) PROVE RecoveryInv'
  BY <1>2, ResolveAnswersInv, JoinFlightInv, StartFlightInv, ResumeCallerInv, InterruptCallerInv,
     AdmitFlightInv, ThreadReturnsInv, EndingsInv DEF RecoveryServes
<1>3. ASSUME NEW c \in RecoveryCaller, BeginResolve(c) \/ AbandonCall(c) \/ ReadSource(c) PROVE RecoveryInv'
  BY <1>3, BeginResolveInv, InterruptCallerInv, ReadSourceInv
<1>4. CASE InvalidateHandles
  BY <1>4, QuietInv DEF InvalidateHandles, rvClient, RecoveryInv, RecoveryTypeInv, ResultInv
<1> QED
  BY <1>1, <1>2, <1>3, <1>4, RecoveryTickInv DEF RecoveryNext

LEMMA RecoveryInvSound == RecoveryInv => RecoverySound
<1> SUFFICES ASSUME RecoveryInv PROVE RecoverySound
  OBVIOUS
<1>1. Cardinality({f \in RecoveryCaller : rv_task[f] = "building"}) <= 1
  <2> DEFINE building == {f \in RecoveryCaller : rv_task[f] = "building"}
  <2>1. building \in SUBSET {rv_admission}
    BY DEF RecoveryInv, BoundInv
  <2>2. IsFiniteSet({rv_admission}) /\ Cardinality({rv_admission}) = 1
    BY FS_Singleton
  <2> QED
    BY <2>1, <2>2, FS_Subset
<1>2. NotCancelledForAnother
  BY Awaited DEF NotCancelledForAnother, RecoveryInv, ResultInv, FlightInv
<1> QED
  BY <1>1, <1>2 DEF RecoverySound, RecoveryBounded, RecoveryInv, BoundInv

\* Live flights, admitted builds and what a build has read stay within the limits,
\* and no caller is cancelled because another one was.
THEOREM RecoveryIsSound == RecoverySpec => []RecoverySound
  BY RecoveryInitInv, RecoveryStepInv, RecoveryInvSound, PTL DEF RecoverySpec

\* Cancelled workers never land: only a flight somebody still waits for, within its
\* deadline, registers a handle.
THEOREM OnlyWantedFlightsLand == RecoverySpec => OnlyWantedLand
<1> DEFINE Wanted == \A k \in rv_store' \ rv_store :
                        \E f \in RecoveryCaller :
                           rv_key[f] = k /\ rv_waiters[f] > 0 /\ rv_now <= rv_deadline[f]
<1>1. RecoveryInv /\ [RecoveryNext]_recoveryVars => [Wanted]_recoveryVars
  <2> SUFFICES ASSUME RecoveryInv, RecoveryNext, NEW k \in rv_store' \ rv_store
               PROVE  \E f \in RecoveryCaller :
                         rv_key[f] = k /\ rv_waiters[f] > 0 /\ rv_now <= rv_deadline[f]
    OBVIOUS
  <2>1. PICK f \in RecoveryCaller : FinishBuild(f)
    BY DEF RecoveryNext, RecoveryServes, ResolveAnswers, JoinFlight, StartFlight, ResumeCaller,
           CallDeadline, AbandonCall, InterruptCaller, AdmitFlight, ThreadReturns, CancelDelivered,
           FlightDeadline, BeginResolve, ReadSource, InvalidateHandles, RecoveryTick, rvWork
  <2>2. rv_key[f] = k /\ TaskLive(f)
    BY <2>1 DEF FinishBuild, StillBuilding, TaskLive
  <2> QED
    BY <2>2 DEF RecoveryInv, FlightInv
<1> QED
  BY <1>1, RecoveryInitInv, RecoveryStepInv, PTL DEF RecoverySpec, OnlyWantedLand

(***************************************************************************)
(* FstRequests                                                             *)
(*                                                                         *)
(* The wave locks keep the files of two running requests apart (WaveInv),  *)
(* so a parser's lock and its readers belong to the one request that has   *)
(* the file, and that request remembers its reader (ReaderInv).  A request *)
(* that waits for a slot owns no reader: whoever owns one can go on.       *)
(***************************************************************************)

FstTypeInv ==
    /\ fs_uses \in [FstRequest -> Seq(FstFile)]
    /\ fs_pc \in [FstRequest -> {"idle", "between", "locked", "slot", "reading", "leaving", "done"}]
    /\ fs_owner \in [FstRequest -> [file : FstFile \cup {NoFile}, epoch : Nat]]
    /\ fs_wave \in [FstRequest -> SUBSET FstFile]
    /\ fs_lock \in [FstFile -> FstRequest \cup {NoFile}]
    /\ fs_free \in Nat
    /\ fs_readers \in [FstFile -> SUBSET FstRequest]
    /\ fs_epoch \in [FstFile -> Nat] /\ fs_seen \in [FstFile -> Nat] /\ fs_disk \in [FstFile -> Nat]

Under(r) == fs_pc[r] \in {"locked", "slot", "reading"}

\* What a running request visits, locks and reads is under its wave locks.
WaveInv ==
    /\ \A r \in FstRequest, q \in FstRequest : r # q => fs_wave[r] \cap fs_wave[q] = {}
    /\ \A r \in FstRequest :
          /\ fs_pc[r] \notin {"idle", "done"} => FilesOf(fs_uses[r]) \subseteq fs_wave[r]
          /\ Under(r) => fs_uses[r] # <<>>
    /\ \A p \in FstFile : fs_lock[p] # NoFile =>
          Under(fs_lock[p]) /\ File(fs_lock[p]) = p

\* A reader is its request's idle reader or the one it uses; a request that waits
\* for a slot has none.
ReaderInv ==
    \A r \in FstRequest :
       /\ Owned(r) # NoFile => fs_pc[r] \notin {"idle", "slot", "done"} /\ Owned(r) \in fs_wave[r]
       /\ fs_pc[r] = "locked" => Owned(r) \in {NoFile, File(r)}
       /\ fs_pc[r] = "reading" => Owned(r) = File(r)
       /\ \A p \in FstFile : r \in fs_readers[p] => Owned(r) = p

SlotInv == IsFiniteSet(Readers) /\ fs_free + Cardinality(Readers) = MaxWorkers

FstInv == FstTypeInv /\ WaveInv /\ ReaderInv /\ SlotInv

FstPc == {"idle", "between", "locked", "slot", "reading", "leaving", "done"}

\* The next file of a request is one of its files.
LEMMA NextFile ==
    ASSUME FstInv, NEW r \in FstRequest, fs_uses[r] # <<>>
    PROVE  /\ File(r) \in FstFile /\ File(r) \in FilesOf(fs_uses[r])
           /\ Tail(fs_uses[r]) \in Seq(FstFile)
           /\ FilesOf(Tail(fs_uses[r])) \subseteq FilesOf(fs_uses[r])
<1>1. fs_uses[r] \in Seq(FstFile)
  BY DEF FstInv, FstTypeInv
<1>2. 1 \in DOMAIN fs_uses[r] /\ fs_uses[r][1] \in FstFile
  BY <1>1
<1>3. Tail(fs_uses[r]) \in Seq(FstFile)
  BY <1>1
<1>4. \A i \in DOMAIN Tail(fs_uses[r]) :
         i + 1 \in DOMAIN fs_uses[r] /\ Tail(fs_uses[r])[i] = fs_uses[r][i + 1]
  BY <1>1
<1> QED
  BY <1>2, <1>3, <1>4 DEF File, FilesOf

\* Two requests do not hold the same file.
LEMMA OneRequestPerFile ==
    ASSUME FstInv, NEW r \in FstRequest, NEW q \in FstRequest, NEW p \in FstFile,
           p \in fs_wave[r], p \in fs_wave[q]
    PROVE  r = q
  BY DEF FstInv, WaveInv

\* The lock of a file that a request may visit is free or its own, and its own only
\* while it is under it.
LEMMA OwnLock ==
    ASSUME FstInv, NEW r \in FstRequest, NEW p \in FstFile, p \in fs_wave[r]
    PROVE  fs_lock[p] = NoFile \/ (fs_lock[p] = r /\ Under(r) /\ File(r) = p)
<1> SUFFICES ASSUME fs_lock[p] # NoFile PROVE fs_lock[p] = r /\ Under(r) /\ File(r) = p
  OBVIOUS
<1>1. PICK q \in FstRequest : q = fs_lock[p] /\ Under(q) /\ File(q) = p
  BY DEF FstInv, FstTypeInv, WaveInv
<1>2. fs_uses[q] # <<>> /\ fs_pc[q] \notin {"idle", "done"}
  BY <1>1 DEF FstInv, WaveInv, Under
<1>3. p \in fs_wave[q]
  BY <1>1, <1>2, NextFile DEF FstInv, WaveInv
<1> QED
  BY <1>1, <1>3, OneRequestPerFile

LEMMA FstInitInv == FstInit([FstRequest -> Seq(FstFile)]) => FstInv
<1> SUFFICES ASSUME FstInit([FstRequest -> Seq(FstFile)]) PROVE FstInv
  OBVIOUS
<1> USE FstAssumption DEF FstInit
<1>1. FstTypeInv
  BY DEF FstTypeInv, NoReader
<1>2. WaveInv
  BY DEF WaveInv, Under
<1>3. ReaderInv
  BY DEF ReaderInv, Owned, NoReader
<1>4. Readers = {}
  BY DEF Readers
<1>5. SlotInv
  BY <1>4, FS_EmptySet DEF SlotInv
<1> QED
  BY <1>1, <1>2, <1>3, <1>5 DEF FstInv

\* A running request goes on with the files it had, and takes, keeps or releases
\* the lock of its next file.
LEMMA WaveKept ==
    ASSUME FstInv, NEW r \in FstRequest, NEW stage \in FstPc, NEW uses \in Seq(FstFile),
           fs_pc[r] \notin {"idle", "done"},
           FilesOf(uses) \subseteq FilesOf(fs_uses[r]),
           stage \in {"locked", "slot", "reading"} => uses # <<>>,
           fs_pc' = [fs_pc EXCEPT ![r] = stage],
           fs_uses' = [fs_uses EXCEPT ![r] = uses], fs_wave' = fs_wave,
           \/ /\ fs_lock' = fs_lock
              /\ Under(r) => stage \in {"locked", "slot", "reading"} /\ uses = fs_uses[r]
           \/ /\ Under(r)
              /\ fs_lock' = [fs_lock EXCEPT ![File(r)] = NoFile]
           \/ /\ fs_lock' = [fs_lock EXCEPT ![File(r)] = r]
              /\ stage = "locked" /\ uses = fs_uses[r] /\ ~Under(r)
    PROVE  WaveInv'
<1>1. fs_pc'[r] = stage /\ fs_uses'[r] = uses
  BY DEF FstInv, FstTypeInv
<1>2. \A q \in FstRequest : q # r => fs_pc'[q] = fs_pc[q] /\ fs_uses'[q] = fs_uses[q]
  BY DEF FstInv, FstTypeInv
<1>3. \A q \in FstRequest : /\ fs_pc'[q] \notin {"idle", "done"} => FilesOf(fs_uses'[q]) \subseteq fs_wave'[q]
                            /\ Under(q)' => fs_uses'[q] # <<>>
  BY <1>1, <1>2 DEF FstInv, WaveInv, Under
<1>4. ASSUME NEW p \in FstFile, fs_lock'[p] # NoFile
      PROVE  Under(fs_lock[p])' /\ File(fs_lock[p])' = p
  <2>1. CASE fs_lock'[p] = fs_lock[p]
    <3>1. PICK q \in FstRequest : q = fs_lock[p] /\ Under(q) /\ File(q) = p
      BY <1>4, <2>1 DEF FstInv, WaveInv, FstTypeInv
    <3>2. CASE q = r
      BY <1>1, <2>1, <1>4, <3>1, <3>2 DEF Under, File, FstInv, FstTypeInv
    <3>3. CASE q # r
      BY <1>2, <2>1, <3>1, <3>3 DEF Under, File
    <3> QED
      BY <3>2, <3>3
  <2>2. CASE fs_lock'[p] # fs_lock[p]
    <3>1. p = File(r) /\ fs_lock'[p] = r /\ stage = "locked" /\ uses = fs_uses[r]
      BY <1>4, <2>2 DEF FstInv, FstTypeInv
    <3> QED
      BY <1>1, <3>1 DEF Under, File
  <2> QED
    BY <2>1, <2>2
<1> QED
  BY <1>3, <1>4 DEF FstInv, WaveInv

\* Closing the request's own reader returns its slot, if it has one.
LEMMA DropOwn ==
    ASSUME FstInv, NEW r \in FstRequest, NEW p \in FstFile, Owned(r) = p, Drop(r, p)
    PROVE  /\ SlotInv' /\ fs_free' \in Nat
           /\ fs_readers' \in [FstFile -> SUBSET FstRequest]
           /\ fs_owner' \in [FstRequest -> [file : FstFile \cup {NoFile}, epoch : Nat]]
           /\ fs_owner'[r].file = NoFile
           /\ \A q \in FstRequest : q # r => fs_owner'[q] = fs_owner[q]
           /\ \A q \in FstRequest, f \in FstFile : q \in fs_readers'[f] => q # r /\ q \in fs_readers[f]
<1> USE DEF Drop
<1>1. /\ fs_readers' \in [FstFile -> SUBSET FstRequest]
      /\ fs_owner' \in [FstRequest -> [file : FstFile \cup {NoFile}, epoch : Nat]]
      /\ fs_owner'[r].file = NoFile
      /\ \A q \in FstRequest : q # r => fs_owner'[q] = fs_owner[q]
  BY DEF FstInv, FstTypeInv, NoReader
<1>2. \A f \in FstFile : f # p => r \notin fs_readers[f] /\ fs_readers'[f] = fs_readers[f]
  BY DEF FstInv, ReaderInv, FstTypeInv
<1>3. fs_readers'[p] = fs_readers[p] \ {r}
  BY DEF FstInv, FstTypeInv
<1>4. Readers' = Readers \ {<<r, p>>}
  BY <1>2, <1>3 DEF Readers
<1>5. <<r, p>> \in Readers <=> r \in fs_readers[p]
  BY DEF Readers
<1>6. /\ IsFiniteSet(Readers) /\ Cardinality(Readers) \in Nat
      /\ fs_free \in Nat /\ fs_free + Cardinality(Readers) = MaxWorkers
  BY FS_CardinalityType DEF FstInv, SlotInv, FstTypeInv
<1>7. /\ IsFiniteSet(Readers')
      /\ Cardinality(Readers') = IF r \in fs_readers[p] THEN Cardinality(Readers) - 1 ELSE Cardinality(Readers)
  BY <1>4, <1>5, <1>6, FS_RemoveElement
<1>8. SlotInv' /\ fs_free' \in Nat
  BY <1>6, <1>7 DEF SlotInv
<1> QED
  BY <1>1, <1>2, <1>3, <1>8

\* Slots and readers that a step leaves alone.
LEMMA SlotsKept ==
    ASSUME FstInv, UNCHANGED <<fs_free, fs_readers>>
    PROVE  SlotInv'
  BY DEF FstInv, SlotInv, Readers

LEMMA BeginFstInv ==
    ASSUME FstInv, NEW r \in FstRequest, BeginFst(r)
    PROVE  FstInv'
<1> USE DEF BeginFst, MayBegin, FsGo, fsParser
<1>1. FilesOf(fs_uses[r]) \in SUBSET FstFile
  BY DEF FstInv, FstTypeInv, FilesOf
<1>2. FstTypeInv'
  BY <1>1 DEF FstInv, FstTypeInv, FilesOf
<1>3. /\ fs_wave'[r] = FilesOf(fs_uses[r]) /\ fs_pc'[r] = "between"
      /\ \A q \in FstRequest : q # r => /\ fs_wave'[q] = fs_wave[q] /\ fs_pc'[q] = fs_pc[q]
                                        /\ fs_wave[q] \cap FilesOf(fs_uses[r]) = {}
  BY DEF FstInv, FstTypeInv, FilesOf, WaveFree
<1>4. \A p \in FstFile : fs_lock[p] # r
  BY FstAssumption DEF FstInv, WaveInv, Under, FstTypeInv
<1>5. WaveInv'
  <2>1. \A q \in FstRequest, t \in FstRequest : q # t => fs_wave'[q] \cap fs_wave'[t] = {}
    BY <1>3 DEF FstInv, WaveInv
  <2>2. \A q \in FstRequest : /\ fs_pc'[q] \notin {"idle", "done"} => FilesOf(fs_uses'[q]) \subseteq fs_wave'[q]
                              /\ Under(q)' => fs_uses'[q] # <<>>
    BY <1>3 DEF FstInv, WaveInv, Under
  <2>3. \A p \in FstFile : fs_lock'[p] # NoFile => (Under(fs_lock[p]) /\ File(fs_lock[p]) = p)'
    BY <1>3, <1>4 DEF FstInv, WaveInv, Under, File, FstTypeInv
  <2> QED
    BY <2>1, <2>2, <2>3 DEF WaveInv
<1>6. ReaderInv'
  BY <1>3 DEF FstInv, ReaderInv, Owned, File
<1> QED
  BY <1>2, <1>5, <1>6, SlotsKept DEF FstInv

LEMMA RefreshParserInv ==
    ASSUME FstInv, NEW r \in FstRequest, RefreshParser(r)
    PROVE  FstInv'
<1> USE FstAssumption DEF RefreshParser, Visiting
<1>0. PICK f \in FstFile : f = File(r) /\ f \in fs_wave[r]
  BY NextFile DEF FstInv, WaveInv
<1>1. \A q \in FstRequest : q \in fs_readers[f] => q = r
  BY <1>0, OneRequestPerFile DEF FstInv, ReaderInv
<1>2. /\ fs_readers' \in [FstFile -> SUBSET FstRequest]
      /\ fs_readers'[f] = {} /\ \A p \in FstFile : p # f => fs_readers'[p] = fs_readers[p]
  BY <1>0 DEF FstInv, FstTypeInv
<1>3. /\ fs_owner' \in [FstRequest -> [file : FstFile \cup {NoFile}, epoch : Nat]]
      /\ fs_owner'[r] = IF Owned(r) = f THEN NoReader ELSE fs_owner[r]
      /\ \A q \in FstRequest : q # r => fs_owner'[q] = fs_owner[q]
  BY <1>0 DEF FstInv, FstTypeInv, NoReader, Owned
<1>4. SlotInv' /\ fs_free' \in Nat
  <2>1. /\ IsFiniteSet(Readers) /\ Cardinality(Readers) \in Nat
        /\ fs_free \in Nat /\ fs_free + Cardinality(Readers) = MaxWorkers
    BY FS_CardinalityType DEF FstInv, SlotInv, FstTypeInv
  <2>2. Readers' = Readers \ {<<r, f>>}
    <3>1. \A h \in FstRequest \X FstFile :
             h = <<r, f>> \/ h[2] # f \/ h[1] \notin fs_readers[f]
      BY <1>1
    <3>2. \A h \in FstRequest \X FstFile :
             h[1] \in fs_readers'[h[2]] <=> h[1] \in fs_readers[h[2]] /\ h # <<r, f>>
      BY <1>2, <3>1
    <3> QED
      BY <3>2 DEF Readers
  <2>3. CASE r \in fs_readers[f]
    <3>1. fs_readers[f] = {r}
      BY <1>1, <2>3 DEF FstInv, FstTypeInv
    <3>2. fs_free' = fs_free + 1
      BY <1>0, <3>1, FS_Singleton
    <3>3. <<r, f>> \in Readers
      BY <2>3 DEF Readers
    <3> QED
      <4>1. IsFiniteSet(Readers') /\ Cardinality(Readers') = Cardinality(Readers) - 1
        BY <2>1, <2>2, <3>3, FS_RemoveElement
      <4> QED
        BY <2>1, <3>2, <4>1 DEF SlotInv
  <2>4. CASE r \notin fs_readers[f]
    <3>1. fs_readers[f] = {}
      BY <1>1, <2>4 DEF FstInv, FstTypeInv
    <3>2. fs_free' = fs_free
      BY <1>0, <2>1, <3>1, FS_EmptySet
    <3>3. Readers' = Readers
      BY <2>2, <2>4 DEF Readers
    <3> QED
      BY <2>1, <3>2, <3>3 DEF SlotInv
  <2> QED
    BY <2>3, <2>4
<1>5. FstTypeInv'
  <2>1. fs_epoch' \in [FstFile -> Nat] /\ fs_seen' \in [FstFile -> Nat]
    BY <1>0 DEF FstInv, FstTypeInv
  <2> QED
    BY <1>2, <1>3, <1>4, <2>1 DEF FstInv, FstTypeInv
<1>6. WaveInv'
  BY DEF FstInv, WaveInv, Under, File
<1>7. ReaderInv'
  <2>1. \A q \in FstRequest : fs_owner'[q] \in {fs_owner[q], NoReader} /\ (fs_pc[q] # "between" => fs_owner'[q] = fs_owner[q])
    BY <1>3
  <2>2. \A q \in FstRequest, p \in FstFile : q \in fs_readers'[p] => p # f /\ q \in fs_readers[p]
    BY <1>2
  <2>3. \A q \in FstRequest, p \in FstFile : q \in fs_readers'[p] => fs_owner'[q] = fs_owner[q]
    BY <1>3, <2>2 DEF FstInv, ReaderInv
  <2> QED
    BY <2>1, <2>2, <2>3, SMTT(30) DEF FstInv, ReaderInv, Owned, File, NoReader
<1> QED
  BY <1>4, <1>5, <1>6, <1>7 DEF FstInv

LEMMA EvictIdleInv ==
    ASSUME FstInv, NEW r \in FstRequest, EvictIdle(r)
    PROVE  FstInv'
<1> USE FstAssumption DEF EvictIdle, MayEvict, Visiting
<1>0. PICK p \in FstFile : p = Owned(r) /\ Drop(r, p)
  BY DEF MustEvict, Owned, FstInv, FstTypeInv
<1>1. FstTypeInv'
  BY <1>0, DropOwn DEF FstInv, FstTypeInv
<1>2. WaveInv'
  BY DEF FstInv, WaveInv, Under, File
<1>3. ReaderInv'
  BY <1>0, DropOwn DEF FstInv, ReaderInv, Owned, File
<1> QED
  BY <1>0, <1>1, <1>2, <1>3, DropOwn DEF FstInv

LEMMA LockParserInv ==
    ASSUME FstInv, NEW r \in FstRequest, LockParser(r)
    PROVE  FstInv'
<1> USE FstAssumption DEF LockParser, MayLock, Visiting, FsGo
<1>0. File(r) \in FstFile /\ fs_uses[r] \in Seq(FstFile)
  BY NextFile DEF FstInv, FstTypeInv
<1>1. FstTypeInv'
  BY <1>0 DEF FstInv, FstTypeInv
<1>2. fs_uses' = [fs_uses EXCEPT ![r] = fs_uses[r]]
  BY DEF FstInv, FstTypeInv
<1>3. WaveInv'
  BY <1>0, <1>2, WaveKept DEF FstPc, Under
<1>4. fs_pc'[r] = "locked" /\ \A q \in FstRequest : q # r => fs_pc'[q] = fs_pc[q]
  BY DEF FstInv, FstTypeInv
<1>5. ReaderInv'
  BY <1>4 DEF FstInv, ReaderInv, Owned, File, MustEvict
<1> QED
  BY <1>1, <1>3, <1>5, SlotsKept DEF FstInv

\* A request that raises while it is under the parser's lock.
LEMMA RaiseInv ==
    ASSUME FstInv, NEW r \in FstRequest, Raise(r), Under(r), UNCHANGED fs_wave
    PROVE  /\ WaveInv' /\ fs_pc'[r] = "leaving" /\ fs_uses' \in [FstRequest -> Seq(FstFile)]
           /\ fs_pc' \in [FstRequest -> FstPc]
           /\ fs_lock' \in [FstFile -> FstRequest \cup {NoFile}]
           /\ \A q \in FstRequest : q # r => fs_pc'[q] = fs_pc[q] /\ fs_uses'[q] = fs_uses[q]
<1> USE DEF Raise, FsGo
<1>1. <<>> \in Seq(FstFile) /\ FilesOf(<<>>) = {}
  BY DEF FilesOf
<1>2. fs_uses' \in [FstRequest -> Seq(FstFile)]
  BY <1>1 DEF FstInv, FstTypeInv
<1>3. /\ fs_pc' \in [FstRequest -> FstPc] /\ fs_pc'[r] = "leaving"
      /\ \A q \in FstRequest : q # r => fs_pc'[q] = fs_pc[q] /\ fs_uses'[q] = fs_uses[q]
  BY DEF FstInv, FstTypeInv, FstPc
<1>4. fs_lock' \in [FstFile -> FstRequest \cup {NoFile}]
  BY DEF FstInv, FstTypeInv
<1>5. WaveInv'
  BY <1>1, WaveKept DEF FstPc, Under
<1> QED
  BY <1>2, <1>3, <1>4, <1>5

LEMMA OpenSessionInv ==
    ASSUME FstInv, NEW r \in FstRequest, OpenSession(r)
    PROVE  FstInv'
<1> USE FstAssumption DEF OpenSession
<1>0. PICK p \in FstFile : p = File(r) /\ fs_uses[r] # <<>> /\ fs_uses[r] \in Seq(FstFile)
  BY NextFile DEF FstInv, WaveInv, Under, FstTypeInv
<1>1. fs_seen' \in [FstFile -> Nat]
  BY <1>0 DEF FstInv, FstTypeInv
<1>2. CASE Raise(r)
  <2>1. FstTypeInv'
    BY <1>1, <1>2, RaiseInv DEF FstInv, FstTypeInv, FstPc, Under
  <2>2. ReaderInv'
    BY <1>2, RaiseInv DEF FstInv, ReaderInv, Owned, File, Under
  <2> QED
    BY <1>2, <2>1, <2>2, RaiseInv, SlotsKept DEF FstInv, Under
<1>3. CASE \E stage \in {"slot", "reading"} :
              /\ FsGo(r, stage) /\ UNCHANGED <<fs_uses, fs_lock>>
              /\ stage = "slot" => Owned(r) = NoFile
              /\ stage = "reading" => Owned(r) = File(r)
  <2>1. PICK stage \in {"slot", "reading"} :
              /\ FsGo(r, stage) /\ UNCHANGED <<fs_uses, fs_lock>>
              /\ stage = "slot" => Owned(r) = NoFile
              /\ stage = "reading" => Owned(r) = File(r)
    BY <1>3
  <2>2. FstTypeInv'
    BY <1>1, <2>1 DEF FstInv, FstTypeInv, FsGo
  <2>3. fs_uses' = [fs_uses EXCEPT ![r] = fs_uses[r]]
    BY <2>1 DEF FstInv, FstTypeInv
  <2>4. WaveInv'
    BY <1>0, <2>1, <2>3, WaveKept DEF FstPc, Under, FsGo
  <2>5. fs_pc'[r] = stage /\ \A q \in FstRequest : q # r => fs_pc'[q] = fs_pc[q]
    BY <2>1 DEF FstInv, FstTypeInv, FsGo
  <2>6. ReaderInv'
    BY <2>1, <2>5 DEF FstInv, ReaderInv, Owned, File
  <2> QED
    BY <2>2, <2>4, <2>6, SlotsKept DEF FstInv
<1>4. fs_pc[r] = "locked" /\ Owned(r) \in {NoFile, File(r)}
  BY DEF FstInv, ReaderInv
<1> QED
  BY <1>2, <1>3, <1>4

LEMMA StartReaderInv ==
    ASSUME FstInv, NEW r \in FstRequest, StartReader(r)
    PROVE  FstInv'
<1> USE FstAssumption DEF StartReader, MayStart
<1>0. PICK p \in FstFile : /\ p = File(r) /\ p \in fs_wave[r]
                           /\ fs_uses[r] # <<>> /\ fs_uses[r] \in Seq(FstFile)
  BY NextFile DEF FstInv, WaveInv, Under, FstTypeInv
<1>1. CASE fs_seen[File(r)] = fs_disk[File(r)]
  <2>0. /\ fs_free' = fs_free - 1
        /\ fs_readers' = [fs_readers EXCEPT ![p] = @ \cup {r}]
        /\ fs_owner' = [fs_owner EXCEPT ![r] = [file |-> p, epoch |-> fs_epoch[p]]]
        /\ fs_pc' = [fs_pc EXCEPT ![r] = "reading"]
        /\ UNCHANGED <<fs_uses, fs_lock>>
    BY <1>0, <1>1 DEF FsGo
  <2>1. /\ fs_owner' \in [FstRequest -> [file : FstFile \cup {NoFile}, epoch : Nat]]
        /\ fs_owner'[r].file = p
        /\ \A q \in FstRequest : q # r => fs_owner'[q] = fs_owner[q]
    BY <2>0 DEF FstInv, FstTypeInv
  <2>2. /\ fs_readers' \in [FstFile -> SUBSET FstRequest]
        /\ fs_readers'[p] = fs_readers[p] \cup {r}
        /\ \A f \in FstFile : f # p => fs_readers'[f] = fs_readers[f]
    BY <2>0 DEF FstInv, FstTypeInv
  <2>3. fs_pc'[r] = "reading" /\ \A q \in FstRequest : q # r => fs_pc'[q] = fs_pc[q]
    BY <2>0 DEF FstInv, FstTypeInv
  <2>4. \A f \in FstFile : r \notin fs_readers[f]
    BY DEF FstInv, ReaderInv
  <2>5. SlotInv' /\ fs_free' \in Nat
    <3>1. /\ IsFiniteSet(Readers) /\ Cardinality(Readers) \in Nat
          /\ fs_free \in Nat /\ fs_free + Cardinality(Readers) = MaxWorkers
      BY FS_CardinalityType DEF FstInv, SlotInv, FstTypeInv
    <3>2. Readers' = Readers \cup {<<r, p>>} /\ <<r, p>> \notin Readers
      BY <2>2, <2>4 DEF Readers
    <3>3. IsFiniteSet(Readers') /\ Cardinality(Readers') = Cardinality(Readers) + 1
      BY <3>1, <3>2, FS_AddElement
    <3> QED
      BY <2>0, <3>1, <3>3 DEF SlotInv
  <2>6. FstTypeInv'
    BY <2>0, <2>1, <2>2, <2>5 DEF FstInv, FstTypeInv
  <2>7. fs_uses' = [fs_uses EXCEPT ![r] = fs_uses[r]]
    BY <2>0 DEF FstInv, FstTypeInv
  <2>8. WaveInv'
    BY <1>0, <2>0, <2>7, WaveKept DEF FstPc, Under
  <2>9. ReaderInv'
    <3>1. ASSUME NEW q \in FstRequest, q # r
          PROVE  /\ Owned(q)' # NoFile => fs_pc'[q] \notin {"idle", "slot", "done"} /\ Owned(q)' \in fs_wave'[q]
                 /\ fs_pc'[q] = "locked" => Owned(q)' \in {NoFile, File(q)'}
                 /\ fs_pc'[q] = "reading" => Owned(q)' = File(q)'
                 /\ \A f \in FstFile : q \in fs_readers'[f] => Owned(q)' = f
      BY <3>1, <2>0, <2>1, <2>2, <2>3 DEF FstInv, ReaderInv, Owned, File
    <3>2. /\ Owned(r)' = p /\ fs_pc'[r] = "reading" /\ p \in fs_wave'[r] /\ File(r)' = p
          /\ \A f \in FstFile : r \in fs_readers'[f] => f = p
      BY <1>0, <2>0, <2>1, <2>2, <2>3, <2>4 DEF Owned, File
    <3> QED
      BY <3>1, <3>2 DEF ReaderInv
  <2> QED
    BY <2>5, <2>6, <2>8, <2>9 DEF FstInv
<1>2. CASE fs_seen[File(r)] # fs_disk[File(r)]
  <2>0. Raise(r) /\ UNCHANGED <<fs_free, fs_readers, fs_owner>>
    BY <1>2
  <2>1. FstTypeInv'
    BY <2>0, RaiseInv DEF FstInv, FstTypeInv, FstPc, Under
  <2>2. ReaderInv'
    BY <2>0, RaiseInv DEF FstInv, ReaderInv, Owned, File, Under
  <2> QED
    BY <2>0, <2>1, <2>2, RaiseInv, SlotsKept DEF FstInv, Under
<1> QED
  BY <1>1, <1>2

LEMMA GiveUpFstInv ==
    ASSUME FstInv, NEW r \in FstRequest, GiveUpFst(r)
    PROVE  FstInv'
<1> USE FstAssumption DEF GiveUpFst, Visiting
<1>1. CASE fs_pc[r] = "slot" /\ Raise(r)
  <2>1. FstTypeInv'
    BY <1>1, RaiseInv DEF FstInv, FstTypeInv, FstPc, Under
  <2>2. ReaderInv'
    BY <1>1, RaiseInv DEF FstInv, ReaderInv, Owned, File, Under
  <2> QED
    BY <1>1, <2>1, <2>2, RaiseInv, SlotsKept DEF FstInv, Under
<1>2. CASE /\ fs_pc[r] = "between" /\ fs_uses' = [fs_uses EXCEPT ![r] = <<>>]
           /\ FsGo(r, "leaving") /\ UNCHANGED fs_lock
  <2>1. <<>> \in Seq(FstFile) /\ FilesOf(<<>>) = {}
    BY DEF FilesOf
  <2>2. fs_uses' \in [FstRequest -> Seq(FstFile)]
    BY <1>2, <2>1 DEF FstInv, FstTypeInv
  <2>3. FstTypeInv'
    BY <1>2, <2>2 DEF FstInv, FstTypeInv, FsGo
  <2>4. WaveInv'
    BY <1>2, <2>1, WaveKept DEF FstPc, Under, FsGo
  <2>5. /\ fs_pc'[r] = "leaving"
        /\ \A q \in FstRequest : q # r => fs_pc'[q] = fs_pc[q] /\ fs_uses'[q] = fs_uses[q]
    BY <1>2 DEF FstInv, FstTypeInv, FsGo
  <2>6. ReaderInv'
    BY <1>2, <2>5 DEF FstInv, ReaderInv, Owned, File
  <2> QED
    BY <2>3, <2>4, <2>6, SlotsKept DEF FstInv
<1> QED
  BY <1>1, <1>2

LEMMA EndUseInv ==
    ASSUME FstInv, NEW r \in FstRequest, EndUse(r)
    PROVE  FstInv'
<1> USE FstAssumption DEF EndUse
<1>0. PICK p \in FstFile : /\ p = File(r) /\ p = Owned(r) /\ p \in fs_wave[r]
                           /\ fs_uses[r] # <<>> /\ fs_uses[r] \in Seq(FstFile)
  BY NextFile DEF FstInv, WaveInv, Under, FstTypeInv, ReaderInv
<1> DEFINE Kept == Drop(r, p) \/ UNCHANGED <<fs_free, fs_readers, fs_owner>>
<1>1. ASSUME Kept
      PROVE  /\ SlotInv' /\ fs_free' \in Nat
             /\ fs_readers' \in [FstFile -> SUBSET FstRequest]
             /\ fs_owner' \in [FstRequest -> [file : FstFile \cup {NoFile}, epoch : Nat]]
             /\ fs_owner'[r].file \in {NoFile, p}
             /\ \A q \in FstRequest : q # r => fs_owner'[q] = fs_owner[q]
             /\ \A q \in FstRequest, f \in FstFile : q \in fs_readers'[f] =>
                   q \in fs_readers[f] /\ fs_owner'[q] = fs_owner[q]
  <2>1. CASE Drop(r, p)
    BY <1>0, <2>1, DropOwn
  <2>2. CASE UNCHANGED <<fs_free, fs_readers, fs_owner>>
    BY <1>0, <2>2, SlotsKept DEF FstInv, FstTypeInv, Owned
  <2> QED
    BY <1>1, <2>1, <2>2
<1>2. CASE /\ fs_lock' = [fs_lock EXCEPT ![File(r)] = NoFile]
           /\ fs_uses' = [fs_uses EXCEPT ![r] = Tail(@)]
           /\ FsGo(r, "between") /\ Kept
  <2>1. Tail(fs_uses[r]) \in Seq(FstFile) /\ FilesOf(Tail(fs_uses[r])) \subseteq FilesOf(fs_uses[r])
    BY <1>0, NextFile
  <2>2. fs_uses' \in [FstRequest -> Seq(FstFile)]
    BY <1>2, <2>1 DEF FstInv, FstTypeInv
  <2>3. /\ fs_lock' \in [FstFile -> FstRequest \cup {NoFile}]
        /\ fs_pc' \in [FstRequest -> FstPc] /\ fs_pc'[r] = "between"
        /\ \A q \in FstRequest : q # r => fs_pc'[q] = fs_pc[q] /\ fs_uses'[q] = fs_uses[q]
    BY <1>2 DEF FstInv, FstTypeInv, FsGo, FstPc
  <2>4. FstTypeInv'
    BY <1>1, <1>2, <2>2, <2>3 DEF FstInv, FstTypeInv, FstPc
  <2>5. WaveInv'
    BY <1>2, <2>1, WaveKept DEF FstPc, Under, FsGo
  <2>6. ReaderInv'
    BY <1>0, <1>1, <1>2, <2>3 DEF FstInv, ReaderInv, Owned, File
  <2> QED
    BY <1>1, <1>2, <2>4, <2>5, <2>6 DEF FstInv
<1>3. CASE Raise(r) /\ Drop(r, File(r))
  <2>1. Kept
    BY <1>0, <1>3
  <2>2. FstTypeInv'
    BY <1>1, <1>3, <2>1, RaiseInv DEF FstInv, FstTypeInv, FstPc, Under
  <2>3. ReaderInv'
    <3>1. /\ fs_pc'[r] = "leaving"
          /\ \A q \in FstRequest : q # r => fs_pc'[q] = fs_pc[q] /\ fs_uses'[q] = fs_uses[q]
      BY <1>3, RaiseInv DEF Under
    <3> QED
      BY <1>0, <1>1, <2>1, <3>1 DEF FstInv, ReaderInv, Owned, File
  <2> QED
    BY <1>1, <1>3, <2>1, <2>2, <2>3, RaiseInv DEF FstInv, Under
<1> QED
  BY <1>0, <1>2, <1>3

LEMMA LeaveFstInv ==
    ASSUME FstInv, NEW r \in FstRequest, LeaveFst(r)
    PROVE  FstInv'
<1> USE FstAssumption DEF LeaveFst, MayLeave, Through, FsGo
<1>1. /\ SlotInv' /\ fs_free' \in Nat
      /\ fs_readers' \in [FstFile -> SUBSET FstRequest]
      /\ fs_owner' \in [FstRequest -> [file : FstFile \cup {NoFile}, epoch : Nat]]
      /\ fs_owner'[r].file = NoFile
      /\ \A q \in FstRequest : q # r => fs_owner'[q] = fs_owner[q]
      /\ \A q \in FstRequest, f \in FstFile : q \in fs_readers'[f] => q # r /\ q \in fs_readers[f]
  <2>1. CASE Owned(r) = NoFile
    <3>1. \A f \in FstFile : r \notin fs_readers[f]
      BY <2>1 DEF FstInv, ReaderInv
    <3> QED
      BY <2>1, <3>1, SlotsKept DEF CloseOwner, FstInv, FstTypeInv, Owned
  <2>2. CASE Owned(r) # NoFile
    <3>1. Owned(r) \in FstFile /\ Drop(r, Owned(r))
      BY <2>2 DEF CloseOwner, FstInv, FstTypeInv, Owned
    <3> QED
      BY <3>1, DropOwn
  <2> QED
    BY <2>1, <2>2
<1>2. FstTypeInv'
  BY <1>1 DEF FstInv, FstTypeInv
<1>3. /\ fs_pc'[r] = "done" /\ fs_wave'[r] = {}
      /\ \A q \in FstRequest : q # r => fs_pc'[q] = fs_pc[q] /\ fs_wave'[q] = fs_wave[q]
  BY DEF FstInv, FstTypeInv
<1>4. \A p \in FstFile : fs_lock[p] # r
  BY DEF FstInv, WaveInv, Under
<1>5. WaveInv'
  <2>1. \A q \in FstRequest, t \in FstRequest : q # t => fs_wave'[q] \cap fs_wave'[t] = {}
    BY <1>3 DEF FstInv, WaveInv
  <2>2. \A q \in FstRequest : /\ fs_pc'[q] \notin {"idle", "done"} => FilesOf(fs_uses'[q]) \subseteq fs_wave'[q]
                              /\ Under(q)' => fs_uses'[q] # <<>>
    BY <1>3 DEF FstInv, WaveInv, Under
  <2>3. \A p \in FstFile : fs_lock'[p] # NoFile => (Under(fs_lock[p]) /\ File(fs_lock[p]) = p)'
    BY <1>3, <1>4 DEF FstInv, WaveInv, Under, File, FstTypeInv
  <2> QED
    BY <2>1, <2>2, <2>3 DEF WaveInv
<1>6. ReaderInv'
  BY <1>1, <1>3 DEF FstInv, ReaderInv, Owned, File
<1> QED
  BY <1>1, <1>2, <1>5, <1>6 DEF FstInv

LEMMA FstStepInv == FstInv /\ [FstNext]_fstVars => FstInv'
<1> SUFFICES ASSUME FstInv, [FstNext]_fstVars PROVE FstInv'
  OBVIOUS
<1>1. CASE UNCHANGED <<fs_uses, fs_pc, fs_owner, fs_wave, fs_free, fsParser>> /\ fs_disk' \in [FstFile -> Nat]
  BY <1>1, SlotsKept DEF fsParser, FstInv, FstTypeInv, WaveInv, ReaderInv, Under, File, Owned
<1>2. CASE UNCHANGED fstVars
  BY <1>1, <1>2 DEF fstVars, FstInv, FstTypeInv
<1>3. ASSUME NEW p \in FstFile, ReplaceFile(p) PROVE FstInv'
  BY <1>1, <1>3 DEF ReplaceFile, FstInv, FstTypeInv
<1>4. ASSUME NEW r \in FstRequest, FstServes(r) \/ RefreshParser(r) \/ GiveUpFst(r) PROVE FstInv'
  BY <1>4, BeginFstInv, EvictIdleInv, LockParserInv, OpenSessionInv, StartReaderInv, EndUseInv,
     LeaveFstInv, RefreshParserInv, GiveUpFstInv DEF FstServes
<1> QED
  BY <1>2, <1>3, <1>4 DEF FstNext

\* A request that does not wait for a slot can go on.
LEMMA OnlySlotsAreWaitedFor ==
    ASSUME FstInv, NEW r \in FstRequest, fs_pc[r] \notin {"idle", "slot", "done"}
    PROVE  CanServe(r)
<1> USE FstAssumption
<1>1. CASE fs_pc[r] \in {"locked", "reading"}
  BY <1>1 DEF CanServe
<1>2. CASE fs_pc[r] \in {"between", "leaving"}
  <2>1. Owned(r) # NoFile => Owned(r) \in FstFile /\ fs_lock[Owned(r)] = NoFile
    BY <1>2, OwnLock DEF FstInv, ReaderInv, FstTypeInv, Owned, Under
  <2>2. fs_uses[r] # <<>> => File(r) \in FstFile /\ fs_lock[File(r)] = NoFile
    BY <1>2, NextFile, OwnLock DEF FstInv, WaveInv, Under
  <2> QED
    BY <1>2, <2>1, <2>2 DEF CanServe, MayEvict, MayLock, MayLeave, Visiting, Through, MustEvict
<1> QED
  BY <1>1, <1>2 DEF FstInv, FstTypeInv

\* When the slots are gone, the requests that have them can go on.
LEMMA SlotsComeBack == FstInv => FstNotStuck
<1> SUFFICES ASSUME FstInv, NEW r \in FstRequest, fs_pc[r] \notin {"idle", "done"}
             PROVE  \E q \in FstRequest : CanServe(q)
  BY DEF FstNotStuck
<1>1. CASE fs_pc[r] # "slot"
  BY <1>1, OnlySlotsAreWaitedFor
<1>2. CASE fs_pc[r] = "slot" /\ fs_free > 0
  BY <1>2 DEF CanServe, MayStart
<1>3. CASE fs_pc[r] = "slot" /\ ~(fs_free > 0)
  <2>1. Readers # {}
    <3>1. fs_free = 0
      BY <1>3 DEF FstInv, FstTypeInv
    <3>2. Cardinality(Readers) # 0
      BY <3>1, FstAssumption DEF FstInv, SlotInv
    <3> QED
      BY <3>2, FS_EmptySet
  <2>2. PICK q \in FstRequest, p \in FstFile : q \in fs_readers[p]
    BY <2>1 DEF Readers
  <2>3. fs_pc[q] \notin {"idle", "slot", "done"}
    BY <2>2, FstAssumption DEF FstInv, ReaderInv
  <2> QED
    BY <2>3, OnlySlotsAreWaitedFor
<1> QED
  BY <1>1, <1>2, <1>3

\* Every slot is free or belongs to the reader of an unfinished request, and there is
\* always a request whose next step waits for nobody: no deadline is needed to get
\* out of a wait for slots and parsers.
THEOREM FstSlotsNeverStick == FstSpec => []FstSound
<1>1. FstInv => FstSlotsKept
  <2> SUFFICES ASSUME FstInv PROVE FstSlotsKept
    OBVIOUS
  <2>1. \A h \in Readers : h[1] \in FstRequest /\ h[2] \in FstFile /\ h[1] \in fs_readers[h[2]]
    BY DEF Readers
  <2>2. \A h \in Readers : fs_pc[h[1]] \notin {"idle", "done"}
    BY <2>1, FstAssumption DEF FstInv, ReaderInv
  <2> QED
    BY <2>2 DEF FstSlotsKept, FstInv, SlotInv
<1> QED
  BY <1>1, FstInitInv, FstStepInv, SlotsComeBack, PTL DEF FstSpec, FstSound
==================================================================================
