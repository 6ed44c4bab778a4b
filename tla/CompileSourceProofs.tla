-------------------------- MODULE CompileSourceProofs --------------------------
(***************************************************************************)
(* Theorems about the source index and how it is shared, for every finite  *)
(* set of calls and every set of keys, files and readers.                  *)
(*                                                                         *)
(* CompileSourceRuntime: the safety properties follow from the inductive   *)
(* invariant IInv: the two counters count what they claim to, a flight     *)
(* stays registered exactly while somebody waits for it, and an open index *)
(* is always reachable from _flights or _sessions.                         *)
(*                                                                         *)
(* CompileSourceIndex, at the end: the byte count is the number of bytes   *)
(* the entries hold, and an entry stays what its first reader got until    *)
(* the index is closed.                                                    *)
(***************************************************************************)
EXTENDS CompileSourceRuntime, CompileSourceIndex, FiniteSetTheorems, TLAPS

\* The counters are the sizes of the sets they stand for.
Counted ==
    /\ \A f \in Request : waiter_count[f] = Cardinality(Waiting(f))
    /\ \A k \in Key : session[k] # None =>
                          holder_count[k] = Cardinality(Holding(k))

\* Whoever waits, waits for the flight registered under its key.
WaiterRegistered ==
    \A r \in Request : pc[r] = "waiting" =>
        /\ joined[r] \in Request
        /\ key[joined[r]] = key[r]
        /\ flights[key[r]] = joined[r]

\* A registered flight has a waiter, a task and no cancellation.
FlightLive ==
    \A k \in Key : flights[k] # None =>
        /\ key[flights[k]] = k
        /\ \E r \in Request : pc[r] = "waiting" /\ joined[r] = flights[k]
        /\ task[flights[k]] # "none"
        /\ task[flights[k]] = "done" => index[flights[k]] = "open"
        /\ flights[k] \notin cancel_event

\* A session is open and finished, and survives without holders only for the
\* waiters of the flight that built it.
SessionLive ==
    \A k \in Key : session[k] # None =>
        /\ key[session[k]] = k
        /\ task[session[k]] = "done"
        /\ index[session[k]] = "open"
        /\ session[k] \notin cancel_event
        /\ flights[k] \in {None, session[k]}
        /\ flights[k] = None => \E r \in Request : pc[r] = "holding" /\ key[r] = k

\* Every held lease is on the current session of its key.
LeaseOfSession ==
    \A r \in Request : pc[r] = "holding" =>
        /\ session[key[r]] # None
        /\ lease[r] = session[key[r]]

\* An open index that passed its orphan check is in one of the two tables.
IndexOwned ==
    \A i \in Request :
        /\ index[i] = "open" => task[i] \in {"built", "done"}
        /\ index[i] = "open" /\ task[i] = "done" =>
               session[key[i]] = i \/ flights[key[i]] = i
        /\ content[i] = "cancel_fallback" => i \in cancel_event
        /\ task[i] = "built" => index[i] = "open"

\* A call that has not started names no flight.
Unstarted ==
    \A r \in Request :
        /\ pc[r] = "idle" => task[r] = "none"
        /\ task[r] = "none" => r \notin cancel_event

IInv ==
    /\ TypeOK
    /\ Counted
    /\ WaiterRegistered
    /\ FlightLive
    /\ SessionLive
    /\ LeaseOfSession
    /\ IndexOwned
    /\ Unstarted

\* The sets behind the counters are finite, so the counters compare to zero
\* as their sets compare to the empty set.
LEMMA Sizes ==
    ASSUME NEW S \in SUBSET Request
    PROVE  /\ IsFiniteSet(S)
           /\ Cardinality(S) \in Nat
           /\ Cardinality(S) = 0 <=> S = {}
           /\ \A x : x \notin S => Cardinality(S \cup {x}) = Cardinality(S) + 1
           /\ \A x : x \in S => Cardinality(S \ {x}) = Cardinality(S) - 1
  <1>1. IsFiniteSet(S)
    BY FiniteAssumption, FS_Subset
  <1>2. QED
    BY <1>1, FS_CardinalityType, FS_EmptySet, FS_AddElement, FS_RemoveElement

\* The invariant holds when the runtime has just been created.
LEMMA InitIInv == Init => IInv
  <1> SUFFICES ASSUME Init PROVE IInv
    OBVIOUS
  <1>1. TypeOK
    BY DEF Init, TypeOK, PcState, TaskState, ContentState
  <1>2. \A f : Waiting(f) = {}
    BY DEF Init, Waiting
  <1>3. Counted
    BY <1>2, FS_EmptySet DEF Init, Counted
  <1>4. QED
    BY <1>1, <1>3 DEF Init, IInv, WaiterRegistered, FlightLive, SessionLive,
       LeaseOfSession, IndexOwned, Unstarted

\* acquire() on an active session.
LEMMA AcquireHitStep ==
    ASSUME IInv, NEW r \in Request, AcquireHit(r)
    PROVE  IInv'
  <1> USE DEF IInv
  <1>1. TypeOK'
    BY DEF AcquireHit, TypeOK, PcState, taskVars
  <1>2. \A f \in Request : Waiting(f)' = Waiting(f)
    BY DEF AcquireHit, TypeOK, Waiting
  <1>3. \A k \in Key : Holding(k)' = IF k = key[r] THEN Holding(k) \cup {r}
                                                   ELSE Holding(k)
    BY DEF AcquireHit, TypeOK, Holding
  <1>4. r \notin Holding(key[r]) /\ \A k : Holding(k) \in SUBSET Request
    BY DEF AcquireHit, Holding
  <1>5. Counted'
    <2>1. Cardinality(Holding(key[r]) \cup {r}) = Cardinality(Holding(key[r])) + 1
      BY <1>4, Sizes
    <2>2. QED
      BY <1>2, <1>3, <2>1 DEF AcquireHit, Counted, TypeOK
  <1>6. WaiterRegistered' /\ LeaseOfSession'
    BY DEF AcquireHit, TypeOK, WaiterRegistered, LeaseOfSession
  <1>7. FlightLive' /\ SessionLive'
    BY DEF AcquireHit, TypeOK, FlightLive, SessionLive, taskVars
  <1>8. IndexOwned' /\ Unstarted'
    BY DEF AcquireHit, TypeOK, IndexOwned, Unstarted, taskVars
  <1>9. QED
    BY <1>1, <1>5, <1>6, <1>7, <1>8

\* acquire() on a live flight.
LEMMA AcquireJoinStep ==
    ASSUME IInv, NEW r \in Request, AcquireJoin(r)
    PROVE  IInv'
  <1> USE DEF IInv
  <1>1. TypeOK'
    BY DEF AcquireJoin, NoSession, TypeOK, PcState, taskVars
  <1>2. \A f \in Request : Waiting(f)' = IF f = flights[key[r]]
                                         THEN Waiting(f) \cup {r}
                                         ELSE Waiting(f)
    BY DEF AcquireJoin, NoSession, TypeOK, Waiting
  <1>3. \A k \in Key : Holding(k)' = Holding(k)
    BY DEF AcquireJoin, NoSession, TypeOK, Holding
  <1>4. \A f : r \notin Waiting(f) /\ Waiting(f) \in SUBSET Request
    BY DEF AcquireJoin, NoSession, Waiting
  <1>5. Counted'
    BY <1>2, <1>3, <1>4, Sizes DEF AcquireJoin, NoSession, Counted, TypeOK
  <1>6. WaiterRegistered' /\ LeaseOfSession'
    BY DEF AcquireJoin, NoSession, TypeOK, WaiterRegistered, LeaseOfSession, FlightLive
  <1>7. FlightLive' /\ SessionLive'
    BY DEF AcquireJoin, NoSession, TypeOK, FlightLive, SessionLive, taskVars
  <1>8. IndexOwned' /\ Unstarted'
    BY DEF AcquireJoin, NoSession, TypeOK, IndexOwned, Unstarted, taskVars
  <1>9. QED
    BY <1>1, <1>5, <1>6, <1>7, <1>8

\* acquire() that starts a flight of its own.
LEMMA AcquireCreateStep ==
    ASSUME IInv, NEW r \in Request, AcquireCreate(r)
    PROVE  IInv'
  <1> USE DEF IInv
  <1>1. TypeOK'
    BY DEF AcquireCreate, NoSession, TypeOK, PcState, TaskState
  <1>2. Waiting(r) = {}
    BY NoneAssumption
       DEF AcquireCreate, NoSession, TypeOK, Waiting, WaiterRegistered, FlightLive, Unstarted
  <1>3. \A f \in Request : Waiting(f)' = IF f = r THEN {r} ELSE Waiting(f)
    BY <1>2 DEF AcquireCreate, NoSession, TypeOK, Waiting
  <1>4. \A k \in Key : Holding(k)' = Holding(k)
    BY DEF AcquireCreate, NoSession, TypeOK, Holding
  <1>5. Cardinality({r}) = 1
    BY FS_Singleton
  <1>6. Counted'
    BY <1>3, <1>4, <1>5 DEF AcquireCreate, NoSession, Counted, TypeOK
  <1>7. WaiterRegistered' /\ LeaseOfSession'
    BY NoneAssumption
       DEF AcquireCreate, NoSession, TypeOK, WaiterRegistered, LeaseOfSession
  <1>8. FlightLive'
    BY NoneAssumption DEF AcquireCreate, NoSession, TypeOK, FlightLive, Unstarted
  <1>9. SessionLive'
    BY NoneAssumption DEF AcquireCreate, NoSession, TypeOK, SessionLive, Unstarted
  <1>10. IndexOwned' /\ Unstarted'
    BY NoneAssumption DEF AcquireCreate, NoSession, TypeOK, IndexOwned, Unstarted
  <1>11. QED
    BY <1>1, <1>6, <1>7, <1>8, <1>9, <1>10

\* acquire(create_if_missing=False) that finds nothing.
LEMMA AcquireMissStep ==
    ASSUME IInv, NEW r \in Request, AcquireMiss(r)
    PROVE  IInv'
  <1> USE DEF IInv, AcquireMiss, NoSession, regVars, taskVars
  <1>1. TypeOK'
    BY DEF TypeOK, PcState
  <1>2. /\ \A f \in Request : Waiting(f)' = Waiting(f)
        /\ \A k \in Key : Holding(k)' = Holding(k)
    BY DEF TypeOK, Waiting, Holding
  <1>3. Counted'
    BY <1>2 DEF Counted
  <1>4. WaiterRegistered' /\ LeaseOfSession' /\ FlightLive' /\ SessionLive'
    BY DEF TypeOK, WaiterRegistered, LeaseOfSession, FlightLive, SessionLive
  <1>5. IndexOwned' /\ Unstarted'
    BY DEF TypeOK, IndexOwned, Unstarted
  <1>6. QED
    BY <1>1, <1>3, <1>4, <1>5

\* A step of the flight's task leaves the counters and the tables alone.
LEMMA TaskStep ==
    ASSUME IInv, UNCHANGED <<key, reqVars, regVars>>
    PROVE  Counted' /\ WaiterRegistered' /\ LeaseOfSession'
  <1> USE DEF IInv, reqVars, regVars
  <1>1. /\ \A f \in Request : Waiting(f)' = Waiting(f)
        /\ \A k \in Key : Holding(k)' = Holding(k)
    BY DEF Waiting, Holding
  <1>2. Counted'
    BY <1>1 DEF Counted
  <1>3. QED
    BY <1>2 DEF WaiterRegistered, LeaseOfSession

\* The thread returns an index.
LEMMA BuildStep ==
    ASSUME IInv, NEW f \in Request, Build(f)
    PROVE  IInv'
  <1>1. Counted' /\ WaiterRegistered' /\ LeaseOfSession'
    BY TaskStep DEF Build
  <1> USE DEF IInv, Build, reqVars, regVars
  <1>2. TypeOK'
    BY DEF TypeOK, TaskState, ContentState
  <1>3. FlightLive' /\ SessionLive'
    BY DEF TypeOK, FlightLive, SessionLive
  <1>4. IndexOwned' /\ Unstarted'
    BY DEF TypeOK, IndexOwned, Unstarted
  <1>5. QED
    BY <1>1, <1>2, <1>3, <1>4

\* The thread raises.
LEMMA BuildFailsStep ==
    ASSUME IInv, NEW f \in Request, BuildFails(f)
    PROVE  IInv'
  <1>1. Counted' /\ WaiterRegistered' /\ LeaseOfSession'
    BY TaskStep DEF BuildFails
  <1> USE DEF IInv, BuildFails, reqVars, regVars
  <1>2. TypeOK'
    BY DEF TypeOK, TaskState
  <1>3. FlightLive' /\ SessionLive'
    BY DEF TypeOK, FlightLive, SessionLive
  <1>4. IndexOwned' /\ Unstarted'
    BY DEF TypeOK, IndexOwned, Unstarted
  <1>5. QED
    BY <1>1, <1>2, <1>3, <1>4

\* The task runs its orphan check.
LEMMA FinishFlightStep ==
    ASSUME IInv, NEW f \in Request, FinishFlight(f)
    PROVE  IInv'
  <1>1. Counted' /\ WaiterRegistered' /\ LeaseOfSession'
    BY TaskStep DEF FinishFlight, Orphaned
  <1> USE DEF IInv, FinishFlight, Orphaned, reqVars, regVars
  <1>2. TypeOK'
    BY DEF TypeOK, TaskState
  <1>3. FlightLive' /\ SessionLive'
    BY DEF TypeOK, FlightLive, SessionLive, IndexOwned
  <1>4. IndexOwned' /\ Unstarted'
    BY DEF TypeOK, IndexOwned, Unstarted
  <1>5. QED
    BY <1>1, <1>2, <1>3, <1>4

\* However a waiter leaves, its flight's counter stays exact and the flight
\* is unregistered exactly when nobody waits for it any more.
LEMMA LeaveFlight ==
    ASSUME IInv, NEW r \in Request, NEW p \in PcState, p # "waiting",
           pc[r] = "waiting",
           pc' = [pc EXCEPT ![r] = p],
           waiter_count' = [waiter_count EXCEPT ![joined[r]] = Decrement(@)],
           Unregister(joined[r]),
           UNCHANGED <<key, joined>>
    PROVE  /\ joined[r] \in Request /\ key[r] \in Key
           /\ key[joined[r]] = key[r] /\ flights[key[r]] = joined[r]
           /\ waiter_count' \in [Request -> Nat]
           /\ \A f \in Request : waiter_count'[f] = Cardinality(Waiting(f)')
           /\ waiter_count'[joined[r]] = 0 <=>
                 \A s \in Request : ~(pc'[s] = "waiting" /\ joined'[s] = joined[r])
           /\ flights' = IF waiter_count'[joined[r]] = 0
                         THEN [flights EXCEPT ![key[r]] = None]
                         ELSE flights
           /\ WaiterRegistered'
  <1> DEFINE f == joined[r]
  <1> USE DEF IInv
  <1>1. f \in Request /\ key[r] \in Key /\ key[f] = key[r] /\ flights[key[r]] = f
    BY DEF WaiterRegistered, TypeOK
  <1>2. r \in Waiting(f) /\ \A g : Waiting(g) \in SUBSET Request
    BY DEF Waiting
  <1>3. \A g \in Request : Waiting(g)' = IF g = f THEN Waiting(g) \ {r} ELSE Waiting(g)
    BY <1>1 DEF TypeOK, Waiting
  <1>4. /\ waiter_count[f] = Cardinality(Waiting(f))
        /\ Cardinality(Waiting(f) \ {r}) = Cardinality(Waiting(f)) - 1
        /\ Cardinality(Waiting(f) \ {r}) \in Nat
        /\ Cardinality(Waiting(f) \ {r}) = 0 <=> Waiting(f) \ {r} = {}
    BY <1>1, <1>2, Sizes, Waiting(f) \ {r} \in SUBSET Request DEF Counted
  <1>5. /\ waiter_count'[f] = Cardinality(Waiting(f) \ {r})
        /\ waiter_count' \in [Request -> Nat]
    BY <1>1, <1>4 DEF Decrement, TypeOK
  <1>6. \A g \in Request : waiter_count'[g] = Cardinality(Waiting(g)')
    BY <1>1, <1>3, <1>5 DEF Counted, TypeOK
  <1>7. waiter_count'[f] = 0 <=>
            \A s \in Request : ~(pc'[s] = "waiting" /\ joined'[s] = f)
    BY <1>4, <1>5 DEF Waiting, TypeOK
  <1>8. flights' = IF waiter_count'[f] = 0
                   THEN [flights EXCEPT ![key[r]] = None] ELSE flights
    BY <1>1 DEF Unregister
  <1>9. WaiterRegistered'
    BY <1>1, <1>7, <1>8 DEF WaiterRegistered, TypeOK
  <1>10. QED
    BY <1>1, <1>5, <1>6, <1>7, <1>8, <1>9

\* A waiter gets its index: it joins the session, or creates it.
LEMMA ResumeWaiterStep ==
    ASSUME IInv, NEW r \in Request, ResumeWaiter(r)
    PROVE  IInv'
  <1> DEFINE f == joined[r]
             k == key[r]
  <1>1. /\ f \in Request /\ k \in Key
        /\ key[f] = k /\ flights[k] = f
        /\ waiter_count' \in [Request -> Nat]
        /\ \A g \in Request : waiter_count'[g] = Cardinality(Waiting(g)')
        /\ waiter_count'[f] = 0 <=>
              \A s \in Request : ~(pc'[s] = "waiting" /\ joined'[s] = f)
        /\ flights' = IF waiter_count'[f] = 0
                      THEN [flights EXCEPT ![k] = None] ELSE flights
        /\ WaiterRegistered'
    BY LeaveFlight DEF ResumeWaiter, Answered, PcState
  <1> USE DEF IInv
  <1>2. /\ session[k] \in {None, f}
        /\ session' = [session EXCEPT ![k] = f]
        /\ pc' = [pc EXCEPT ![r] = "holding"]
        /\ lease' = [lease EXCEPT ![r] = f]
        /\ pc[r] = "waiting" /\ task[f] = "done"
        /\ holder_count' = [holder_count EXCEPT
                               ![k] = IF session[k] = None THEN 1 ELSE @ + 1]
        /\ UNCHANGED <<key, joined, cancel_event, task, content, index>>
    <2>1. session[k] \in {None, f}
      BY <1>1, NoneAssumption DEF SessionLive
    <2>2. session[k] = f => session = [session EXCEPT ![k] = f]
      BY <1>1 DEF TypeOK
    <2>3. QED
      BY <2>1, <2>2 DEF ResumeWaiter, Answered, taskVars
  <1>3. TypeOK'
    BY <1>1, <1>2 DEF TypeOK, PcState
  <1>4. \A j \in Key : Holding(j)' = IF j = k THEN Holding(j) \cup {r}
                                              ELSE Holding(j)
    BY <1>1, <1>2 DEF TypeOK, Holding
  <1>5. /\ session[k] = None => Holding(k) = {}
        /\ r \notin Holding(k)
        /\ Holding(k) \in SUBSET Request
    BY <1>1, <1>2 DEF Holding, LeaseOfSession
  <1>6. holder_count'[k] = Cardinality(Holding(k) \cup {r})
    <2>1. Cardinality(Holding(k) \cup {r}) = Cardinality(Holding(k)) + 1
      BY <1>5, Sizes
    <2>2. session[k] = None => Cardinality(Holding(k)) = 0
      BY <1>5, FS_EmptySet
    <2>3. QED
      BY <1>1, <1>2, <2>1, <2>2 DEF Counted, TypeOK
  <1>7. Counted'
    BY <1>1, <1>2, <1>4, <1>6 DEF Counted, TypeOK
  <1>8. LeaseOfSession'
    BY <1>1, <1>2, NoneAssumption DEF TypeOK, LeaseOfSession
  <1>9. FlightLive' /\ SessionLive'
    BY <1>1, <1>2, NoneAssumption, SMTT(30) DEF TypeOK, FlightLive, SessionLive
  <1>10. IndexOwned'
    <2>1. \A i \in Request : session[key[i]] = i \/ flights[key[i]] = i =>
              session'[key[i]] = i \/ flights'[key[i]] = i
      BY <1>1, <1>2, NoneAssumption DEF TypeOK
    <2>2. QED
      BY <1>2, <2>1 DEF IndexOwned
  <1>11. Unstarted'
    BY <1>2 DEF TypeOK, Unstarted
  <1>12. QED
    BY <1>1, <1>3, <1>7, <1>8, <1>9, <1>10, <1>11

\* A waiter fails with the shared task.
LEMMA FailWaiterStep ==
    ASSUME IInv, NEW r \in Request, FailWaiter(r)
    PROVE  IInv'
  <1> DEFINE f == joined[r]
             k == key[r]
  <1>1. /\ f \in Request /\ k \in Key
        /\ key[f] = k /\ flights[k] = f
        /\ waiter_count' \in [Request -> Nat]
        /\ \A g \in Request : waiter_count'[g] = Cardinality(Waiting(g)')
        /\ waiter_count'[f] = 0 <=>
              \A s \in Request : ~(pc'[s] = "waiting" /\ joined'[s] = f)
        /\ flights' = IF waiter_count'[f] = 0
                      THEN [flights EXCEPT ![k] = None] ELSE flights
        /\ WaiterRegistered'
    BY LeaveFlight DEF FailWaiter, PcState
  <1> USE DEF IInv, taskVars
  <1>2. /\ session[k] = None
        /\ pc' = [pc EXCEPT ![r] = "failed"]
        /\ pc[r] = "waiting" /\ task[f] = "failed"
        /\ UNCHANGED <<key, joined, lease, session, holder_count, cancel_event,
                       task, content, index>>
    BY <1>1, NoneAssumption DEF FailWaiter, SessionLive, TypeOK
  <1>3. TypeOK'
    BY <1>1, <1>2 DEF TypeOK, PcState
  <1>4. \A j \in Key : Holding(j)' = Holding(j)
    BY <1>2 DEF TypeOK, Holding
  <1>5. Counted'
    BY <1>1, <1>2, <1>4 DEF Counted, TypeOK
  <1>6. LeaseOfSession' /\ FlightLive' /\ SessionLive'
    BY <1>1, <1>2, SMTT(30) DEF TypeOK, LeaseOfSession, FlightLive, SessionLive
  <1>7. IndexOwned' /\ Unstarted'
    BY <1>1, <1>2 DEF TypeOK, IndexOwned, Unstarted
  <1>8. QED
    BY <1>1, <1>3, <1>5, <1>6, <1>7

\* A waiter is cancelled: the last one cancels the build, closes the finished
\* index, or closes the session that nobody holds.
LEMMA CancelWaiterStep ==
    ASSUME IInv, NEW r \in Request, CancelWaiter(r)
    PROVE  IInv'
  <1> DEFINE f == joined[r]
             k == key[r]
  <1>1. /\ f \in Request /\ k \in Key
        /\ key[f] = k /\ flights[k] = f
        /\ waiter_count' \in [Request -> Nat]
        /\ \A g \in Request : waiter_count'[g] = Cardinality(Waiting(g)')
        /\ waiter_count'[f] = 0 <=>
              \A s \in Request : ~(pc'[s] = "waiting" /\ joined'[s] = f)
        /\ flights' = IF waiter_count'[f] = 0
                      THEN [flights EXCEPT ![k] = None] ELSE flights
        /\ WaiterRegistered'
    BY LeaveFlight DEF CancelWaiter, PcState
  <1> USE DEF IInv
  <1>2. /\ pc' = [pc EXCEPT ![r] = "cancelled"]
        /\ pc[r] = "waiting"
        /\ UNCHANGED <<key, joined, lease, holder_count, task, content>>
    BY DEF CancelWaiter, taskVars
  <1>3. \A j \in Key : Holding(j)' = Holding(j)
    BY <1>2 DEF TypeOK, Holding
  <1>4. CASE waiter_count'[f] = 0 /\ session[k] = None
    <2>1. /\ cancel_event' = cancel_event \cup {f}
          /\ index' = IF task[f] = "done"
                      THEN [index EXCEPT ![f] = "closed"] ELSE index
          /\ session' = session
      BY <1>4 DEF CancelWaiter
    <2>2. TypeOK'
      BY <1>1, <1>2, <2>1 DEF TypeOK, PcState
    <2>3. Counted' /\ LeaseOfSession'
      BY <1>1, <1>2, <1>3, <2>1 DEF Counted, LeaseOfSession, TypeOK
    <2>4. FlightLive' /\ SessionLive'
      BY <1>1, <1>2, <1>4, <2>1 DEF TypeOK, FlightLive, SessionLive
    <2>5. IndexOwned' /\ Unstarted'
      BY <1>1, <1>2, <1>4, <2>1, NoneAssumption
         DEF TypeOK, IndexOwned, Unstarted, FlightLive
    <2>6. QED
      BY <1>1, <2>2, <2>3, <2>4, <2>5
  <1>5. CASE waiter_count'[f] = 0 /\ session[k] # None /\ holder_count[k] = 0
    <2>1. /\ session[k] = f
          /\ session' = [session EXCEPT ![k] = None]
          /\ index' = [index EXCEPT ![f] = "closed"]
          /\ cancel_event' = cancel_event
      BY <1>1, <1>5, NoneAssumption DEF CancelWaiter, SessionLive, TypeOK
    <2>2. Holding(k) = {}
      BY <1>1, <1>5, Sizes, Holding(k) \in SUBSET Request DEF Counted, Holding
    <2>3. TypeOK'
      BY <1>1, <1>2, <2>1 DEF TypeOK, PcState
    <2>4. Counted'
      BY <1>1, <1>2, <1>3, <2>1 DEF Counted, TypeOK
    <2>5. LeaseOfSession'
      BY <1>1, <1>2, <2>1, <2>2 DEF LeaseOfSession, TypeOK, Holding
    <2>6. FlightLive' /\ SessionLive'
      BY <1>1, <1>2, <1>5, <2>1 DEF TypeOK, FlightLive, SessionLive
    <2>7. IndexOwned' /\ Unstarted'
      BY <1>1, <1>2, <1>5, <2>1 DEF TypeOK, IndexOwned, Unstarted, SessionLive
    <2>8. QED
      BY <1>1, <2>3, <2>4, <2>5, <2>6, <2>7
  <1>6. CASE waiter_count'[f] # 0 \/ (session[k] # None /\ holder_count[k] # 0)
    <2>1. UNCHANGED <<session, index, cancel_event>>
      BY <1>6 DEF CancelWaiter
    <2>2. TypeOK'
      BY <1>1, <1>2, <2>1 DEF TypeOK, PcState
    <2>3. Counted' /\ LeaseOfSession'
      BY <1>1, <1>2, <1>3, <2>1 DEF Counted, LeaseOfSession, TypeOK
    <2>4. waiter_count'[f] = 0 => Holding(k) # {}
      BY <1>1, <1>6, FS_EmptySet DEF Counted
    <2>5. FlightLive'
      BY <1>1, <1>2, <2>1 DEF TypeOK, FlightLive
    <2>6. SessionLive'
      BY <1>1, <1>2, <2>1, <2>4 DEF TypeOK, SessionLive, Holding
    <2>7. IndexOwned'
      BY <1>1, <1>2, <1>6, <2>1, NoneAssumption
         DEF TypeOK, IndexOwned, SessionLive
    <2>8. Unstarted'
      BY <1>1, <1>2, <2>1 DEF TypeOK, Unstarted
    <2>9. QED
      BY <1>1, <2>2, <2>3, <2>5, <2>6, <2>7, <2>8
  <1>7. QED
    BY <1>4, <1>5, <1>6

\* A lease is released: the last one closes the index unless waiters of the
\* flight are still to pick it up.
LEMMA ReleaseStep ==
    ASSUME IInv, NEW r \in Request, Release(r)
    PROVE  IInv'
  <1> DEFINE k == key[r]
             i == session[k]
             waited == flights[k] # None /\ waiter_count[flights[k]] # 0
  <1> USE DEF IInv
  <1>1. /\ k \in Key /\ i \in Request /\ i # None /\ lease[r] = i /\ key[i] = k
        /\ task[i] = "done" /\ index[i] = "open"
        /\ pc[r] = "holding" /\ pc' = [pc EXCEPT ![r] = "released"]
        /\ UNCHANGED <<key, joined, lease, flights, waiter_count, cancel_event,
                       task, content>>
    BY DEF Release, NotReleased, taskVars, TypeOK, LeaseOfSession, SessionLive
  <1>2. \A j \in Key : Holding(j)' = IF j = k THEN Holding(j) \ {r} ELSE Holding(j)
    BY <1>1 DEF TypeOK, Holding
  <1>3. \A f \in Request : Waiting(f)' = Waiting(f)
    BY <1>1 DEF TypeOK, Waiting
  <1>4. r \in Holding(k) /\ Holding(k) \in SUBSET Request
    BY <1>1 DEF Holding
  <1>5. /\ Cardinality(Holding(k) \ {r}) = holder_count[k] - 1
        /\ Cardinality(Holding(k) \ {r}) \in Nat
        /\ Cardinality(Holding(k) \ {r}) = 0 <=> Holding(k) \ {r} = {}
    BY <1>1, <1>4, Sizes, Holding(k) \ {r} \in SUBSET Request DEF Counted
  <1>6. waited <=> flights[k] # None
    <2>1. flights[k] # None => Waiting(flights[k]) # {} /\ flights[k] \in Request
      BY <1>1 DEF FlightLive, Waiting, TypeOK
    <2>2. \A f \in Request : Waiting(f) # {} => waiter_count[f] # 0
      BY Sizes, \A f : Waiting(f) \in SUBSET Request DEF Counted, Waiting
    <2>3. QED
      BY <2>1, <2>2
  <1>7. holder_count' = [holder_count EXCEPT ![k] = Cardinality(Holding(k) \ {r})]
    <2>1. holder_count' = [holder_count EXCEPT ![k] = Decrement(holder_count[k])]
      BY <1>1 DEF Release, NotReleased
    <2>2. Decrement(holder_count[k]) = Cardinality(Holding(k) \ {r})
      BY <1>1, <1>5 DEF Decrement, TypeOK
    <2>3. QED
      BY <2>1, <2>2
  <1>8. WaiterRegistered'
    BY <1>1 DEF TypeOK, WaiterRegistered
  <1>9. CASE Holding(k) \ {r} = {} /\ ~waited
    <2>1. /\ session' = [session EXCEPT ![k] = None]
          /\ index' = [index EXCEPT ![i] = "closed"]
      BY <1>1, <1>5, <1>9 DEF Release, NotReleased, Decrement, TypeOK
    <2>2. TypeOK'
      BY <1>1, <1>5, <1>7, <2>1 DEF TypeOK, PcState
    <2>3. Counted'
      BY <1>1, <1>2, <1>3, <1>7, <2>1 DEF Counted, TypeOK
    <2>4. LeaseOfSession'
      BY <1>1, <1>9, <2>1 DEF LeaseOfSession, TypeOK, Holding
    <2>5. FlightLive' /\ SessionLive'
      BY <1>1, <1>6, <1>9, <2>1, NoneAssumption
         DEF TypeOK, FlightLive, SessionLive
    <2>6. IndexOwned' /\ Unstarted'
      BY <1>1, <2>1 DEF TypeOK, IndexOwned, Unstarted
    <2>7. QED
      BY <1>8, <2>2, <2>3, <2>4, <2>5, <2>6
  <1>10. CASE Holding(k) \ {r} # {} \/ waited
    <2>1. session' = session /\ index' = index
      BY <1>1, <1>5, <1>10 DEF Release, NotReleased, Decrement, TypeOK
    <2>2. TypeOK'
      BY <1>1, <1>5, <1>7, <2>1 DEF TypeOK, PcState
    <2>3. Counted'
      BY <1>1, <1>2, <1>3, <1>7, <2>1 DEF Counted, TypeOK
    <2>4. LeaseOfSession' /\ FlightLive'
      BY <1>1, <2>1 DEF LeaseOfSession, FlightLive, TypeOK
    <2>5. SessionLive'
      BY <1>1, <1>6, <1>10, <2>1 DEF SessionLive, TypeOK, Holding
    <2>6. IndexOwned' /\ Unstarted'
      BY <1>1, <2>1 DEF TypeOK, IndexOwned, Unstarted
    <2>7. QED
      BY <1>8, <2>2, <2>3, <2>4, <2>5, <2>6
  <1>11. QED
    BY <1>9, <1>10

\* IInv is inductive: every step between two awaits preserves it.
LEMMA NextIInv == IInv /\ [Next]_vars => IInv'
  <1> SUFFICES ASSUME IInv, [Next]_vars PROVE IInv'
    OBVIOUS
  <1>1. CASE Next
    <2>1. PICK r \in Request :
             \/ AcquireHit(r) \/ AcquireJoin(r) \/ AcquireCreate(r) \/ AcquireMiss(r)
             \/ Build(r) \/ BuildFails(r) \/ FinishFlight(r)
             \/ ResumeWaiter(r) \/ CancelWaiter(r) \/ FailWaiter(r)
             \/ Release(r)
      BY <1>1 DEF Next
    <2>2. QED
      BY <2>1, AcquireHitStep, AcquireJoinStep, AcquireCreateStep, AcquireMissStep,
         BuildStep, BuildFailsStep, FinishFlightStep, ResumeWaiterStep,
         CancelWaiterStep, FailWaiterStep, ReleaseStep
  <1>2. CASE UNCHANGED vars
    <2>1. UNCHANGED <<key, reqVars, regVars, taskVars, index>>
      BY <1>2 DEF vars
    <2>2. Counted' /\ WaiterRegistered' /\ LeaseOfSession'
      BY <2>1, TaskStep
    <2>3. QED
      BY <2>1, <2>2 DEF IInv, TypeOK, FlightLive, SessionLive, IndexOwned,
         Unstarted, reqVars, regVars, taskVars
  <1>3. QED
    BY <1>1, <1>2

\* The inductive invariant holds in every reachable state of the runtime.
THEOREM Invariance == Spec => []IInv
  <1>1. QED
    BY InitIInv, NextIInv, PTL DEF Spec

\* Every variable of the runtime keeps its type.
THEOREM TypeCorrect == Spec => []TypeOK
  <1>1. IInv => TypeOK
    BY DEF IInv
  <1>2. QED
    BY <1>1, Invariance, PTL

\* release(), _cancel_waiter() and the orphan check never close an index on
\* which somebody holds a lease.
THEOREM LeasesStayOpen == Spec => []NoUseAfterClose
  <1>1. IInv => NoUseAfterClose
    BY DEF IInv, TypeOK, LeaseOfSession, SessionLive, NoUseAfterClose
  <1>2. QED
    BY <1>1, Invariance, PTL

\* An index that nobody holds, awaits or is about to check has been closed.
THEOREM NoTextLeaks == Spec => []NoRetainedText
  <1>1. ASSUME IInv PROVE NoRetainedText
    <2> SUFFICES ASSUME NEW i \in Request, index[i] = "open", task[i] # "built"
                 PROVE  \/ Waiting(i) # {}
                        \/ \E r \in Request : pc[r] = "holding" /\ lease[r] = i
      BY DEF NoRetainedText
    <2> USE <1>1 DEF IInv
    <2>1. key[i] \in Key /\ i # None
      BY NoneAssumption DEF TypeOK
    <2>2. session[key[i]] = i \/ flights[key[i]] = i
      BY DEF IndexOwned
    <2>3. CASE flights[key[i]] = i
      BY <2>1, <2>3 DEF FlightLive, Waiting
    <2>4. CASE session[key[i]] = i /\ flights[key[i]] = None
      BY <2>1, <2>4 DEF SessionLive, LeaseOfSession
    <2>5. QED
      BY <2>1, <2>2, <2>3, <2>4 DEF SessionLive
  <1>2. QED
    BY <1>1, Invariance, PTL

\* A caller never receives the empty index of a build that others cancelled.
THEOREM CancelledBuildsStayPrivate == Spec => []NoCancelledIndexLeased
  <1>1. IInv => NoCancelledIndexLeased
    BY DEF IInv, TypeOK, LeaseOfSession, SessionLive, IndexOwned,
       NoCancelledIndexLeased
  <1>2. QED
    BY <1>1, Invariance, PTL

\* Concurrent holders of one key share one index.
THEOREM SharedIndex == Spec => []OneIndexPerKey
  <1>1. IInv => OneIndexPerKey
    BY DEF IInv, LeaseOfSession, OneIndexPerKey
  <1>2. QED
    BY <1>1, Invariance, PTL

(***************************************************************************)
(* CompileSourceRuntime implements SharedLease                             *)
(***************************************************************************)

\* Only finished builds are closed, so nothing is closed and opened again.
ClosedDone == \A i \in Request : index[i] = "closed" => task[i] = "done"

\* No step closes an index before the task that builds it has ended.
LEMMA ClosedDoneStep == IInv /\ ClosedDone /\ [Next]_vars => ClosedDone'
  <1> SUFFICES ASSUME IInv, ClosedDone, [Next]_vars PROVE ClosedDone'
    OBVIOUS
  <1> USE DEF IInv, ClosedDone
  <1>1. ASSUME NEW r \in Request,
               \/ AcquireHit(r) \/ AcquireJoin(r) \/ AcquireMiss(r) \/ FailWaiter(r)
        PROVE  ClosedDone'
    BY <1>1 DEF AcquireHit, AcquireJoin, AcquireMiss, FailWaiter, taskVars
  <1>2. ASSUME NEW r \in Request, AcquireCreate(r) PROVE ClosedDone'
    BY <1>2 DEF AcquireCreate, TypeOK, Unstarted
  <1>3. ASSUME NEW r \in Request, Build(r) \/ BuildFails(r) PROVE ClosedDone'
    BY <1>3 DEF Build, BuildFails, TypeOK
  <1>4. ASSUME NEW r \in Request, FinishFlight(r) PROVE ClosedDone'
    BY <1>4 DEF FinishFlight, TypeOK
  <1>5. ASSUME NEW r \in Request, ResumeWaiter(r) PROVE ClosedDone'
    BY <1>5 DEF ResumeWaiter, taskVars
  <1>6. ASSUME NEW r \in Request, CancelWaiter(r) PROVE ClosedDone'
    BY <1>6 DEF CancelWaiter, taskVars, TypeOK, SessionLive
  <1>7. ASSUME NEW r \in Request, Release(r) PROVE ClosedDone'
    BY <1>7 DEF Release, taskVars, TypeOK, SessionLive
  <1>8. CASE UNCHANGED vars
    BY <1>8 DEF vars, taskVars
  <1>9. QED
    BY <1>1, <1>2, <1>3, <1>4, <1>5, <1>6, <1>7, <1>8 DEF Next

\* A step that neither grants nor ends a lease and closes nothing is invisible
\* to the callers.
LEMMA InvisibleStep ==
    ASSUME key' = key, lease' = lease,
           \A i \in Request : index'[i] = "closed" <=> index[i] = "closed",
           \A r \in Request : /\ pc'[r] = "holding" <=> pc[r] = "holding"
                              /\ pc'[r] = "released" <=> pc[r] = "released"
    PROVE  UNCHANGED Abstract!vars
  BY DEF Abstract!vars

\* Of two leases one is on index i exactly if it has the key i is built for.
LEMMA LeaseKeys ==
    ASSUME IInv, NEW r \in Request, NEW k \in Key, session[k] # None,
           pc[r] = "holding"
    PROVE  /\ lease[r] # None
           /\ lease[r] = session[k] <=> key[r] = k
  BY DEF IInv, TypeOK, LeaseOfSession, SessionLive

\* A call that receives a lease gets the index of its key's other holders,
\* which is open.
LEMMA GrantStep ==
    ASSUME IInv, NEW r \in Request, AcquireHit(r) \/ ResumeWaiter(r)
    PROVE  \E i \in Request : Abstract!Grant(r, i)
  <1> USE DEF IInv
  <1>1. PICK i \in Request :
           /\ index[i] = "open"
           /\ key[i] = key[r]
           /\ session[key[r]] \in {i, None}
           /\ lease' = [lease EXCEPT ![r] = i]
    <2>1. CASE AcquireHit(r)
      <3> DEFINE i == session[key[r]]
      <3>1. i \in Request /\ lease' = [lease EXCEPT ![r] = i]
        BY <2>1 DEF AcquireHit, TypeOK
      <3>2. index[i] = "open" /\ key[i] = key[r]
        BY <2>1 DEF AcquireHit, TypeOK, SessionLive
      <3>3. QED
        BY <3>1, <3>2
    <2>2. CASE ResumeWaiter(r)
      <3> DEFINE i == joined[r]
      <3>1. i \in Request /\ lease' = [lease EXCEPT ![r] = i]
        BY <2>2 DEF ResumeWaiter, TypeOK, WaiterRegistered
      <3>2. key[r] \in Key /\ key[i] = key[r] /\ flights[key[r]] = i /\ task[i] = "done"
        BY <2>2 DEF ResumeWaiter, Answered, TypeOK, WaiterRegistered
      <3>3. index[i] = "open" /\ session[key[r]] \in {i, None}
        BY <3>1, <3>2, NoneAssumption DEF FlightLive, SessionLive
      <3>4. QED
        BY <3>1, <3>2, <3>3
    <2>3. QED
      BY <2>1, <2>2
  <1>2. /\ pc[r] \in {"idle", "waiting"}
        /\ pc' = [pc EXCEPT ![r] = "holding"]
        /\ UNCHANGED <<key, index>>
    BY DEF AcquireHit, ResumeWaiter
  <1>3. ASSUME NEW s \in Request, pc[s] = "holding"
        PROVE  lease[s] = i <=> key[s] = key[r]
    BY <1>1, <1>3 DEF TypeOK, LeaseOfSession, SessionLive
  <1> DEFINE held == [s \in Request |-> IF pc[s] = "holding" THEN lease[s] ELSE None]
             given == {s \in Request : pc[s] = "released"}
             closed == {j \in Request : index[j] = "closed"}
  <1>4. held' = [held EXCEPT ![r] = i]
    BY <1>1, <1>2 DEF TypeOK
  <1>5. given' = given /\ closed' = closed
    BY <1>2 DEF TypeOK
  <1>6. \A s \in Request : held[s] # None => (held[s] = i <=> key[s] = key[r])
    BY <1>3
  <1>7. held[r] = None /\ r \notin given /\ i \notin closed
    BY <1>1, <1>2
  <1>8. Abstract!Grant(r, i)
    BY <1>2, <1>4, <1>5, <1>6, <1>7 DEF Abstract!Grant
  <1>9. QED
    BY <1>8

\* release() returns one lease and closes its index only with the last.
LEMMA ReturnStep ==
    ASSUME IInv, NEW r \in Request, Release(r)
    PROVE  Abstract!Return(r)
  <1> USE DEF IInv
  <1> DEFINE i == lease[r]
             k == key[r]
  <1>1. /\ pc[r] = "holding"
        /\ pc' = [pc EXCEPT ![r] = "released"]
        /\ UNCHANGED <<key, lease>>
        /\ i \in Request /\ i # None /\ k \in Key
        /\ session[k] = i
    BY NoneAssumption DEF Release, NotReleased, TypeOK, LeaseOfSession
  <1>2. \/ index' = index
        \/ /\ index' = [index EXCEPT ![i] = "closed"]
           /\ Decrement(holder_count[k]) = 0
    BY <1>1 DEF Release
  <1>3. ASSUME Decrement(holder_count[k]) = 0, NEW s \in Request \ {r},
               pc[s] = "holding"
        PROVE  lease[s] # i
    <2>1. SUFFICES ASSUME lease[s] = i PROVE FALSE
      OBVIOUS
    <2>2. key[s] = k
      BY <1>1, <1>3, <2>1, LeaseKeys
    <2>3. {r, s} \subseteq Holding(k)
      BY <1>1, <1>3, <2>2 DEF Holding
    <2>4. Holding(k) \in SUBSET Request /\ Holding(k) \ {r} \in SUBSET Request
      BY DEF Holding
    <2>5. Cardinality(Holding(k) \ {r}) = Cardinality(Holding(k)) - 1
      BY <2>3, <2>4, Sizes
    <2>6. Cardinality(Holding(k) \ {r}) # 0
      BY <1>3, <2>3, <2>4, Sizes
    <2>7. holder_count[k] = Cardinality(Holding(k))
      BY <1>1 DEF Counted
    <2>8. Cardinality(Holding(k)) \in Nat /\ Cardinality(Holding(k) \ {r}) \in Nat
      BY <2>4, Sizes
    <2>9. QED
      BY <1>3, <2>5, <2>6, <2>7, <2>8 DEF Decrement
  <1> DEFINE held == [s \in Request |-> IF pc[s] = "holding" THEN lease[s] ELSE None]
             given == {s \in Request : pc[s] = "released"}
             closed == {j \in Request : index[j] = "closed"}
  <1>4. held[r] = i /\ held' = [held EXCEPT ![r] = None]
    BY <1>1 DEF TypeOK
  <1>5. given' = given \cup {r}
    BY <1>1 DEF TypeOK
  <1>6. \/ closed' = closed
        \/ /\ \A s \in Request \ {r} : held[s] # held[r]
           /\ closed' = closed \cup {held[r]}
    <2>1. CASE index' = index
      BY <2>1
    <2>2. CASE /\ index' = [index EXCEPT ![i] = "closed"]
               /\ Decrement(holder_count[k]) = 0
      <3>1. closed' = closed \cup {i}
        BY <1>1, <2>2 DEF TypeOK
      <3>2. \A s \in Request \ {r} : held[s] # i
        BY <1>1, <1>3, <2>2
      <3>3. QED
        BY <1>4, <3>1, <3>2
    <2>3. QED
      BY <1>2, <2>1, <2>2
  <1>7. QED
    BY <1>1, <1>4, <1>5, <1>6 DEF Abstract!Return

\* _cancel_waiter() and the orphan check close an index nobody leases.
LEMMA DropStep ==
    ASSUME IInv, NEW r \in Request, FinishFlight(r) \/ CancelWaiter(r)
    PROVE  (\E i \in Request : Abstract!Drop(i)) \/ UNCHANGED Abstract!vars
  <1> USE DEF IInv
  <1>1. /\ UNCHANGED <<key, lease>>
        /\ \A s \in Request : /\ pc'[s] = "holding" <=> pc[s] = "holding"
                              /\ pc'[s] = "released" <=> pc[s] = "released"
    <2>1. CASE FinishFlight(r)
      BY <2>1 DEF FinishFlight, reqVars
    <2>2. CASE CancelWaiter(r)
      <3>1. /\ pc[r] = "waiting"
            /\ pc' = [pc EXCEPT ![r] = "cancelled"]
            /\ UNCHANGED <<key, lease>>
        BY <2>2 DEF CancelWaiter
      <3>2. QED
        BY <3>1 DEF TypeOK
    <2>3. QED
      BY <2>1, <2>2
  <1>2. CASE index' = index
    <2>1. UNCHANGED Abstract!vars
      BY <1>1, <1>2, InvisibleStep
    <2>2. QED
      BY <2>1
  <1>3. ASSUME NEW i \in Request, index' = [index EXCEPT ![i] = "closed"],
               \A s \in Request : pc[s] = "holding" => lease[s] # i
        PROVE  Abstract!Drop(i)
    <2> DEFINE held == [s \in Request |-> IF pc[s] = "holding" THEN lease[s] ELSE None]
               given == {s \in Request : pc[s] = "released"}
               closed == {j \in Request : index[j] = "closed"}
    <2>1. \A s \in Request : held[s] # i
      BY <1>3, NoneAssumption
    <2>2. held' = held /\ given' = given
      BY <1>1
    <2>3. closed' = closed \cup {i}
      BY <1>3 DEF TypeOK
    <2>4. QED
      BY <1>1, <2>1, <2>2, <2>3 DEF Abstract!Drop, Abstract!InUse
  <1>4. CASE FinishFlight(r)
    <2>1. CASE Orphaned(r)
      <3>1. index' = [index EXCEPT ![r] = "closed"]
        BY <1>4, <2>1 DEF FinishFlight
      <3>2. \A s \in Request : pc[s] = "holding" => lease[s] # r
        BY <1>4 DEF FinishFlight, TypeOK, LeaseOfSession, SessionLive
      <3>3. QED
        BY <1>3, <3>1, <3>2
    <2>2. CASE ~Orphaned(r)
      BY <1>2, <1>4, <2>2 DEF FinishFlight
    <2>3. QED
      BY <2>1, <2>2
  <1>5. CASE CancelWaiter(r)
    <2> DEFINE k == key[r]
    <2>1. k \in Key /\ joined[r] \in Request /\ key[joined[r]] = k
      BY <1>5 DEF CancelWaiter, TypeOK, WaiterRegistered
    <2>2. CASE session[k] = None
      BY <1>2, <1>3, <1>5, <2>1, <2>2 DEF CancelWaiter, TypeOK, LeaseOfSession, SessionLive
    <2>3. CASE session[k] # None /\ holder_count[k] = 0
      <3>1. \A s \in Request : pc[s] = "holding" => lease[s] # session[k]
        <4>1. Holding(k) = {}
          BY <2>1, <2>3, Sizes DEF Counted, Holding
        <4>2. QED
          BY <2>1, <2>3, <4>1, LeaseKeys DEF Holding
      <3>2. QED
        BY <1>2, <1>3, <1>5, <2>1, <2>3, <3>1 DEF CancelWaiter, TypeOK
    <2>4. CASE session[k] # None /\ holder_count[k] # 0
      BY <1>2, <1>5, <2>4 DEF CancelWaiter
    <2>5. QED
      BY <2>2, <2>3, <2>4
  <1>6. QED
    BY <1>4, <1>5

\* Every step between two awaits is a step of the promise or invisible.
LEMMA StepImplements ==
    IInv /\ ClosedDone /\ [Next]_vars => [Abstract!Next]_(Abstract!vars)
  <1> SUFFICES ASSUME IInv, ClosedDone, [Next]_vars
               PROVE  Abstract!Next \/ UNCHANGED Abstract!vars
    OBVIOUS
  <1> USE DEF IInv
  <1>1. ASSUME NEW r \in Request,
               AcquireJoin(r) \/ AcquireCreate(r) \/ AcquireMiss(r) \/ FailWaiter(r)
        PROVE  UNCHANGED Abstract!vars
    BY <1>1, InvisibleStep DEF AcquireJoin, AcquireCreate, AcquireMiss, FailWaiter, TypeOK
  <1>2. ASSUME NEW r \in Request, Build(r) \/ BuildFails(r)
        PROVE  UNCHANGED Abstract!vars
    BY <1>2, InvisibleStep DEF Build, BuildFails, reqVars, ClosedDone, TypeOK
  <1>3. CASE UNCHANGED vars
    BY <1>3, InvisibleStep DEF vars, reqVars
  <1>4. ASSUME NEW r \in Request, AcquireHit(r) \/ ResumeWaiter(r)
        PROVE  Abstract!Next
    BY <1>4, GrantStep DEF Abstract!Next
  <1>5. ASSUME NEW r \in Request, Release(r) PROVE Abstract!Next
    BY <1>5, ReturnStep DEF Abstract!Next
  <1>6. ASSUME NEW r \in Request, FinishFlight(r) \/ CancelWaiter(r)
        PROVE  Abstract!Next \/ UNCHANGED Abstract!vars
    BY <1>6, DropStep DEF Abstract!Next
  <1>7. QED
    BY <1>1, <1>2, <1>3, <1>4, <1>5, <1>6 DEF Next

\* The runtime, with its flights, sessions and counters, keeps the promise of
\* SharedLease to its callers.
THEOREM Implementation == Spec => ImplementsSharedLease
  <1>1. Init => Abstract!Init
    BY DEF Init, Abstract!Init
  <1>2. Init => ClosedDone
    BY DEF Init, ClosedDone
  <1>3. QED
    BY <1>1, <1>2, Invariance, ClosedDoneStep, StepImplements, PTL
    DEF Spec, ImplementsSharedLease, Abstract!Spec

(***************************************************************************)
(* CompileSourceIndex                                                      *)
(*                                                                         *)
(* Bytes counts what the entries hold, so one more entry adds its own      *)
(* bytes (HeldAdd).  Until the preload has ended nothing is served and     *)
(* nothing kept (LoadInv); from then on entries are only added, so what a  *)
(* reader was served stays what the next reader of the path gets (KeptInv).*)
(***************************************************************************)

IxPlanned == [path : IxPaths, size : Nat]
IxContent == [text : 1..IxMaxVersion, id : 0..IxMaxVersion, issue : BOOLEAN]
IxServed  == [text : 0..IxMaxVersion, id : 0..IxMaxVersion, issue : BOOLEAN, kept : BOOLEAN]
Marked(c) == c.text # c.id => c.issue

\* A dictionary of contents, of finitely many bytes.
IxStore(entries) ==
    /\ DOMAIN entries \subseteq IxPaths /\ IsFiniteSet(DOMAIN entries)
    /\ \A f \in DOMAIN entries : entries[f] \in IxContent /\ Marked(entries[f])
    /\ IsFiniteSet(BytesHeld(entries))

IndexTypeInv ==
    /\ ixFile \in [IxPaths -> 0..IxMaxVersion]
    /\ ixPc \in {"plan", "load", "ended"} /\ ixAt \in Nat \ {0}
    /\ ixPlan \in Seq(IxPlanned)
    /\ IxStore(ixPending) /\ IxStore(ixEntries)
    /\ ixBytes \in Nat /\ ixClosed \in BOOLEAN
    /\ ixReading \in [IxReader -> {"idle", "missed", "done"}]
    /\ ixWant \in [IxReader -> IxPaths]
    /\ ixGot \in [IxReader -> IxServed]

\* The preload has read exactly the planned paths before ixAt.
LoadInv ==
    /\ ixPc # "ended" => /\ ixEntries = Empty /\ ixBytes = 0
                         /\ ixStatus = "planning" /\ ~ixClosed
                         /\ \A t \in IxReader : ixReading[t] = "idle" /\ ixGot[t] = IxNothing
    /\ ixPc = "plan" => ixPending = Empty
    /\ ixPc = "load" => /\ Len(ixPlan) <= IxMaxFiles /\ ixAt <= Len(ixPlan) + 1
                        /\ DOMAIN ixPending = {ixPlan[i].path : i \in 1..(ixAt - 1)}
                        /\ Cardinality(DOMAIN ixPending) <= ixAt - 1
                        /\ Bytes(ixPending) <= IxMaxBytes

\* What a reader was served as the index's own is what the index has, until close().
KeptInv ==
    \A t \in IxReader : ixGot[t].kept /\ ~ixClosed =>
        /\ ixWant[t] \in DOMAIN ixEntries
        /\ ixGot[t] = Served(ixEntries[ixWant[t]], TRUE)

IndexInv == IndexTypeInv /\ LoadInv /\ TextBounded /\ KeptInv /\ OneTextPerPath

\* The bytes of one content.
LEMMA OwnBytes ==
    ASSUME NEW f \in IxPaths, NEW c \in IxContent
    PROVE  /\ ResidentBytes(f, c) \in Nat
           /\ IsFiniteSet({f} \X (1..ResidentBytes(f, c)))
           /\ Cardinality({f} \X (1..ResidentBytes(f, c))) = ResidentBytes(f, c)
<1> DEFINE n == ResidentBytes(f, c)
<1>1. n \in Nat
  BY IndexAssumption DEF ResidentBytes, IxContent
<1>2. IsFiniteSet({f}) /\ Cardinality({f}) = 1
  BY FS_Singleton
<1> HIDE DEF n
<1>3. IsFiniteSet(1..n) /\ Cardinality(1..n) = n
  BY <1>1, FS_Interval
<1>4. IsFiniteSet({f} \X (1..n)) /\ Cardinality({f} \X (1..n)) = Cardinality({f}) * Cardinality(1..n)
  BY <1>2, <1>3, FS_Product
<1>5. Cardinality({f} \X (1..n)) = n
  BY <1>1, <1>2, <1>3, <1>4
<1> QED
  BY <1>1, <1>4, <1>5 DEF n

\* One more entry, or another content in its place, leaves a finite dictionary.
LEMMA WithStore ==
    ASSUME NEW e, IxStore(e), NEW f \in IxPaths, NEW c \in IxContent, Marked(c)
    PROVE  IxStore(With(e, f, c)) /\ DOMAIN With(e, f, c) = DOMAIN e \cup {f}
<1> DEFINE w == With(e, f, c)
           own == {f} \X (1..ResidentBytes(f, c))
<1>1. /\ DOMAIN w = DOMAIN e \cup {f} /\ w[f] = c
      /\ \A g \in DOMAIN e : g # f => w[g] = e[g]
  BY DEF With
<1> HIDE DEF w
<1>2. BytesHeld(w) \subseteq BytesHeld(e) \cup own
  BY <1>1 DEF BytesHeld
<1>3. IsFiniteSet(own) /\ IsFiniteSet(BytesHeld(e))
  BY OwnBytes DEF IxStore
<1>4. IsFiniteSet(BytesHeld(w))
  <2> HIDE DEF own
  <2> QED
    BY <1>2, <1>3, FS_Union, FS_Subset
<1>5. IsFiniteSet(DOMAIN w)
  BY <1>1, FS_AddElement DEF IxStore
<1>6. DOMAIN w \subseteq IxPaths
  BY <1>1 DEF IxStore
<1>7. ASSUME NEW g \in DOMAIN w PROVE w[g] \in IxContent /\ Marked(w[g])
  BY <1>1, <1>7 DEF IxStore
<1> QED
  BY <1>1, <1>4, <1>5, <1>6, <1>7 DEF IxStore, w

\* A new entry adds its own bytes, no more and no fewer.
LEMMA HeldAdd ==
    ASSUME NEW e, IxStore(e), NEW f \in IxPaths, NEW c \in IxContent, f \notin DOMAIN e
    PROVE  Bytes(e) \in Nat /\ Bytes(With(e, f, c)) = Bytes(e) + ResidentBytes(f, c)
<1> DEFINE w == With(e, f, c)
           own == {f} \X (1..ResidentBytes(f, c))
<1>1. /\ DOMAIN w = DOMAIN e \cup {f} /\ w[f] = c
      /\ \A g \in DOMAIN e : w[g] = e[g]
  BY DEF With
<1> HIDE DEF w
<1>2. BytesHeld(w) = BytesHeld(e) \cup own
  BY <1>1 DEF BytesHeld
<1>3. BytesHeld(e) \cap own = {}
  BY DEF BytesHeld
<1>4. IsFiniteSet(own) /\ Cardinality(own) = ResidentBytes(f, c) /\ ResidentBytes(f, c) \in Nat
  BY OwnBytes
<1>5. IsFiniteSet(BytesHeld(e)) /\ Cardinality(BytesHeld(e)) \in Nat
  BY FS_CardinalityType DEF IxStore
<1>6. Cardinality(BytesHeld(e) \cup own) = Cardinality(BytesHeld(e)) + Cardinality(own)
  <2> HIDE DEF own
  <2>1. Cardinality(BytesHeld(e) \cup own)
          = Cardinality(BytesHeld(e)) + Cardinality(own) - Cardinality(BytesHeld(e) \cap own)
    BY <1>4, <1>5, FS_Union
  <2>2. Cardinality(BytesHeld(e) \cap own) = 0
    BY <1>3, FS_EmptySet
  <2> QED
    BY <1>4, <1>5, <2>1, <2>2
<1> QED
  BY <1>2, <1>4, <1>5, <1>6 DEF Bytes, w

LEMMA EmptyStore == IxStore(Empty) /\ Bytes(Empty) = 0 /\ DOMAIN Empty = {}
<1>1. DOMAIN Empty = {}
  BY DEF Empty
<1>2. BytesHeld(Empty) = {}
  BY <1>1 DEF BytesHeld
<1> QED
  BY <1>1, <1>2, FS_EmptySet DEF IxStore, Bytes

\* Reading a file gives a text of it that says when its identity is another one's.
LEMMA ContentsRead ==
    ASSUME IndexTypeInv, NEW f \in IxPaths, ixFile[f] # 0, NEW c \in Contents(f)
    PROVE  c[1] \in IxContent /\ Marked(c[1]) /\ c[2] \in 0..IxMaxVersion
<1>1. ixFile[f] \in 1..IxMaxVersion /\ IxMaxVersion \in Nat
  BY IndexAssumption DEF IndexTypeInv
<1> DEFINE now == ixFile[f]
<1>2. \/ c = <<Content(now, now, FALSE), now>> \/ c = <<Content(now, now, TRUE), 0>>
      \/ \E v \in {now, now + 1} : now < IxMaxVersion /\ c = <<Content(v, now + 1, TRUE), now + 1>>
  BY DEF Contents
<1> HIDE DEF now
<1>3. ASSUME NEW v \in 1..IxMaxVersion, NEW w \in 0..IxMaxVersion, NEW issue \in BOOLEAN, v # w => issue
      PROVE  Content(v, w, issue) \in IxContent /\ Marked(Content(v, w, issue))
  BY <1>3 DEF Content, IxContent, Marked
<1>4. now \in 1..IxMaxVersion /\ now \in 0..IxMaxVersion
  BY <1>1 DEF now
<1>5. CASE c = <<Content(now, now, FALSE), now>> \/ c = <<Content(now, now, TRUE), 0>>
  <2>1. /\ Content(now, now, FALSE) \in IxContent /\ Marked(Content(now, now, FALSE))
        /\ Content(now, now, TRUE) \in IxContent /\ Marked(Content(now, now, TRUE))
    BY <1>3, <1>4
  <2>2. 0 \in 0..IxMaxVersion
    BY <1>1
  <2>3. CASE c = <<Content(now, now, FALSE), now>>
    BY <1>4, <2>1, <2>3
  <2>4. CASE c = <<Content(now, now, TRUE), 0>>
    BY <2>1, <2>2, <2>4
  <2> QED
    BY <1>5, <2>3, <2>4
<1>6. CASE \E v \in {now, now + 1} : now < IxMaxVersion /\ c = <<Content(v, now + 1, TRUE), now + 1>>
  <2>1. PICK v \in {now, now + 1} : now < IxMaxVersion /\ c = <<Content(v, now + 1, TRUE), now + 1>>
    BY <1>6
  <2>2. v \in 1..IxMaxVersion /\ now + 1 \in 0..IxMaxVersion
    BY <1>1, <1>4, <2>1
  <2>3. Content(v, now + 1, TRUE) \in IxContent /\ Marked(Content(v, now + 1, TRUE))
    BY <1>3, <2>2
  <2> QED
    BY <2>1, <2>2, <2>3
<1> QED
  BY <1>2, <1>5, <1>6

LEMMA IndexInitInv == IndexInit([IxPaths -> 0..IxMaxVersion], [IxReader -> IxPaths]) => IndexInv
<1> SUFFICES ASSUME IndexInit([IxPaths -> 0..IxMaxVersion], [IxReader -> IxPaths]) PROVE IndexInv
  OBVIOUS
<1> USE IndexAssumption DEF IndexInit
<1>1. IndexTypeInv
  <2>1. IxNothing \in IxServed
    BY DEF IxNothing, IxServed
  <2>2. ixGot \in [IxReader -> IxServed]
    BY <2>1
  <2>3. <<>> \in Seq(IxPlanned)
    OBVIOUS
  <2>4. IxStore(ixPending) /\ IxStore(ixEntries)
    BY EmptyStore
  <2>5. ixClosed \in BOOLEAN /\ ixReading \in [IxReader -> {"idle", "missed", "done"}]
    OBVIOUS
  <2>6. ixPlan \in Seq(IxPlanned)
    BY <2>3
  <2> QED
    BY <2>2, <2>4, <2>5, <2>6 DEF IndexTypeInv
<1>2. LoadInv
  BY DEF LoadInv
<1>3. TextBounded
  BY EmptyStore, FS_EmptySet DEF TextBounded
<1>4. \A t \in IxReader : ~ixGot[t].kept /\ ixGot[t].text = ixGot[t].id
  BY DEF IxNothing
<1> QED
  BY <1>1, <1>2, <1>3, <1>4 DEF IndexInv, KeptInv, OneTextPerPath

LEMMA PlanFileInv ==
    ASSUME IndexInv, PlanFile
    PROVE  IndexInv'
<1> USE IndexAssumption DEF PlanFile, storeVars, readerVars
<1>1. IxFiles[ixAt] \in IxPaths
  BY DEF IndexInv, IndexTypeInv
<1>2. ixPlan' \in Seq(IxPlanned)
  <2>1. ixFile[IxFiles[ixAt]] # 0 => IxSize[IxFiles[ixAt]][ixFile[IxFiles[ixAt]]] \in Nat
    BY <1>1 DEF IndexInv, IndexTypeInv
  <2>2. \A e \in IxPlanned : Append(ixPlan, e) \in Seq(IxPlanned)
    BY DEF IndexInv, IndexTypeInv
  <2> QED
    BY <1>1, <2>1, <2>2 DEF IndexInv, IndexTypeInv, IxPlanned
<1>3. IndexTypeInv'
  BY <1>2 DEF IndexInv, IndexTypeInv
<1>4. LoadInv'
  BY DEF IndexInv, LoadInv
<1>5. TextBounded'
  BY DEF IndexInv, LoadInv, TextBounded
<1>6. KeptInv' /\ OneTextPerPath'
  BY DEF IndexInv, KeptInv, OneTextPerPath
<1> QED
  BY <1>3, <1>4, <1>5, <1>6 DEF IndexInv

LEMMA CheckCapacityInv ==
    ASSUME IndexInv, CheckCapacity
    PROVE  IndexInv'
<1> USE IndexAssumption DEF CheckCapacity, readerVars
<1>1. IndexTypeInv'
  BY DEF IndexInv, IndexTypeInv
<1>2. LoadInv'
  <2>1. CASE OverCapacity
    BY <2>1 DEF IndexInv, LoadInv
  <2>2. CASE ~OverCapacity
    <3>1. Len(ixPlan) \in Nat /\ Len(ixPlan) <= IxMaxFiles
      BY <2>2 DEF OverCapacity, IndexInv, IndexTypeInv
    <3>2. ixPending = Empty
      BY DEF IndexInv, LoadInv
    <3>3. DOMAIN ixPending = {ixPlan[i].path : i \in 1..0} /\ Cardinality(DOMAIN ixPending) = 0
      BY <3>2, EmptyStore, FS_EmptySet
    <3> QED
      BY <2>2, <3>1, <3>2, <3>3, EmptyStore DEF IndexInv, LoadInv
  <2> QED
    BY <2>1, <2>2
<1>3. TextBounded'
  BY DEF IndexInv, LoadInv, TextBounded
<1>4. KeptInv' /\ OneTextPerPath'
  BY DEF IndexInv, KeptInv, OneTextPerPath
<1> QED
  BY <1>1, <1>2, <1>3, <1>4 DEF IndexInv

\* A preload that ends early leaves an index that keeps nothing.
LEMMA EndedInv ==
    ASSUME IndexInv, ixPc # "ended", ixPc' = "ended", ixStatus' = "bypass_capacity",
           ixFile' \in [IxPaths -> 0..IxMaxVersion], ixAt' \in Nat \ {0}, IxStore(ixPending'),
           UNCHANGED <<ixPlan, ixEntries, ixBytes, ixClosed, readerVars>>
    PROVE  IndexInv'
<1> USE DEF readerVars
<1>1. IndexTypeInv'
  BY DEF IndexInv, IndexTypeInv, IxStore, BytesHeld, Marked, ResidentBytes
<1>2. LoadInv'
  BY DEF LoadInv
<1>3. TextBounded'
  BY DEF IndexInv, LoadInv, TextBounded
<1>4. KeptInv' /\ OneTextPerPath'
  BY DEF IndexInv, KeptInv, OneTextPerPath
<1> QED
  BY <1>1, <1>2, <1>3, <1>4 DEF IndexInv

LEMMA FallbackInv ==
    ASSUME IndexInv, ixPc # "ended", Fallback
    PROVE  IndexInv'
  BY EndedInv DEF Fallback, IndexInv, IndexTypeInv

LEMMA LoadFileInv ==
    ASSUME IndexInv, LoadFile
    PROVE  IndexInv'
<1> USE IndexAssumption DEF LoadFile
<1>0. PICK f \in IxPaths : f = ixPlan[ixAt].path /\ ixAt \in 1..Len(ixPlan)
  <2>1. ixPlan \in Seq(IxPlanned) /\ ixAt \in Nat \ {0} /\ ixAt <= Len(ixPlan)
    BY DEF IndexInv, IndexTypeInv
  <2>2. ixAt \in 1..Len(ixPlan)
    BY <2>1
  <2>3. ixPlan[ixAt] \in IxPlanned
    BY <2>1, <2>2
  <2> QED
    BY <2>2, <2>3 DEF IxPlanned
<1>1. CASE ixFile[f] = 0
  BY <1>0, <1>1, FallbackInv
<1>2. CASE ixFile[f] # 0
  <2>1. PICK c \in Contents(f) :
           /\ ixFile' = [ixFile EXCEPT ![f] = c[2]]
           /\ ixPending' = With(ixPending, f, c[1])
    BY <1>0, <1>2
  <2>2. c[1] \in IxContent /\ Marked(c[1]) /\ c[2] \in 0..IxMaxVersion
    BY <1>2, ContentsRead DEF IndexInv
  <2>3. IxStore(ixPending') /\ DOMAIN ixPending' = DOMAIN ixPending \cup {f}
    BY <2>1, <2>2, WithStore DEF IndexInv, IndexTypeInv
  <2>4. ixFile' \in [IxPaths -> 0..IxMaxVersion] /\ ixAt' = ixAt + 1 /\ ixAt' \in Nat \ {0}
    <3>1. ixFile' \in [IxPaths -> 0..IxMaxVersion]
      BY <2>1, <2>2 DEF IndexInv, IndexTypeInv
    <3>2. ixAt' = ixAt + 1
      BY <1>0, <1>2
    <3> QED
      BY <1>0, <3>1, <3>2
  <2>5. UNCHANGED <<ixPlan, ixEntries, ixBytes, ixClosed, readerVars>>
    BY <1>0, <1>2
  <2>6. CASE Bytes(ixPending') > IxMaxBytes
    BY <1>0, <1>2, <2>3, <2>4, <2>5, <2>6, EndedInv
  <2>7. CASE ~(Bytes(ixPending') > IxMaxBytes)
    <3> USE DEF readerVars
    <3>0. UNCHANGED <<ixPc, ixStatus>>
      BY <1>0, <1>2, <2>7
    <3>1. Bytes(ixPending') <= IxMaxBytes
      BY <2>3, <2>7, FS_CardinalityType DEF IxStore, Bytes
    <3>2. DOMAIN ixPending' = {ixPlan'[i].path : i \in 1..(ixAt' - 1)}
      <4>1. DOMAIN ixPending = {ixPlan[i].path : i \in 1..(ixAt - 1)}
        BY DEF IndexInv, LoadInv
      <4>2. 1..(ixAt' - 1) = (1..(ixAt - 1)) \cup {ixAt}
        BY <1>0, <2>4
      <4> QED
        BY <1>0, <2>3, <2>5, <4>1, <4>2
    <3>3. Cardinality(DOMAIN ixPending') <= ixAt' - 1
      <4>1. /\ IsFiniteSet(DOMAIN ixPending) /\ Cardinality(DOMAIN ixPending) \in Nat
            /\ Cardinality(DOMAIN ixPending) <= ixAt - 1
        BY FS_CardinalityType DEF IndexInv, LoadInv, IndexTypeInv, IxStore
      <4>2. Cardinality(DOMAIN ixPending \cup {f}) <= Cardinality(DOMAIN ixPending) + 1
        <5> DEFINE D == DOMAIN ixPending
        <5>1. Cardinality(D \cup {f}) = IF f \in D THEN Cardinality(D) ELSE Cardinality(D) + 1
          BY <4>1, FS_AddElement
        <5> QED
          BY <4>1, <5>1
      <4>3. Cardinality(DOMAIN ixPending \cup {f}) \in Nat
        BY <4>1, FS_AddElement, FS_CardinalityType
      <4> QED
        BY <1>0, <2>3, <2>4, <4>1, <4>2, <4>3
    <3>4. IndexTypeInv'
      <4>1. IxStore(ixPending)'
        BY <2>3 DEF IxStore, BytesHeld, Marked, ResidentBytes
      <4>2. IxStore(ixEntries)'
        BY <2>5, SMTT(30) DEF IndexInv, IndexTypeInv, IxStore, BytesHeld, Marked, ResidentBytes
      <4>3. ixPc' \in {"plan", "load", "ended"} /\ ixPlan' \in Seq(IxPlanned)
        BY <2>5, <3>0 DEF IndexInv, IndexTypeInv
      <4>4. ixBytes' \in Nat /\ ixClosed' \in BOOLEAN
        BY <2>5 DEF IndexInv, IndexTypeInv
      <4>5. /\ ixReading' \in [IxReader -> {"idle", "missed", "done"}]
            /\ ixWant' \in [IxReader -> IxPaths] /\ ixGot' \in [IxReader -> IxServed]
        BY <2>5 DEF IndexInv, IndexTypeInv
      <4> QED
        BY <2>4, <4>1, <4>2, <4>3, <4>4, <4>5 DEF IndexTypeInv
    <3>5. LoadInv'
      BY <1>0, <2>4, <2>5, <3>0, <3>1, <3>2, <3>3 DEF IndexInv, LoadInv
    <3>6. TextBounded'
      BY <2>5, <3>0 DEF IndexInv, TextBounded
    <3>7. KeptInv' /\ OneTextPerPath'
      BY <2>5 DEF IndexInv, KeptInv, OneTextPerPath
    <3> QED
      BY <3>4, <3>5, <3>6, <3>7 DEF IndexInv
  <2> QED
    BY <2>6, <2>7
<1> QED
  BY <1>1, <1>2

\* All planned files are read: they become the entries in one step.
LEMMA PublishAllInv ==
    ASSUME IndexInv, PublishAll
    PROVE  IndexInv'
<1> USE IndexAssumption DEF PublishAll, readerVars
<1>1. IxStore(ixPending) /\ IxStore(ixPending)' /\ IxStore(ixEntries)'
  BY SMTT(30) DEF IndexInv, IndexTypeInv, IxStore, BytesHeld, Marked, ResidentBytes
<1>2. ixBytes' \in Nat
  BY <1>1, FS_CardinalityType DEF Bytes, IxStore
<1>3. IndexTypeInv'
  BY <1>1, <1>2 DEF IndexInv, IndexTypeInv
<1>4. \A t \in IxReader : ~ixGot[t].kept /\ ixGot[t].text = ixGot[t].id
  BY DEF IndexInv, LoadInv, IxNothing
<1>5. KeptInv' /\ OneTextPerPath'
  BY <1>4 DEF KeptInv, OneTextPerPath
<1>6. Cardinality(DOMAIN ixEntries') <= IxMaxFiles
  <2>1. Cardinality(DOMAIN ixPending) \in Nat
    BY <1>1, FS_CardinalityType DEF IxStore
  <2>2. /\ Cardinality(DOMAIN ixPending) <= ixAt - 1 /\ ixAt <= Len(ixPlan) + 1 /\ Len(ixPlan) <= IxMaxFiles
        /\ Len(ixPlan) \in Nat /\ ixAt \in Nat
    BY DEF IndexInv, LoadInv, IndexTypeInv
  <2> QED
    BY <2>1, <2>2
<1>7. {ixPlan[i].path : i \in DOMAIN ixPlan} \subseteq DOMAIN ixPending
  <2>1. ixAt \in Nat /\ Len(ixPlan) \in Nat /\ DOMAIN ixPlan = 1..Len(ixPlan)
    BY DEF IndexInv, IndexTypeInv
  <2>2. 1..Len(ixPlan) \subseteq 1..(ixAt - 1)
    BY <2>1
  <2> QED
    BY <2>1, <2>2 DEF IndexInv, LoadInv
<1>8. Bytes(ixPending)' = Bytes(ixPending) /\ Bytes(ixEntries)' = Bytes(ixPending)
  BY DEF Bytes, BytesHeld, ResidentBytes
<1>9. TextBounded'
  BY <1>6, <1>7, <1>8 DEF IndexInv, LoadInv, TextBounded
<1> QED
  BY <1>3, <1>5, <1>9 DEF IndexInv, LoadInv

\* What the index has for a path, a reader gets.
LEMMA HitEntryInv ==
    ASSUME IndexInv, NEW t \in IxReader, ixPc = "ended", ixWant[t] \in DOMAIN ixEntries, HitEntry(t)
    PROVE  IndexInv'
<1> USE IndexAssumption DEF HitEntry, storeVars
<1> DEFINE e == ixEntries[ixWant[t]]
<1>1. e \in IxContent /\ Marked(e)
  BY DEF IndexInv, IndexTypeInv, IxStore
<1>2. Served(e, TRUE) \in IxServed /\ Served(e, TRUE).text = e.text /\ Served(e, TRUE).id = e.id
      /\ Served(e, TRUE).issue = e.issue
  BY <1>1 DEF Served, IxServed, IxContent
<1>3. ixGot' \in [IxReader -> IxServed]
  BY <1>2 DEF IndexInv, IndexTypeInv
<1>4. ixReading' \in [IxReader -> {"idle", "missed", "done"}]
  BY DEF IndexInv, IndexTypeInv
<1>5. IndexTypeInv'
  BY <1>3, <1>4 DEF IndexInv, IndexTypeInv
<1>6. LoadInv' /\ TextBounded'
  BY DEF IndexInv, LoadInv, TextBounded, Bytes, BytesHeld, ResidentBytes
<1>7. ixGot'[t] = Served(e, TRUE) /\ \A u \in IxReader : u # t => ixGot'[u] = ixGot[u]
  BY DEF IndexInv, IndexTypeInv
<1>8. ~ixClosed
  BY EmptyStore DEF IndexInv, TextBounded
<1>9. KeptInv'
  BY <1>7 DEF IndexInv, KeptInv, Served
<1>10. OneTextPerPath'
  <2>1. \A u \in IxReader : ixGot'[u].kept => ixGot'[u] = Served(ixEntries[ixWant[u]], TRUE)
    BY <1>7, <1>8 DEF IndexInv, KeptInv
  <2>2. ASSUME NEW u \in IxReader, ixGot'[u].text # ixGot'[u].id PROVE ixGot'[u].issue
    <3>1. CASE u = t
      <4>1. /\ ixGot'[u].text = e.text /\ ixGot'[u].id = e.id /\ ixGot'[u].issue = e.issue
        BY <1>2, <1>7, <3>1, Zenon
      <4>2. e.text # e.id => e.issue
        BY <1>1, Zenon DEF Marked
      <4> QED
        BY <2>2, <4>1, <4>2, Zenon
    <3>2. CASE u # t
      <4>1. ixGot'[u] = ixGot[u]
        BY <1>7, <3>2, Zenon
      <4>2. ixGot[u].text # ixGot[u].id => ixGot[u].issue
        BY Zenon DEF IndexInv, OneTextPerPath
      <4> QED
        BY <2>2, <4>1, <4>2, Zenon
    <3> QED
      BY <3>1, <3>2, Zenon
  <2> QED
    BY <2>1, <2>2 DEF OneTextPerPath
<1> QED
  BY <1>5, <1>6, <1>9, <1>10 DEF IndexInv

\* A file that the reader keeps for the others, if the index has room for it.
LEMMA ReadFileInv ==
    ASSUME IndexInv, NEW t \in IxReader, ReadFile(t)
    PROVE  IndexInv'
<1> USE IndexAssumption DEF ReadFile
<1>0. PICK f \in IxPaths : f = ixWant[t] /\ f \notin DOMAIN ixEntries /\ ixFile[f] # 0
  BY DEF IndexInv, IndexTypeInv
<1>1. PICK c \in Contents(f) :
         /\ ixFile' = [ixFile EXCEPT ![f] = c[2]]
         /\ ixGot' = [ixGot EXCEPT ![t] = Served(c[1], CanStore(f, c[1]))]
         /\ IF CanStore(f, c[1])
            THEN /\ ixEntries' = With(ixEntries, f, c[1])
                 /\ ixBytes' = ixBytes + ResidentBytes(f, c[1])
            ELSE UNCHANGED <<ixEntries, ixBytes>>
  BY <1>0
<1>2. c[1] \in IxContent /\ Marked(c[1]) /\ c[2] \in 0..IxMaxVersion
  BY <1>0, ContentsRead DEF IndexInv
<1> DEFINE kept == CanStore(f, c[1])
           s == Served(c[1], kept)
<1>3. kept \in BOOLEAN
  BY DEF CanStore
<1>4. s \in IxServed /\ s.text = c[1].text /\ s.id = c[1].id /\ s.issue = c[1].issue /\ s.kept = kept
  BY <1>2, <1>3 DEF Served, IxServed, IxContent
<1>5. /\ ixGot' \in [IxReader -> IxServed] /\ ixGot'[t] = s
      /\ \A u \in IxReader : u # t => ixGot'[u] = ixGot[u]
  BY <1>1, <1>4 DEF IndexInv, IndexTypeInv
<1>6. ixFile' \in [IxPaths -> 0..IxMaxVersion] /\ ixReading' \in [IxReader -> {"idle", "missed", "done"}]
  BY <1>1, <1>2 DEF IndexInv, IndexTypeInv
<1>7. ixPc = "ended"
  BY DEF IndexInv, LoadInv, IndexTypeInv
<1>8. LoadInv'
  BY <1>7 DEF LoadInv
<1>9. \A u \in IxReader : ixGot'[u].text # ixGot'[u].id => ixGot'[u].issue
  BY <1>2, <1>4, <1>5 DEF IndexInv, OneTextPerPath, Marked
<1>10. CASE kept
  <2>1. /\ ~ixClosed /\ ixStatus # "bypass_capacity"
        /\ Cardinality(DOMAIN ixEntries) < IxMaxFiles
        /\ ixBytes + ResidentBytes(f, c[1]) <= IxMaxBytes
    BY <1>10 DEF CanStore
  <2>2. ixEntries' = With(ixEntries, f, c[1]) /\ ixBytes' = ixBytes + ResidentBytes(f, c[1])
    BY <1>1, <1>10
  <2>3. IxStore(ixEntries') /\ DOMAIN ixEntries' = DOMAIN ixEntries \cup {f}
    BY <1>2, <2>2, WithStore DEF IndexInv, IndexTypeInv
  <2>4. ixEntries'[f] = c[1] /\ \A g \in DOMAIN ixEntries : ixEntries'[g] = ixEntries[g]
    BY <1>0, <2>2 DEF With
  <2>5. ixBytes \in Nat /\ ResidentBytes(f, c[1]) \in Nat /\ ixBytes = Bytes(ixEntries)
    BY <1>2, OwnBytes DEF IndexInv, IndexTypeInv, TextBounded
  <2>6. ixBytes' = Bytes(ixEntries') /\ ixBytes' \in Nat /\ ixBytes' <= IxMaxBytes
    BY <1>0, <1>2, <2>1, <2>2, <2>5, HeldAdd DEF IndexInv, IndexTypeInv
  <2>7. Cardinality(DOMAIN ixEntries') <= IxMaxFiles
    <3>1. IsFiniteSet(DOMAIN ixEntries) /\ Cardinality(DOMAIN ixEntries) \in Nat
      BY FS_CardinalityType DEF IndexInv, IndexTypeInv, IxStore
    <3>2. Cardinality(DOMAIN ixEntries \cup {f}) = Cardinality(DOMAIN ixEntries) + 1
      BY <1>0, <3>1, FS_AddElement
    <3> QED
      BY <2>1, <2>3, <3>1, <3>2
  <2>8. IndexTypeInv'
    BY <1>5, <1>6, <2>3, <2>6 DEF IndexInv, IndexTypeInv
  <2>9. TextBounded'
    BY <2>1, <2>3, <2>6, <2>7 DEF IndexInv, TextBounded
  <2>10. \A u \in IxReader : u # t /\ ixGot[u].kept => /\ ixWant[u] \in DOMAIN ixEntries
                                                      /\ ixGot[u] = Served(ixEntries[ixWant[u]], TRUE)
    BY <2>1 DEF IndexInv, KeptInv
  <2>11. s = Served(c[1], TRUE)
    BY <1>3, <1>10
  <2> HIDE DEF s, kept
  <2>12. \A u \in IxReader : ixGot'[u].kept => /\ ixWant[u] \in DOMAIN ixEntries'
                                              /\ ixGot'[u] = Served(ixEntries'[ixWant[u]], TRUE)
    BY <1>0, <1>5, <2>3, <2>4, <2>10, <2>11
  <2>13. KeptInv'
    BY <2>12 DEF KeptInv
  <2>14. OneTextPerPath'
    <3>1. ixWant' = ixWant
      OBVIOUS
    <3> HIDE DEF ReadFile
    <3>2. ASSUME NEW u \in IxReader, NEW v \in IxReader, ixGot'[u].kept, ixGot'[v].kept, ixWant[u] = ixWant[v]
          PROVE  ixGot'[u] = ixGot'[v]
      BY <2>12, <3>2
    <3> QED
      BY <1>9, <3>1, <3>2 DEF OneTextPerPath
  <2> QED
    BY <1>8, <2>8, <2>9, <2>13, <2>14 DEF IndexInv
<1>11. CASE ~kept
  <2>1. UNCHANGED <<ixEntries, ixBytes>>
    BY <1>1, <1>11
  <2>2. IndexTypeInv'
    BY <1>5, <1>6, <2>1 DEF IndexInv, IndexTypeInv
  <2>3. TextBounded'
    BY <2>1 DEF IndexInv, TextBounded
  <2>4. ~ixGot'[t].kept
    BY <1>4, <1>5, <1>11
  <2>5. KeptInv'
    BY <1>5, <2>1, <2>4 DEF IndexInv, KeptInv
  <2>6. OneTextPerPath'
    BY <1>5, <1>9, <2>4, SMTT(30) DEF IndexInv, OneTextPerPath
  <2> QED
    BY <1>8, <2>2, <2>3, <2>5, <2>6 DEF IndexInv
<1> QED
  BY <1>10, <1>11

LEMMA CloseIndexInv ==
    ASSUME IndexInv, CloseIndex
    PROVE  IndexInv'
<1> USE IndexAssumption DEF CloseIndex, readerVars
<1>1. IxStore(ixEntries)' /\ Bytes(ixEntries)' = 0 /\ DOMAIN ixEntries' = {}
  BY EmptyStore
<1>2. IndexTypeInv'
  BY <1>1, SMTT(30) DEF IndexInv, IndexTypeInv, IxStore, BytesHeld, Marked, ResidentBytes
<1>3. TextBounded'
  BY <1>1, FS_EmptySet DEF TextBounded
<1>4. KeptInv' /\ OneTextPerPath' /\ LoadInv'
  BY DEF IndexInv, KeptInv, OneTextPerPath, LoadInv
<1> QED
  BY <1>2, <1>3, <1>4 DEF IndexInv

\* Steps that change neither the index nor what was served.
LEMMA IndexQuietInv ==
    ASSUME IndexInv, ixFile' \in [IxPaths -> 0..IxMaxVersion],
           ixReading' \in [IxReader -> {"idle", "missed", "done"}],
           ixReading' = ixReading \/ ixPc = "ended",
           UNCHANGED <<ixPc, ixAt, ixPlan, ixPending, storeVars, ixWant, ixGot>>
    PROVE  IndexInv'
<1> USE DEF storeVars
<1>1. IndexTypeInv'
  BY DEF IndexInv, IndexTypeInv
<1>2. LoadInv'
  BY DEF IndexInv, LoadInv
<1>3. TextBounded' /\ KeptInv' /\ OneTextPerPath'
  BY DEF IndexInv, TextBounded, KeptInv, OneTextPerPath
<1> QED
  BY <1>1, <1>2, <1>3 DEF IndexInv

LEMMA IndexStepInv == IndexInv /\ [IndexNext]_indexVars => IndexInv'
<1> SUFFICES ASSUME IndexInv, [IndexNext]_indexVars PROVE IndexInv'
  OBVIOUS
<1> USE IndexAssumption
<1>1. CASE UNCHANGED indexVars
  BY <1>1, IndexQuietInv DEF indexVars, storeVars, IndexInv, IndexTypeInv
<1>2. ASSUME NEW f \in IxPaths, EditSource(f) PROVE IndexInv'
  <2>1. ixFile' \in [IxPaths -> 0..IxMaxVersion]
    <3>1. ixFile \in [IxPaths -> 0..IxMaxVersion]
      BY DEF IndexInv, IndexTypeInv
    <3>2. CASE ixFile[f] \in 1..(IxMaxVersion - 1) /\ ixFile' = [ixFile EXCEPT ![f] = @ + 1]
      <4>1. ixFile[f] + 1 \in 0..IxMaxVersion
        BY <3>2, SMTT(30)
      <4> QED
        BY <3>1, <3>2, <4>1
    <3>3. CASE ixFile' = [ixFile EXCEPT ![f] = 0]
      BY <3>1, <3>3
    <3> QED
      BY <1>2, <3>2, <3>3 DEF EditSource
  <2> QED
    BY <1>2, <2>1, IndexQuietInv DEF EditSource, readerVars, IndexInv, IndexTypeInv
<1>3. ASSUME NEW t \in IxReader, ReadMiss(t) \/ ReadError(t) PROVE IndexInv'
  <2>1. ixPc = "ended"
    BY <1>3 DEF ReadMiss, ReadError, IndexInv, LoadInv
  <2>2. ixReading' \in [IxReader -> {"idle", "missed", "done"}]
    BY <1>3 DEF ReadMiss, ReadError, IndexInv, IndexTypeInv
  <2> QED
    BY <1>3, <2>1, <2>2, IndexQuietInv DEF ReadMiss, ReadError, IndexInv, IndexTypeInv
<1>4. ASSUME NEW t \in IxReader, ReadHit(t) \/ ReadRecheck(t) PROVE IndexInv'
  <2>1. ixPc = "ended" /\ ixWant[t] \in DOMAIN ixEntries /\ HitEntry(t)
    BY <1>4 DEF ReadHit, ReadRecheck, IndexInv, LoadInv
  <2> QED
    BY <2>1, HitEntryInv
<1>5. CASE CancelPreload
  BY <1>5, FallbackInv DEF CancelPreload
<1> QED
  BY <1>1, <1>2, <1>3, <1>4, <1>5, PlanFileInv, CheckCapacityInv, LoadFileInv, PublishAllInv,
     ReadFileInv, CloseIndexInv DEF IndexNext

\* The text an index keeps is within both limits and accounted for to the byte, and
\* its readers worked on one text per path, for every plan and whatever is edited,
\* cancelled or closed while they read.
THEOREM IndexIsSound == IndexSpec => []IndexSound
<1>1. IndexInv => IndexSound
  BY DEF IndexInv, IndexSound
<1> QED
  BY <1>1, IndexInitInv, IndexStepInv, PTL DEF IndexSpec
================================================================================
