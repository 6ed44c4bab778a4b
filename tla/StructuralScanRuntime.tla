------------------------- MODULE StructuralScanRuntime -------------------------
(***************************************************************************)
(* src/src/structural_scan_runtime.py with the handler of                  *)
(* scan_structural_risks (src/server.py) around it.  A call borrows the    *)
(* source index if one is active, captures the identity of the design and  *)
(* asks the runtime: a result cached for that identity answers at once, a  *)
(* flight of the same identity and options is joined, and otherwise a      *)
(* flight of its own runs the rules.  The caller's lease is handed into    *)
(* the flight's build, which may start after its caller has left.          *)
(*                                                                         *)
(* The index is the one of SharedLease, for the one compile snapshot under *)
(* consideration; build_tb_hierarchy is its other user.  The sources are   *)
(* their version: an edit makes a new one.  A flight is named by the call  *)
(* that created it.  Everything but the threads runs on one event loop, so *)
(* a step is the code between two awaits.                                  *)
(***************************************************************************)
EXTENDS OrderedDict

CONSTANTS
    Call,           \* calls of scan_structural_risks
    Hierarchy,      \* calls of build_tb_hierarchy
    Option,         \* scope, categories and simulator of a scan
    Plan,           \* the assignments of options to calls considered
    Bytes,          \* encoded size of the result for each option
    MaxEntries,     \* 8 in the code
    MaxBytes,       \* 32 MiB in the code
    MaxEdits,       \* bound: how often the sources are edited
    None

ASSUME StructuralAssumption ==
    /\ IsFiniteSet(Call) /\ Call \cap Hierarchy = {}
    /\ None \notin Call \cup Int
    /\ None \notin (Call \cup Hierarchy) \X {"identity", "build"}
    /\ Plan \subseteq [Call -> Option]
    /\ Bytes \in [Option -> Nat \ {0}]
    /\ MaxEntries \in Nat /\ MaxBytes \in Nat /\ MaxEdits \in Nat

Version == 0 .. MaxEdits
Token == (Call \X {"identity", "build"}) \cup (Hierarchy \X {"build"})

VARIABLES
    src,                        \* version of the sources on disk
    facts,                      \* version the identity reader remembers
    lease, returned, dropped,   \* of SharedLease, per Token
    text,                       \* text[i]: version that index i has loaded
    option, pc, result,         \* per call
    identity,                   \* identity[c]: captured version, None if incomplete
    identity_lease,             \* calls whose variable identity_lease is set
    joined,                     \* joined[c]: the flight call c awaits
    flights,                    \* _flights, of reusable identities
    reusable, current,          \* outcomes of identity.current(): before the flight
                                \* is looked up, and after its build
    waiters, stopped,           \* _Flight.waiters; event set and task cancelled
    task, build_lease,          \* per flight: control, and the lease of its build
    read,                       \* read[f]: version the rules have read
    cache                       \* _cache, the oldest first

leaseVars  == <<lease, returned, dropped, text>>
callVars   == <<option, pc, result, identity, identity_lease, joined, reusable>>
flightVars == <<flights, current, waiters, stopped, task, build_lease, read>>
vars       == <<src, facts, leaseVars, callVars, flightVars, cache>>

Leases == INSTANCE SharedLease
          WITH Request <- Token, Key <- {"snapshot"},
               key <- [t \in Token |-> "snapshot"]

Key == Option \X Version
Live == {"created", "acquiring", "scanning", "validating", "publishing"}

\* An encoded result, under its key.
Entry == [key : Key, read : Version]
EntryBytes == [e \in Entry |-> Bytes[e.key[1]]]

\* Every variable has its type, and the cache is within its limits and has one
\* result for a key.
StructuralTypeOK ==
    /\ src \in Version /\ facts \in Version \cup {None}
    /\ lease \in [Token -> Token \cup {None}]
    /\ returned \subseteq Token /\ dropped \subseteq Token
    /\ text \in [Token -> Version \cup {None}]
    /\ option \in Plan
    /\ pc \in [Call -> {"idle", "capturing", "checking", "checked", "waiting", "done"}]
    /\ result \in [Call -> {"none", "hit", "done", "degraded", "failed", "stopped",
                         "cancelled"}]
    /\ identity \in [Call -> Version \cup {None}]
    /\ identity_lease \subseteq Call
    /\ joined \in [Call -> Call \cup {None}]
    /\ flights \in [Key -> Call \cup {None}]
    /\ reusable \subseteq Call /\ current \subseteq Call /\ stopped \subseteq Call
    /\ waiters \in [Call -> Nat]
    /\ task \in [Call -> Live \cup {"none", "done", "degraded", "failed", "stopped"}]
    /\ build_lease \in [Call -> Token \cup {None}]
    /\ read \in [Call -> Version \cup {None}]
    /\ cache \in Seq(Entry) /\ Fits(cache, EntryBytes, MaxEntries, MaxBytes)
    /\ \A i, j \in DOMAIN cache : cache[i].key = cache[j].key => i = j

Init ==
    /\ src = 0 /\ facts = None
    /\ lease = [t \in Token |-> None] /\ returned = {} /\ dropped = {}
    /\ text = [t \in Token |-> None]
    /\ option \in Plan
    /\ pc = [c \in Call |-> "idle"] /\ result = [c \in Call |-> "none"]
    /\ identity = [c \in Call |-> None] /\ identity_lease = {}
    /\ joined = [c \in Call |-> None]
    /\ flights = [k \in Key |-> None] /\ reusable = {} /\ current = {}
    /\ waiters = [c \in Call |-> 0] /\ stopped = {}
    /\ task = [c \in Call |-> "none"] /\ build_lease = [c \in Call |-> None]
    /\ read = [c \in Call |-> None]
    /\ cache = <<>>

(***************************************************************************)
(* The source index, as its callers see it                                 *)
(***************************************************************************)

Active == \E i \in Token : Leases!InUse(i)

\* acquire() on an active index ...
JoinIndex(t) ==
    /\ \E i \in Token : Leases!InUse(i) /\ Leases!Grant(t, i)
    /\ UNCHANGED text

\* ... or, unless create_if_missing is False, on one that is loaded now.
LoadIndex(t) ==
    /\ ~Active
    /\ Leases!Grant(t, t)
    /\ text' = [text EXCEPT ![t] = src]

\* release() of the last lease drops the text.
ReturnLease(t) ==
    /\ Leases!Return(t)
    /\ lease[t] \in dropped' <=> \A s \in Token \ {t} : lease[s] # lease[t]
    /\ UNCHANGED text

(***************************************************************************)
(* The handler, up to the runtime                                          *)
(***************************************************************************)

\* The handler of one call releases the lease that is still its own, in a
\* finally block that clears the variable before it awaits.
ReleaseUnused(c) ==
    /\ identity_lease' = identity_lease \ {c}
    /\ IF c \in identity_lease THEN ReturnLease(<<c, "identity">>)
                               ELSE UNCHANGED leaseVars

Leave(c, r) ==
    /\ pc' = [pc EXCEPT ![c] = "done"]
    /\ result' = [result EXCEPT ![c] = r]

\* acquire(create_if_missing=False)
Begin(c) ==
    /\ pc[c] = "idle"
    /\ pc' = [pc EXCEPT ![c] = "capturing"]
    /\ IF Active THEN /\ JoinIndex(<<c, "identity">>)
                      /\ identity_lease' = identity_lease \cup {c}
                 ELSE UNCHANGED <<leaseVars, identity_lease>>
    /\ UNCHANGED <<src, facts, option, result, identity, joined, reusable, flightVars, cache>>

\* DesignIdentityReader.capture() in a thread.  A remembered digest is used
\* if the file on disk still has it; otherwise the file is read, through the
\* index if there is one.  An identity that does not describe the disk at
\* the end, or that misses an input, is incomplete.
Seen(c) == IF facts = src \/ c \notin identity_lease
           THEN src ELSE text[lease[<<c, "identity">>]]

Capture(c) ==
    /\ pc[c] = "capturing"
    /\ pc' = [pc EXCEPT ![c] = "checking"]
    /\ \/ /\ Seen(c) = src
          /\ identity' = [identity EXCEPT ![c] = src]
          /\ facts' = src
       \/ UNCHANGED <<identity, facts>>
    /\ UNCHANGED <<src, leaseVars, option, result, identity_lease, joined, reusable,
                   flightVars, cache>>

\* capture() raises, or the call is cancelled before it awaits a flight.
GiveUp(c) ==
    /\ \/ pc[c] = "capturing" /\ Leave(c, "failed")
       \/ pc[c] \in {"capturing", "checking", "checked"} /\ Leave(c, "cancelled")
    /\ ReleaseUnused(c)
    /\ UNCHANGED <<src, facts, option, identity, joined, reusable, flightVars, cache>>

(***************************************************************************)
(* StructuralScanRuntime.run(), up to its shielded await                   *)
(***************************************************************************)

\* identity.current(): the files on disk are still the captured ones.
Current(c) == identity[c] # None /\ identity[c] = src
KeyOf(c) == <<option[c], identity[c]>>
Position(c) == {i \in DOMAIN cache : cache[i].key = KeyOf(c)}
CachedAt(c) == IF c \in reusable THEN Position(c) ELSE {}

\* In a thread; the sources may change before the loop resumes the call.
Check(c) ==
    /\ pc[c] = "checking"
    /\ pc' = [pc EXCEPT ![c] = "checked"]
    /\ reusable' = IF Current(c) THEN reusable \cup {c} ELSE reusable
    /\ UNCHANGED <<src, facts, leaseVars, option, result, identity, identity_lease, joined,
                   flightVars, cache>>

Hit(c) ==
    /\ pc[c] = "checked"
    /\ \E i \in CachedAt(c) : cache' = Touch(cache, cache[i])
    /\ Leave(c, "hit")
    /\ ReleaseUnused(c)
    /\ UNCHANGED <<src, facts, option, identity, joined, reusable, flightVars>>

Missed(c) == pc[c] = "checked" /\ CachedAt(c) = {}

\* The flight a call may join; an identity that is not reusable gets a key
\* that nobody else has.
Registered(c) == IF c \in reusable THEN flights[KeyOf(c)] ELSE None

Await(c, f) ==
    /\ joined' = [joined EXCEPT ![c] = f]
    /\ waiters' = [waiters EXCEPT ![f] = @ + 1]
    /\ pc' = [pc EXCEPT ![c] = "waiting"]

Join(c) ==
    /\ Missed(c)
    /\ Registered(c) # None
    /\ Await(c, Registered(c))
    /\ UNCHANGED <<src, facts, leaseVars, option, result, identity, identity_lease,
                   reusable, flights, current, stopped, task, build_lease, read, cache>>

Create(c) ==
    /\ Missed(c)
    /\ Registered(c) = None
    /\ flights' = IF c \in reusable THEN [flights EXCEPT ![KeyOf(c)] = c] ELSE flights
    /\ task' = [task EXCEPT ![c] = "created"]
    /\ Await(c, c)
    /\ UNCHANGED <<src, facts, leaseVars, option, result, identity, identity_lease,
                   reusable, current, stopped, build_lease, read, cache>>

(***************************************************************************)
(* The flight: execute(), and the handler's build_scan() inside it         *)
(***************************************************************************)

\* The build makes the caller's lease its own, if the caller still has one.
\* (Mutant: the caller's variable keeps it.)
KeepOwnership(f) == identity_lease
TakeOwnership(f) == identity_lease \ {f}

Start(f) ==
    /\ task[f] = "created" /\ f \notin stopped
    /\ IF f \in identity_lease
       THEN /\ build_lease' = [build_lease EXCEPT ![f] = <<f, "identity">>]
            /\ task' = [task EXCEPT ![f] = "scanning"]
       ELSE /\ task' = [task EXCEPT ![f] = "acquiring"]
            /\ UNCHANGED build_lease
    /\ identity_lease' = TakeOwnership(f)
    /\ UNCHANGED <<src, facts, leaseVars, option, pc, result, identity, joined,
                   reusable, flights, current, waiters, stopped, read, cache>>

AcquireBuild(f) ==
    /\ task[f] = "acquiring" /\ f \notin stopped
    /\ JoinIndex(<<f, "build">>) \/ LoadIndex(<<f, "build">>)
    /\ build_lease' = [build_lease EXCEPT ![f] = <<f, "build">>]
    /\ task' = [task EXCEPT ![f] = "scanning"]
    /\ UNCHANGED <<src, facts, callVars, flights, current, waiters, stopped, read, cache>>

\* build_scan() ends, in whatever way, and releases its lease.
EndBuild(f) ==
    /\ build_lease' = [build_lease EXCEPT ![f] = None]
    /\ IF build_lease[f] # None THEN ReturnLease(build_lease[f]) ELSE UNCHANGED leaseVars

\* The rules, in a thread, read their text from the index, or raise.
RunRules(f) ==
    /\ task[f] = "scanning" /\ f \notin stopped
    /\ \/ /\ read' = [read EXCEPT ![f] = text[lease[build_lease[f]]]]
          /\ task' = [task EXCEPT ![f] = "validating"]
       \/ /\ task' = [task EXCEPT ![f] = "failed"]
          /\ UNCHANGED read
    /\ EndBuild(f)
    /\ UNCHANGED <<src, facts, callVars, flights, current, waiters, stopped, cache>>

\* The identity is checked once more, in a thread ...
Validate(f) ==
    /\ task[f] = "validating" /\ f \notin stopped
    /\ task' = [task EXCEPT ![f] = "publishing"]
    /\ current' = IF f \in reusable /\ Current(f) THEN current \cup {f} ELSE current
    /\ UNCHANGED <<src, facts, leaseVars, callVars, flights, waiters, stopped,
                   build_lease, read, cache>>

\* ... and a result whose sources changed is degraded and not kept.
Publish(f) ==
    /\ task[f] = "publishing" /\ f \notin stopped
    /\ cache' = IF f \in current /\ Bytes[option[f]] <= MaxBytes /\ MaxEntries > 0
                THEN EvictOldest(Append(Pop(cache, Position(f)),
                                        [key |-> KeyOf(f), read |-> read[f]]),
                                 EntryBytes, MaxEntries, MaxBytes)
                ELSE cache
    /\ task' = [task EXCEPT ![f] = IF f \in reusable \ current THEN "degraded" ELSE "done"]
    /\ UNCHANGED <<src, facts, leaseVars, callVars, flights, current, waiters, stopped,
                   build_lease, read>>

\* The cancellation of the task arrives at whatever it awaits; a task that has
\* not started never does.
Unwind(f) ==
    /\ task[f] \in Live /\ f \in stopped
    /\ task' = [task EXCEPT ![f] = "stopped"]
    /\ EndBuild(f)
    /\ UNCHANGED <<src, facts, callVars, flights, current, waiters, stopped, read, cache>>

(***************************************************************************)
(* run() after its shielded await                                          *)
(***************************************************************************)

\* The waiter that leaves is the last one.
LastWaiter(f) == waiters[f] = 1

\* The flight is forgotten with its last waiter, and stopped if it runs.
\* (Mutant: it is stopped and stays registered.)
KeepFlight(f) == flights
ForgetFlight(f) == IF LastWaiter(f) /\ f \in reusable
                   THEN [flights EXCEPT ![KeyOf(f)] = None] ELSE flights

LeaveFlight(f) ==
    /\ waiters' = [waiters EXCEPT ![f] = @ - 1]
    /\ flights' = ForgetFlight(f)
    /\ stopped' = IF LastWaiter(f) /\ task[f] \in Live THEN stopped \cup {f} ELSE stopped
    /\ UNCHANGED <<reusable, current, task, build_lease, read>>

\* The awaited task has ended.  (Mutant: a failure is not passed on.)
Succeeded(f) == task[f] \in {"done", "degraded"}
Ended(f) == task[f] \in {"done", "degraded", "failed", "stopped"}

Deliver(c) ==
    /\ pc[c] = "waiting"
    /\ Ended(joined[c])
    /\ Leave(c, task[joined[c]])
    /\ LeaveFlight(joined[c])
    /\ ReleaseUnused(c)
    /\ UNCHANGED <<src, facts, option, identity, joined, cache>>

Cancel(c) ==
    /\ pc[c] = "waiting"
    /\ Leave(c, "cancelled")
    /\ LeaveFlight(joined[c])
    /\ ReleaseUnused(c)
    /\ UNCHANGED <<src, facts, option, identity, joined, cache>>

(***************************************************************************)
(* Other users of the index, and the editor                                *)
(***************************************************************************)

HierarchyBegin(h) ==
    /\ JoinIndex(<<h, "build">>) \/ LoadIndex(<<h, "build">>)
    /\ UNCHANGED <<src, facts, callVars, flightVars, cache>>

HierarchyEnd(h) ==
    /\ ReturnLease(<<h, "build">>)
    /\ UNCHANGED <<src, facts, callVars, flightVars, cache>>

Edit ==
    /\ src < MaxEdits
    /\ src' = src + 1
    /\ UNCHANGED <<facts, leaseVars, callVars, flightVars, cache>>

CallStep(c) == Capture(c) \/ Check(c) \/ Hit(c) \/ Join(c) \/ Create(c) \/ Deliver(c)
FlightStep(f) ==
    Start(f) \/ AcquireBuild(f) \/ RunRules(f) \/ Validate(f) \/ Publish(f) \/ Unwind(f)

Next ==
    \/ \E c \in Call : Begin(c) \/ CallStep(c) \/ GiveUp(c) \/ Cancel(c) \/ FlightStep(c)
    \/ \E h \in Hierarchy : HierarchyBegin(h) \/ HierarchyEnd(h)
    \/ Edit

Spec == Init /\ [][Next]_vars

\* The loop runs every ready task, and the threads it awaits return.
FairSpec == Spec /\ \A c \in Call : WF_vars(CallStep(c)) /\ WF_vars(FlightStep(c))

(***************************************************************************)
(* Properties                                                              *)
(***************************************************************************)

\* A lease has exactly one owner as long as it is out, the caller's handler or
\* the build it was handed to, and the owner of a lease really has it: a
\* build that starts late never reads from a lease its caller has returned,
\* and none is left behind by a cancellation at any await.
LeaseHasOneOwner ==
    \A c \in Call :
        LET own(t) == build_lease[c] = t
        IN  /\ (lease[<<c, "identity">>] # None) <=>
                   (c \in identity_lease \/ own(<<c, "identity">>))
            /\ ~(c \in identity_lease /\ own(<<c, "identity">>))
            /\ (lease[<<c, "build">>] # None) <=> own(<<c, "build">>)
            /\ (build_lease[c] # None) <=> task[c] = "scanning"
            /\ c \in identity_lease => pc[c] \in {"capturing", "checking", "checked", "waiting"}

\* "One cancelled caller cannot cancel shared work": a scan that its own
\* caller did not cancel is never answered by a cancellation, not even when
\* it arrives while a stopped flight of the same key is still unwinding.
OnlyOwnCancellation == \A c \in Call : result[c] # "stopped"

\* "Exact concurrent callers share one build": two flights that somebody
\* waits for are never for the same identity and options.
OneBuildPerKey ==
    \A f, g \in reusable :
        f # g /\ waiters[f] > 0 /\ waiters[g] > 0 => KeyOf(f) # KeyOf(g)

\* Every scan is answered or cancelled.
ScanAnswered == \A c \in Call : pc[c] # "idle" ~> pc[c] = "done"

\* "Lexical identity covers the exact texts consumed by regex rules"
\* (docs/architecture.md): a cached result was read from the sources its
\* identity stands for.
CachedMatchesIdentity ==
    \A i \in DOMAIN cache : cache[i].read = cache[i].key[2]

\* One build for each identity, one owner for each lease, a cache within limits,
\* and nobody answered by the cancellation of somebody else.
SharingSound ==
    StructuralTypeOK /\ LeaseHasOneOwner /\ OneBuildPerKey /\ OnlyOwnCancellation
===============================================================================
