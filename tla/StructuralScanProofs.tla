-------------------------- MODULE StructuralScanProofs --------------------------
(***************************************************************************)
(* Proofs about StructuralScanRuntime, for any number of scans and         *)
(* hierarchy builds, any options, result sizes, limits and edits.          *)
(*                                                                         *)
(* A flight counts its waiters exactly (CountInv), and a reusable one is   *)
(* registered under its key exactly as long as somebody waits for it       *)
(* (FlightInv): so two flights of one key are never awaited at once, and a *)
(* flight that is stopped has nobody left to hand its cancellation to.     *)
(* The lease of a scan goes from its handler to its build in one step      *)
(* (LeaseHasOneOwner), and an index somebody has a lease on has loaded its *)
(* text (TextInv): what a build reads is text of some version.             *)
(***************************************************************************)
EXTENDS StructuralScanRuntime, OrderedDictProofs

Before == {"idle", "capturing", "checking", "checked"}

LeaseTypes ==
    /\ src \in Version /\ facts \in Version \cup {None}
    /\ lease \in [Token -> Token \cup {None}]
    /\ returned \subseteq Token /\ dropped \subseteq Token
    /\ text \in [Token -> Version \cup {None}]
    /\ identity_lease \subseteq Call
    /\ build_lease \in [Call -> Token \cup {None}]

CallTypes ==
    /\ option \in Plan
    /\ pc \in [Call -> {"idle", "capturing", "checking", "checked", "waiting", "done"}]
    /\ result \in [Call -> {"none", "hit", "done", "degraded", "failed", "stopped",
                         "cancelled"}]
    /\ identity \in [Call -> Version \cup {None}]
    /\ joined \in [Call -> Call \cup {None}]
    /\ reusable \subseteq Call

FlightTypes ==
    /\ flights \in [Key -> Call \cup {None}]
    /\ current \subseteq Call /\ stopped \subseteq Call
    /\ waiters \in [Call -> Nat]
    /\ task \in [Call -> Live \cup {"none", "done", "degraded", "failed", "stopped"}]
    /\ read \in [Call -> Version \cup {None}]

CacheInv ==
    /\ cache \in Seq(Entry) /\ Fits(cache, EntryBytes, MaxEntries, MaxBytes)
    /\ \A i, j \in DOMAIN cache : cache[i].key = cache[j].key => i = j

\* Nothing has happened to a call that has not asked the runtime yet; the key
\* of a reusable one is complete.
CallInv ==
    \A c \in Call :
        /\ pc[c] \in Before => task[c] = "none"
        /\ pc[c] \in {"idle", "capturing", "checking"} => c \notin reusable
        /\ pc[c] = "waiting" => joined[c] \in Call
        /\ c \in reusable => identity[c] \in Version

WaitingFor(f) == {c \in Call : pc[c] = "waiting" /\ joined[c] = f}

CountInv == \A f \in Call : waiters[f] = Cardinality(WaitingFor(f))

FlightInv ==
    /\ \A f \in reusable : waiters[f] > 0 => flights[KeyOf(f)] = f
    /\ \A k \in Key : flights[k] # None =>
          flights[k] \in reusable /\ KeyOf(flights[k]) = k /\ waiters[flights[k]] > 0
    /\ \A f \in Call : task[f] = "none" => waiters[f] = 0 /\ f \notin stopped
    /\ \A f \in stopped : waiters[f] = 0
    /\ \A f \in Call : task[f] = "stopped" => f \in stopped

TextInv ==
    /\ \A t \in Token : lease[t] # None => text[lease[t]] \in Version
    /\ \A f \in Call :
          /\ build_lease[f] \in {None, <<f, "identity">>, <<f, "build">>}
          /\ task[f] \in {"validating", "publishing"} => read[f] \in Version
    /\ current \subseteq reusable

ScanInv ==
    /\ LeaseTypes /\ CallTypes /\ FlightTypes /\ CacheInv
    /\ CallInv /\ CountInv /\ FlightInv /\ TextInv
    /\ LeaseHasOneOwner /\ OnlyOwnCancellation

(***************************************************************************)
(* What a step leaves alone                                                *)
(***************************************************************************)

LEMMA TokensAreTokens ==
    /\ \A c \in Call : <<c, "identity">> \in Token /\ <<c, "build">> \in Token
    /\ \A h \in Hierarchy : <<h, "build">> \in Token
    /\ \A c \in Call : <<c, "identity">> # <<c, "build">>
    /\ None \notin Token /\ None \notin Call /\ None \notin Version
  BY StructuralAssumption DEF Token, Version

LEMMA KeysAreKeys ==
    ASSUME CallTypes, CallInv, NEW c \in Call, c \in reusable
    PROVE  KeyOf(c) \in Key /\ option[c] \in Option /\ identity[c] \in Version
  BY StructuralAssumption DEF CallTypes, CallInv, KeyOf, Key

\* A lease is granted on an index that has its text.
LEMMA GrantFacts ==
    ASSUME LeaseTypes, TextInv, NEW t \in Token, JoinIndex(t) \/ LoadIndex(t)
    PROVE  /\ lease[t] = None
           /\ \E i \in Token : lease' = [lease EXCEPT ![t] = i] /\ text'[i] \in Version
           /\ returned' = returned /\ dropped' = dropped
           /\ text' \in [Token -> Version \cup {None}]
           /\ \A i \in Token : text[i] \in Version => text'[i] \in Version
<1>1. CASE JoinIndex(t)
  <2>1. PICK i \in Token : Leases!InUse(i) /\ Leases!Grant(t, i) /\ text' = text
    BY <1>1 DEF JoinIndex
  <2>2. text[i] \in Version
    BY <2>1, TokensAreTokens DEF Leases!InUse, TextInv
  <2> QED
    BY <2>1, <2>2 DEF Leases!Grant, LeaseTypes
<1>2. CASE LoadIndex(t)
  BY <1>2 DEF LoadIndex, Leases!Grant, LeaseTypes
<1> QED
  BY <1>1, <1>2

LEMMA ReturnFacts ==
    ASSUME LeaseTypes, NEW t \in Token, ReturnLease(t)
    PROVE  /\ lease[t] # None
           /\ lease' = [lease EXCEPT ![t] = None]
           /\ returned' \subseteq Token /\ dropped' \subseteq Token
           /\ text' = text
  BY DEF ReturnLease, Leases!Return, LeaseTypes

\* A handler that ends returns the lease it still has.
LEMMA ReleaseFacts ==
    ASSUME LeaseTypes, NEW c \in Call, ReleaseUnused(c)
    PROVE  /\ identity_lease' = identity_lease \ {c}
           /\ lease' = IF c \in identity_lease
                       THEN [lease EXCEPT ![<<c, "identity">>] = None] ELSE lease
           /\ returned' \subseteq Token /\ dropped' \subseteq Token
           /\ text' = text
<1>1. CASE c \in identity_lease
  BY <1>1, ReturnFacts, TokensAreTokens DEF ReleaseUnused
<1>2. CASE c \notin identity_lease
  BY <1>2 DEF ReleaseUnused, leaseVars, LeaseTypes
<1> QED
  BY <1>1, <1>2

\* A build that ends returns its own.
LEMMA EndFacts ==
    ASSUME LeaseTypes, NEW f \in Call, EndBuild(f)
    PROVE  /\ build_lease' = [build_lease EXCEPT ![f] = None]
           /\ lease' = IF build_lease[f] # None
                       THEN [lease EXCEPT ![build_lease[f]] = None] ELSE lease
           /\ returned' \subseteq Token /\ dropped' \subseteq Token
           /\ text' = text
<1>1. CASE build_lease[f] # None
  <2>1. build_lease[f] \in Token
    BY <1>1 DEF LeaseTypes
  <2> QED
    BY <1>1, <2>1, ReturnFacts DEF EndBuild
<1>2. CASE build_lease[f] = None
  BY <1>2 DEF EndBuild, leaseVars, LeaseTypes
<1> QED
  BY <1>1, <1>2

\* Nobody begins or ends to wait.
LEMMA CountKept ==
    ASSUME CountInv, UNCHANGED <<waiters, joined>>,
           \A c \in Call : pc'[c] = "waiting" <=> pc[c] = "waiting"
    PROVE  CountInv'
<1>1. \A f \in Call : WaitingFor(f)' = WaitingFor(f)
  BY DEF WaitingFor
<1> QED
  BY <1>1 DEF CountInv

\* No flight is registered, awaited or stopped anew.
LEMMA FlightKept ==
    ASSUME FlightInv,
           UNCHANGED <<flights, option, identity, reusable, waiters, stopped>>,
           \A f \in Call : /\ task'[f] = "none" => task[f] = "none"
                           /\ task'[f] = "stopped" => f \in stopped
    PROVE  FlightInv'
  BY DEF FlightInv, KeyOf

LEMMA CacheKept ==
    ASSUME CacheInv, UNCHANGED cache
    PROVE  CacheInv'
  BY DEF CacheInv

\* Leases stay where they are.
LEMMA OwnersKept ==
    ASSUME LeaseHasOneOwner, UNCHANGED <<lease, identity_lease, build_lease>>,
           \A c \in Call : /\ task'[c] = "scanning" <=> task[c] = "scanning"
                           /\ c \in identity_lease /\ pc[c] # pc'[c] =>
                                pc'[c] \in {"capturing", "checking", "checked", "waiting"}
    PROVE  LeaseHasOneOwner'
  BY DEF LeaseHasOneOwner

\* No text is read.
LEMMA TextKept ==
    ASSUME TextInv, UNCHANGED <<lease, text, build_lease, read, current>>,
           reusable \subseteq reusable',
           \A f \in Call : task'[f] \in {"validating", "publishing"} =>
                               task[f] \in {"validating", "publishing"}
    PROVE  TextInv'
  BY DEF TextInv

\* LeaseHasOneOwner, for one call.
OneOwner(c) ==
    /\ (lease[<<c, "identity">>] # None) <=>
           (c \in identity_lease \/ build_lease[c] = <<c, "identity">>)
    /\ ~(c \in identity_lease /\ build_lease[c] = <<c, "identity">>)
    /\ (lease[<<c, "build">>] # None) <=> build_lease[c] = <<c, "build">>
    /\ (build_lease[c] # None) <=> task[c] = "scanning"
    /\ c \in identity_lease => pc[c] \in {"capturing", "checking", "checked", "waiting"}

\* A step of one flight is about the leases of its own call.
LEMMA OwnersOfOthers ==
    ASSUME LeaseHasOneOwner, NEW f \in Call, OneOwner(f)',
           \A g \in Call : g # f =>
               /\ lease'[<<g, "identity">>] = lease[<<g, "identity">>]
               /\ lease'[<<g, "build">>] = lease[<<g, "build">>]
               /\ build_lease'[g] = build_lease[g] /\ task'[g] = task[g]
               /\ g \in identity_lease' <=> g \in identity_lease
               /\ pc'[g] = pc[g]
    PROVE  LeaseHasOneOwner'
<1>1. \A g \in Call : g # f => OneOwner(g)'
  BY DEF LeaseHasOneOwner, OneOwner
<1>2. \A g \in Call : OneOwner(g)'
  BY <1>1
<1> QED
  BY <1>2 DEF LeaseHasOneOwner, OneOwner

\* A handler ends and returns the lease it still has.
LEMMA OwnersAfterRelease ==
    ASSUME LeaseTypes, LeaseHasOneOwner, TextInv, NEW c \in Call, ReleaseUnused(c),
           UNCHANGED build_lease,
           \A d \in Call : /\ task'[d] = "scanning" <=> task[d] = "scanning"
                           /\ d # c => pc'[d] = pc[d]
    PROVE  LeaseTypes' => LeaseHasOneOwner'
<1>1. /\ identity_lease' = identity_lease \ {c}
      /\ lease' = IF c \in identity_lease
                  THEN [lease EXCEPT ![<<c, "identity">>] = None] ELSE lease
  BY ReleaseFacts
<1>2. \A d \in Call : /\ <<d, "identity">> \in Token /\ <<d, "build">> \in Token
                      /\ <<d, "identity">> # <<c, "identity">> <=> d # c
                      /\ <<d, "build">> # <<c, "identity">>
  BY TokensAreTokens
<1>3. \A d \in Call : /\ lease'[<<d, "build">>] = lease[<<d, "build">>]
                      /\ d # c => lease'[<<d, "identity">>] = lease[<<d, "identity">>]
                      /\ c \in identity_lease => lease'[<<c, "identity">>] = None
                      /\ c \notin identity_lease =>
                           lease'[<<c, "identity">>] = lease[<<c, "identity">>]
  BY <1>1, <1>2 DEF LeaseTypes
<1> QED
  BY <1>1, <1>3 DEF LeaseHasOneOwner

LEMMA TextAfterRelease ==
    ASSUME LeaseTypes, TextInv, NEW c \in Call, ReleaseUnused(c),
           UNCHANGED <<build_lease, read, current, reusable>>,
           \A f \in Call : task'[f] \in {"validating", "publishing"} =>
                               task[f] \in {"validating", "publishing"}
    PROVE  TextInv'
<1>1. text' = text /\ \A t \in Token : lease'[t] # None => lease'[t] = lease[t]
  BY ReleaseFacts, TokensAreTokens DEF LeaseTypes
<1> QED
  BY <1>1 DEF TextInv

LEMMA TypesAfterRelease ==
    ASSUME LeaseTypes, NEW c \in Call, ReleaseUnused(c), UNCHANGED <<src, facts, build_lease>>
    PROVE  LeaseTypes'
  BY ReleaseFacts, TokensAreTokens DEF LeaseTypes

(***************************************************************************)
(* Each action keeps the invariant                                         *)
(***************************************************************************)

LEMMA ScanInitInv == Init => ScanInv
<1> SUFFICES ASSUME Init PROVE ScanInv
  OBVIOUS
<1> USE DEF Init
<1>1. LeaseTypes
  BY StructuralAssumption DEF LeaseTypes, Version
<1>2. CallTypes /\ FlightTypes
  BY DEF CallTypes, FlightTypes
<1>3. CacheInv
  <2>1. cache \in Seq(Entry) /\ DOMAIN cache = {}
    BY EmptySeq
  <2>2. Fits(cache, EntryBytes, MaxEntries, MaxBytes)
    BY StructuralAssumption, EmptyFits
  <2> QED
    BY <2>1, <2>2 DEF CacheInv
<1>4. CallInv /\ TextInv
  BY DEF CallInv, TextInv
<1>5. CountInv
  <2>1. \A f \in Call : WaitingFor(f) = {}
    BY DEF WaitingFor
  <2> QED
    BY <2>1, FS_EmptySet DEF CountInv
<1>6. FlightInv
  BY DEF FlightInv
<1>7. LeaseHasOneOwner /\ OnlyOwnCancellation
  BY TokensAreTokens DEF LeaseHasOneOwner, OnlyOwnCancellation
<1> QED
  BY <1>1, <1>2, <1>3, <1>4, <1>5, <1>6, <1>7 DEF ScanInv

LEMMA BeginKeeps ==
    ASSUME ScanInv, NEW c \in Call, Begin(c)
    PROVE  ScanInv'
<1> USE DEF Begin, flightVars
<1>a. task[c] = "none" /\ c \notin identity_lease
  BY DEF ScanInv, CallInv, LeaseHasOneOwner, Before
<1>b. build_lease[c] = None
  BY <1>a DEF ScanInv, LeaseHasOneOwner
<1>0. /\ task[c] = "none" /\ c \notin identity_lease /\ lease[<<c, "identity">>] = None
      /\ build_lease[c] = None
  BY <1>a, <1>b, TokensAreTokens DEF ScanInv, LeaseHasOneOwner
<1>1. LeaseTypes' /\ TextInv' /\ LeaseHasOneOwner'
  <2>1. CASE Active
    <3>1. JoinIndex(<<c, "identity">>) /\ identity_lease' = identity_lease \cup {c}
      BY <2>1
    <3>2. PICK i \in Token : /\ lease' = [lease EXCEPT ![<<c, "identity">>] = i]
                             /\ text'[i] \in Version
      BY <3>1, GrantFacts, TokensAreTokens DEF ScanInv
    <3>3. /\ returned' = returned /\ dropped' = dropped
          /\ text' \in [Token -> Version \cup {None}]
          /\ \A j \in Token : text[j] \in Version => text'[j] \in Version
      BY <3>1, GrantFacts, TokensAreTokens DEF ScanInv
    <3>4. LeaseTypes'
      BY <3>1, <3>2, <3>3, TokensAreTokens DEF ScanInv, LeaseTypes
    <3>5. TextInv'
      BY <3>2, <3>3, TokensAreTokens DEF ScanInv, TextInv, LeaseTypes
    <3>6. \A d \in Call : /\ lease'[<<d, "build">>] = lease[<<d, "build">>]
                          /\ d # c => lease'[<<d, "identity">>] = lease[<<d, "identity">>]
                          /\ lease'[<<c, "identity">>] # None
      BY <3>2, TokensAreTokens DEF ScanInv, LeaseTypes
    <3>7. /\ build_lease' = build_lease /\ task' = task /\ None \notin Token
          /\ identity_lease' = identity_lease \cup {c}
          /\ pc'[c] = "capturing" /\ \A d \in Call : d # c => pc'[d] = pc[d]
      BY <3>1, TokensAreTokens DEF ScanInv, CallTypes
    <3>8. LeaseHasOneOwner
      BY DEF ScanInv
    <3>9. <<c, "identity">> # None
      BY TokensAreTokens
    <3>10. LeaseHasOneOwner'
      <4> SUFFICES ASSUME NEW d \in Call
                   PROVE  /\ (lease'[<<d, "identity">>] # None) <=>
                                 (d \in identity_lease' \/ build_lease'[d] = <<d, "identity">>)
                          /\ ~(d \in identity_lease' /\ build_lease'[d] = <<d, "identity">>)
                          /\ (lease'[<<d, "build">>] # None) <=> build_lease'[d] = <<d, "build">>
                          /\ (build_lease'[d] # None) <=> task'[d] = "scanning"
                          /\ d \in identity_lease' =>
                                pc'[d] \in {"capturing", "checking", "checked", "waiting"}
        BY DEF LeaseHasOneOwner
      <4>1. CASE d = c
        <5>1. (lease[<<c, "build">>] # None) <=> build_lease[c] = <<c, "build">>
          BY <3>8, Zenon DEF LeaseHasOneOwner
        <5>2. (build_lease[c] # None) <=> task[c] = "scanning"
          BY <3>8, Zenon DEF LeaseHasOneOwner
        <5> QED
          BY ONLY <1>0, <3>6, <3>7, <3>9, <4>1, <5>1, <5>2
      <4>2. CASE d # c
        <5>1. /\ (lease[<<d, "identity">>] # None) <=>
                     (d \in identity_lease \/ build_lease[d] = <<d, "identity">>)
              /\ ~(d \in identity_lease /\ build_lease[d] = <<d, "identity">>)
              /\ (lease[<<d, "build">>] # None) <=> build_lease[d] = <<d, "build">>
              /\ (build_lease[d] # None) <=> task[d] = "scanning"
              /\ d \in identity_lease => pc[d] \in {"capturing", "checking", "checked", "waiting"}
          BY <3>8, Zenon DEF LeaseHasOneOwner
        <5>2. d \in identity_lease' <=> d \in identity_lease
          BY <3>7, <4>2
        <5>3. d \in Call
          OBVIOUS
        <5> QED
          BY ONLY <3>6, <3>7, <4>2, <5>1, <5>2, <5>3
      <4> QED
        BY <4>1, <4>2
    <3> QED
      BY <3>4, <3>5, <3>10
  <2>2. CASE ~Active
    <3>1. UNCHANGED <<lease, returned, dropped, text, identity_lease>>
      BY <2>2 DEF leaseVars
    <3>2. LeaseTypes'
      BY <3>1 DEF ScanInv, LeaseTypes
    <3>3. TextInv'
      BY <3>1, TextKept DEF ScanInv
    <3>4. LeaseHasOneOwner'
      BY <1>0, <3>1, OwnersKept DEF ScanInv, CallTypes
    <3> QED
      BY <3>2, <3>3, <3>4
  <2> QED
    BY <2>1, <2>2
<1>2. CallTypes' /\ FlightTypes'
  BY DEF ScanInv, CallTypes, FlightTypes
<1>3. CacheInv'
  BY CacheKept DEF ScanInv
<1>4. CallInv'
  BY <1>0 DEF ScanInv, CallInv, CallTypes, Before
<1>5. CountInv'
  BY CountKept DEF ScanInv, CallTypes
<1>6. FlightInv'
  <2>1. FlightInv /\ \A f \in Call : task[f] = "stopped" => f \in stopped
    BY DEF ScanInv, FlightInv
  <2> QED
    BY <2>1, FlightKept
<1>7. OnlyOwnCancellation'
  BY DEF ScanInv, OnlyOwnCancellation
<1> QED
  BY <1>1, <1>2, <1>3, <1>4, <1>5, <1>6, <1>7 DEF ScanInv

\* Before a call has asked the runtime its flight is nobody's.
LEMMA FlightUnused ==
    ASSUME ScanInv, NEW c \in Call, pc[c] \in Before
    PROVE  /\ task[c] = "none" /\ waiters[c] = 0 /\ c \notin stopped
           /\ \A k \in Key : flights[k] # c
<1>1. task[c] = "none" /\ waiters[c] = 0 /\ c \notin stopped
  BY DEF ScanInv, CallInv, FlightInv
<1>2. ASSUME NEW k \in Key, flights[k] = c PROVE FALSE
  BY <1>1, <1>2, TokensAreTokens DEF ScanInv, FlightInv
<1> QED
  BY <1>1, <1>2

LEMMA CaptureKeeps ==
    ASSUME ScanInv, NEW c \in Call, Capture(c)
    PROVE  ScanInv'
<1> USE DEF Capture, flightVars, leaseVars
<1>0. c \notin reusable
  BY DEF ScanInv, CallInv
<1>1. LeaseTypes' /\ CallTypes' /\ FlightTypes'
  BY DEF ScanInv, LeaseTypes, CallTypes, FlightTypes
<1>2. CacheInv'
  BY CacheKept DEF ScanInv
<1>3. CallInv'
  BY <1>0 DEF ScanInv, CallInv, CallTypes, Before
<1>4. CountInv'
  BY CountKept DEF ScanInv, CallTypes
<1>5. FlightInv'
  <2>1. \A f \in reusable : KeyOf(f)' = KeyOf(f)
    BY <1>0 DEF KeyOf, ScanInv, CallTypes
  <2> QED
    BY <2>1 DEF ScanInv, FlightInv
<1>6. TextInv'
  BY TextKept DEF ScanInv
<1>7. LeaseHasOneOwner' /\ OnlyOwnCancellation'
  BY OwnersKept DEF ScanInv, CallTypes, OnlyOwnCancellation
<1> QED
  BY <1>1, <1>2, <1>3, <1>4, <1>5, <1>6, <1>7 DEF ScanInv

LEMMA CheckKeeps ==
    ASSUME ScanInv, NEW c \in Call, Check(c)
    PROVE  ScanInv'
<1> USE DEF Check, flightVars, leaseVars
<1>0. waiters[c] = 0 /\ (c \in reusable' => identity[c] \in Version)
  BY FlightUnused DEF ScanInv, CallInv, CallTypes, Current, Before
<1>1. LeaseTypes' /\ CallTypes' /\ FlightTypes'
  BY DEF ScanInv, LeaseTypes, CallTypes, FlightTypes
<1>2. CacheInv'
  BY CacheKept DEF ScanInv
<1>3. CallInv'
  BY <1>0 DEF ScanInv, CallInv, CallTypes, Before
<1>4. CountInv'
  BY CountKept DEF ScanInv, CallTypes
<1>5. FlightInv'
  <2>1. reusable \subseteq reusable' /\ reusable' \subseteq reusable \cup {c}
    OBVIOUS
  <2> QED
    BY <1>0, <2>1 DEF ScanInv, FlightInv, KeyOf
<1>6. TextInv'
  BY TextKept DEF ScanInv
<1>7. LeaseHasOneOwner' /\ OnlyOwnCancellation'
  BY OwnersKept DEF ScanInv, CallTypes, OnlyOwnCancellation
<1> QED
  BY <1>1, <1>2, <1>3, <1>4, <1>5, <1>6, <1>7 DEF ScanInv

\* A call that ends before it has awaited a flight: its answer is r.
LEMMA EndedEarly ==
    ASSUME ScanInv, NEW c \in Call, pc[c] \in Before, pc' = [pc EXCEPT ![c] = "done"],
           NEW r \in {"hit", "failed", "cancelled"}, result' = [result EXCEPT ![c] = r],
           ReleaseUnused(c), CacheInv',
           UNCHANGED <<src, facts, option, identity, joined, reusable, flightVars>>
    PROVE  ScanInv'
<1> USE DEF flightVars
<1>1. LeaseTypes'
  BY TypesAfterRelease DEF ScanInv
<1>2. CallTypes' /\ FlightTypes' /\ OnlyOwnCancellation'
  BY DEF ScanInv, CallTypes, FlightTypes, OnlyOwnCancellation
<1>3. CallInv'
  BY DEF ScanInv, CallInv, CallTypes, Before
<1>4. CountInv'
  BY CountKept DEF ScanInv, CallTypes, Before
<1>5. FlightInv'
  BY DEF ScanInv, FlightInv, KeyOf
<1>6. TextInv'
  BY TextAfterRelease DEF ScanInv
<1>7. LeaseHasOneOwner'
  BY <1>1, OwnersAfterRelease DEF ScanInv, CallTypes
<1> QED
  BY <1>1, <1>2, <1>3, <1>4, <1>5, <1>6, <1>7 DEF ScanInv

LEMMA GiveUpKeeps ==
    ASSUME ScanInv, NEW c \in Call, GiveUp(c)
    PROVE  ScanInv'
<1>1. CacheInv'
  BY CacheKept DEF GiveUp, ScanInv
<1>2. CASE pc[c] = "capturing" /\ Leave(c, "failed")
  BY <1>1, <1>2, EndedEarly DEF GiveUp, Leave, Before
<1>3. CASE pc[c] \in {"capturing", "checking", "checked"} /\ Leave(c, "cancelled")
  BY <1>1, <1>3, EndedEarly DEF GiveUp, Leave, Before
<1> QED
  BY <1>2, <1>3 DEF GiveUp

\* A hit moves its result to the end and keeps the others.
LEMMA HitKeeps ==
    ASSUME ScanInv, NEW c \in Call, Hit(c)
    PROVE  ScanInv'
<1>1. PICK i \in CachedAt(c) : cache' = Touch(cache, cache[i])
  BY DEF Hit
<1>2. i \in DOMAIN cache /\ cache \in Seq(Entry)
  BY <1>1 DEF CachedAt, Position, ScanInv, CacheInv
<1>3. CacheInv'
  <2>1. PICK x \in Entry : x = cache[i] /\ x \in ToSet(cache)
    BY <1>2, ElementOfSeq DEF ToSet
  <2>8. cache' = Touch(cache, x)
    BY <1>1, <2>1, Zenon
  <2>9. cache \in Seq(Entry) /\ x \in Entry /\ x \in ToSet(cache)
    BY <1>2, <2>1, Zenon
  <2>10. /\ Touch(cache, x) \in Seq(Entry) /\ ToSet(Touch(cache, x)) = ToSet(cache) \cup {x}
         /\ Len(Touch(cache, x)) = Len(cache)
         /\ Distinct(cache) => Distinct(Touch(cache, x))
    BY ONLY <2>9, TouchFacts, SMTT(30)
  <2>2. cache' \in Seq(Entry) /\ ToSet(cache') = ToSet(cache) \cup {x} /\ Len(cache') = Len(cache)
    BY <2>8, <2>10, Zenon
  <2>3. ToSet(cache') = ToSet(cache)
    BY <2>1, <2>2
  <2>4. Fits(cache', EntryBytes, MaxEntries, MaxBytes)
    BY <2>2, <2>3 DEF Fits, SizeOf, ScanInv, CacheInv
  <2>5. Distinct(cache) /\ \A d, e \in ToSet(cache) : d.key = e.key => d = e
    BY DEF Distinct, ToSet, ScanInv, CacheInv
  <2>6. Distinct(cache')
    BY <2>5, <2>8, <2>10, Zenon
  <2>7. \A j, k \in DOMAIN cache' : cache'[j].key = cache'[k].key => j = k
    BY <2>3, <2>5, <2>6 DEF Distinct, ToSet
  <2> QED
    BY <2>2, <2>4, <2>7 DEF CacheInv
<1> QED
  BY <1>3, EndedEarly DEF Hit, Leave, Before

\* One more waiter of a flight.
LEMMA CountAwait ==
    ASSUME ScanInv, NEW c \in Call, NEW f \in Call, pc[c] = "checked", Await(c, f)
    PROVE  CountInv'
<1>1. /\ WaitingFor(f)' = WaitingFor(f) \cup {c} /\ c \notin WaitingFor(f)
      /\ \A g \in Call : g # f => WaitingFor(g)' = WaitingFor(g)
  BY DEF Await, WaitingFor, ScanInv, CallTypes
<1>2. IsFiniteSet(WaitingFor(f))
  BY StructuralAssumption, FS_Subset DEF WaitingFor
<1>3. Cardinality(WaitingFor(f) \cup {c}) = Cardinality(WaitingFor(f)) + 1
  BY <1>1, <1>2, FS_AddElement
<1>4. /\ waiters'[f] = waiters[f] + 1
      /\ \A g \in Call : g # f => waiters'[g] = waiters[g]
  BY DEF Await, ScanInv, FlightTypes
<1> QED
  BY <1>1, <1>3, <1>4 DEF ScanInv, CountInv

\* What a call that joins or creates a flight leaves alone.
LEMMA AwaitKeeps ==
    ASSUME ScanInv, NEW c \in Call, NEW f \in Call, pc[c] = "checked", Await(c, f),
           UNCHANGED <<src, facts, leaseVars, option, result, identity, identity_lease,
                       reusable, current, stopped, build_lease, read, cache>>,
           flights' \in [Key -> Call \cup {None}],
           \/ task' = task
           \/ task[c] = "none" /\ task' = [task EXCEPT ![c] = "created"],
           FlightInv'
    PROVE  ScanInv'
<1> USE DEF Await
<1>1. LeaseTypes' /\ CallTypes' /\ FlightTypes' /\ OnlyOwnCancellation'
  BY DEF leaseVars, ScanInv, LeaseTypes, CallTypes, FlightTypes, Live, OnlyOwnCancellation
<1>2. CacheInv'
  BY CacheKept DEF ScanInv
<1>3. CallInv'
  BY DEF ScanInv, CallInv, CallTypes, FlightTypes, Before
<1>4. CountInv'
  BY CountAwait
<1>5. TextInv'
  <2>1. \A g \in Call : task'[g] \in {"validating", "publishing"} =>
                            task[g] \in {"validating", "publishing"}
    BY DEF ScanInv, FlightTypes
  <2> QED
    BY <2>1, TextKept DEF ScanInv, leaseVars
<1>6. LeaseHasOneOwner'
  <2>1. \A g \in Call : /\ task'[g] = "scanning" <=> task[g] = "scanning"
                        /\ pc[g] # pc'[g] => pc'[g] = "waiting"
    BY DEF ScanInv, FlightTypes, CallTypes
  <2> QED
    BY <2>1, OwnersKept DEF ScanInv, leaseVars
<1> QED
  BY <1>1, <1>2, <1>3, <1>4, <1>5, <1>6 DEF ScanInv

LEMMA JoinKeeps ==
    ASSUME ScanInv, NEW c \in Call, Join(c)
    PROVE  ScanInv'
<1> DEFINE f == flights[KeyOf(c)]
<1>1. c \in reusable /\ KeyOf(c) \in Key /\ f # None /\ Registered(c) = f
  BY KeysAreKeys DEF Join, Registered, ScanInv
<1>2. f \in Call /\ f \in reusable /\ KeyOf(f) = KeyOf(c) /\ waiters[f] > 0
  BY <1>1 DEF ScanInv, FlightTypes, FlightInv
<1>3. pc[c] = "checked" /\ Await(c, f)
  BY <1>1 DEF Join, Missed
<1>4. /\ waiters'[f] = waiters[f] + 1 /\ waiters[f] \in Nat
      /\ \A g \in Call : g # f => waiters'[g] = waiters[g]
  BY <1>2, <1>3 DEF Await, ScanInv, FlightTypes
<1>5. f \notin stopped /\ task[f] # "none"
  BY <1>2 DEF ScanInv, FlightInv
<1>6. UNCHANGED <<flights, option, identity, reusable, task, stopped>>
  BY DEF Join
<1> HIDE DEF f
<1>7. FlightInv'
  <2>1. \A g \in reusable : waiters'[g] > 0 => flights[KeyOf(g)] = g
    BY <1>2, <1>4 DEF ScanInv, FlightInv, CallTypes
  <2>2. \A k \in Key : flights[k] # None =>
            flights[k] \in reusable /\ KeyOf(flights[k]) = k /\ waiters'[flights[k]] > 0
    BY <1>4 DEF ScanInv, FlightInv, CallTypes, FlightTypes
  <2>3. \A g \in Call : task[g] = "none" => waiters'[g] = 0 /\ g \notin stopped
    BY <1>4, <1>5 DEF ScanInv, FlightInv
  <2>4. \A g \in stopped : waiters'[g] = 0
    BY <1>4, <1>5 DEF ScanInv, FlightInv, FlightTypes
  <2>5. \A g \in Call : task[g] = "stopped" => g \in stopped
    BY DEF ScanInv, FlightInv
  <2>6. \A g : KeyOf(g)' = KeyOf(g)
    BY <1>6 DEF KeyOf
  <2> QED
    BY <1>6, <2>1, <2>2, <2>3, <2>4, <2>5, <2>6 DEF FlightInv
<1> QED
  BY <1>2, <1>3, <1>7, AwaitKeeps DEF Join, ScanInv, FlightTypes

LEMMA CreateKeeps ==
    ASSUME ScanInv, NEW c \in Call, Create(c)
    PROVE  ScanInv'
<1>1. pc[c] = "checked" /\ Await(c, c)
  BY DEF Create, Missed
<1>2. task[c] = "none" /\ waiters[c] = 0 /\ c \notin stopped /\ \A k \in Key : flights[k] # c
  BY <1>1, FlightUnused DEF Before
<1>3. /\ waiters'[c] = 1
      /\ \A g \in Call : g # c => waiters'[g] = waiters[g]
  BY <1>1, <1>2 DEF Await, ScanInv, FlightTypes
<1>4. /\ task'[c] = "created"
      /\ \A g \in Call : g # c => task'[g] = task[g]
  BY DEF Create, ScanInv, FlightTypes
<1>5. UNCHANGED <<option, identity, reusable, stopped>> /\ \A g : KeyOf(g)' = KeyOf(g)
  BY DEF Create, KeyOf
<1>8. /\ \A g \in Call : task'[g] = "none" => waiters'[g] = 0 /\ g \notin stopped
      /\ \A g \in stopped : waiters'[g] = 0
      /\ \A g \in Call : task'[g] = "stopped" => g \in stopped
  BY <1>2, <1>3, <1>4 DEF ScanInv, FlightInv, FlightTypes
<1>6. CASE c \in reusable
  <2>1. KeyOf(c) \in Key /\ flights[KeyOf(c)] = None
    BY <1>6, KeysAreKeys DEF Create, Registered, ScanInv
  <2>2. flights' = [flights EXCEPT ![KeyOf(c)] = c]
    BY <1>6 DEF Create
  <2>3. /\ flights' \in [Key -> Call \cup {None}]
        /\ flights'[KeyOf(c)] = c
        /\ \A k \in Key : k # KeyOf(c) => flights'[k] = flights[k]
    BY <2>1, <2>2 DEF ScanInv, FlightTypes
  <2>4. \A g \in reusable : waiters'[g] > 0 => flights'[KeyOf(g)] = g
    <3> SUFFICES ASSUME NEW g \in reusable, waiters'[g] > 0, g # c
                 PROVE  flights'[KeyOf(g)] = g
      BY <2>3
    <3>1. g \in Call /\ KeyOf(g) \in Key
      BY KeysAreKeys DEF ScanInv, CallTypes
    <3>2. flights[KeyOf(g)] = g
      BY <1>3, <3>1 DEF ScanInv, FlightInv
    <3> QED
      BY <2>1, <2>3, <3>1, <3>2, TokensAreTokens
  <2>5. \A k \in Key : flights'[k] # None =>
            flights'[k] \in reusable /\ KeyOf(flights'[k]) = k /\ waiters'[flights'[k]] > 0
    BY <1>2, <1>3, <1>6, <2>3 DEF ScanInv, FlightInv, FlightTypes
  <2>6. FlightInv'
    BY <1>5, <1>8, <2>4, <2>5 DEF FlightInv
  <2> QED
    BY <1>1, <1>2, <2>3, <2>6, AwaitKeeps DEF Create
<1>7. CASE c \notin reusable
  <2>1. flights' = flights
    BY <1>7 DEF Create
  <2>2. FlightInv'
    <3>1. \A g \in reusable : g \in Call /\ g # c /\ waiters'[g] = waiters[g]
      BY <1>3, <1>7 DEF ScanInv, CallTypes
    <3>2. /\ \A g \in reusable : waiters'[g] > 0 => flights[KeyOf(g)] = g
          /\ \A k \in Key : flights[k] # None =>
                flights[k] \in reusable /\ KeyOf(flights[k]) = k /\ waiters'[flights[k]] > 0
      BY <3>1 DEF ScanInv, FlightInv
    <3> QED
      BY <1>5, <1>8, <2>1, <3>2 DEF FlightInv
  <2> QED
    BY <1>1, <1>2, <2>1, <2>2, AwaitKeeps DEF Create, ScanInv, FlightTypes
<1> QED
  BY <1>6, <1>7

\* What a flight's own steps leave alone.
LEMMA TaskKeeps ==
    ASSUME ScanInv, NEW f \in Call, task[f] \in Live,
           NEW t \in Live \cup {"done", "degraded", "failed", "stopped"},
           task' = [task EXCEPT ![f] = t], t = "stopped" => f \in stopped,
           UNCHANGED <<option, pc, result, identity, joined, reusable, flights, waiters,
                       stopped>>
    PROVE  CallTypes' /\ CallInv' /\ CountInv' /\ FlightInv' /\ OnlyOwnCancellation'
<1>1. task[f] # "none" /\ t # "none"
  BY DEF Live
<1>2. CallTypes' /\ OnlyOwnCancellation'
  BY DEF ScanInv, CallTypes, OnlyOwnCancellation
<1>3. CallInv'
  BY <1>1 DEF ScanInv, CallInv, FlightTypes
<1>4. CountInv'
  BY CountKept DEF ScanInv
<1>5. FlightInv'
  <2>1. \A g \in Call : /\ task'[g] = "none" => task[g] = "none"
                        /\ task'[g] = "stopped" => g \in stopped
    BY <1>1 DEF ScanInv, FlightTypes, FlightInv
  <2> QED
    BY <2>1, FlightKept DEF ScanInv
<1> QED
  BY <1>2, <1>3, <1>4, <1>5

LEMMA StartKeeps ==
    ASSUME ScanInv, NEW f \in Call, Start(f)
    PROVE  ScanInv'
<1> USE DEF Start, leaseVars
<1>0. build_lease[f] = None /\ identity_lease' = identity_lease \ {f}
  BY DEF ScanInv, LeaseHasOneOwner, TakeOwnership
<1>1. CASE f \in identity_lease
  <2>1. /\ build_lease' = [build_lease EXCEPT ![f] = <<f, "identity">>]
        /\ task' = [task EXCEPT ![f] = "scanning"]
    BY <1>1
  <2>2. CallTypes' /\ CallInv' /\ CountInv' /\ FlightInv' /\ OnlyOwnCancellation'
    BY <2>1, TaskKeeps DEF Live
  <2>3. LeaseTypes'
    BY <1>0, <2>1, TokensAreTokens DEF ScanInv, LeaseTypes
  <2>4. FlightTypes'
    BY <2>1 DEF ScanInv, FlightTypes, Live
  <2>5. TextInv'
    BY <2>1 DEF ScanInv, TextInv, FlightTypes, LeaseTypes
  <2>6. LeaseHasOneOwner'
    <3>1. /\ build_lease'[f] = <<f, "identity">> /\ task'[f] = "scanning"
          /\ \A g \in Call : g # f => build_lease'[g] = build_lease[g] /\ task'[g] = task[g]
      BY <2>1 DEF ScanInv, LeaseTypes, FlightTypes
    <3>2. OneOwner(f)'
      BY <1>0, <1>1, <3>1, TokensAreTokens DEF ScanInv, LeaseHasOneOwner, OneOwner
    <3> QED
      BY <1>0, <3>1, <3>2, OwnersOfOthers DEF ScanInv
  <2> QED
    BY <2>2, <2>3, <2>4, <2>5, <2>6, CacheKept DEF ScanInv
<1>2. CASE f \notin identity_lease
  <2>1. UNCHANGED <<build_lease, identity_lease>> /\ task' = [task EXCEPT ![f] = "acquiring"]
    BY <1>0, <1>2
  <2>2. CallTypes' /\ CallInv' /\ CountInv' /\ FlightInv' /\ OnlyOwnCancellation'
    BY <2>1, TaskKeeps DEF Live
  <2>3. LeaseTypes' /\ FlightTypes'
    BY <2>1 DEF ScanInv, LeaseTypes, FlightTypes, Live
  <2>4. \A g \in Call : /\ task'[g] = "scanning" <=> task[g] = "scanning"
                        /\ task'[g] \in {"validating", "publishing"} =>
                               task[g] \in {"validating", "publishing"}
    BY <2>1 DEF ScanInv, FlightTypes
  <2>5. TextInv' /\ LeaseHasOneOwner'
    BY <2>1, <2>4, TextKept, OwnersKept DEF ScanInv
  <2> QED
    BY <2>2, <2>3, <2>5, CacheKept DEF ScanInv
<1> QED
  BY <1>1, <1>2

LEMMA AcquireBuildKeeps ==
    ASSUME ScanInv, NEW f \in Call, AcquireBuild(f)
    PROVE  ScanInv'
<1> USE DEF AcquireBuild, callVars
<1> DEFINE b == <<f, "build">>
<1>0. b \in Token /\ (JoinIndex(b) \/ LoadIndex(b))
  BY TokensAreTokens
<1> HIDE DEF b
<1>1. PICK i \in Token : lease' = [lease EXCEPT ![b] = i] /\ text'[i] \in Version
  BY <1>0, GrantFacts DEF ScanInv
<1>2. /\ returned' = returned /\ dropped' = dropped
      /\ text' \in [Token -> Version \cup {None}]
      /\ \A j \in Token : text[j] \in Version => text'[j] \in Version
  BY <1>0, GrantFacts DEF ScanInv
<1>3. build_lease' = [build_lease EXCEPT ![f] = b] /\ task' = [task EXCEPT ![f] = "scanning"]
  BY DEF b
<1>4. CallTypes' /\ CallInv' /\ CountInv' /\ FlightInv' /\ OnlyOwnCancellation'
  BY <1>3, TaskKeeps DEF Live
<1>5. LeaseTypes'
  BY <1>0, <1>1, <1>2, <1>3 DEF ScanInv, LeaseTypes
<1>6. FlightTypes'
  BY <1>3 DEF ScanInv, FlightTypes, Live
<1>7. TextInv'
  <2>1. \A t \in Token : lease'[t] # None => text'[lease'[t]] \in Version
    BY <1>1, <1>2 DEF ScanInv, TextInv, LeaseTypes
  <2>2. \A g \in Call :
          /\ build_lease'[g] \in {None, <<g, "identity">>, <<g, "build">>}
          /\ task'[g] \in {"validating", "publishing"} => read[g] \in Version
    BY <1>3 DEF b, ScanInv, TextInv, LeaseTypes, FlightTypes
  <2> QED
    BY <2>1, <2>2 DEF ScanInv, TextInv
<1>8. LeaseHasOneOwner'
  <2>1. /\ build_lease'[f] = b /\ task'[f] = "scanning"
        /\ \A g \in Call : g # f => build_lease'[g] = build_lease[g] /\ task'[g] = task[g]
    BY <1>3 DEF ScanInv, LeaseTypes, FlightTypes
  <2>2. build_lease[f] = None
    BY DEF ScanInv, LeaseHasOneOwner
  <2>3. \A g \in Call : /\ lease'[<<g, "identity">>] = lease[<<g, "identity">>]
                        /\ g # f => lease'[<<g, "build">>] = lease[<<g, "build">>]
                        /\ lease'[<<f, "build">>] # None
    BY <1>1, TokensAreTokens DEF b, ScanInv, LeaseTypes
  <2>4. OneOwner(f)'
    BY <2>1, <2>2, <2>3, TokensAreTokens DEF b, ScanInv, LeaseHasOneOwner, OneOwner
  <2> QED
    BY <2>1, <2>3, <2>4, OwnersOfOthers DEF ScanInv
<1> QED
  BY <1>4, <1>5, <1>6, <1>7, <1>8, CacheKept DEF ScanInv

\* A build ends and returns its lease; its task goes on to t.
LEMMA BuildEnds ==
    ASSUME ScanInv, NEW f \in Call, EndBuild(f), task[f] \in Live,
           NEW t \in {"validating", "failed", "stopped"}, task' = [task EXCEPT ![f] = t],
           read' \in [Call -> Version \cup {None}],
           t = "validating" => read'[f] \in Version,
           t = "stopped" => f \in stopped,
           \A g \in Call : g # f => read'[g] = read[g],
           UNCHANGED <<src, facts, callVars, flights, current, waiters, stopped, cache>>
    PROVE  ScanInv'
<1> USE DEF callVars
<1>1. /\ build_lease' = [build_lease EXCEPT ![f] = None]
      /\ lease' = IF build_lease[f] # None
                  THEN [lease EXCEPT ![build_lease[f]] = None] ELSE lease
      /\ returned' \subseteq Token /\ dropped' \subseteq Token
      /\ text' = text
  BY EndFacts DEF ScanInv
<1>2. CallTypes' /\ CallInv' /\ CountInv' /\ FlightInv' /\ OnlyOwnCancellation'
  BY TaskKeeps DEF Live
<1>3. LeaseTypes'
  BY <1>1 DEF ScanInv, LeaseTypes
<1>4. FlightTypes'
  BY DEF ScanInv, FlightTypes, Live
<1>5. TextInv'
  <2>1. \A u \in Token : lease'[u] # None => lease'[u] = lease[u]
    BY <1>1 DEF ScanInv, LeaseTypes
  <2>2. \A g \in Call :
          /\ build_lease'[g] \in {None, <<g, "identity">>, <<g, "build">>}
          /\ task'[g] \in {"validating", "publishing"} => read'[g] \in Version
    BY <1>1 DEF ScanInv, TextInv, LeaseTypes, FlightTypes
  <2> QED
    BY <1>1, <2>1, <2>2 DEF ScanInv, TextInv
<1>6. LeaseHasOneOwner'
  <2>1. /\ build_lease'[f] = None /\ task'[f] # "scanning"
        /\ \A g \in Call : g # f => build_lease'[g] = build_lease[g] /\ task'[g] = task[g]
    BY <1>1 DEF ScanInv, LeaseTypes, FlightTypes
  <2>2. CASE build_lease[f] = None
    <3>1. lease' = lease
      BY <1>1, <2>2
    <3>2. OneOwner(f)'
      BY <2>1, <2>2, <3>1 DEF ScanInv, LeaseHasOneOwner, OneOwner
    <3> QED
      BY <2>1, <3>1, <3>2, OwnersOfOthers DEF ScanInv
  <2>3. CASE build_lease[f] # None
    <3>1. build_lease[f] \in {<<f, "identity">>, <<f, "build">>}
      BY <2>3 DEF ScanInv, TextInv
    <3>2. /\ \A u \in Token : u # build_lease[f] => lease'[u] = lease[u]
          /\ lease'[build_lease[f]] = None
      BY <1>1, <2>3, <3>1, TokensAreTokens DEF ScanInv, LeaseTypes
    <3>3. \A g \in Call : g # f => /\ lease'[<<g, "identity">>] = lease[<<g, "identity">>]
                                   /\ lease'[<<g, "build">>] = lease[<<g, "build">>]
      BY <3>1, <3>2, TokensAreTokens
    <3>4. CASE build_lease[f] = <<f, "identity">>
      <4>1. lease'[<<f, "identity">>] = None /\ lease'[<<f, "build">>] = lease[<<f, "build">>]
        BY <3>2, <3>4, TokensAreTokens
      <4>2. OneOwner(f)'
        BY <2>1, <3>4, <4>1, TokensAreTokens DEF ScanInv, LeaseHasOneOwner, OneOwner
      <4> QED
        BY <2>1, <3>3, <4>2, OwnersOfOthers DEF ScanInv
    <3>5. CASE build_lease[f] = <<f, "build">>
      <4>1. lease'[<<f, "build">>] = None /\ lease'[<<f, "identity">>] = lease[<<f, "identity">>]
        BY <3>2, <3>5, TokensAreTokens
      <4>2. OneOwner(f)'
        BY <2>1, <3>5, <4>1, TokensAreTokens DEF ScanInv, LeaseHasOneOwner, OneOwner
      <4> QED
        BY <2>1, <3>3, <4>2, OwnersOfOthers DEF ScanInv
    <3> QED
      BY <3>1, <3>4, <3>5
  <2> QED
    BY <2>2, <2>3
<1> QED
  BY <1>2, <1>3, <1>4, <1>5, <1>6, CacheKept DEF ScanInv

LEMMA RunRulesKeeps ==
    ASSUME ScanInv, NEW f \in Call, RunRules(f)
    PROVE  ScanInv'
<1> USE DEF RunRules
<1>0. task[f] \in Live /\ task[f] = "scanning"
  BY DEF Live
<1>1. ASSUME read' = [read EXCEPT ![f] = text[lease[build_lease[f]]]],
             task' = [task EXCEPT ![f] = "validating"]
      PROVE  ScanInv'
  <2>1. build_lease[f] \in Token /\ lease[build_lease[f]] # None
    BY <1>0, TokensAreTokens DEF ScanInv, LeaseHasOneOwner, TextInv
  <2>2. text[lease[build_lease[f]]] \in Version
    BY <2>1 DEF ScanInv, TextInv
  <2>3. /\ read' \in [Call -> Version \cup {None}] /\ read'[f] \in Version
        /\ \A g \in Call : g # f => read'[g] = read[g]
    BY <1>1, <2>2 DEF ScanInv, FlightTypes
  <2> QED
    BY <1>0, <1>1, <2>3, BuildEnds
<1>2. ASSUME read' = read, task' = [task EXCEPT ![f] = "failed"]
      PROVE  ScanInv'
  <2>1. read' \in [Call -> Version \cup {None}]
    BY <1>2 DEF ScanInv, FlightTypes
  <2> QED
    BY <1>0, <1>2, <2>1, BuildEnds
<1> QED
  BY <1>1, <1>2

LEMMA UnwindKeeps ==
    ASSUME ScanInv, NEW f \in Call, Unwind(f)
    PROVE  ScanInv'
<1>1. read' \in [Call -> Version \cup {None}] /\ read' = read
  BY DEF Unwind, ScanInv, FlightTypes
<1> QED
  BY <1>1, BuildEnds DEF Unwind

\* A build that is over goes on without touching leases or texts.
LEMMA OverKeeps ==
    ASSUME ScanInv, NEW f \in Call, task[f] \in {"validating", "publishing"},
           NEW t \in {"publishing", "degraded", "done"}, task' = [task EXCEPT ![f] = t],
           current' \subseteq reusable, CacheInv',
           UNCHANGED <<src, facts, leaseVars, callVars, flights, waiters, stopped,
                       build_lease, read>>
    PROVE  ScanInv'
<1> USE DEF leaseVars, callVars
<1>0. task[f] \in Live /\ t \in Live \cup {"done", "degraded"}
  BY DEF Live
<1>1. CallTypes' /\ CallInv' /\ CountInv' /\ FlightInv' /\ OnlyOwnCancellation'
  BY <1>0, TaskKeeps
<1>2. LeaseTypes'
  BY DEF ScanInv, LeaseTypes
<1>3. FlightTypes'
  BY <1>0 DEF ScanInv, FlightTypes, CallTypes
<1>4. \A g \in Call : /\ task'[g] = "scanning" <=> task[g] = "scanning"
                      /\ task'[g] \in {"validating", "publishing"} =>
                             task[g] \in {"validating", "publishing"}
  BY DEF ScanInv, FlightTypes
<1>5. TextInv' /\ LeaseHasOneOwner'
  BY <1>4, OwnersKept DEF ScanInv, TextInv
<1> QED
  BY <1>1, <1>2, <1>3, <1>5 DEF ScanInv

LEMMA ValidateKeeps ==
    ASSUME ScanInv, NEW f \in Call, Validate(f)
    PROVE  ScanInv'
<1>1. current' \subseteq reusable
  BY DEF Validate, ScanInv, TextInv
<1>2. CacheInv'
  BY CacheKept DEF Validate, ScanInv
<1> QED
  BY <1>1, <1>2, OverKeeps DEF Validate

\* A published result replaces the one of its key, and the oldest make room.
LEMMA PublishKeeps ==
    ASSUME ScanInv, NEW f \in Call, Publish(f)
    PROVE  ScanInv'
<1>1. CacheInv'
  <2>1. CASE cache' = cache
    BY <2>1, CacheKept DEF ScanInv
  <2>2. ASSUME f \in current,
               cache' = EvictOldest(Append(Pop(cache, Position(f)),
                                           [key |-> KeyOf(f), read |-> read[f]]),
                                    EntryBytes, MaxEntries, MaxBytes)
        PROVE  CacheInv'
    <3>1. KeyOf(f) \in Key /\ read[f] \in Version
      BY <2>2, KeysAreKeys DEF Publish, ScanInv, TextInv
    <3>2. PICK x \in Entry : x = [key |-> KeyOf(f), read |-> read[f]]
      BY <3>1 DEF Entry
    <3>3. PICK P \in SUBSET DOMAIN cache : P = Position(f)
      BY DEF Position
    <3>4. cache \in Seq(Entry) /\ \A i, j \in DOMAIN cache : cache[i].key = cache[j].key => i = j
      BY DEF ScanInv, CacheInv
    <3>5. PICK s \in Seq(Entry) : s = Pop(cache, P)
      BY <3>4, PopFacts
    <3>6. Distinct(cache) /\ \A i, j \in P : i = j
      BY <3>3, <3>4 DEF Distinct, Position
    <3>7. /\ ToSet(s) \subseteq ToSet(cache) /\ Distinct(s)
          /\ \A i \in P : cache[i] \notin ToSet(s)
      BY <3>4, <3>5, <3>6, PopFacts
    <3>8. \A e \in ToSet(s) : e.key # KeyOf(f)
      BY <3>3, <3>7 DEF ToSet, Position
    <3>9. PICK u \in Seq(Entry) : u = Append(s, x)
      BY AppendProperties
    <3>10. /\ \A e : e \in ToSet(u) <=> e \in ToSet(s) \/ e = x
           /\ x \notin ToSet(s) => Distinct(u)
      BY <3>7, <3>9, AppendFacts
    <3>11. x.key = KeyOf(f)
      BY <3>2
    <3>12. Distinct(u) /\ \A d, e \in ToSet(u) : d.key = e.key => d = e
      <4>1. ToSet(cache) = {cache[i] : i \in DOMAIN cache}
        BY DEF ToSet
      <4>2. \A d, e \in ToSet(cache) : d.key = e.key => d = e
        BY ONLY <3>4, <4>1
      <4>3. \A d, e \in ToSet(s) : d.key = e.key => d = e
        BY ONLY <3>7, <4>2
      <4> QED
        BY <3>8, <3>10, <3>11, <4>3
    <3>13. cache' = EvictOldest(u, EntryBytes, MaxEntries, MaxBytes)
      BY <2>2, <3>2, <3>3, <3>5, <3>9
    <3>14. /\ cache' \in Seq(Entry) /\ Fits(cache', EntryBytes, MaxEntries, MaxBytes)
           /\ ToSet(cache') \subseteq ToSet(u) /\ Distinct(cache')
      BY <3>12, <3>13, EvictFacts, StructuralAssumption
    <3>15. \A i, j \in DOMAIN cache' : cache'[i].key = cache'[j].key => i = j
      <4>1. \A i \in DOMAIN cache' : cache'[i] \in ToSet(u)
        BY <3>14 DEF ToSet
      <4> QED
        BY <3>12, <3>14, <4>1 DEF Distinct
    <3> QED
      BY <3>14, <3>15 DEF CacheInv
  <2> QED
    BY <2>1, <2>2 DEF Publish
<1>2. current' \subseteq reusable
  BY DEF Publish, ScanInv, TextInv
<1> QED
  BY <1>1, <1>2, OverKeeps DEF Publish

\* One waiter less.
LEMMA CountLeave ==
    ASSUME ScanInv, NEW c \in Call, NEW f \in Call, pc[c] = "waiting", joined[c] = f,
           pc' = [pc EXCEPT ![c] = "done"], UNCHANGED joined,
           waiters' = [waiters EXCEPT ![f] = @ - 1]
    PROVE  CountInv' /\ waiters[f] > 0
<1>1. /\ WaitingFor(f)' = WaitingFor(f) \ {c} /\ c \in WaitingFor(f)
      /\ \A g \in Call : g # f => WaitingFor(g)' = WaitingFor(g)
  BY DEF WaitingFor, ScanInv, CallTypes
<1>2. IsFiniteSet(WaitingFor(f))
  BY StructuralAssumption, FS_Subset DEF WaitingFor
<1>3. Cardinality(WaitingFor(f) \ {c}) = Cardinality(WaitingFor(f)) - 1
  BY <1>1, <1>2, FS_RemoveElement
<1>4. Cardinality(WaitingFor(f)) # 0 /\ waiters[f] \in Nat
  BY <1>1, <1>2, FS_EmptySet DEF ScanInv, FlightTypes
<1>5. /\ waiters'[f] = waiters[f] - 1
      /\ \A g \in Call : g # f => waiters'[g] = waiters[g]
  BY DEF ScanInv, FlightTypes
<1>6. CountInv'
  BY <1>1, <1>3, <1>5 DEF ScanInv, CountInv
<1>7. waiters[f] > 0
  BY <1>4 DEF ScanInv, CountInv
<1> QED
  BY <1>6, <1>7

\* A waiter leaves its flight with answer r, which is no cancellation of others.
LEMMA WaiterLeaves ==
    ASSUME ScanInv, NEW c \in Call, pc[c] = "waiting",
           NEW r \in {"done", "degraded", "failed", "cancelled"}, Leave(c, r),
           LeaveFlight(joined[c]), ReleaseUnused(c),
           UNCHANGED <<src, facts, option, identity, joined, cache>>
    PROVE  ScanInv'
<1> USE DEF Leave
<1>0. PICK f \in Call : f = joined[c]
  BY DEF ScanInv, CallInv
<1>1. /\ waiters' = [waiters EXCEPT ![f] = @ - 1]
      /\ flights' = ForgetFlight(f)
      /\ stopped' = IF LastWaiter(f) /\ task[f] \in Live THEN stopped \cup {f} ELSE stopped
      /\ UNCHANGED <<reusable, current, task, build_lease, read>>
  BY <1>0 DEF LeaveFlight
<1>2. CountInv' /\ waiters[f] > 0
  BY <1>0, <1>1, CountLeave
<1>3. waiters[f] \in Nat /\ waiters'[f] = waiters[f] - 1
  BY <1>1 DEF ScanInv, FlightTypes
<1>4. \A g \in Call : g # f => waiters'[g] = waiters[g]
  BY <1>1 DEF ScanInv, FlightTypes
<1>5. LeaseTypes'
  BY <1>1, TypesAfterRelease DEF ScanInv
<1>6. CallTypes' /\ OnlyOwnCancellation'
  BY <1>1 DEF ScanInv, CallTypes, OnlyOwnCancellation
<1>7. flights' \in [Key -> Call \cup {None}]
  BY <1>1 DEF ScanInv, FlightTypes, ForgetFlight
<1>8. FlightTypes'
  <2>1. waiters' \in [Call -> Nat]
    BY <1>1, <1>2, <1>3 DEF ScanInv, FlightTypes
  <2> QED
    BY <1>1, <1>7, <2>1 DEF ScanInv, FlightTypes
<1>9. CallInv'
  BY <1>1 DEF ScanInv, CallInv, CallTypes, Before
<1>10. TextInv'
  BY <1>1, TextAfterRelease DEF ScanInv
<1>11. LeaseHasOneOwner'
  BY <1>1, <1>5, OwnersAfterRelease DEF ScanInv, CallTypes
<1>12. FlightInv'
  <2>0. \A g : KeyOf(g)' = KeyOf(g)
    BY DEF KeyOf
  <2>1. \A g \in Call : task'[g] = "none" => waiters'[g] = 0 /\ g \notin stopped'
    BY <1>1, <1>2, <1>3, <1>4 DEF ScanInv, FlightInv, Live
  <2>2. \A g \in stopped' : waiters'[g] = 0
    BY <1>1, <1>2, <1>3, <1>4 DEF ScanInv, FlightInv, FlightTypes, LastWaiter
  <2>3. \A g \in Call : task'[g] = "stopped" => g \in stopped'
    BY <1>1 DEF ScanInv, FlightInv
  <2>4. CASE LastWaiter(f) /\ f \in reusable
    <3>1. KeyOf(f) \in Key /\ flights[KeyOf(f)] = f
      BY <1>2, <2>4, KeysAreKeys DEF ScanInv, FlightInv
    <3>2. /\ flights'[KeyOf(f)] = None
          /\ \A k \in Key : k # KeyOf(f) => flights'[k] = flights[k]
      BY <1>1, <2>4, <3>1 DEF ForgetFlight, ScanInv, FlightTypes
    <3>3. \A g \in reusable : waiters'[g] > 0 => flights'[KeyOf(g)] = g
      <4> SUFFICES ASSUME NEW g \in reusable, waiters'[g] > 0
                   PROVE  flights'[KeyOf(g)] = g
        OBVIOUS
      <4>1. g # f
        BY <1>3, <2>4 DEF LastWaiter
      <4>2. g \in Call /\ KeyOf(g) \in Key
        BY KeysAreKeys DEF ScanInv, CallTypes
      <4>3. flights[KeyOf(g)] = g
        BY <1>4, <4>1, <4>2 DEF ScanInv, FlightInv
      <4> QED
        BY <3>1, <3>2, <4>1, <4>2, <4>3
    <3>4. \A k \in Key : flights'[k] # None =>
              flights'[k] \in reusable /\ KeyOf(flights'[k]) = k /\ waiters'[flights'[k]] > 0
      <4> SUFFICES ASSUME NEW k \in Key, flights'[k] # None
                   PROVE  flights'[k] \in reusable /\ KeyOf(flights'[k]) = k
                          /\ waiters'[flights'[k]] > 0
        OBVIOUS
      <4>1. k # KeyOf(f) /\ flights'[k] = flights[k]
        BY <3>2
      <4>2. flights[k] \in reusable /\ KeyOf(flights[k]) = k /\ waiters[flights[k]] > 0
        BY <4>1 DEF ScanInv, FlightInv
      <4>3. flights[k] # f /\ flights[k] \in Call
        BY <4>1, <4>2 DEF ScanInv, CallTypes
      <4> QED
        BY <1>4, <4>1, <4>2, <4>3
    <3> QED
      BY <1>1, <2>0, <2>1, <2>2, <2>3, <3>3, <3>4 DEF FlightInv
  <2>5. CASE ~(LastWaiter(f) /\ f \in reusable)
    <3>1. flights' = flights
      BY <1>1, <2>5 DEF ForgetFlight
    <3>2. \A g \in reusable : g \in Call /\ (waiters'[g] > 0 <=> waiters[g] > 0)
      BY <1>2, <1>3, <1>4, <2>5 DEF LastWaiter, ScanInv, CallTypes
    <3>3. /\ \A g \in reusable : waiters'[g] > 0 => flights[KeyOf(g)] = g
          /\ \A k \in Key : flights[k] # None =>
                flights[k] \in reusable /\ KeyOf(flights[k]) = k /\ waiters'[flights[k]] > 0
      BY <3>2 DEF ScanInv, FlightInv
    <3> QED
      BY <1>1, <2>0, <2>1, <2>2, <2>3, <3>1, <3>3 DEF FlightInv
  <2> QED
    BY <2>4, <2>5
<1> QED
  BY <1>2, <1>5, <1>6, <1>8, <1>9, <1>10, <1>11, <1>12, CacheKept DEF ScanInv

LEMMA DeliverKeeps ==
    ASSUME ScanInv, NEW c \in Call, Deliver(c)
    PROVE  ScanInv'
<1>1. joined[c] \in Call
  BY DEF Deliver, ScanInv, CallInv
<1>2. c \in WaitingFor(joined[c])
  BY DEF Deliver, WaitingFor
<1>3. waiters[joined[c]] # 0
  <2>1. IsFiniteSet(WaitingFor(joined[c]))
    BY StructuralAssumption, FS_Subset DEF WaitingFor
  <2> QED
    BY <1>1, <1>2, <2>1, FS_EmptySet DEF ScanInv, CountInv
<1>4. task[joined[c]] # "stopped"
  BY <1>1, <1>3 DEF ScanInv, FlightInv
<1>5. task[joined[c]] \in {"done", "degraded", "failed", "cancelled"}
  BY <1>4 DEF Deliver, Ended
<1> QED
  BY <1>5, WaiterLeaves DEF Deliver

LEMMA CancelKeeps ==
    ASSUME ScanInv, NEW c \in Call, Cancel(c)
    PROVE  ScanInv'
  BY WaiterLeaves DEF Cancel

\* What the other users of the index, and the editor, leave alone.
LEMMA OthersKeep ==
    ASSUME ScanInv, UNCHANGED <<callVars, flightVars, cache>>
    PROVE  CallTypes' /\ FlightTypes' /\ CallInv' /\ CountInv' /\ FlightInv' /\ CacheInv'
           /\ OnlyOwnCancellation'
<1> USE DEF callVars, flightVars
<1>1. CallTypes' /\ FlightTypes' /\ OnlyOwnCancellation'
  BY DEF ScanInv, CallTypes, FlightTypes, OnlyOwnCancellation
<1>2. CallInv' /\ CountInv' /\ CacheInv'
  BY CountKept, CacheKept DEF ScanInv, CallInv
<1>3. FlightInv'
  BY DEF ScanInv, FlightInv, KeyOf
<1> QED
  BY <1>1, <1>2, <1>3

LEMMA HierarchyKeeps ==
    ASSUME ScanInv, NEW h \in Hierarchy, HierarchyBegin(h) \/ HierarchyEnd(h)
    PROVE  ScanInv'
<1> PICK t \in Token : t = <<h, "build">>
  BY TokensAreTokens
<1>0. UNCHANGED <<src, facts, callVars, flightVars, cache>>
  BY DEF HierarchyBegin, HierarchyEnd
<1>1. /\ lease' \in [Token -> Token \cup {None}]
      /\ returned' \subseteq Token /\ dropped' \subseteq Token
      /\ text' \in [Token -> Version \cup {None}]
      /\ \A u \in Token : u # t => lease'[u] = lease[u]
      /\ \A u \in Token : lease'[u] # None => text'[lease'[u]] \in Version
  <2>1. CASE HierarchyBegin(h)
    <3>1. JoinIndex(t) \/ LoadIndex(t)
      BY <2>1 DEF HierarchyBegin
    <3>2. PICK i \in Token : lease' = [lease EXCEPT ![t] = i] /\ text'[i] \in Version
      BY <3>1, GrantFacts DEF ScanInv
    <3>3. /\ returned' = returned /\ dropped' = dropped
          /\ text' \in [Token -> Version \cup {None}]
          /\ \A j \in Token : text[j] \in Version => text'[j] \in Version
      BY <3>1, GrantFacts DEF ScanInv
    <3> QED
      BY <3>2, <3>3 DEF ScanInv, LeaseTypes, TextInv
  <2>2. CASE HierarchyEnd(h)
    <3>1. /\ lease' = [lease EXCEPT ![t] = None]
          /\ returned' \subseteq Token /\ dropped' \subseteq Token
          /\ text' = text
      BY <2>2, ReturnFacts DEF HierarchyEnd, ScanInv
    <3> QED
      BY <3>1 DEF ScanInv, LeaseTypes, TextInv
  <2> QED
    BY <2>1, <2>2
<1>2. LeaseTypes'
  BY <1>0, <1>1 DEF ScanInv, LeaseTypes, callVars, flightVars
<1>3. TextInv'
  BY <1>0, <1>1 DEF ScanInv, TextInv, callVars, flightVars
<1>4. LeaseHasOneOwner'
  <2>1. \A c \in Call : <<c, "identity">> # t /\ <<c, "build">> # t
    BY StructuralAssumption
  <2>2. \A c \in Call : /\ lease'[<<c, "identity">>] = lease[<<c, "identity">>]
                        /\ lease'[<<c, "build">>] = lease[<<c, "build">>]
    BY <1>1, <2>1, TokensAreTokens
  <2> QED
    BY <1>0, <2>2 DEF ScanInv, LeaseHasOneOwner, callVars, flightVars
<1> QED
  BY <1>0, <1>2, <1>3, <1>4, OthersKeep DEF ScanInv

LEMMA EditKeeps ==
    ASSUME ScanInv, Edit
    PROVE  ScanInv'
<1> USE DEF Edit, leaseVars, callVars, flightVars
<1>1. LeaseTypes'
  BY StructuralAssumption DEF ScanInv, LeaseTypes, Version
<1>2. TextInv' /\ LeaseHasOneOwner'
  BY DEF ScanInv, TextInv, LeaseHasOneOwner
<1> QED
  BY <1>1, <1>2, OthersKeep DEF ScanInv

LEMMA ScanStepInv == ScanInv /\ [Next]_vars => ScanInv'
<1> SUFFICES ASSUME ScanInv, [Next]_vars PROVE ScanInv'
  OBVIOUS
<1>1. ASSUME NEW c \in Call, Begin(c) \/ CallStep(c) \/ GiveUp(c) \/ Cancel(c)
      PROVE  ScanInv'
  BY <1>1, BeginKeeps, CaptureKeeps, CheckKeeps, HitKeeps, JoinKeeps, CreateKeeps,
     DeliverKeeps, GiveUpKeeps, CancelKeeps DEF CallStep
<1>2. ASSUME NEW f \in Call, FlightStep(f)
      PROVE  ScanInv'
  BY <1>2, StartKeeps, AcquireBuildKeeps, RunRulesKeeps, ValidateKeeps, PublishKeeps,
     UnwindKeeps DEF FlightStep
<1>3. CASE UNCHANGED vars
  <2>1. LeaseTypes' /\ TextInv' /\ LeaseHasOneOwner'
    BY <1>3 DEF vars, leaseVars, callVars, flightVars, ScanInv, LeaseTypes, TextInv,
                LeaseHasOneOwner
  <2> QED
    BY <1>3, <2>1, OthersKeep DEF vars, ScanInv
<1> QED
  BY <1>1, <1>2, <1>3, HierarchyKeeps, EditKeeps DEF Next

(***************************************************************************)
(* Theorems                                                                *)
(***************************************************************************)

\* Every lease has one owner who really has it, whoever is cancelled where; two
\* flights that somebody waits for are never for the same identity and options;
\* no scan is answered by the cancellation of another one; and the results kept
\* have one place for each key, within both limits.
THEOREM StructuralSharing == Spec => []SharingSound
<1>1. ScanInv => SharingSound
  <2> SUFFICES ASSUME ScanInv PROVE SharingSound
    OBVIOUS
  <2>1. StructuralTypeOK
    BY DEF StructuralTypeOK, ScanInv, LeaseTypes, CallTypes, FlightTypes, CacheInv
  <2>2. OneBuildPerKey
    BY DEF OneBuildPerKey, ScanInv, FlightInv
  <2> QED
    BY <2>1, <2>2 DEF SharingSound, ScanInv
<1> QED
  BY <1>1, ScanInitInv, ScanStepInv, PTL DEF Spec

\* The scans and the hierarchy builds use the index as its shared lease allows:
\* they lease what is loaded, all the same index, and return a lease once.
THEOREM LeasesAreShared == Spec => Leases!Spec
<1>1. Init => Leases!Init
  BY DEF Init, Leases!Init
<1>2. \A t \in Token : JoinIndex(t) \/ LoadIndex(t) => Leases!Next
  BY DEF JoinIndex, LoadIndex, Leases!Next
<1>3. \A t \in Token : ReturnLease(t) => Leases!Next
  BY DEF ReturnLease, Leases!Next
<1>4. ScanInv /\ [Next]_vars => [Leases!Next]_Leases!vars
  <2> SUFFICES ASSUME ScanInv, [Next]_vars PROVE Leases!Next \/ UNCHANGED Leases!vars
    OBVIOUS
  <2> USE DEF leaseVars
  <2>1. \A t \in Token : JoinIndex(t) \/ LoadIndex(t) \/ ReturnLease(t) => Leases!Next
    BY <1>2, <1>3
  <2>2. ASSUME UNCHANGED leaseVars PROVE UNCHANGED Leases!vars
    BY <2>2 DEF Leases!vars
  <2>3. ASSUME NEW c \in Call, ReleaseUnused(c) PROVE Leases!Next \/ UNCHANGED Leases!vars
    BY <2>1, <2>2, <2>3, TokensAreTokens DEF ReleaseUnused
  <2>4. ASSUME NEW f \in Call, EndBuild(f) PROVE Leases!Next \/ UNCHANGED Leases!vars
    BY <2>1, <2>2, <2>4 DEF EndBuild, ScanInv, LeaseTypes
  <2>5. ASSUME NEW c \in Call, Begin(c) PROVE Leases!Next \/ UNCHANGED Leases!vars
    BY <2>1, <2>2, <2>5, TokensAreTokens DEF Begin
  <2>6. ASSUME NEW c \in Call, CallStep(c) \/ GiveUp(c) \/ Cancel(c)
        PROVE  Leases!Next \/ UNCHANGED Leases!vars
    BY <2>2, <2>3, <2>6 DEF CallStep, GiveUp, Cancel, Capture, Check, Hit, Join, Create, Deliver
  <2>7. ASSUME NEW f \in Call, FlightStep(f) PROVE Leases!Next \/ UNCHANGED Leases!vars
    BY <2>1, <2>2, <2>4, <2>7, TokensAreTokens
       DEF FlightStep, Start, AcquireBuild, RunRules, Validate, Publish, Unwind
  <2>8. ASSUME NEW h \in Hierarchy, HierarchyBegin(h) \/ HierarchyEnd(h)
        PROVE  Leases!Next
    BY <2>1, <2>8, TokensAreTokens DEF HierarchyBegin, HierarchyEnd
  <2>9. ASSUME Edit \/ UNCHANGED vars PROVE UNCHANGED Leases!vars
    BY <2>2, <2>9 DEF Edit, vars
  <2> QED
    BY <2>5, <2>6, <2>7, <2>8, <2>9 DEF Next
<1> QED
  BY <1>1, <1>4, ScanInitInv, ScanStepInv, PTL DEF Spec, Leases!Spec
===============================================================================
