-------------------------- MODULE CompileSourceIndex --------------------------
(***************************************************************************)
(* One CompileSourceIndex: the build thread preloads it, threads of its    *)
(* holders read through it, close() drops the text.  A thread whose        *)
(* request was cancelled is abandoned, not stopped, so reads go on after   *)
(* close(); files are edited and removed throughout.                       *)
(* CompileSourceRuntime has the leases: no reader starts before the        *)
(* preload has ended, and close() comes after it.                          *)
(*                                                                         *)
(* A file is its version, 0 if there is none.  What is read is             *)
(* [text, id, issue]: the version of the bytes, the version of the         *)
(* identity recorded with them, and compile_content_changed_during_scan.   *)
(***************************************************************************)
EXTENDS Integers, Sequences, FiniteSets, FiniteSetsExt, SequencesExt, Functions

CONSTANTS
    IxFiles,      \* the planned paths, a sequence
    IxReader,     \* threads that read
    IxSize,       \* IxSize[f][v]: bytes of version v of file f
    IxResident,   \* IxResident[f][v]: _entry_resident_bytes of its decoded text
    IxMaxBytes, IxMaxFiles,
    IxMaxVersion  \* bound: versions of a file

IxPaths == Range(IxFiles)

ASSUME IndexAssumption ==
    /\ IxFiles \in Seq(IxPaths)
    /\ IxSize \in [IxPaths -> [1..IxMaxVersion -> Nat]]
    /\ IxResident \in [IxPaths -> [1..IxMaxVersion -> Nat]]
    /\ IxMaxBytes \in Nat /\ IxMaxFiles \in Nat /\ IxMaxVersion \in Nat

VARIABLES
    ixFile, ixPc, ixAt,
    ixPlan,     \* the readable paths with their sizes
    ixPending,  \* what the preload has read
    ixStatus, ixEntries, ixBytes, ixClosed,
    ixReading,  \* reader -> "idle", "missed", "done"
    ixWant,     \* reader -> path
    ixGot       \* reader -> content and whether the index kept it

indexVars == <<ixFile, ixPc, ixAt, ixPlan, ixPending, ixStatus, ixEntries, ixBytes, ixClosed,
               ixReading, ixWant, ixGot>>

IxNothing == [text |-> 0, id |-> 0, issue |-> FALSE, kept |-> FALSE]
Empty == [p \in {} |-> 0]

IndexInit(files, wants) ==
    /\ ixFile \in files /\ ixWant \in wants
    /\ ixPc = "plan" /\ ixAt = 1 /\ ixPlan = <<>> /\ ixPending = Empty
    /\ ixStatus = "planning" /\ ixEntries = Empty /\ ixBytes = 0 /\ ixClosed = FALSE
    /\ ixReading = [t \in IxReader |-> "idle"]
    /\ ixGot = [t \in IxReader |-> IxNothing]

readerVars == <<ixReading, ixWant, ixGot>>
storeVars  == <<ixStatus, ixEntries, ixBytes, ixClosed>>

\* read_source_content of an existing file, with what is on disk afterwards:
\* between the two looks at its identity the file may be edited, before or
\* after its bytes are read, or removed once it is open.
Content(text, id, issue) == [text |-> text, id |-> id, issue |-> issue]
Contents(f) ==
    LET now == ixFile[f]
    IN  {<<Content(now, now, FALSE), now>>, <<Content(now, now, TRUE), 0>>}
        \cup {<<Content(v, now + 1, TRUE), now + 1>> : v \in IF now < IxMaxVersion THEN {now, now + 1} ELSE {}}
ResidentBytes(f, content) == IxResident[f][content.text]

\* What a dictionary of contents holds, byte by byte, and how much that is.
BytesHeld(entries) == UNION {{f} \X (1..ResidentBytes(f, entries[f])) : f \in DOMAIN entries}
Bytes(entries)   == Cardinality(BytesHeld(entries))

\* The dictionary with one more entry, or another content in its place.
With(entries, f, content) ==
    [g \in DOMAIN entries \cup {f} |-> IF g = f THEN content ELSE entries[g]]

\* What read() returns, and whether the index has kept it.
Served(content, kept) ==
    [text |-> content.text, id |-> content.id, issue |-> content.issue, kept |-> kept]

(***************************************************************************)
(* preload(), on the build thread; an OSError or a cancellation makes      *)
(* build() return an empty index that stores nothing                       *)
(***************************************************************************)
PlanFile ==
    /\ ixPc = "plan" /\ ixAt <= Len(IxFiles)
    /\ LET f == IxFiles[ixAt]
       IN  ixPlan' = IF ixFile[f] = 0 THEN ixPlan ELSE Append(ixPlan, [path |-> f, size |-> IxSize[f][ixFile[f]]])
    /\ ixAt' = ixAt + 1
    /\ UNCHANGED <<ixFile, ixPc, ixPending, storeVars, readerVars>>

Planned == FoldLeft(LAMBDA n, e : n + e.size, 0, ixPlan)
OverCapacity ==
    IxMaxBytes = 0 \/ IxMaxFiles = 0 \/ Len(ixPlan) > IxMaxFiles \/ Planned > IxMaxBytes

CheckCapacity ==
    /\ ixPc = "plan" /\ ixAt > Len(IxFiles)
    /\ IF OverCapacity THEN ixPc' = "ended" /\ ixStatus' = "bypass_capacity"
                       ELSE ixPc' = "load" /\ UNCHANGED ixStatus
    /\ ixAt' = 1
    /\ UNCHANGED <<ixFile, ixPlan, ixPending, ixEntries, ixBytes, ixClosed, readerVars>>

Fallback ==
    /\ ixPc' = "ended" /\ ixStatus' = "bypass_capacity"
    /\ UNCHANGED <<ixFile, ixAt, ixPlan, ixPending, ixEntries, ixBytes, ixClosed, readerVars>>

LoadFile ==
    /\ ixPc = "load" /\ ixAt <= Len(ixPlan)
    /\ LET f == ixPlan[ixAt].path
       IN  \/ ixFile[f] = 0 /\ Fallback
           \/ /\ ixFile[f] # 0
              /\ \E c \in Contents(f) :
                   /\ ixFile' = [ixFile EXCEPT ![f] = c[2]]
                   /\ ixPending' = With(ixPending, f, c[1])
              /\ IF Bytes(ixPending') > IxMaxBytes
                 THEN ixPc' = "ended" /\ ixStatus' = "bypass_capacity"
                 ELSE UNCHANGED <<ixPc, ixStatus>>
              /\ ixAt' = ixAt + 1
              /\ UNCHANGED <<ixPlan, ixEntries, ixBytes, ixClosed, readerVars>>

PublishAll ==
    /\ ixPc = "load" /\ ixAt > Len(ixPlan)
    /\ ixEntries' = ixPending /\ ixBytes' = Bytes(ixPending)
    /\ ixStatus' = "ready" /\ ixPc' = "ended"
    /\ UNCHANGED <<ixFile, ixAt, ixPlan, ixPending, ixClosed, readerVars>>

CancelPreload == ixPc \in {"plan", "load"} /\ Fallback

(***************************************************************************)
(* read(): two sections under the lock, nothing between them               *)
(***************************************************************************)
HitEntry(t) ==
    /\ ixGot' = [ixGot EXCEPT ![t] = Served(ixEntries[ixWant[t]], TRUE)]
    /\ ixReading' = [ixReading EXCEPT ![t] = "done"]
    /\ UNCHANGED <<ixFile, ixPc, ixAt, ixPlan, ixPending, storeVars, ixWant>>

ReadHit(t) ==
    /\ ixPc = "ended" /\ ixReading[t] = "idle"
    /\ ixWant[t] \in DOMAIN ixEntries
    /\ HitEntry(t)

ReadMiss(t) ==
    /\ ixPc = "ended" /\ ixReading[t] = "idle"
    /\ ixWant[t] \notin DOMAIN ixEntries
    /\ ixReading' = [ixReading EXCEPT ![t] = "missed"]
    /\ UNCHANGED <<ixFile, ixPc, ixAt, ixPlan, ixPending, storeVars, ixWant, ixGot>>

ReadRecheck(t) ==
    /\ ixReading[t] = "missed"
    /\ ixWant[t] \in DOMAIN ixEntries
    /\ HitEntry(t)

\* Mutant: what an abandoned thread reads after close() is stored.
StoreOpenOrNot(f, content) ==
    /\ ixStatus # "bypass_capacity"
    /\ Cardinality(DOMAIN ixEntries) < IxMaxFiles
    /\ ixBytes + ResidentBytes(f, content) <= IxMaxBytes

CanStore(f, content) ==
    /\ ~ixClosed /\ ixStatus # "bypass_capacity"
    /\ IxMaxBytes > 0 /\ IxMaxFiles > 0
    /\ Cardinality(DOMAIN ixEntries) < IxMaxFiles
    /\ ixBytes + ResidentBytes(f, content) <= IxMaxBytes

ReadFile(t) ==
    LET f == ixWant[t]
    IN  /\ ixReading[t] = "missed"
        /\ f \notin DOMAIN ixEntries /\ ixFile[f] # 0
        /\ \E c \in Contents(f) :
             /\ ixFile' = [ixFile EXCEPT ![f] = c[2]]
             /\ ixGot' = [ixGot EXCEPT ![t] = Served(c[1], CanStore(f, c[1]))]
             /\ IF CanStore(f, c[1])
                THEN /\ ixEntries' = With(ixEntries, f, c[1])
                     /\ ixBytes' = ixBytes + ResidentBytes(f, c[1])
                ELSE UNCHANGED <<ixEntries, ixBytes>>
        /\ ixReading' = [ixReading EXCEPT ![t] = "done"]
        /\ UNCHANGED <<ixPc, ixAt, ixPlan, ixPending, ixStatus, ixClosed, ixWant>>

\* The file is gone: the error goes to the reader, the lock is released.
ReadError(t) ==
    /\ ixReading[t] = "missed"
    /\ ixWant[t] \notin DOMAIN ixEntries /\ ixFile[ixWant[t]] = 0
    /\ ixReading' = [ixReading EXCEPT ![t] = "done"]
    /\ UNCHANGED <<ixFile, ixPc, ixAt, ixPlan, ixPending, storeVars, ixWant, ixGot>>

(***************************************************************************)
(* close(), and the editor                                                 *)
(***************************************************************************)
CloseIndex ==
    /\ ixPc = "ended" /\ ~ixClosed
    /\ ixClosed' = TRUE /\ ixEntries' = Empty /\ ixBytes' = 0
    /\ UNCHANGED <<ixFile, ixPc, ixAt, ixPlan, ixPending, ixStatus, readerVars>>

EditSource(f) ==
    /\ \/ ixFile[f] \in 1..(IxMaxVersion - 1) /\ ixFile' = [ixFile EXCEPT ![f] = @ + 1]
       \/ ixFile[f] # 0 /\ ixFile' = [ixFile EXCEPT ![f] = 0]
    /\ UNCHANGED <<ixPc, ixAt, ixPlan, ixPending, storeVars, readerVars>>

IndexNext ==
    \/ PlanFile \/ CheckCapacity \/ LoadFile \/ PublishAll \/ CancelPreload \/ CloseIndex
    \/ \E t \in IxReader : ReadHit(t) \/ ReadMiss(t) \/ ReadRecheck(t) \/ ReadFile(t) \/ ReadError(t)
    \/ \E f \in IxPaths : EditSource(f)

IndexSpec == IndexInit([IxPaths -> 0..IxMaxVersion], [IxReader -> IxPaths]) /\ [][IndexNext]_indexVars

(***************************************************************************)
(* Properties                                                              *)
(***************************************************************************)
\* The text kept is within both limits and accounted for to the byte, whoever
\* reads and whatever grows between planning and reading; a design that does
\* not fit leaves no prefix behind; nothing is kept after close(), not even by
\* a thread that was between its two looks at the index.
TextBounded ==
    /\ ixBytes = Bytes(ixEntries) /\ ixBytes <= IxMaxBytes
    /\ Cardinality(DOMAIN ixEntries) <= IxMaxFiles
    /\ ixStatus = "ready" /\ ~ixClosed => {ixPlan[i].path : i \in DOMAIN ixPlan} \subseteq DOMAIN ixEntries
    /\ ixStatus = "bypass_capacity" \/ ixClosed => ixEntries = Empty

\* All readers that the index served for one path worked on one text, and a
\* text whose recorded identity is another one's says so.
OneTextPerPath ==
    /\ \A t, u \in IxReader :
         ixGot[t].kept /\ ixGot[u].kept /\ ixWant[t] = ixWant[u] => ixGot[t] = ixGot[u]
    /\ \A t \in IxReader : ixGot[t].text # ixGot[t].id => ixGot[t].issue

IndexSound == TextBounded /\ OneTextPerPath
===============================================================================
