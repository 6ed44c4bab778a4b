------------------------- MODULE SourceGraphDiskCache -------------------------
(***************************************************************************)
(* src/src/source_graph_disk_cache.py: the directory of artifacts that     *)
(* server processes share.  A publisher writes a private temporary         *)
(* directory and, under the maintenance flock, removes what it replaces,   *)
(* evicts, and renames the temporary directory into place.  A lookup takes *)
(* no lock: it lists the entry, reads its manifest and then its payload    *)
(* while publishers remove and replace the files under it, and trusts what *)
(* it read only if the manifest describes the payload.                     *)
(*                                                                         *)
(* A process is one call of publish() or lookup(); a crash ends it, the    *)
(* kernel then drops its flock and its files stay.  A payload is named by  *)
(* the publisher that wrote it, so two publications of one artifact are    *)
(* told apart.                                                             *)
(***************************************************************************)
EXTENDS Integers, FiniteSets, FiniteSetsExt

CONSTANTS
    Publisher, Reader,      \* calls of publish() and of lookup()
    Digest,                 \* artifact digests; integers, to be ordered
    Wants,                  \* the digest of each call
    EntryBytes,             \* size of the manifest and payload of a digest
    MaxEntries, MaxBytes,
    None, Flipped, Truncated,   \* no file; a file damaged from outside
    MaxDamage               \* bound: how often files are damaged

ASSUME DiskAssumption ==
    /\ Digest \subseteq Int /\ IsFiniteSet(Digest)
    /\ Publisher \cap Reader = {}
    /\ {None, Flipped, Truncated} \cap Publisher = {}
    /\ Cardinality({None, Flipped, Truncated}) = 3
    /\ Wants \in [Publisher \cup Reader -> Digest]
    /\ EntryBytes \in [Digest -> Nat \ {0}]
    /\ MaxEntries \in Nat \ {0} /\ MaxBytes \in Nat \ {0}
    /\ MaxDamage \in Nat

VARIABLES
    dir,        \* digests whose entry directory exists
    manifest,   \* per digest: the publication its manifest describes
    ir,         \* per digest: the publication its payload comes from
    temp,       \* per publisher: its temporary directory
    lock,       \* holder of the maintenance flock
    pc,         \* per process
    owned,      \* per publisher: owned_entries, as scanned under the lock
    removing,   \* per publisher: the entry it is removing
    read,       \* per reader: the publication of the manifest it read
    answer,     \* per process: outcome
    damage      \* how often files were damaged

disk == <<dir, manifest, ir>>
diskVars == <<disk, temp, lock, pc, owned, removing, read, answer, damage>>

StoredFile == Publisher \cup {None, Flipped, Truncated}
Control == {"idle", "staging", "locking", "inspecting", "clearing", "scanning",
            "evicting", "names", "payload", "done", "crashed"}
DiskAnswer == {"none", "published", "already_present", "bypass", "aborted", "miss"}
            \cup StoredFile

\* Every variable has its type, and the lock is held by a publisher that is
\* between taking and dropping it.
DiskTypeOK ==
    /\ dir \subseteq Digest
    /\ manifest \in [Digest -> StoredFile] /\ ir \in [Digest -> StoredFile]
    /\ temp \in [Publisher -> {"none", "partial", "full"}]
    /\ pc \in [Publisher \cup Reader -> Control]
    /\ owned \in [Publisher -> SUBSET Digest]
    /\ removing \in [Publisher -> Digest \cup {None}]
    /\ read \in [Reader -> StoredFile]
    /\ answer \in [Publisher \cup Reader -> DiskAnswer]
    /\ damage \in 0..MaxDamage
    /\ lock \in Publisher \cup {None}
    /\ \A p \in Publisher :
          lock = p <=> pc[p] \in {"inspecting", "clearing", "scanning", "evicting"}

DiskInit ==
    /\ dir = {}
    /\ manifest = [d \in Digest |-> None]
    /\ ir = [d \in Digest |-> None]
    /\ temp = [p \in Publisher |-> "none"]
    /\ lock = None
    /\ pc = [p \in Publisher \cup Reader |-> "idle"]
    /\ owned = [p \in Publisher |-> {}]
    /\ removing = [p \in Publisher |-> None]
    /\ read = [r \in Reader |-> None]
    /\ answer = [p \in Publisher \cup Reader |-> "none"]
    /\ damage = 0

Goto(p, label) == pc' = [pc EXCEPT ![p] = label]

(***************************************************************************)
(* What a directory holds                                                  *)
(***************************************************************************)

\* Both expected names are there.
Listed(d) == manifest[d] # None /\ ir[d] # None

\* _validate_manifest(): the manifest parses, is complete and records the
\* requested identity.
ManifestValid(m) == m \in Publisher

\* The payload is the one the manifest records the hash of.  (Mutant: the
\* payload is not hashed.)
NotHashed(m, i) == ManifestValid(m) /\ i # None
Describes(m, i) == ManifestValid(m) /\ i = m

\* _lookup_entry() on a directory nobody changes.  (Mutant: an entry that is
\* there is taken for a good one.)
DirectoryExists(d) == d \in dir
Intact(d) == d \in dir /\ Listed(d) /\ Describes(manifest[d], ir[d])

\* _inspect_owned_entry(): the names, the manifest and the payload's size are
\* looked at, the payload is not hashed.
OwnedEntry(d) == d \in dir /\ manifest[d] \in Publisher
            /\ ir[d] \in Publisher \cup {Flipped}

\* The sizes of the entries, added up: how many bytes there are in them.
BytesIn(ds) == UNION {{d} \X (1..EntryBytes[d]) : d \in ds}
BytesOf(ds) == Cardinality(BytesIn(ds))

(***************************************************************************)
(* publish()                                                               *)
(***************************************************************************)

\* An entry larger than the cache is not staged.  Otherwise mkdtemp().
PublishStart(p) ==
    /\ pc[p] = "idle"
    /\ IF EntryBytes[Wants[p]] > MaxBytes
       THEN /\ Goto(p, "done")
            /\ answer' = [answer EXCEPT ![p] = "bypass"]
            /\ UNCHANGED temp
       ELSE /\ Goto(p, "staging")
            /\ temp' = [temp EXCEPT ![p] = "partial"]
            /\ UNCHANGED answer
    /\ UNCHANGED <<disk, lock, owned, removing, read, damage>>

\* Both files are written and synced.
Stage(p) ==
    /\ pc[p] = "staging"
    /\ temp' = [temp EXCEPT ![p] = "full"]
    /\ Goto(p, "locking")
    /\ UNCHANGED <<disk, lock, owned, removing, read, answer, damage>>

\* flock(LOCK_EX | LOCK_NB) succeeds.
Flock(p) == lock = None

LockMaintenance(p) ==
    /\ pc[p] = "locking"
    /\ Flock(p)
    /\ lock' = p
    /\ Goto(p, "inspecting")
    /\ UNCHANGED <<disk, temp, owned, removing, read, answer, damage>>

\* The lock is dropped, then the temporary directory of an unpublished entry
\* is removed.
Unlock(p) == lock' = IF lock = p THEN None ELSE lock
DropTemp(p) == temp' = [temp EXCEPT ![p] = "none"]

Finish(p, result) ==
    /\ Goto(p, "done")
    /\ answer' = [answer EXCEPT ![p] = result]
    /\ removing' = [removing EXCEPT ![p] = None]
    /\ Unlock(p)
    /\ DropTemp(p)

\* A valid entry of another publisher is kept, what else is there is removed.
Inspect(p) ==
    LET d == Wants[p]
    IN  /\ pc[p] = "inspecting"
        /\ \/ Intact(d) /\ Finish(p, "already_present")
           \/ /\ ~Intact(d) /\ d \in dir
              /\ removing' = [removing EXCEPT ![p] = d]
              /\ Goto(p, "clearing")
              /\ UNCHANGED <<temp, lock, answer>>
           \/ /\ ~Intact(d) /\ d \notin dir
              /\ Goto(p, "scanning")
              /\ UNCHANGED <<temp, lock, answer, removing>>
        /\ UNCHANGED <<disk, owned, read, damage>>

\* _remove_exact_entry() unlinks the files in an order that depends on the
\* process's hash seed, then removes the directory.
Unlink(p) ==
    LET d == removing[p]
    IN  /\ d # None
        /\ \/ /\ manifest[d] # None
              /\ manifest' = [manifest EXCEPT ![d] = None]
              /\ UNCHANGED ir
           \/ /\ ir[d] # None
              /\ ir' = [ir EXCEPT ![d] = None]
              /\ UNCHANGED manifest
        /\ UNCHANGED <<dir, temp, lock, pc, owned, removing, read, answer, damage>>

RemoveDirectory(p) ==
    LET d == removing[p]
    IN  /\ d # None
        /\ manifest[d] = None /\ ir[d] = None
        /\ dir' = dir \ {d}
        /\ removing' = [removing EXCEPT ![p] = None]
        /\ IF pc[p] = "clearing"
           THEN Goto(p, "scanning") /\ UNCHANGED owned
           ELSE UNCHANGED pc /\ owned' = [owned EXCEPT ![p] = @ \ {d}]
        /\ UNCHANGED <<manifest, ir, temp, lock, read, answer, damage>>

Scan(p) ==
    /\ pc[p] = "scanning"
    /\ owned' = [owned EXCEPT ![p] = {d \in Digest : OwnedEntry(d)}]
    /\ Goto(p, "evicting")
    /\ UNCHANGED <<disk, temp, lock, removing, read, answer, damage>>

\* The entry that comes fits beside ds.
FitsBeside(ds, d) ==
    /\ Cardinality(ds) + 1 <= MaxEntries
    /\ BytesOf(ds) + EntryBytes[d] <= MaxBytes

\* The victim is the smallest digest.
Evict(p) ==
    /\ pc[p] = "evicting"
    /\ removing[p] = None
    /\ ~FitsBeside(owned[p], Wants[p])
    /\ removing' = [removing EXCEPT ![p] = Min(owned[p])]
    /\ UNCHANGED <<disk, temp, lock, pc, owned, read, answer, damage>>

\* rename() makes both files visible at once.  The sync of the shard that
\* follows may still fail.
Rename(p) ==
    LET d == Wants[p]
    IN  /\ pc[p] = "evicting"
        /\ removing[p] = None
        /\ FitsBeside(owned[p], d)
        /\ dir' = dir \cup {d}
        /\ manifest' = [manifest EXCEPT ![d] = p]
        /\ ir' = [ir EXCEPT ![d] = p]
        /\ Finish(p, "published") \/ Finish(p, "aborted")
        /\ UNCHANGED <<owned, read, damage>>

\* A cancellation that is noticed, or an error of the file system, at any
\* point before the rename: in the middle of a removal too.
Abort(p) ==
    /\ pc[p] \notin {"idle", "done", "crashed"}
    /\ Finish(p, "aborted")
    /\ UNCHANGED <<disk, owned, read, damage>>

Crash(p) ==
    /\ pc[p] \notin {"idle", "done", "crashed"}
    /\ Goto(p, "crashed")
    /\ lock' = IF lock = p THEN None ELSE lock
    /\ removing' = [removing EXCEPT ![p] = None]
    /\ UNCHANGED <<disk, temp, owned, read, answer, damage>>

(***************************************************************************)
(* lookup()                                                                *)
(***************************************************************************)

LookupAnswers(r, result) ==
    /\ Goto(r, "done")
    /\ answer' = [answer EXCEPT ![r] = result]

LookupNames(r) ==
    /\ pc[r] = "idle"
    /\ IF Wants[r] \in dir /\ Listed(Wants[r])
       THEN Goto(r, "names") /\ UNCHANGED answer
       ELSE LookupAnswers(r, "miss")
    /\ UNCHANGED <<disk, temp, lock, owned, removing, read, damage>>

LookupManifest(r) ==
    /\ pc[r] = "names"
    /\ IF ManifestValid(manifest[Wants[r]])
       THEN /\ Goto(r, "payload")
            /\ read' = [read EXCEPT ![r] = manifest[Wants[r]]]
            /\ UNCHANGED answer
       ELSE LookupAnswers(r, "miss") /\ UNCHANGED read
    /\ UNCHANGED <<disk, temp, lock, owned, removing, damage>>

\* The payload that is read is the answer, if the manifest describes it.
LookupPayload(r) ==
    /\ pc[r] = "payload"
    /\ LookupAnswers(r, IF Describes(read[r], ir[Wants[r]]) THEN ir[Wants[r]] ELSE "miss")
    /\ UNCHANGED <<disk, temp, lock, owned, removing, read, damage>>

\* A file is damaged from outside.
Damage(d) ==
    /\ damage < MaxDamage
    /\ damage' = damage + 1
    /\ \/ /\ ir[d] \in Publisher
          /\ \E bad \in {Flipped, Truncated} : ir' = [ir EXCEPT ![d] = bad]
          /\ UNCHANGED manifest
       \/ /\ manifest[d] \in Publisher
          /\ manifest' = [manifest EXCEPT ![d] = Truncated]
          /\ UNCHANGED ir
    /\ UNCHANGED <<dir, temp, lock, pc, owned, removing, read, answer>>

PublishStep(p) ==
    \/ Stage(p) \/ LockMaintenance(p) \/ Inspect(p) \/ Unlink(p)
    \/ RemoveDirectory(p) \/ Scan(p) \/ Evict(p) \/ Rename(p)

LookupStep(r) == LookupNames(r) \/ LookupManifest(r) \/ LookupPayload(r)

DiskNext ==
    \/ \E p \in Publisher : PublishStart(p) \/ PublishStep(p) \/ Abort(p) \/ Crash(p)
    \/ \E r \in Reader : LookupStep(r)
    \/ \E d \in Digest : Damage(d)

DiskSpec == DiskInit /\ [][DiskNext]_diskVars

\* A thread that has started runs on; the lock is polled for.
DiskProgress == \E p \in Publisher : PublishStep(p)

(***************************************************************************)
(* Properties                                                              *)
(***************************************************************************)

\* A lookup answers with a payload one publisher wrote for this very digest,
\* and with the manifest of the same publication: never half of an entry that
\* was replaced meanwhile, nor a damaged one.
HitIsOnePublication ==
    \A r \in Reader :
        answer[r] \notin {"none", "miss"} =>
            /\ answer[r] = read[r]
            /\ Wants[answer[r]] = Wants[r]

\* The entries the cache recognises as its own stay within both limits.
OwnedWithinBounds ==
    LET all == {d \in Digest : OwnedEntry(d)}
    IN  Cardinality(all) <= MaxEntries /\ BytesOf(all) <= MaxBytes

\* When publish() reports success, its digest has an intact entry at that
\* moment, whatever torn or damaged entry was there before.
SuccessIsIntact ==
    [][\A p \in Publisher :
          answer[p] = "none" /\ answer'[p] \in {"published", "already_present"}
              => /\ Wants[p] \in dir'
                 /\ manifest'[Wants[p]] \in Publisher
                 /\ ir'[Wants[p]] = manifest'[Wants[p]]]_diskVars

\* A publisher that returns leaves no temporary directory behind, if it can
\* remove its own files; only a crash does.
TempCleaned ==
    \A p \in Publisher : temp[p] # "none" => pc[p] \notin {"idle", "done"}

\* A publisher that has started has not ended.
DiskBusy == \E p \in Publisher : pc[p] \notin {"idle", "done", "crashed"}

\* Lookups are answered from one publication, and the store stays within its limits
\* and keeps no staging directory of a publisher that is alive.
DiskSound == DiskTypeOK /\ HitIsOnePublication /\ OwnedWithinBounds /\ TempCleaned
===============================================================================
