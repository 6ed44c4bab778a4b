------------------------------ MODULE SharedLease ------------------------------
(***************************************************************************)
(* What src/src/compile_source_runtime.py promises its callers, without    *)
(* flights, sessions, threads or counters: a lease is on an index whose    *)
(* text is loaded and stays loaded, all leases of one key are on the same  *)
(* index, a caller gets and returns at most one, and text that has been    *)
(* dropped is never leased again.                                          *)
(***************************************************************************)
EXTENDS Integers

CONSTANTS
    Request,    \* calls of acquire(); an index is named after one of them
    Key,
    None

VARIABLES
    key,        \* key[r]: what call r wants the text of
    lease,      \* lease[r]: the index call r may read now, or None
    returned,   \* the calls that have returned their lease
    dropped     \* the indexes without text

vars == <<key, lease, returned, dropped>>

Init ==
    /\ key \in [Request -> Key]
    /\ lease = [r \in Request |-> None]
    /\ returned = {}
    /\ dropped = {}

InUse(i) == \E r \in Request : lease[r] = i

\* Call r is given index i, the one that others of its key hold, if any.
Grant(r, i) ==
    /\ lease[r] = None
    /\ r \notin returned
    /\ i \notin dropped
    /\ \A s \in Request : lease[s] # None => (lease[s] = i <=> key[s] = key[r])
    /\ lease' = [lease EXCEPT ![r] = i]
    /\ UNCHANGED <<key, returned, dropped>>

\* Call r returns its lease.  The last one may take the text with it.
Return(r) ==
    /\ lease[r] # None
    /\ lease' = [lease EXCEPT ![r] = None]
    /\ returned' = returned \cup {r}
    /\ \/ dropped' = dropped
       \/ /\ \A s \in Request \ {r} : lease[s] # lease[r]
          /\ dropped' = dropped \cup {lease[r]}
    /\ UNCHANGED key

\* Text nobody has a lease on is dropped: its build was orphaned or its last
\* waiter cancelled.
Drop(i) ==
    /\ ~InUse(i)
    /\ dropped' = dropped \cup {i}
    /\ UNCHANGED <<key, lease, returned>>

Next ==
    \/ \E r, i \in Request : Grant(r, i)
    \/ \E r \in Request : Return(r) \/ Drop(r)

Spec == Init /\ [][Next]_vars
===============================================================================
