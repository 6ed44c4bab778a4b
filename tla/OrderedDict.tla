------------------------------ MODULE OrderedDict ------------------------------
(***************************************************************************)
(* The collections.OrderedDict with a limit on entries and one on bytes    *)
(* that src/src/source_graph_runtime.py, structural_semantic_runtime.py    *)
(* and structural_scan_runtime.py keep their results in, and               *)
(* observation_session.py its streams: the sequence of its entries, the    *)
(* oldest first.  No entry is in it twice.                                 *)
(***************************************************************************)
EXTENDS Integers, Sequences, FiniteSets, FiniteSetsExt, SequencesExt

\* The bytes of the entries, each entry with its own.
SizeOf(s, size) == Cardinality(UNION {{e} \X (1 .. size[e]) : e \in ToSet(s)})

Fits(s, size, entries, bytes) == Len(s) <= entries /\ SizeOf(s, size) <= bytes

\* popitem(last=False) until the rest fits.  (Mutant: only the number of
\* entries is looked at.)
EvictByCount(s, size, entries, bytes) ==
    SubSeq(s, Max({1, Len(s) - entries + 1}), Len(s))
EvictOldest(s, size, entries, bytes) ==
    LET rest(i) == SubSeq(s, i, Len(s))
    IN  rest(Min({i \in 1..Len(s) + 1 : Fits(rest(i), size, entries, bytes)}))

\* pop(key, None): a key has at most one position.
Pop(s, positions) ==
    IF positions = {} THEN s ELSE RemoveAt(s, CHOOSE i \in positions : TRUE)

Without(s, x) == Pop(s, {i \in DOMAIN s : s[i] = x})

\* move_to_end
Touch(s, x) == Append(Without(s, x), x)
===============================================================================
