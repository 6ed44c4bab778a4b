--------------------------- MODULE OrderedDictProofs ---------------------------
(***************************************************************************)
(* What the operations of an ordered dictionary leave in it: which         *)
(* entries, how many, each in one position, and within both limits after   *)
(* an eviction.  For any entries and any limits.                           *)
(***************************************************************************)
EXTENDS OrderedDict, SequenceTheorems, FiniteSetTheorems,
        WellFoundedInduction, TLAPS

\* A set of naturals that is not empty has a least element, and Min is it.
LEMMA LeastIn ==
    ASSUME NEW S \in SUBSET Nat, S # {}
    PROVE  Min(S) \in S /\ \A k \in S : Min(S) <= k
<1> DEFINE R == {ss \in Nat \X Nat : ss[1] < ss[2]}
<1>0. IsWellFoundedOn(R, Nat)
  BY NatLessThanWellFounded DEF OpToRel
<1>1. PICK x \in S : \A y \in S : ~(<<y, x>> \in R)
  <2> HIDE DEF R
  <2> QED
    BY <1>0, WFMin
<1>2. ASSUME NEW y \in S, ~(x <= y) PROVE FALSE
  <2>1. <<y, x>> \in Nat \X Nat /\ y < x
    BY <1>2
  <2> QED
    BY <1>1, <2>1
<1> QED
  BY <1>2 DEF Min

\* No two positions of s hold the same entry.
Distinct(s) == \A i, j \in DOMAIN s : s[i] = s[j] => i = j

\* What RemoveAt leaves, position by position.
LEMMA RemoveAtFacts ==
    ASSUME NEW S, NEW s \in Seq(S), NEW i \in DOMAIN s
    PROVE  /\ RemoveAt(s, i) \in Seq(S)
           /\ Len(RemoveAt(s, i)) = Len(s) - 1
           /\ \A j \in 1 .. Len(s) - 1 :
                 RemoveAt(s, i)[j] = IF j < i THEN s[j] ELSE s[j + 1]
<1>0. i \in 1 .. Len(s) /\ Len(s) \in Nat
  BY LenProperties
<1>1. /\ SubSeq(s, 1, i - 1) \in Seq(S)
      /\ Len(SubSeq(s, 1, i - 1)) = i - 1
      /\ \A j \in 1 .. i - 1 : SubSeq(s, 1, i - 1)[j] = s[j]
  BY <1>0, SubSeqProperties
<1>2. /\ SubSeq(s, i + 1, Len(s)) \in Seq(S)
      /\ Len(SubSeq(s, i + 1, Len(s))) = Len(s) - i
      /\ \A j \in 1 .. Len(s) - i : SubSeq(s, i + 1, Len(s))[j] = s[i + j]
  BY <1>0, SubSeqProperties
<1>3. PICK a \in Seq(S) : a = SubSeq(s, 1, i - 1)
  BY <1>1
<1>4. PICK b \in Seq(S) : b = SubSeq(s, i + 1, Len(s))
  BY <1>2
<1>5. PICK c \in Seq(S) : c = a \o b
  BY ConcatProperties
<1>6. /\ Len(c) = Len(a) + Len(b)
      /\ \A j \in 1 .. Len(a) + Len(b) :
            c[j] = IF j <= Len(a) THEN a[j] ELSE b[j - Len(a)]
  BY <1>5, ConcatProperties
<1>7. /\ Len(a) = i - 1 /\ Len(b) = Len(s) - i
      /\ \A j \in 1 .. i - 1 : a[j] = s[j]
      /\ \A j \in 1 .. Len(s) - i : b[j] = s[i + j]
  BY <1>1, <1>2, <1>3, <1>4
<1>8. \A j \in 1 .. Len(s) - 1 : c[j] = IF j < i THEN s[j] ELSE s[j + 1]
  <2>1. ASSUME NEW j \in 1 .. Len(s) - 1, j < i PROVE c[j] = s[j]
    <3>1. j \in 1 .. Len(a) + Len(b) /\ j <= Len(a) /\ j \in 1 .. i - 1
      BY <1>0, <1>7, <2>1
    <3> QED
      BY <1>6, <1>7, <3>1
  <2>2. ASSUME NEW j \in 1 .. Len(s) - 1, ~(j < i) PROVE c[j] = s[j + 1]
    <3>1. /\ j \in 1 .. Len(a) + Len(b)
          /\ ~(j <= Len(a))
          /\ j - Len(a) \in 1 .. Len(s) - i
          /\ i + (j - Len(a)) = j + 1
      BY <1>0, <1>7, <2>2
    <3>2. c[j] = b[j - Len(a)]
      BY <1>6, <3>1
    <3>3. b[j - Len(a)] = s[i + (j - Len(a))]
      BY <1>7, <3>1
    <3> QED
      BY <3>1, <3>2, <3>3
  <2> QED
    BY <2>1, <2>2
<1>9. Len(c) = Len(s) - 1
  BY <1>0, <1>6, <1>7
<1>10. RemoveAt(s, i) = c
  BY <1>3, <1>4, <1>5 DEF RemoveAt
<1> QED
  BY <1>8, <1>9, <1>10

\* Removing one position leaves the other entries, each in one position if it
\* had one.
LEMMA RemoveAtSet ==
    ASSUME NEW S, NEW s \in Seq(S), NEW i \in DOMAIN s
    PROVE  /\ ToSet(RemoveAt(s, i)) \subseteq ToSet(s)
           /\ ToSet(s) \subseteq ToSet(RemoveAt(s, i)) \cup {s[i]}
           /\ Distinct(s) => Distinct(RemoveAt(s, i)) /\ s[i] \notin ToSet(RemoveAt(s, i))
<1> PICK t \in Seq(S) : t = RemoveAt(s, i)
  BY RemoveAtFacts
<1>0. i \in 1 .. Len(s) /\ Len(s) \in Nat /\ DOMAIN s = 1 .. Len(s)
  BY LenProperties
<1>1. /\ Len(t) = Len(s) - 1
      /\ DOMAIN t = 1 .. Len(s) - 1
      /\ \A j \in DOMAIN t : t[j] = IF j < i THEN s[j] ELSE s[j + 1]
  BY RemoveAtFacts, LenProperties
<1>2. ToSet(t) \subseteq ToSet(s)
  BY <1>0, <1>1 DEF ToSet
<1>3. ASSUME NEW k \in DOMAIN s, k # i PROVE s[k] \in ToSet(t)
  <2>1. CASE k < i
    BY <1>0, <1>1, <2>1 DEF ToSet
  <2>2. CASE k > i
    <3>1. k - 1 \in DOMAIN t /\ t[k - 1] = s[k]
      BY <1>0, <1>1, <2>2
    <3> QED
      BY <3>1 DEF ToSet
  <2> QED
    BY <1>0, <1>3, <2>1, <2>2
<1>4. ToSet(s) \subseteq ToSet(t) \cup {s[i]}
  BY <1>3 DEF ToSet
<1>5. ASSUME Distinct(s) PROVE Distinct(t) /\ s[i] \notin ToSet(t)
  <2>1. \A k \in DOMAIN t : /\ k \in Nat /\ k < i => k \in DOMAIN s /\ t[k] = s[k]
                            /\ k >= i => k + 1 \in DOMAIN s /\ t[k] = s[k + 1]
    BY <1>0, <1>1
  <2>2. \A k, j \in DOMAIN s : s[k] = s[j] => k = j
    BY <1>5 DEF Distinct
  <2>3. ASSUME NEW k \in DOMAIN t PROVE t[k] # s[i]
    BY ONLY <1>0, <2>1, <2>2, <2>3
  <2>4. ASSUME NEW k \in DOMAIN t, NEW j \in DOMAIN t, t[k] = t[j] PROVE k = j
    BY ONLY <1>0, <2>1, <2>2, <2>4
  <2>5. s[i] \notin ToSet(t)
    BY <2>3 DEF ToSet
  <2> QED
    BY <2>4, <2>5 DEF Distinct
<1> QED
  BY <1>2, <1>4, <1>5

\* pop() leaves the entries outside the positions of its key.
LEMMA PopFacts ==
    ASSUME NEW S, NEW s \in Seq(S), NEW P \in SUBSET DOMAIN s
    PROVE  /\ Pop(s, P) \in Seq(S)
           /\ Len(Pop(s, P)) <= Len(s)
           /\ P # {} => Len(Pop(s, P)) = Len(s) - 1
           /\ ToSet(Pop(s, P)) \subseteq ToSet(s)
           /\ ToSet(s) \subseteq ToSet(Pop(s, P)) \cup {s[i] : i \in P}
           /\ Distinct(s) => Distinct(Pop(s, P))
           /\ Distinct(s) /\ (\A i, j \in P : i = j) =>
                 \A i \in P : s[i] \notin ToSet(Pop(s, P))
<1>0. Len(s) \in Nat
  BY LenProperties
<1>1. CASE P = {}
  BY <1>0, <1>1 DEF Pop
<1>2. CASE P # {}
  <2> PICK i \in P : i = CHOOSE k \in P : TRUE
    BY <1>2
  <2>1. Pop(s, P) = RemoveAt(s, i)
    BY <1>2 DEF Pop
  <2>2. i \in DOMAIN s
    OBVIOUS
  <2> HIDE DEF Pop
  <2>3. /\ RemoveAt(s, i) \in Seq(S)
        /\ Len(RemoveAt(s, i)) = Len(s) - 1
    BY <2>2, RemoveAtFacts
  <2>4. /\ ToSet(RemoveAt(s, i)) \subseteq ToSet(s)
        /\ ToSet(s) \subseteq ToSet(RemoveAt(s, i)) \cup {s[i]}
        /\ Distinct(s) => Distinct(RemoveAt(s, i)) /\ s[i] \notin ToSet(RemoveAt(s, i))
    BY <2>2, RemoveAtSet
  <2>5. ASSUME Distinct(s), \A k, j \in P : k = j
        PROVE  \A k \in P : s[k] \notin ToSet(Pop(s, P))
    BY <2>1, <2>4, <2>5
  <2> QED
    BY <1>0, <2>1, <2>3, <2>4, <2>5
<1> QED
  BY <1>1, <1>2

\* Appending an entry that is not there.
LEMMA AppendFacts ==
    ASSUME NEW S, NEW s \in Seq(S), NEW x \in S,
           NEW t \in Seq(S), t = Append(s, x)
    PROVE  /\ Len(t) = Len(s) + 1
           /\ \A e : e \in ToSet(t) <=> e \in ToSet(s) \/ e = x
           /\ Distinct(s) /\ x \notin ToSet(s) => Distinct(t)
<1>1. /\ Len(s) \in Nat
      /\ DOMAIN s = 1 .. Len(s)
      /\ Len(t) = Len(s) + 1
      /\ DOMAIN t = 1 .. Len(s) + 1
      /\ \A i \in 1 .. Len(s) : t[i] = s[i]
      /\ t[Len(s) + 1] = x
  BY AppendProperties, LenProperties
<1>2. ToSet(t) = ToSet(s) \cup {x}
  BY <1>1 DEF ToSet
<1>3. ASSUME Distinct(s), x \notin ToSet(s) PROVE Distinct(t)
  BY <1>1, <1>3 DEF Distinct, ToSet
<1> QED
  BY <1>1, <1>2, <1>3

\* move_to_end() keeps the entries, or adds the one that is moved.
LEMMA TouchFacts ==
    ASSUME NEW S, NEW s \in Seq(S), NEW x \in S
    PROVE  /\ Touch(s, x) \in Seq(S)
           /\ ToSet(Touch(s, x)) = ToSet(s) \cup {x}
           /\ x \in ToSet(s) => Len(Touch(s, x)) = Len(s)
           /\ Distinct(s) => Distinct(Touch(s, x))
<1>0. PICK P \in SUBSET DOMAIN s : P = {i \in DOMAIN s : s[i] = x}
  OBVIOUS
<1>1. PICK t \in Seq(S) : t = Pop(s, P)
  BY PopFacts
<1>2. /\ P # {} => Len(t) = Len(s) - 1
      /\ ToSet(t) \subseteq ToSet(s)
      /\ ToSet(s) \subseteq ToSet(t) \cup {x}
      /\ Distinct(s) => Distinct(t)
  <2>1. {s[i] : i \in P} \subseteq {x}
    BY <1>0
  <2> QED
    BY <1>1, <2>1, PopFacts
<1>3. ASSUME Distinct(s) PROVE x \notin ToSet(t)
  <2>1. \A i, j \in P : i = j
    BY <1>0, <1>3 DEF Distinct
  <2>2. \A i \in P : s[i] \notin ToSet(t)
    BY <1>1, <1>3, <2>1, PopFacts
  <2>3. CASE P = {}
    BY <1>0, <1>2, <2>3 DEF ToSet
  <2>4. CASE P # {}
    BY <1>0, <2>2, <2>4
  <2> QED
    BY <2>3, <2>4
<1>4. x \in ToSet(s) => P # {}
  BY <1>0 DEF ToSet
<1>5. Len(s) \in Nat /\ Len(t) \in Nat
  BY LenProperties
<1>6. PICK u \in Seq(S) : u = Append(t, x)
  BY AppendProperties
<1>7. /\ Len(u) = Len(t) + 1
      /\ ToSet(u) = ToSet(t) \cup {x}
      /\ Distinct(t) /\ x \notin ToSet(t) => Distinct(u)
  <2>1. Len(u) = Len(t) + 1
    BY <1>6, AppendFacts
  <2>2. ToSet(u) = ToSet(t) \cup {x}
    <3>1. \A e : e \in ToSet(u) <=> e \in ToSet(t) \/ e = x
      BY <1>6, AppendFacts
    <3> QED
      BY <3>1
  <2>3. Distinct(t) /\ x \notin ToSet(t) => Distinct(u)
    BY <1>6, AppendFacts
  <2> QED
    BY <2>1, <2>2, <2>3
<1>8. x \in ToSet(s) => Len(u) = Len(s)
  BY <1>2, <1>4, <1>5, <1>7
<1>9. ToSet(u) = ToSet(s) \cup {x}
  BY <1>2, <1>7
<1>10. Distinct(s) => Distinct(u)
  BY <1>2, <1>3, <1>7
<1>11. Touch(s, x) = u
  BY <1>0, <1>1, <1>6 DEF Touch, Without
<1> QED
  BY <1>8, <1>9, <1>10, <1>11

\* A suffix holds entries of the whole, each in one position if it had one.
LEMMA SuffixFacts ==
    ASSUME NEW S, NEW s \in Seq(S), NEW n \in 1 .. Len(s) + 1
    PROVE  /\ SubSeq(s, n, Len(s)) \in Seq(S)
           /\ ToSet(SubSeq(s, n, Len(s))) \subseteq ToSet(s)
           /\ Distinct(s) => Distinct(SubSeq(s, n, Len(s)))
<1>0. Len(s) \in Nat /\ DOMAIN s = 1 .. Len(s)
  BY LenProperties
<1>a. n \in Int /\ Len(s) \in Int /\ \A i \in n .. Len(s) : s[i] \in S
  BY <1>0
<1> PICK t \in Seq(S) : t = SubSeq(s, n, Len(s))
  <2>1. SubSeq(s, n, Len(s)) \in Seq(S)
    BY <1>a, SubSeqProperties
  <2> QED
    BY <2>1
<1>1. /\ Len(t) = IF n <= Len(s) THEN Len(s) - n + 1 ELSE 0
      /\ \A i \in 1 .. Len(s) - n + 1 : t[i] = s[n + i - 1]
  BY <1>0, SubSeqProperties
<1>2. DOMAIN t = 1 .. Len(s) - n + 1
  BY <1>0, <1>1, LenProperties
<1>3. \A i \in DOMAIN t : n + i - 1 \in DOMAIN s /\ t[i] = s[n + i - 1]
  BY <1>0, <1>1, <1>2
<1>4. ToSet(t) \subseteq ToSet(s)
  BY <1>3 DEF ToSet
<1>5. ASSUME Distinct(s), NEW i \in DOMAIN t, NEW j \in DOMAIN t, t[i] = t[j]
      PROVE  i = j
  <2>1. n + i - 1 = n + j - 1
    BY <1>3, <1>5 DEF Distinct
  <2> QED
    BY <1>0, <1>2, <2>1
<1> QED
  BY <1>4, <1>5 DEF Distinct

\* Nothing weighs nothing.
LEMMA EmptyFits ==
    ASSUME NEW size, NEW entries \in Nat, NEW bytes \in Nat, NEW s, s = <<>>
    PROVE  Fits(s, size, entries, bytes) /\ SizeOf(s, size) = 0
<1>1. ToSet(s) = {} /\ Len(s) = 0
  BY EmptySeq, LenProperties DEF ToSet
<1>2. SizeOf(s, size) = 0
  <2>1. UNION {{e} \X (1 .. size[e]) : e \in ToSet(s)} = {}
    BY <1>1
  <2> QED
    BY <2>1, FS_EmptySet DEF SizeOf
<1> QED
  BY <1>1, <1>2 DEF Fits

\* What is left after an eviction fits, and was there before.
LEMMA EvictFacts ==
    ASSUME NEW S, NEW s \in Seq(S), NEW size,
           NEW entries \in Nat, NEW bytes \in Nat,
           NEW t, t = EvictOldest(s, size, entries, bytes)
    PROVE  /\ t \in Seq(S)
           /\ Fits(t, size, entries, bytes)
           /\ ToSet(t) \subseteq ToSet(s)
           /\ Distinct(s) => Distinct(t)
<1>0. Len(s) \in Nat
  BY LenProperties
<1> DEFINE I == {i \in 1 .. Len(s) + 1 : Fits(SubSeq(s, i, Len(s)), size, entries, bytes)}
<1>1. Len(s) + 1 \in I
  <2>1. SubSeq(s, Len(s) + 1, Len(s)) = <<>>
    BY <1>0, SubSeqEmpty
  <2>2. Fits(SubSeq(s, Len(s) + 1, Len(s)), size, entries, bytes)
    BY <2>1, EmptyFits, Zenon
  <2> QED
    BY <1>0, <2>2
<1>2. Min(I) \in I
  <2>1. I \in SUBSET Nat /\ I # {}
    BY <1>0, <1>1
  <2> HIDE DEF I
  <2> QED
    BY <2>1, LeastIn
<1> PICK n \in 1 .. Len(s) + 1 : n = Min(I)
  BY <1>2
<1>3. t = SubSeq(s, n, Len(s))
  BY DEF EvictOldest
<1>4. Fits(SubSeq(s, n, Len(s)), size, entries, bytes)
  BY <1>2
<1> HIDE DEF EvictOldest
<1> QED
  BY <1>3, <1>4, SuffixFacts
===============================================================================
