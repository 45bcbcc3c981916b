--------------------------- MODULE SSTableProofs ---------------------------
(***************************************************************************)
(* What the operators of SSTable compute, for any keys, block size and     *)
(* restart interval: the order of byte strings, prefix compression, the    *)
(* search in a block, the shortened keys of the index, and what a table    *)
(* that was written returns to a seek, a scan and a point lookup.          *)
(*                                                                         *)
(* A block is described by the sequence of its entries, a table by the     *)
(* sequence of the contents of its blocks.                                 *)
(*                                                                         *)
(* In the second half, what the operators of BlockCache do to a cache: it  *)
(* is described by the sequence of its blocks, the one used last first     *)
(* (Caches), which the pointers of the list, the map and the size must all *)
(* agree with.  The keys and the capacity of the cache are DBIterator's.   *)
(***************************************************************************)
EXTENDS DBIterator, FiniteSetTheorems, SequenceTheorems, TLAPS

Keys == Seq(Nat)
Pairs == [key: Keys, val: Nat]

-----------------------------------------------------------------------------
(* The order of byte strings *)

\* The place where a and b first differ, or one of them ends.
FirstDiff(a, b, i) ==
    /\ i \in Nat \ {0}
    /\ \A j \in 1 .. i - 1 : j <= Len(a) /\ j <= Len(b) /\ a[j] = b[j]
    /\ i > Len(a) \/ i > Len(b) \/ a[i] # b[i]

\* There is always such a place.
LEMMA DiffExists ==
    ASSUME NEW a \in Keys, NEW b \in Keys
    PROVE  \E i : FirstDiff(a, b, i)
<1> DEFINE D == {i \in Nat \ {0} : i > Len(a) \/ i > Len(b) \/ a[i] # b[i]}
<1>1. Len(a) \in Nat /\ Len(b) \in Nat
  BY DEF Keys
<1>2. Len(a) + 1 \in D
  BY <1>1
<1>3. PICK i \in D : \A j \in D : i <= j
  <2>1. D \subseteq Nat /\ D # {}
    BY <1>2
  <2> HIDE DEF D
  <2>2. QED
    BY <2>1, Search!NatMin
<1>4. ASSUME NEW j \in 1 .. i - 1 PROVE j <= Len(a) /\ j <= Len(b) /\ a[j] = b[j]
  <2>1. j \in Nat \ {0} /\ j \notin D
    BY <1>3
  <2>2. QED
    BY <1>1, <2>1
<1>5. FirstDiff(a, b, i)
  BY <1>3, <1>4 DEF FirstDiff
<1>6. QED
  BY <1>5

\* The order of two strings is that of the bytes where they first differ.
LEMMA LessAtDiff ==
    ASSUME NEW a \in Keys, NEW b \in Keys, NEW i, FirstDiff(a, b, i)
    PROVE  Less(a, b) <=> (i <= Len(b) /\ (i <= Len(a) => a[i] < b[i]))
<1>1. Len(a) \in Nat /\ Len(b) \in Nat /\ i \in Nat /\ i > 0
  BY DEF Keys, FirstDiff
<1>2. ASSUME i <= Len(b), i <= Len(a) => a[i] < b[i] PROVE Less(a, b)
  <2>1. i \in 1 .. Len(b) /\ i <= Len(a) + 1
    <3>1. i - 1 \in 1 .. i - 1 \/ i = 1
      BY <1>1
    <3>2. i - 1 <= Len(a)
      BY <1>1, <3>1 DEF FirstDiff
    <3>3. QED
      BY <1>1, <1>2, <3>2
  <2>2. QED
    BY <1>2, <2>1 DEF Less, FirstDiff
<1>3. ASSUME Less(a, b) PROVE i <= Len(b) /\ (i <= Len(a) => a[i] < b[i])
  <2>1. PICK k \in 1 .. Len(b) :
            /\ k <= Len(a) + 1
            /\ \A j \in 1 .. k - 1 : a[j] = b[j]
            /\ k <= Len(a) => a[k] < b[k]
    BY <1>3 DEF Less
  <2>2. ~(k < i)
    <3> SUFFICES ASSUME k < i PROVE FALSE
      OBVIOUS
    <3>1. k \in 1 .. i - 1
      BY <1>1
    <3>2. k <= Len(a) /\ a[k] = b[k]
      BY <3>1 DEF FirstDiff
    <3>3. a[k] \in Nat
      BY <3>2 DEF Keys
    <3>4. QED
      BY <2>1, <3>2, <3>3
  <2>3. ~(i < k)
    <3> SUFFICES ASSUME i < k PROVE FALSE
      OBVIOUS
    <3>1. i \in 1 .. k - 1 /\ i <= Len(a) /\ i <= Len(b)
      BY <1>1, <2>1
    <3>2. a[i] = b[i]
      BY <2>1, <3>1
    <3>3. QED
      BY <1>1, <3>1, <3>2 DEF FirstDiff
  <2>4. i = k
    BY <1>1, <2>2, <2>3
  <2>5. QED
    BY <2>1, <2>4
<1>4. QED
  BY <1>2, <1>3

\* Exactly one of a < b, a = b and b < a.
LEMMA LessTotal ==
    ASSUME NEW a \in Keys, NEW b \in Keys
    PROVE  /\ ~(Less(a, b) /\ Less(b, a))
           /\ Less(a, b) \/ Less(b, a) \/ a = b
           /\ a = b => ~Less(a, b)
<1>1. PICK i : FirstDiff(a, b, i)
  BY DiffExists
<1>2. FirstDiff(b, a, i)
  BY <1>1 DEF FirstDiff
<1>3. /\ Less(a, b) <=> (i <= Len(b) /\ (i <= Len(a) => a[i] < b[i]))
      /\ Less(b, a) <=> (i <= Len(a) /\ (i <= Len(b) => b[i] < a[i]))
  BY <1>1, <1>2, LessAtDiff
<1>4. /\ Len(a) \in Nat /\ Len(b) \in Nat /\ i \in Nat /\ i > 0
      /\ i <= Len(a) => a[i] \in Nat
      /\ i <= Len(b) => b[i] \in Nat
  BY <1>1 DEF Keys, FirstDiff
<1>5. CASE i <= Len(a) /\ i <= Len(b)
  BY <1>1, <1>3, <1>4, <1>5 DEF FirstDiff
<1>6. CASE i <= Len(a) /\ i > Len(b)
  BY <1>1, <1>3, <1>4, <1>6 DEF FirstDiff
<1>7. CASE i > Len(a) /\ i <= Len(b)
  BY <1>1, <1>3, <1>4, <1>7 DEF FirstDiff
<1>8. CASE i > Len(a) /\ i > Len(b)
  <2>1. Len(a) = Len(b)
    <3>1. i - 1 \in 1 .. i - 1 \/ i = 1
      BY <1>4
    <3>2. i - 1 <= Len(a) /\ i - 1 <= Len(b)
      BY <1>1, <1>4, <3>1 DEF FirstDiff
    <3>3. QED
      BY <1>4, <1>8, <3>2
  <2>2. \A j \in 1 .. Len(a) : a[j] = b[j]
    BY <1>1, <1>4, <1>8, <2>1 DEF FirstDiff
  <2>3. a = b
    BY <2>1, <2>2 DEF Keys
  <2>4. QED
    BY <1>3, <1>4, <1>8, <2>3
<1>9. QED
  BY <1>4, <1>5, <1>6, <1>7, <1>8

\* The bytes of a key are numbers.
LEMMA KeyByte ==
    ASSUME NEW a \in Keys, NEW i \in 1 .. Len(a)
    PROVE  a[i] \in Nat
  BY DEF Keys

\* The order is transitive.
LEMMA LessTransitive ==
    ASSUME NEW a \in Keys, NEW b \in Keys, NEW c \in Keys, Less(a, b), Less(b, c)
    PROVE  Less(a, c)
<1>1. PICK i \in 1 .. Len(b) :
        /\ i <= Len(a) + 1
        /\ \A j \in 1 .. i - 1 : a[j] = b[j]
        /\ i <= Len(a) => a[i] < b[i]
  BY DEF Less
<1>2. PICK k \in 1 .. Len(c) :
        /\ k <= Len(b) + 1
        /\ \A j \in 1 .. k - 1 : b[j] = c[j]
        /\ k <= Len(b) => b[k] < c[k]
  BY DEF Less
<1>3. Len(a) \in Nat /\ Len(b) \in Nat /\ Len(c) \in Nat
  BY DEF Keys
<1> DEFINE m == IF i < k THEN i ELSE k
<1>4. m \in 1 .. Len(c) /\ m <= Len(a) + 1
  BY <1>1, <1>2, <1>3
<1>5. ASSUME NEW j \in 1 .. m - 1 PROVE a[j] = c[j]
  <2>1. j \in 1 .. i - 1 /\ j \in 1 .. k - 1
    BY <1>1, <1>2
  <2>2. QED
    BY <1>1, <1>2, <2>1
<1>6. ASSUME m <= Len(a) PROVE a[m] < c[m]
  <2>1. a[m] \in Nat /\ c[m] \in Nat /\ (m <= Len(b) => b[m] \in Nat)
    <3> HIDE DEF m
    <3>1. m \in Nat /\ m >= 1 /\ m <= Len(c)
      BY <1>3, <1>4
    <3>2. m \in 1 .. Len(a) /\ m \in 1 .. Len(c) /\ (m <= Len(b) => m \in 1 .. Len(b))
      BY <1>3, <1>6, <3>1
    <3>3. QED
      BY <3>2, KeyByte
  <2>2. CASE i < k
    <3>1. i \in 1 .. k - 1
      BY <2>2
    <3>2. QED
      BY <1>1, <1>2, <1>6, <2>1, <2>2, <3>1
  <2>3. CASE k < i
    <3>1. k \in 1 .. i - 1 /\ k <= Len(b)
      BY <2>3, <1>3
    <3>2. QED
      BY <1>1, <1>2, <1>6, <2>1, <2>3, <3>1
  <2>4. CASE k = i
    BY <1>1, <1>2, <1>3, <1>6, <2>1, <2>4
  <2>5. QED
    BY <2>2, <2>3, <2>4
<1>7. QED
  BY <1>4, <1>5, <1>6 DEF Less

\* What follows for weak inequalities.
LEMMA LessMixed ==
    ASSUME NEW a \in Keys, NEW b \in Keys, NEW c \in Keys
    PROVE  /\ Less(a, b) /\ AtLeast(c, b) => Less(a, c)
           /\ AtLeast(b, a) /\ Less(b, c) => Less(a, c)
           /\ AtLeast(b, a) /\ AtLeast(c, b) => AtLeast(c, a)
<1>1. ASSUME Less(a, b), AtLeast(c, b) PROVE Less(a, c)
  <2>1. c = b \/ Less(b, c)
    BY <1>1, LessTotal DEF AtLeast
  <2>2. QED
    BY <1>1, <2>1, LessTransitive
<1>2. ASSUME AtLeast(b, a), Less(b, c) PROVE Less(a, c)
  <2>1. a = b \/ Less(a, b)
    BY <1>2, LessTotal DEF AtLeast
  <2>2. QED
    BY <1>2, <2>1, LessTransitive
<1>3. ASSUME AtLeast(b, a), AtLeast(c, b) PROVE AtLeast(c, a)
  <2>1. (a = b \/ Less(a, b)) /\ (b = c \/ Less(b, c))
    BY <1>3, LessTotal DEF AtLeast
  <2>2. a = c \/ Less(a, c)
    BY <2>1, LessTransitive
  <2>3. QED
    BY <2>2, LessTotal DEF AtLeast
<1>4. QED
  BY <1>1, <1>2, <1>3

\* SharedPrefix counts the bytes in front of the first difference.
LEMMA SharedPrefixIs ==
    ASSUME NEW a \in Keys, NEW b \in Keys
    PROVE  SharedPrefix(a, b) \in Nat /\ FirstDiff(a, b, SharedPrefix(a, b) + 1)
<1>1. PICK i : FirstDiff(a, b, i)
  BY DiffExists
<1>2. Len(a) \in Nat /\ Len(b) \in Nat /\ i \in Nat /\ i > 0
  BY <1>1 DEF Keys, FirstDiff
<1> DEFINE same == {k \in 1 .. Len(a) : k <= Len(b) /\ \A j \in 1 .. k : a[j] = b[j]}
<1>3. same = 1 .. (i - 1)
  <2>1. ASSUME NEW k \in same PROVE k \in 1 .. (i - 1)
    <3>1. k \in Nat /\ k >= 1 /\ k <= Len(a) /\ k <= Len(b)
      BY <1>2
    <3>2. ~(i \in 1 .. k)
      <4> SUFFICES ASSUME i \in 1 .. k PROVE FALSE
        OBVIOUS
      <4>1. a[i] = b[i] /\ i <= Len(a) /\ i <= Len(b)
        BY <1>2, <3>1
      <4>2. QED
        BY <1>1, <1>2, <4>1 DEF FirstDiff
    <3>3. QED
      BY <1>2, <3>1, <3>2
  <2>2. ASSUME NEW k \in 1 .. (i - 1) PROVE k \in same
    <3>1. \A j \in 1 .. k : j \in 1 .. (i - 1)
      BY <1>2
    <3>2. k \in 1 .. k /\ k \in 1 .. i - 1
      BY <1>2
    <3>3. k <= Len(a) /\ k <= Len(b) /\ k \in Nat /\ 1 <= k
      BY <1>1, <1>2, <3>2 DEF FirstDiff
    <3>4. \A j \in 1 .. k : a[j] = b[j]
      BY <1>1, <3>1 DEF FirstDiff
    <3>5. QED
      BY <1>2, <3>3, <3>4
  <2> HIDE DEF same
  <2>3. QED
    BY <2>1, <2>2
<1>4. Cardinality(same) = i - 1
  <2> HIDE DEF same
  <2>1. 1 \in Int /\ i - 1 \in Int
    BY <1>2
  <2>2. Cardinality(1 .. (i - 1)) = IF 1 > i - 1 THEN 0 ELSE (i - 1) - 1 + 1
    BY <2>1, FS_Interval
  <2>3. QED
    BY <1>2, <1>3, <2>2
<1>5. SharedPrefix(a, b) = i - 1
  BY <1>4 DEF SharedPrefix
<1>6. QED
  BY <1>1, <1>2, <1>5

\* A byte incremented, and the string cut off behind it: larger than the string.
LEMMA IncrementedIs ==
    ASSUME NEW a \in Keys, NEW i \in 1 .. Len(a)
    PROVE  /\ Incremented(a, i) \in Keys
           /\ Len(Incremented(a, i)) = i
           /\ \A j \in 1 .. i - 1 : Incremented(a, i)[j] = a[j]
           /\ Incremented(a, i)[i] = a[i] + 1
           /\ Less(a, Incremented(a, i))
<1>1. a \in Seq(Nat) /\ Len(a) \in Nat /\ i \in Nat /\ 1 <= i /\ i <= Len(a) /\ a[i] \in Nat
  BY DEF Keys
<1> DEFINE p == SubSeq(a, 1, i - 1)
           q == <<a[i] + 1>>
<1>2. p \in Seq(Nat) /\ Len(p) = i - 1 /\ \A j \in 1 .. i - 1 : p[j] = a[j]
  BY <1>1
<1>3. q \in Seq(Nat) /\ Len(q) = 1 /\ q[1] = a[i] + 1
  BY <1>1
<1> HIDE DEF p, q
<1> DEFINE r == p \o q
<1>4. /\ r \in Seq(Nat) /\ Len(r) = i /\ r[i] = a[i] + 1
      /\ \A j \in 1 .. i - 1 : r[j] = a[j]
  <2>1. /\ r \in Seq(Nat) /\ Len(r) = Len(p) + Len(q)
        /\ \A j \in 1 .. Len(p) + Len(q) : r[j] = IF j <= Len(p) THEN p[j] ELSE q[j - Len(p)]
    BY <1>2, <1>3, ConcatProperties
  <2> HIDE DEF r
  <2>2. Len(p) + Len(q) = i /\ i - Len(p) = 1 /\ ~(i <= Len(p)) /\ i \in 1 .. i
    BY <1>1, <1>2, <1>3
  <2>3. r[i] = q[1]
    BY <2>1, <2>2
  <2>4. ASSUME NEW j \in 1 .. i - 1 PROVE r[j] = a[j]
    <3>1. j \in 1 .. i /\ j <= Len(p)
      BY <1>1, <1>2
    <3>2. QED
      BY <1>2, <2>1, <2>2, <3>1
  <2>5. QED
    BY <1>3, <2>1, <2>2, <2>3, <2>4
<1>5. Incremented(a, i) = r
  BY DEF Incremented, p, q
<1> HIDE DEF r
<1>6. Less(a, r)
  <2>1. i \in 1 .. Len(r) /\ i <= Len(a) + 1 /\ a[i] < r[i]
    BY <1>1, <1>4
  <2>2. QED
    BY <1>4, <2>1 DEF Less
<1>7. QED
  BY <1>4, <1>5, <1>6 DEF Keys

\* The separator of two keys is not below the first and below the second: the
\* index entry of a block lies between it and the next one.
LEMMA ShortSeparatorIs ==
    ASSUME NEW a \in Keys, NEW b \in Keys, Less(a, b)
    PROVE  /\ ShortSeparator(a, b) \in Keys
           /\ AtLeast(ShortSeparator(a, b), a)
           /\ Less(ShortSeparator(a, b), b)
<1> DEFINE i == SharedPrefix(a, b) + 1
<1>1. FirstDiff(a, b, i)
  BY SharedPrefixIs
<1>2. i \in Nat /\ i > 0 /\ Len(a) \in Nat /\ Len(b) \in Nat
  BY <1>1 DEF FirstDiff, Keys
<1>3. i <= Len(b)
  BY <1>1, LessAtDiff
<1> HIDE DEF i
<1>4. CASE i <= Len(a) /\ a[i] + 1 < b[i]
  <2> DEFINE s == Incremented(a, i)
  <2>1. ShortSeparator(a, b) = s
    BY <1>4 DEF ShortSeparator, i
  <2>2. /\ s \in Keys /\ Len(s) = i /\ s[i] = a[i] + 1 /\ Less(a, s)
        /\ \A j \in 1 .. i - 1 : s[j] = a[j]
    BY <1>2, <1>4, IncrementedIs
  <2> HIDE DEF s
  <2>3. AtLeast(s, a)
    BY <2>2, LessTotal DEF AtLeast
  <2>4. Less(s, b)
    <3>1. i \in 1 .. Len(b) /\ i <= Len(s) + 1 /\ s[i] < b[i]
      BY <1>2, <1>3, <1>4, <2>2
    <3>2. \A j \in 1 .. i - 1 : s[j] = b[j]
      BY <1>1, <2>2 DEF FirstDiff
    <3>3. QED
      BY <3>1, <3>2 DEF Less
  <2>5. QED
    BY <2>1, <2>2, <2>3, <2>4
<1>5. CASE ~(i <= Len(a) /\ a[i] + 1 < b[i])
  <2>1. ShortSeparator(a, b) = a
    BY <1>5 DEF ShortSeparator, i
  <2>2. QED
    BY <2>1, LessTotal DEF AtLeast
<1>6. QED
  BY <1>4, <1>5

\* The index entry of the last block is not below its last key.
LEMMA ShortSuccessorIs ==
    ASSUME NEW a \in Keys
    PROVE  ShortSuccessor(a) \in Keys /\ AtLeast(ShortSuccessor(a), a)
<1> DEFINE below == {i \in 1 .. Len(a) : a[i] < MaxByte}
<1>1. CASE below = {}
  BY <1>1, LessTotal DEF ShortSuccessor, AtLeast
<1>2. CASE below # {}
  <2> DEFINE D == {Len(a) - i : i \in below}
  <2>1. Len(a) \in Nat
    BY DEF Keys
  <2>2. D \subseteq Nat /\ D # {}
    BY <1>2, <2>1
  <2>3. PICK d \in D : \A e \in D : d <= e
    <3> HIDE DEF D
    <3> QED BY <2>2, Search!NatMin
  <2>4. PICK m \in below : d = Len(a) - m
    OBVIOUS
  <2>5. ASSUME NEW j \in below PROVE j <= m
    <3>1. d <= Len(a) - j
      BY <2>3
    <3>2. QED
      BY <2>1, <2>4, <3>1
  <2> DEFINE i == CHOOSE i \in below : \A j \in below : j <= i
  <2>6. i \in below
    <3> HIDE DEF below
    <3> QED BY <2>4, <2>5
  <2>7. ShortSuccessor(a) = Incremented(a, i)
    BY <1>2 DEF ShortSuccessor
  <2>8. i \in 1 .. Len(a)
    BY <2>6
  <2> HIDE DEF i, below
  <2>9. QED
    BY <2>7, <2>8, IncrementedIs, LessTotal DEF AtLeast
<1>3. QED
  BY <1>1, <1>2

-----------------------------------------------------------------------------
(* Blocks *)

EncodedEntries == [shared: Nat, suffix: Keys, val: Nat]

BlockWriters ==
    [interval: Nat \ {0}, entries: Seq(EncodedEntries), restarts: Seq(Nat), prevKey: Keys, buf: Nat]

Blocks == [entries: Seq(EncodedEntries), restarts: Seq(Nat), len: Nat]

BlockIterators == [offset: Nat, key: Keys, buf: Keys, cap: Nat, val: Nat, valid: BOOLEAN]

\* The key in front of the i-th entry.
KeyBefore(es, i) == IF i = 1 THEN <<>> ELSE es[i - 1].key

\* Every entry can be decoded from the key before it.
Decodes(entries, es) ==
    /\ Len(entries) = Len(es)
    /\ \A i \in 1 .. Len(es) :
        /\ SubSeq(KeyBefore(es, i), 1, entries[i].shared) \o entries[i].suffix = es[i].key
        /\ entries[i].val = es[i].val

\* The first entry is a restart point; restart points are in order, and hold whole keys.
Restarts(entries, restarts, es) ==
    /\ es # <<>> => Len(restarts) > 0 /\ restarts[1] = 1
    /\ \A r \in 1 .. Len(restarts) :
        /\ restarts[r] \in 1 .. Len(es)
        /\ entries[restarts[r]].shared = 0
        /\ entries[restarts[r]].suffix = es[restarts[r]].key
    /\ \A r, q \in 1 .. Len(restarts) : r < q => restarts[r] < restarts[q]

LastKey(es) == IF es = <<>> THEN <<>> ELSE es[Len(es)].key

\* The block being written, and the finished block, hold the entries es.
Filled(w, es) ==
    /\ w \in BlockWriters
    /\ Decodes(w.entries, es)
    /\ Restarts(w.entries, w.restarts, es)
    /\ w.prevKey = LastKey(es)

Holds(block, es) ==
    /\ block \in Blocks
    /\ Decodes(block.entries, es)
    /\ Restarts(block.entries, block.restarts, es)

SortedPairs(es) == \A i, j \in 1 .. Len(es) : i < j => Less(es[i].key, es[j].key)

\* The iterator stands at the i-th entry.
At(b, es, i) ==
    /\ i \in 1 .. Len(es)
    /\ b.valid
    /\ b.offset = i + 1
    /\ b.key = es[i].key
    /\ b.val = es[i].val

\* A key is put together again from the prefix it shares with another and the rest.
LEMMA PrefixDecodes ==
    ASSUME NEW a \in Keys, NEW b \in Keys, NEW n \in Nat, n <= Len(a), n <= Len(b),
           \A j \in 1 .. n : a[j] = b[j]
    PROVE  /\ SubSeq(a, 1, n) \o SubSeq(b, n + 1, Len(b)) = b
           /\ SubSeq(b, n + 1, Len(b)) \in Keys
<1>1. a \in Seq(Nat) /\ b \in Seq(Nat) /\ Len(a) \in Nat /\ Len(b) \in Nat
  BY DEF Keys
<1> DEFINE p == SubSeq(a, 1, n)
           q == SubSeq(b, n + 1, Len(b))
<1>2. p \in Seq(Nat) /\ Len(p) = n /\ \A j \in 1 .. n : p[j] = b[j]
  BY <1>1
<1>3. /\ q \in Seq(Nat) /\ Len(q) = Len(b) - n
      /\ \A j \in 1 .. Len(b) - n : q[j] = b[n + j]
  <2>1. q \in Seq(Nat) /\ Len(q) = Len(b) - n
    BY <1>1
  <2>2. ASSUME NEW j \in 1 .. Len(b) - n PROVE q[j] = b[n + j]
    BY <1>1
  <2>3. QED
    BY <2>1, <2>2
<1> HIDE DEF p, q
<1>4. /\ p \o q \in Seq(Nat) /\ Len(p \o q) = Len(p) + Len(q)
      /\ \A j \in 1 .. Len(p) + Len(q) : (p \o q)[j] = IF j <= Len(p) THEN p[j] ELSE q[j - Len(p)]
  BY <1>2, <1>3, ConcatProperties
<1>5. Len(p) + Len(q) = Len(b)
  BY <1>1, <1>2, <1>3
<1>6. ASSUME NEW j \in 1 .. Len(b) PROVE (p \o q)[j] = b[j]
  <2>1. CASE j <= n
    BY <1>1, <1>2, <1>4, <1>5, <2>1
  <2>2. CASE j > n
    <3>1. j - n \in 1 .. Len(b) - n /\ n + (j - n) = j
      BY <1>1, <2>2
    <3>2. QED
      BY <1>2, <1>3, <1>4, <1>5, <2>2, <3>1
  <2>3. j <= n \/ j > n
    OBVIOUS
  <2>4. QED
    BY <2>1, <2>2, <2>3
<1>7. p \o q = b
  BY <1>1, <1>4, <1>5, <1>6, SeqEqual
<1>8. QED
  BY <1>3, <1>7 DEF p, q, Keys

\* A new block is empty.
LEMMA NewBlockFilled ==
    ASSUME NEW interval \in Nat \ {0}
    PROVE  Filled(NewBlockWriter(interval), <<>>)
  BY DEF Filled, NewBlockWriter, BlockWriters, Decodes, Restarts, LastKey, Keys

\* An entry of a sequence with one more.
LEMMA AppendIs ==
    ASSUME NEW T, NEW s \in Seq(T), NEW x \in T
    PROVE  /\ Append(s, x) \in Seq(T) /\ Len(Append(s, x)) = Len(s) + 1 /\ Len(s) \in Nat
           /\ Append(s, x)[Len(s) + 1] = x
           /\ \A i \in 1 .. Len(s) : Append(s, x)[i] = s[i]
           /\ Append(s, x) # <<>>
  OBVIOUS

\* What one more entry does to a block.
LEMMA BlockAddFilled ==
    ASSUME NEW w, NEW es \in Seq(Pairs), NEW key \in Keys, NEW val \in Nat, Filled(w, es)
    PROVE  /\ Filled(BlockAdd(w, key, val), Append(es, [key |-> key, val |-> val]))
           /\ BlockAdd(w, key, val).interval = w.interval
<1> DEFINE x == [key |-> key, val |-> val]
           restart == (Len(w.entries) % w.interval) = 0
           shared == IF restart THEN 0 ELSE SharedPrefix(w.prevKey, key)
           e == [shared |-> shared, suffix |-> SubSeq(key, shared + 1, Len(key)), val |-> val]
           v == BlockAdd(w, key, val)
           fs == Append(es, x)
           n == Len(es)
<1>1. /\ w.interval \in Nat \ {0} /\ w.entries \in Seq(EncodedEntries) /\ w.restarts \in Seq(Nat)
      /\ w.prevKey \in Keys /\ w.buf \in Nat
  BY DEF Filled, BlockWriters
<1>2. Len(w.entries) = n /\ n \in Nat /\ x \in Pairs
  BY DEF Filled, Decodes, Pairs
<1>3. n = 0 => restart
  BY <1>1, <1>2
<1>4. /\ shared \in Nat /\ shared <= Len(w.prevKey) /\ shared <= Len(key)
      /\ \A j \in 1 .. shared : w.prevKey[j] = key[j]
  <2>1. Len(w.prevKey) \in Nat /\ Len(key) \in Nat
    BY <1>1 DEF Keys
  <2>2. CASE restart
    BY <2>1, <2>2
  <2>3. CASE ~restart
    <3> DEFINE m == SharedPrefix(w.prevKey, key)
    <3>1. m \in Nat /\ FirstDiff(w.prevKey, key, m + 1)
      BY <1>1, SharedPrefixIs
    <3>2. shared = m
      BY <2>3
    <3> HIDE DEF m
    <3>3. (m + 1) - 1 = m /\ (m = 0 \/ m \in 1 .. (m + 1) - 1)
      BY <3>1
    <3>4. \A j \in 1 .. m : j <= Len(w.prevKey) /\ j <= Len(key) /\ w.prevKey[j] = key[j]
      BY <3>1, <3>3 DEF FirstDiff
    <3>5. m = 0 \/ (m <= Len(w.prevKey) /\ m <= Len(key))
      BY <3>1, <3>3, <3>4
    <3>6. QED
      BY <2>1, <3>1, <3>2, <3>4, <3>5
  <2>4. QED
    BY <2>2, <2>3
<1> HIDE DEF restart, shared
<1>5. /\ SubSeq(w.prevKey, 1, shared) \o SubSeq(key, shared + 1, Len(key)) = key
      /\ SubSeq(key, shared + 1, Len(key)) \in Keys
  BY <1>1, <1>4, PrefixDecodes
<1>6. e \in EncodedEntries
  BY <1>4, <1>5 DEF EncodedEntries
<1> DEFINE rs == IF restart THEN Append(w.restarts, Len(w.entries) + 1) ELSE w.restarts
           size == w.buf + 3 + (Len(key) - shared) + ValueLen(val)
<1>7. v = [w EXCEPT !.entries = Append(w.entries, e), !.restarts = rs, !.prevKey = key, !.buf = size]
  BY Zenon DEF BlockAdd, restart, shared
<1>8. /\ v \in BlockWriters
      /\ v.interval = w.interval /\ v.entries = Append(w.entries, e) /\ v.prevKey = key
      /\ v.restarts = IF restart THEN Append(w.restarts, n + 1) ELSE w.restarts
  <2>1. size \in Nat
    <3>1. Len(key) - shared \in Nat
      BY <1>4 DEF Keys
    <3>2. ValueLen(val) \in Nat
      BY DEF ValueLen
    <3>3. QED
      BY <1>1, <3>1, <3>2
  <2>2. rs \in Seq(Nat)
    BY <1>1, <1>2
  <2>3. Append(w.entries, e) \in Seq(EncodedEntries)
    BY <1>1, <1>6
  <2>4. rs = IF restart THEN Append(w.restarts, n + 1) ELSE w.restarts
    BY <1>2
  <2>5. w \in BlockWriters
    BY DEF Filled
  <2> DEFINE f == Append(w.entries, e)
  <2> HIDE DEF v, rs, size, f
  <2>6. v = [w EXCEPT !.entries = f, !.restarts = rs, !.prevKey = key, !.buf = size]
    BY <1>7 DEF f
  <2>7. f \in Seq(EncodedEntries)
    BY <2>3 DEF f
  <2>8. v \in BlockWriters
    BY <2>1, <2>2, <2>5, <2>6, <2>7 DEF BlockWriters
  <2>9. v.interval = w.interval /\ v.entries = f /\ v.prevKey = key /\ v.restarts = rs
    BY <2>5, <2>6 DEF BlockWriters
  <2>10. QED
    BY <2>4, <2>8, <2>9 DEF f
<1>9. /\ fs \in Seq(Pairs) /\ Len(fs) = n + 1 /\ fs[n + 1] = x /\ fs # <<>>
      /\ \A i \in 1 .. n : fs[i] = es[i]
  BY <1>2, AppendIs
<1>10. /\ Len(v.entries) = n + 1 /\ v.entries[n + 1] = e
       /\ \A i \in 1 .. n : v.entries[i] = w.entries[i]
  BY <1>1, <1>2, <1>6, <1>8, AppendIs
<1> HIDE DEF v, fs
<1>11. KeyBefore(fs, n + 1) = IF n = 0 THEN <<>> ELSE w.prevKey
  <2>1. w.prevKey = LastKey(es)
    BY DEF Filled
  <2>2. n # 0 => es # <<>> /\ n \in 1 .. n /\ (n + 1) - 1 = n
    BY <1>2
  <2>3. QED
    BY <1>2, <1>9, <2>1, <2>2 DEF KeyBefore, LastKey
<1>12. w.prevKey = LastKey(es) /\ (n = 0 => w.prevKey = <<>>)
  BY <1>2 DEF Filled, LastKey
<1>13. Decodes(v.entries, fs)
  <2>1. ASSUME NEW i \in 1 .. n + 1
        PROVE  /\ SubSeq(KeyBefore(fs, i), 1, v.entries[i].shared) \o v.entries[i].suffix = fs[i].key
               /\ v.entries[i].val = fs[i].val
    <3>1. CASE i = n + 1
      <4>1. KeyBefore(fs, i) = w.prevKey
        BY <1>11, <1>12, <3>1
      <4>2. e.shared = shared /\ e.suffix = SubSeq(key, shared + 1, Len(key)) /\ e.val = val
        OBVIOUS
      <4>3. fs[i].key = key /\ fs[i].val = val /\ v.entries[i] = e
        BY <1>9, <1>10, <3>1
      <4> HIDE DEF e
      <4>4. QED
        BY <1>5, <4>1, <4>2, <4>3
    <3>2. CASE i \in 1 .. n
      <4>1. i - 1 \in 1 .. n \/ i = 1
        BY <1>2, <3>2
      <4>2. KeyBefore(fs, i) = KeyBefore(es, i)
        BY <1>9, <4>1 DEF KeyBefore
      <4>3. fs[i] = es[i] /\ v.entries[i] = w.entries[i]
        BY <1>9, <1>10, <3>2
      <4>4. QED
        BY <3>2, <4>2, <4>3 DEF Filled, Decodes
    <3>3. i = n + 1 \/ i \in 1 .. n
      BY <1>2
    <3>4. QED
      BY <3>1, <3>2, <3>3
  <2>2. QED
    BY <1>9, <1>10, <2>1 DEF Decodes
<1>14. Restarts(v.entries, v.restarts, fs)
  <2>1. /\ es # <<>> => Len(w.restarts) > 0 /\ w.restarts[1] = 1
        /\ \A r \in 1 .. Len(w.restarts) :
            /\ w.restarts[r] \in 1 .. n
            /\ w.entries[w.restarts[r]].shared = 0
            /\ w.entries[w.restarts[r]].suffix = es[w.restarts[r]].key
        /\ \A r, q \in 1 .. Len(w.restarts) : r < q => w.restarts[r] < w.restarts[q]
        /\ Len(w.restarts) \in Nat
    <3>1. Restarts(w.entries, w.restarts, es)
      BY DEF Filled
    <3>2. Len(w.restarts) \in Nat
      BY <1>1
    <3>3. QED
      BY <3>1, <3>2, Zenon DEF Restarts
  <2>2. ASSUME NEW r \in 1 .. Len(w.restarts)
        PROVE  /\ w.restarts[r] \in 1 .. n + 1
               /\ v.entries[w.restarts[r]].shared = 0
               /\ v.entries[w.restarts[r]].suffix = fs[w.restarts[r]].key
    <3> DEFINE k == w.restarts[r]
    <3>1. k \in 1 .. n /\ w.entries[k].shared = 0 /\ w.entries[k].suffix = es[k].key
      BY <2>1
    <3> HIDE DEF k
    <3>2. v.entries[k] = w.entries[k] /\ fs[k] = es[k] /\ k \in 1 .. n + 1
      BY <1>2, <1>9, <1>10, <3>1
    <3>3. QED
      BY <3>1, <3>2 DEF k
  <2>3. CASE ~restart
    <3>1. v.restarts = w.restarts /\ es # <<>>
      BY <1>2, <1>3, <1>8, <2>3
    <3>2. QED
      BY <1>9, <2>1, <2>2, <3>1 DEF Restarts
  <2>4. CASE restart
    <3> DEFINE rt == v.restarts
               m == Len(w.restarts)
    <3>1. /\ Len(rt) = m + 1 /\ rt[m + 1] = n + 1
          /\ \A r \in 1 .. m : rt[r] = w.restarts[r]
      <4>1. v.restarts = Append(w.restarts, n + 1) /\ n + 1 \in Nat
        BY <1>2, <1>8, <2>4
      <4>2. QED
        BY <1>1, <4>1, AppendIs
    <3>2. shared = 0
      BY <2>4 DEF shared
    <3>3. SubSeq(key, 1, Len(key)) = key
      BY DEF Keys
    <3>4. v.entries[n + 1].shared = 0 /\ v.entries[n + 1].suffix = fs[n + 1].key
      BY <1>9, <1>10, <3>2, <3>3
    <3> HIDE DEF rt, e
    <3>5. ASSUME NEW r \in 1 .. m + 1
          PROVE  /\ rt[r] \in 1 .. n + 1
                 /\ v.entries[rt[r]].shared = 0
                 /\ v.entries[rt[r]].suffix = fs[rt[r]].key
      <4>1. CASE r = m + 1
        <5>1. rt[r] = n + 1 /\ n + 1 \in 1 .. n + 1
          BY <1>2, <3>1, <4>1
        <5>2. QED
          BY <3>4, <5>1
      <4>2. CASE r \in 1 .. m
        BY <2>2, <3>1, <4>2
      <4>3. QED
        BY <2>1, <4>1, <4>2
    <3>6. ASSUME NEW r \in 1 .. m + 1, NEW q \in 1 .. m + 1, r < q PROVE rt[r] < rt[q]
      <4>1. r \in 1 .. m /\ (q = m + 1 \/ q \in 1 .. m)
        BY <2>1, <3>6
      <4>2. rt[r] = w.restarts[r] /\ w.restarts[r] \in 1 .. n
        BY <2>1, <3>1, <4>1
      <4>3. CASE q = m + 1
        BY <1>2, <3>1, <4>2, <4>3
      <4>4. CASE q \in 1 .. m
        BY <2>1, <3>1, <3>6, <4>1, <4>4
      <4>5. QED
        BY <4>1, <4>3, <4>4
    <3>7. rt[1] = 1
      <4>1. CASE n = 0
        <5>1. m = 0
          <6>1. \A r \in 1 .. m : w.restarts[r] \in 1 .. 0
            BY <2>1, <4>1
          <6>2. QED
            BY <2>1, <6>1
        <5>2. QED
          BY <3>1, <4>1, <5>1
      <4>2. CASE n # 0
        <5>1. es # <<>>
          BY <4>2
        <5>2. m > 0 /\ w.restarts[1] = 1 /\ 1 \in 1 .. m
          BY <2>1, <5>1
        <5>3. QED
          BY <3>1, <5>2
      <4>3. QED
        BY <4>1, <4>2
    <3>8. QED
      BY <1>9, <2>1, <3>1, <3>5, <3>6, <3>7 DEF Restarts, rt
  <2>5. QED
    BY <2>3, <2>4
<1>15. v.prevKey = LastKey(fs)
  BY <1>8, <1>9 DEF LastKey
<1>16. QED
  BY <1>8, <1>13, <1>14, <1>15 DEF Filled, v, fs

\* A finished block holds what was written.
LEMMA FinishHolds ==
    ASSUME NEW w, NEW es \in Seq(Pairs), Filled(w, es)
    PROVE  Holds(Finish(w), es)
<1>1. /\ w.entries \in Seq(EncodedEntries) /\ w.restarts \in Seq(Nat) /\ w.buf \in Nat
      /\ Decodes(w.entries, es) /\ Restarts(w.entries, w.restarts, es)
  BY DEF Filled, BlockWriters
<1>2. EstimatedSize(w) \in Nat
  BY <1>1 DEF EstimatedSize
<1> DEFINE b == Finish(w)
<1>3. b.entries = w.entries /\ b.restarts = w.restarts /\ b \in Blocks
  BY <1>1, <1>2 DEF Finish, Blocks
<1> HIDE DEF b
<1>4. QED
  BY <1>1, <1>3 DEF Holds, b

-----------------------------------------------------------------------------
(* Block iterators *)

\* A new iterator is behind the last entry.
LEMMA NewIteratorAtEnd ==
    ASSUME NEW block, NEW es \in Seq(Pairs), Holds(block, es)
    PROVE  /\ NewBlockIterator(block) \in BlockIterators
           /\ NewBlockIterator(block).offset = Len(es) + 1
           /\ ~NewBlockIterator(block).valid
<1>1. Len(block.entries) = Len(es) /\ Len(es) \in Nat
  BY DEF Holds, Decodes
<1>2. QED
  BY <1>1 DEF NewBlockIterator, BlockIterators, Keys

\* The iterator's key is the one the next entry was compressed against, or the
\* next entry is a restart point.
Ready(block, es, b) ==
    /\ b \in BlockIterators
    /\ b.offset \in 1 .. Len(es) + 1
    /\ b.offset <= Len(es) =>
            \/ b.key = KeyBefore(es, b.offset)
            \/ b.key = <<>> /\ \E r \in 1 .. Len(block.restarts) : block.restarts[r] = b.offset

\* next decodes the next entry, and leaves the iterator ready for the one after it.
LEMMA BlockNextAt ==
    ASSUME NEW block, NEW es \in Seq(Pairs), Holds(block, es), NEW b, Ready(block, es, b),
           b.offset <= Len(es)
    PROVE  At(BlockNext(block, b), es, b.offset) /\ Ready(block, es, BlockNext(block, b))
<1> DEFINE o == b.offset
           e == block.entries[o]
           key == SubSeq(b.key, 1, e.shared) \o e.suffix
           n == BlockNext(block, b)
<1>1. /\ o \in Nat /\ b.key \in Keys /\ b.buf \in Keys /\ b.cap \in Nat /\ o \in 1 .. Len(es)
      /\ block.entries \in Seq(EncodedEntries) /\ Len(block.entries) = Len(es) /\ Len(es) \in Nat
  BY DEF BlockIterators, Holds, Blocks, Decodes, Ready
<1>2. e \in EncodedEntries
  BY <1>1, ElementOfSeq
<1>3. e.shared \in Nat /\ e.suffix \in Keys /\ e.val \in Nat
  BY <1>2 DEF EncodedEntries
<1>4. es[o].key \in Keys
  <2>1. es[o] \in Pairs
    BY <1>1, ElementOfSeq
  <2>2. QED
    BY <2>1 DEF Pairs
<1>5. /\ SubSeq(KeyBefore(es, o), 1, e.shared) \o e.suffix = es[o].key
      /\ e.val = es[o].val
  BY <1>1 DEF Holds, Decodes
<1>6. key = es[o].key
  <2>1. CASE b.key = KeyBefore(es, o)
    BY <1>5, <2>1
  <2>2. CASE b.key = <<>> /\ \E r \in 1 .. Len(block.restarts) : block.restarts[r] = o
    <3>1. e.shared = 0 /\ e.suffix = es[o].key
      BY <2>2 DEF Holds, Restarts
    <3>2. SubSeq(b.key, 1, 0) = <<>>
      BY <1>1 DEF Keys
    <3>3. <<>> \o es[o].key = es[o].key
      BY <1>4 DEF Keys
    <3>4. QED
      BY <3>1, <3>2, <3>3
  <2>3. QED
    BY <1>1, <2>1, <2>2 DEF Ready
<1> DEFINE grows == Len(key) > b.cap
           buf == IF grows THEN key ELSE key \o SubSeq(b.buf, Len(key) + 1, Len(b.buf))
           cap == IF grows THEN GrownCap(b.cap, Len(key)) ELSE b.cap
<1>7. n = [offset |-> o + 1, key |-> key, val |-> e.val, valid |-> TRUE, buf |-> buf, cap |-> cap]
  <2>1. ~(b.offset > Len(block.entries))
    BY <1>1
  <2>2. QED
    BY <2>1 DEF BlockNext
<1>8. buf \in Keys /\ cap \in Nat
  <2> HIDE DEF key
  <2>1. key \in Seq(Nat) /\ Len(key) \in Nat /\ b.buf \in Seq(Nat) /\ Len(b.buf) \in Nat
    BY <1>1, <1>4, <1>6 DEF Keys
  <2> DEFINE rest == SubSeq(b.buf, Len(key) + 1, Len(b.buf))
  <2>2. rest \in Seq(Nat)
    <3>1. \A i \in Len(key) + 1 .. Len(b.buf) : b.buf[i] \in Nat
      BY <2>1
    <3>2. QED
      BY <2>1, <3>1, SubSeqProperties
  <2> HIDE DEF rest
  <2>3. key \o rest \in Seq(Nat)
    BY <2>1, <2>2, ConcatProperties
  <2>4. GrownCap(b.cap, Len(key)) \in Nat
    <3> DEFINE m == IF Len(key) > 2 * b.cap THEN Len(key) ELSE 2 * b.cap
    <3>1. m \in Nat
      BY <1>1, <2>1
    <3>2. GrownCap(b.cap, Len(key)) = 4 * ((m + 3) \div 4)
      BY DEF GrownCap
    <3> HIDE DEF m
    <3>3. QED
      BY <3>1, <3>2
  <2>5. QED
    BY <1>1, <2>1, <2>3, <2>4 DEF rest, Keys
<1> HIDE DEF key, buf, cap, e
<1>9. /\ n \in BlockIterators
      /\ n.valid /\ n.offset = o + 1 /\ n.key = es[o].key /\ n.val = es[o].val
  BY <1>1, <1>3, <1>4, <1>5, <1>6, <1>7, <1>8 DEF BlockIterators
<1> HIDE DEF n
<1>10. At(n, es, o)
  BY <1>1, <1>9 DEF At
<1>11. n.offset \in 1 .. Len(es) + 1
  BY <1>1, <1>9
<1>12. n.key = KeyBefore(es, n.offset)
  <2>1. n.offset # 1 /\ n.offset - 1 = o
    BY <1>1, <1>9
  <2>2. QED
    BY <1>9, <2>1 DEF KeyBefore
<1>13. QED
  BY <1>9, <1>10, <1>11, <1>12 DEF Ready, n

\* Behind the last entry next finds nothing.
LEMMA BlockNextEnd ==
    ASSUME NEW block, NEW es \in Seq(Pairs), Holds(block, es), NEW b \in BlockIterators,
           b.offset = Len(es) + 1
    PROVE  /\ BlockNext(block, b) \in BlockIterators
           /\ ~BlockNext(block, b).valid
           /\ BlockNext(block, b).offset = Len(es) + 1
<1>1. b.offset > Len(block.entries)
  BY DEF Holds, Decodes
<1>2. BlockNext(block, b) = [b EXCEPT !.valid = FALSE]
  BY <1>1 DEF BlockNext
<1>3. QED
  BY <1>2 DEF BlockIterators

\* First stands at the first entry.
LEMMA BlockFirstAt ==
    ASSUME NEW block, NEW es \in Seq(Pairs), es # <<>>, Holds(block, es), NEW b \in BlockIterators
    PROVE  At(BlockFirst(block, b), es, 1) /\ Ready(block, es, BlockFirst(block, b))
<1> DEFINE c == [b EXCEPT !.offset = 1, !.key = <<>>]
<1>1. c \in BlockIterators /\ c.offset = 1 /\ c.key = <<>>
  <2>1. <<>> \in Keys
    BY DEF Keys
  <2>2. QED
    BY <2>1 DEF BlockIterators
<1>2. BlockFirst(block, b) = BlockNext(block, c)
  BY DEF BlockFirst
<1> HIDE DEF c
<1>3. 1 <= Len(es) /\ 1 \in 1 .. Len(es) + 1 /\ KeyBefore(es, 1) = <<>>
  BY DEF KeyBefore
<1>4. Ready(block, es, c)
  BY <1>1, <1>3 DEF Ready
<1>5. QED
  BY <1>1, <1>2, <1>3, <1>4, BlockNextAt

-----------------------------------------------------------------------------
(* The search in a block *)

\* The key at the r-th restart point.
RestartKey(block, es, r) == es[block.restarts[r]].key

\* The restart points up to n are below the target, the others are not.
Splits(block, es, target, n) ==
    /\ n \in 0 .. Len(block.restarts)
    /\ \A r \in 1 .. Len(block.restarts) : Less(RestartKey(block, es, r), target) <=> r <= n

\* The keys of a sequence of pairs are keys.
LEMMA PairKey ==
    ASSUME NEW es \in Seq(Pairs), NEW i \in 1 .. Len(es)
    PROVE  es[i] \in Pairs /\ es[i].key \in Keys /\ es[i].val \in Nat
<1>1. es[i] \in Pairs
  BY ElementOfSeq
<1>2. QED
  BY <1>1 DEF Pairs

\* The keys at the restart points are in order.
LEMMA RestartOrder ==
    ASSUME NEW block, NEW es \in Seq(Pairs), Holds(block, es), SortedPairs(es)
    PROVE  /\ Len(block.restarts) \in Nat
           /\ \A r \in 1 .. Len(block.restarts) :
                /\ RestartKey(block, es, r) \in Keys
                /\ block.entries[block.restarts[r]].suffix = RestartKey(block, es, r)
                /\ block.restarts[r] \in 1 .. Len(es)
           /\ \A r, q \in 1 .. Len(block.restarts) :
                r < q => Less(RestartKey(block, es, r), RestartKey(block, es, q))
<1>1. Restarts(block.entries, block.restarts, es) /\ block.restarts \in Seq(Nat)
  BY DEF Holds, Blocks
<1>2. Len(block.restarts) \in Nat
  BY <1>1
<1>3. ASSUME NEW r \in 1 .. Len(block.restarts)
      PROVE  /\ RestartKey(block, es, r) \in Keys
             /\ block.entries[block.restarts[r]].suffix = RestartKey(block, es, r)
             /\ block.restarts[r] \in 1 .. Len(es)
  <2>1. block.restarts[r] \in 1 .. Len(es)
    BY <1>1 DEF Restarts
  <2>2. QED
    BY <1>1, <2>1, PairKey DEF Restarts, RestartKey
<1>4. ASSUME NEW r \in 1 .. Len(block.restarts), NEW q \in 1 .. Len(block.restarts), r < q
      PROVE  Less(RestartKey(block, es, r), RestartKey(block, es, q))
  <2>1. block.restarts[r] < block.restarts[q]
    BY <1>1, <1>4 DEF Restarts
  <2>2. QED
    BY <1>3, <2>1 DEF RestartKey, SortedPairs
<1>5. QED
  BY <1>2, <1>3, <1>4

\* The binary search finds how many restart points are below the target.
LEMMA RestartsBelowIs ==
    ASSUME NEW block, NEW es \in Seq(Pairs), Holds(block, es), SortedPairs(es), NEW target \in Keys
    PROVE  Splits(block, es, target, RestartsBelow(block, target))
<1> DEFINE n == Len(block.restarts)
           key(r) == RestartKey(block, es, r)
           x == [block |-> block, target |-> target]
           xs == Search!Times(n, x)
           base == [lo |-> 0, hi |-> n]
           Lower(s) == \A r \in 1 .. n : r <= s.lo => Less(key(r), target)
           Above(s) == \A r \in 1 .. n : r > s.hi => ~Less(key(r), target)
           f == [i \in 0 .. n |->
                    {s \in [lo: 0 .. n, hi: 0 .. n] :
                        s.lo <= s.hi /\ s.hi - s.lo <= n - i /\ Lower(s) /\ Above(s)}]
<1>1. /\ n \in Nat
      /\ \A r \in 1 .. n : key(r) \in Keys /\ block.entries[block.restarts[r]].suffix = key(r)
      /\ \A r, q \in 1 .. n : r < q => Less(key(r), key(q))
  BY RestartOrder
<1>2. Len(xs) = n /\ \A i \in 1 .. n : xs[i] = x
  BY <1>1 DEF Search!Times
<1> HIDE DEF key, xs
<1>3. base \in f[0]
  <2>1. base \in [lo: 0 .. n, hi: 0 .. n] /\ base.lo = 0 /\ base.hi = n
    BY <1>1
  <2>2. Lower(base) /\ Above(base)
    BY <1>1, <2>1
  <2> HIDE DEF Lower, Above, base
  <2>3. QED
    BY <1>1, <2>1, <2>2
<1>4. ASSUME NEW i \in 1 .. n, NEW s \in f[i - 1]
      PROVE  SearchStep(s, x) \in f[i]
  <2>1. /\ s \in [lo: 0 .. n, hi: 0 .. n] /\ s.lo <= s.hi /\ s.hi - s.lo <= n - (i - 1)
        /\ Lower(s) /\ Above(s)
        /\ i - 1 \in 0 .. n /\ i \in 0 .. n
    <3>1. i - 1 \in 0 .. n /\ i \in 0 .. n
      BY <1>1
    <3> HIDE DEF Lower, Above
    <3>2. QED
      BY <3>1
  <2>2. CASE s.lo >= s.hi
    <3>1. SearchStep(s, x) = s
      BY <2>2 DEF SearchStep
    <3>2. s.hi - s.lo <= n - i
      BY <1>1, <2>1, <2>2
    <3> HIDE DEF Lower, Above
    <3>3. QED
      BY <2>1, <3>1, <3>2
  <2>3. CASE s.lo < s.hi
    <3> DEFINE mid == s.lo + ((s.hi - s.lo) \div 2)
    <3>1. mid \in Nat /\ s.lo <= mid /\ mid < s.hi
      BY <2>1, <2>3
    <3>2. mid + 1 \in 1 .. n /\ mid \in 0 .. n /\ mid + 1 \in 0 .. n
      <4> HIDE DEF mid, Lower, Above
      <4>1. s.hi \in 0 .. n
        BY <2>1
      <4>2. QED
        BY <1>1, <3>1, <4>1
    <3>3. x.block = block /\ x.target = target
      OBVIOUS
    <3>4. SearchStep(s, x) = IF Less(key(mid + 1), target)
                             THEN [s EXCEPT !.lo = mid + 1] ELSE [s EXCEPT !.hi = mid]
      <4>1. ~(s.lo >= s.hi)
        BY <2>1, <2>3
      <4>2. block.entries[block.restarts[mid + 1]].suffix = key(mid + 1)
        BY <1>1, <3>2
      <4>3. QED
        BY <3>3, <4>1, <4>2 DEF SearchStep
    <3> HIDE DEF mid, x
    <3>5. CASE Less(key(mid + 1), target)
      <4> DEFINE t == [s EXCEPT !.lo = mid + 1]
      <4>1. t \in [lo: 0 .. n, hi: 0 .. n] /\ t.lo = mid + 1 /\ t.hi = s.hi
        BY <2>1, <3>2
      <4>2. SearchStep(s, x) = t
        BY <3>4, <3>5
      <4> HIDE DEF t
      <4>3. ASSUME NEW r \in 1 .. n, r <= mid + 1 PROVE Less(key(r), target)
        <5>1. r = mid + 1 \/ r < mid + 1
          BY <3>1, <4>3
        <5>2. CASE r < mid + 1
          BY <1>1, <3>2, <3>5, <5>2, LessTransitive
        <5>3. QED
          BY <3>5, <5>1, <5>2
      <4>4. Lower(t) /\ Above(t)
        BY <2>1, <4>1, <4>3
      <4>5. t.lo <= t.hi /\ t.hi - t.lo <= n - i
        BY <1>1, <2>1, <3>1, <4>1
      <4> HIDE DEF Lower, Above
      <4>6. QED
        BY <2>1, <4>1, <4>2, <4>4, <4>5
    <3>6. CASE ~Less(key(mid + 1), target)
      <4> DEFINE t == [s EXCEPT !.hi = mid]
      <4>1. t \in [lo: 0 .. n, hi: 0 .. n] /\ t.hi = mid /\ t.lo = s.lo
        BY <2>1, <3>2
      <4>2. SearchStep(s, x) = t
        BY <3>4, <3>6
      <4> HIDE DEF t
      <4>3. ASSUME NEW r \in 1 .. n, r > mid PROVE ~Less(key(r), target)
        <5>1. r = mid + 1 \/ mid + 1 < r
          BY <3>1, <4>3
        <5>2. CASE mid + 1 < r
          BY <1>1, <3>2, <3>6, <5>2, LessTransitive
        <5>3. QED
          BY <3>6, <5>1, <5>2
      <4>4. Lower(t) /\ Above(t)
        BY <2>1, <4>1, <4>3
      <4>5. t.lo <= t.hi /\ t.hi - t.lo <= n - i
        BY <1>1, <2>1, <3>1, <4>1
      <4> HIDE DEF Lower, Above
      <4>6. QED
        BY <2>1, <4>1, <4>2, <4>4, <4>5
    <3>7. QED
      BY <3>5, <3>6
  <2>4. s.lo >= s.hi \/ s.lo < s.hi
    BY <2>1
  <2>5. QED
    BY <2>2, <2>3, <2>4
<1> DEFINE res == Search!Loop(base, xs)
<1>5. res \in f[n]
  <2> HIDE DEF f, base, x
  <2>1. \A i \in 1 .. Len(xs) : \A s \in f[i - 1] : SearchStep(s, xs[i]) \in f[i]
    BY <1>2, <1>4
  <2>2. Len(xs) \in Nat
    BY <1>1, <1>2
  <2>3. Search!Loop(base, xs) \in f[Len(xs)]
    BY <1>3, <2>1, <2>2, Search!LoopInvariant
  <2>4. QED
    BY <1>2, <2>3
<1>6. RestartsBelow(block, target) = res.lo
  BY DEF RestartsBelow, xs
<1> HIDE DEF res
<1>7. /\ res \in [lo: 0 .. n, hi: 0 .. n] /\ res.lo <= res.hi /\ res.hi - res.lo <= n - n
      /\ Lower(res) /\ Above(res)
  <2>1. n \in 0 .. n
    BY <1>1
  <2> HIDE DEF Lower, Above
  <2>2. QED
    BY <1>5, <2>1
<1>8. res.lo = res.hi /\ res.lo \in 0 .. n
  BY <1>1, <1>7
<1>9. \A r \in 1 .. n : Less(key(r), target) <=> r <= res.lo
  BY <1>1, <1>7, <1>8
<1>10. QED
  BY <1>6, <1>8, <1>9 DEF Splits, key

\* The iterator stands at the first entry that is not below the target, or there
\* is none.
Found(b, es, target) ==
    \/ \E i \in 1 .. Len(es) :
        /\ At(b, es, i)
        /\ AtLeast(es[i].key, target)
        /\ \A j \in 1 .. Len(es) : j < i => Less(es[j].key, target)
    \/ ~b.valid /\ \A j \in 1 .. Len(es) : Less(es[j].key, target)

\* The scan starts in front of the first entry that is not below the target.
LEMMA StartInFront ==
    ASSUME NEW block, NEW es \in Seq(Pairs), es # <<>>, Holds(block, es), SortedPairs(es),
           NEW target \in Keys
    PROVE  /\ StartRestart(block, target) \in 1 .. Len(block.restarts)
           /\ \A j \in 1 .. Len(es) :
                j < block.restarts[StartRestart(block, target)] => Less(es[j].key, target)
<1> DEFINE n == RestartsBelow(block, target)
           m == StartRestart(block, target)
<1>1. Splits(block, es, target, n)
  BY RestartsBelowIs
<1>2. /\ Len(block.restarts) \in Nat /\ Len(block.restarts) > 0 /\ block.restarts[1] = 1
      /\ n \in 0 .. Len(block.restarts)
  BY <1>1, RestartOrder DEF Splits, Holds, Restarts
<1>3. m = IF n = 0 THEN 1 ELSE n
  BY DEF StartRestart
<1> HIDE DEF m, n
<1>4. m \in 1 .. Len(block.restarts)
  BY <1>2, <1>3
<1>5. ASSUME NEW j \in 1 .. Len(es), j < block.restarts[m] PROVE Less(es[j].key, target)
  <2>1. n # 0
    BY <1>2, <1>3, <1>5
  <2>2. m = n
    BY <1>3, <2>1
  <2>3. Less(RestartKey(block, es, m), target)
    BY <1>1, <1>4, <2>2 DEF Splits
  <2>4. block.restarts[m] \in 1 .. Len(es)
    BY <1>4, RestartOrder
  <2>5. Less(es[j].key, RestartKey(block, es, m))
    BY <1>5, <2>4 DEF SortedPairs, RestartKey
  <2>6. es[j].key \in Keys /\ RestartKey(block, es, m) \in Keys
    BY <2>4, PairKey DEF RestartKey
  <2>7. QED
    BY <2>3, <2>5, <2>6, LessTransitive
<1>6. QED
  BY <1>4, <1>5 DEF m

\* SeekGE in a block finds the first entry that is not below the target.
LEMMA BlockSeekFound ==
    ASSUME NEW block, NEW es \in Seq(Pairs), es # <<>>, Holds(block, es), SortedPairs(es),
           NEW b \in BlockIterators, NEW target \in Keys
    PROVE  /\ Found(BlockSeekGE(block, b, target), es, target)
           /\ BlockSeekGE(block, b, target) \in BlockIterators
           /\ BlockSeekGE(block, b, target).valid => Ready(block, es, BlockSeekGE(block, b, target))
<1> DEFINE n == Len(es)
           m == StartRestart(block, target)
           p == block.restarts[m]
           start == [b EXCEPT !.offset = p, !.key = <<>>]
           first == BlockNext(block, start)
           x == [block |-> block, target |-> target]
           xs == Scan!Times(Len(block.entries), x)
           Passed(i) == \A j \in 1 .. n : j < i => Less(es[j].key, target)
           OnWay(c, k) == \E i \in 1 .. n : i > k /\ At(c, es, i) /\ Ready(block, es, c) /\ Passed(i)
           Done(c) == Found(c, es, target) /\ (c.valid => Ready(block, es, c))
           f == [k \in 0 .. n |-> {c \in BlockIterators : OnWay(c, k) \/ Done(c)}]
<1>1. n \in Nat /\ n > 0 /\ Len(block.entries) = n
  BY DEF Holds, Decodes
<1>2. m \in 1 .. Len(block.restarts) /\ p \in 1 .. n /\ Passed(p)
  <2>1. m \in 1 .. Len(block.restarts) /\ Passed(p)
    BY StartInFront
  <2>2. QED
    BY <2>1, RestartOrder
<1>3. start \in BlockIterators /\ start.offset = p /\ start.key = <<>>
  <2>1. <<>> \in Keys
    BY DEF Keys
  <2>2. p \in Nat
    BY <1>1, <1>2
  <2> HIDE DEF p, m
  <2>3. QED
    BY <2>1, <2>2 DEF BlockIterators
<1> HIDE DEF start, p, m, Passed
<1>4. At(first, es, p) /\ Ready(block, es, first)
  <2>1. Ready(block, es, start)
    <3>1. start.offset \in 1 .. n + 1
      BY <1>1, <1>2, <1>3
    <3>2. QED
      BY <1>2, <1>3, <3>1 DEF Ready, p
  <2>2. start.offset <= Len(es)
    BY <1>1, <1>2, <1>3
  <2>3. QED
    BY <1>3, <2>1, <2>2, BlockNextAt
<1>5. Len(xs) = n /\ \A i \in 1 .. n : xs[i] = x
  BY <1>1 DEF Scan!Times
<1>6. BlockSeekGE(block, b, target) = Scan!Loop(first, xs)
  BY DEF BlockSeekGE, start, p, m
<1> HIDE DEF first, xs
<1>7. first \in f[0]
  <2>1. OnWay(first, 0)
    BY <1>1, <1>2, <1>4
  <2>2. first \in BlockIterators
    BY <1>4 DEF Ready
  <2>3. 0 \in 0 .. n
    BY <1>1
  <2> HIDE DEF OnWay, Done
  <2>4. QED
    BY <2>1, <2>2, <2>3
<1>8. ASSUME NEW k \in 1 .. n, NEW c \in f[k - 1] PROVE ScanStep(c, x) \in f[k]
  <2> DEFINE d == ScanStep(c, x)
  <2>1. k - 1 \in 0 .. n /\ k \in 0 .. n
    BY <1>1
  <2>2. c \in BlockIterators /\ (OnWay(c, k - 1) \/ Done(c))
    <3> HIDE DEF OnWay, Done
    <3> QED BY <2>1
  <2>3. d = IF c.valid /\ Less(c.key, target) THEN BlockNext(block, c) ELSE c
    BY DEF ScanStep
  <2> HIDE DEF d
  <2>4. d \in BlockIterators /\ (OnWay(d, k) \/ Done(d))
    <3>1. CASE Done(c)
      <4>1. ~(c.valid /\ Less(c.key, target))
        BY <3>1 DEF Found, At, AtLeast
      <4>2. QED
        BY <2>2, <2>3, <3>1, <4>1
    <3>2. CASE OnWay(c, k - 1)
      <4>1. PICK i \in 1 .. n : i > k - 1 /\ At(c, es, i) /\ Ready(block, es, c) /\ Passed(i)
        BY <3>2
      <4>2. c.valid /\ c.key = es[i].key /\ c.offset = i + 1
        BY <4>1 DEF At
      <4>3. CASE ~Less(c.key, target)
        <5>1. d = c
          BY <2>3, <4>3
        <5>2. Found(c, es, target)
          BY <4>1, <4>2, <4>3 DEF Found, AtLeast, Passed
        <5>3. QED
          BY <2>2, <4>1, <5>1, <5>2
      <4>4. CASE Less(c.key, target)
        <5>1. d = BlockNext(block, c)
          BY <2>3, <4>2, <4>4
        <5>2. ASSUME NEW j \in 1 .. n, j < i + 1 PROVE Less(es[j].key, target)
          <6>1. j = i \/ j < i
            BY <5>2
          <6>2. QED
            BY <4>1, <4>2, <4>4, <6>1 DEF Passed
        <5>3. CASE i = n
          <6>1. ~d.valid /\ d \in BlockIterators
            BY <2>2, <4>2, <5>1, <5>3, BlockNextEnd
          <6>2. \A j \in 1 .. n : Less(es[j].key, target)
            BY <1>1, <5>2, <5>3
          <6>3. QED
            BY <6>1, <6>2 DEF Found
        <5>4. CASE i # n
          <6>1. c.offset <= n /\ i + 1 \in 1 .. n /\ i + 1 > k
            BY <1>1, <4>1, <4>2, <5>4
          <6>2. At(d, es, i + 1) /\ Ready(block, es, d)
            BY <4>1, <4>2, <5>1, <6>1, BlockNextAt
          <6>3. Passed(i + 1)
            BY <5>2 DEF Passed
          <6>4. d \in BlockIterators
            BY <6>2 DEF Ready
          <6>5. QED
            BY <6>1, <6>2, <6>3, <6>4
        <5>5. QED
          BY <5>3, <5>4
      <4>5. QED
        BY <4>3, <4>4
    <3>3. QED
      BY <2>2, <3>1, <3>2
  <2> HIDE DEF OnWay, Done
  <2>5. QED
    BY <2>1, <2>4 DEF d
<1> DEFINE res == Scan!Loop(first, xs)
<1>9. res \in f[n]
  <2> HIDE DEF f, x
  <2>1. \A i \in 1 .. Len(xs) : \A c \in f[i - 1] : ScanStep(c, xs[i]) \in f[i]
    BY <1>5, <1>8
  <2>2. Len(xs) \in Nat
    BY <1>1, <1>5
  <2>3. Scan!Loop(first, xs) \in f[Len(xs)]
    BY <1>7, <2>1, <2>2, Scan!LoopInvariant
  <2>4. QED
    BY <1>5, <2>3
<1> HIDE DEF res
<1>10. res \in BlockIterators /\ (OnWay(res, n) \/ Done(res))
  <2>1. n \in 0 .. n
    BY <1>1
  <2> HIDE DEF OnWay, Done
  <2>2. QED
    BY <1>9, <2>1
<1>11. ~OnWay(res, n)
  BY <1>1
<1>12. QED
  BY <1>6, <1>10, <1>11 DEF res

-----------------------------------------------------------------------------
(* The order of blocks and of the keys of the index *)

Precedes(es, fs) == \A i \in 1 .. Len(es), j \in 1 .. Len(fs) : Less(es[i].key, fs[j].key)
AllBelow(es, key) == \A i \in 1 .. Len(es) : Less(es[i].key, key)
AllAtMost(es, key) == \A i \in 1 .. Len(es) : AtLeast(key, es[i].key)
AllAbove(es, key) == \A i \in 1 .. Len(es) : Less(key, es[i].key)

\* cs are the contents of the blocks.  The blocks are in order, and the key in the
\* index of a block lies between it and the next one; the index may still be short.
Ordered(cs, ix) ==
    /\ \A n \in 1 .. Len(cs) : SortedPairs(cs[n])
    /\ \A n, m \in 1 .. Len(cs) : n < m => Precedes(cs[n], cs[m])
    /\ \A n \in 1 .. Len(ix) : ix[n].val = n /\ AllAtMost(cs[n], ix[n].key)
    /\ \A n \in 1 .. Len(ix), m \in 1 .. Len(cs) : n < m => AllAbove(cs[m], ix[n].key)

\* One more key behind all others of a block.
LEMMA SortedAppend ==
    ASSUME NEW es \in Seq(Pairs), NEW x \in Pairs, SortedPairs(es), AllBelow(es, x.key)
    PROVE  SortedPairs(Append(es, x))
<1> DEFINE fs == Append(es, x)
<1>1. /\ Len(fs) = Len(es) + 1 /\ Len(es) \in Nat /\ fs[Len(es) + 1] = x
      /\ \A i \in 1 .. Len(es) : fs[i] = es[i]
  BY AppendIs
<1> HIDE DEF fs
<1>2. ASSUME NEW i \in 1 .. Len(fs), NEW j \in 1 .. Len(fs), i < j
      PROVE  Less(fs[i].key, fs[j].key)
  <2>1. i \in 1 .. Len(es) /\ (j = Len(es) + 1 \/ j \in 1 .. Len(es))
    BY <1>1, <1>2
  <2>2. QED
    BY <1>1, <1>2, <2>1 DEF SortedPairs, AllBelow
<1>3. QED
  BY <1>2 DEF SortedPairs, fs

\* No key of a block is above its last one.
LEMMA LastKeyHighest ==
    ASSUME NEW es \in Seq(Pairs), es # <<>>, SortedPairs(es)
    PROVE  LastKey(es) \in Keys /\ AllAtMost(es, LastKey(es))
<1>1. Len(es) \in 1 .. Len(es) /\ LastKey(es) = es[Len(es)].key /\ Len(es) \in Nat
  BY DEF LastKey
<1>2. es[Len(es)].key \in Keys
  BY <1>1, PairKey
<1>3. ASSUME NEW i \in 1 .. Len(es) PROVE AtLeast(es[Len(es)].key, es[i].key)
  <2>1. es[i].key \in Keys
    BY PairKey
  <2>2. i = Len(es) \/ i < Len(es)
    BY <1>1
  <2>3. i < Len(es) => Less(es[i].key, es[Len(es)].key)
    BY <1>1 DEF SortedPairs
  <2>4. QED
    BY <1>2, <2>1, <2>2, <2>3, LessTotal DEF AtLeast
<1>4. QED
  BY <1>1, <1>2, <1>3 DEF AllAtMost

\* A key at least as high as the highest of a block.
LEMMA AtMostHigher ==
    ASSUME NEW es \in Seq(Pairs), NEW a \in Keys, NEW b \in Keys, AllAtMost(es, a), AtLeast(b, a)
    PROVE  AllAtMost(es, b)
<1>1. ASSUME NEW i \in 1 .. Len(es) PROVE AtLeast(b, es[i].key)
  <2>1. es[i].key \in Keys /\ AtLeast(a, es[i].key)
    BY PairKey DEF AllAtMost
  <2>2. QED
    BY <2>1, LessMixed
<1>2. QED
  BY <1>1 DEF AllAtMost

\* The same for a key above it.
LEMMA AtMostBelow ==
    ASSUME NEW es \in Seq(Pairs), NEW a \in Keys, NEW b \in Keys, AllAtMost(es, a), Less(a, b)
    PROVE  AllBelow(es, b)
<1>1. ASSUME NEW i \in 1 .. Len(es) PROVE Less(es[i].key, b)
  <2>1. es[i].key \in Keys /\ AtLeast(a, es[i].key)
    BY PairKey DEF AllAtMost
  <2>2. QED
    BY <2>1, LessMixed
<1>2. QED
  BY <1>1 DEF AllBelow

\* The index entry of a block that no entry follows yet.
LEMMA OrderedIndex ==
    ASSUME NEW cs \in Seq(Seq(Pairs)), NEW ix \in Seq(Pairs), Ordered(cs, ix),
           NEW x \in Pairs, x.val = Len(ix) + 1, Len(ix) + 1 \in 1 .. Len(cs),
           AllAtMost(cs[Len(ix) + 1], x.key),
           \A m \in 1 .. Len(cs) : Len(ix) + 1 < m => AllAbove(cs[m], x.key)
    PROVE  Ordered(cs, Append(ix, x))
<1> DEFINE iy == Append(ix, x)
<1>1. /\ Len(iy) = Len(ix) + 1 /\ Len(ix) \in Nat /\ iy[Len(ix) + 1] = x
      /\ \A n \in 1 .. Len(ix) : iy[n] = ix[n]
  BY AppendIs
<1> HIDE DEF iy
<1>2. \A n \in 1 .. Len(iy) : n = Len(ix) + 1 \/ n \in 1 .. Len(ix)
  BY <1>1
<1>3. ASSUME NEW n \in 1 .. Len(iy) PROVE iy[n].val = n /\ AllAtMost(cs[n], iy[n].key)
  BY <1>1, <1>2 DEF Ordered
<1>4. ASSUME NEW n \in 1 .. Len(iy), NEW m \in 1 .. Len(cs), n < m PROVE AllAbove(cs[m], iy[n].key)
  <2>1. CASE n = Len(ix) + 1
    BY <1>1, <1>4, <2>1
  <2>2. CASE n \in 1 .. Len(ix)
    BY <1>1, <1>4, <2>2 DEF Ordered
  <2>3. QED
    BY <1>2, <2>1, <2>2
<1>5. QED
  BY <1>3, <1>4 DEF Ordered, iy

\* One more key in the last block.
LEMMA OrderedAdd ==
    ASSUME NEW bs \in Seq(Seq(Pairs)), NEW es \in Seq(Pairs), NEW ix \in Seq(Pairs),
           Ordered(Append(bs, es), ix), Len(ix) <= Len(bs), NEW x \in Pairs,
           \A n \in 1 .. Len(bs) + 1 : AllBelow(Append(bs, es)[n], x.key),
           \A n \in 1 .. Len(ix) : Less(ix[n].key, x.key)
    PROVE  Ordered(Append(bs, Append(es, x)), ix)
<1> DEFINE fs == Append(es, x)
           cs == Append(bs, es)
           ds == Append(bs, fs)
           l == Len(bs) + 1
<1>1. /\ fs \in Seq(Pairs) /\ Len(fs) = Len(es) + 1 /\ Len(es) \in Nat /\ fs[Len(es) + 1] = x
      /\ \A i \in 1 .. Len(es) : fs[i] = es[i]
  BY AppendIs
<1>2. /\ Len(cs) = l /\ Len(bs) \in Nat /\ cs[l] = es /\ \A n \in 1 .. Len(bs) : cs[n] = bs[n]
  BY AppendIs
<1>3. /\ Len(ds) = l /\ ds[l] = fs /\ \A n \in 1 .. Len(bs) : ds[n] = bs[n]
  BY <1>1, AppendIs
<1>4. \A n \in 1 .. l : n = l \/ n \in 1 .. Len(bs)
  BY <1>2
<1>5. \A i \in 1 .. Len(fs) : i = Len(es) + 1 \/ i \in 1 .. Len(es)
  BY <1>1
<1>6. /\ \A n \in 1 .. l : SortedPairs(cs[n])
      /\ \A n, m \in 1 .. l : n < m => Precedes(cs[n], cs[m])
      /\ \A n \in 1 .. Len(ix) : ix[n].val = n /\ AllAtMost(cs[n], ix[n].key)
      /\ \A n \in 1 .. Len(ix), m \in 1 .. l : n < m => AllAbove(cs[m], ix[n].key)
      /\ \A n \in 1 .. l : AllBelow(cs[n], x.key)
  BY <1>2, Zenon DEF Ordered
<1>7. l \in 1 .. l /\ \A n \in 1 .. Len(bs) : n \in 1 .. l
  BY <1>2
<1> HIDE DEF cs, ds, fs, l
<1>8. SortedPairs(fs)
  BY <1>2, <1>6, <1>7, SortedAppend DEF fs
<1>9. ASSUME NEW n \in 1 .. Len(bs) PROVE Precedes(ds[n], fs)
  <2>1. n < l
    BY <1>2 DEF l
  <2>2. Precedes(bs[n], es) /\ AllBelow(bs[n], x.key)
    BY <1>2, <1>6, <1>7, <2>1
  <2>3. ASSUME NEW i \in 1 .. Len(bs[n]), NEW j \in 1 .. Len(fs)
        PROVE  Less(bs[n][i].key, fs[j].key)
    <3>1. CASE j = Len(es) + 1
      BY <1>1, <2>2, <3>1 DEF AllBelow
    <3>2. CASE j \in 1 .. Len(es)
      BY <1>1, <2>2, <3>2 DEF Precedes
    <3>3. QED
      BY <1>5, <3>1, <3>2
  <2>4. QED
    BY <1>3, <2>3 DEF Precedes
<1>10. ASSUME NEW n \in 1 .. Len(ix) PROVE n \in 1 .. Len(bs) /\ n < l
  BY <1>2 DEF l
<1>11. ASSUME NEW n \in 1 .. Len(ix) PROVE AllAbove(fs, ix[n].key)
  <2>1. AllAbove(es, ix[n].key)
    BY <1>2, <1>6, <1>7, <1>10
  <2>2. ASSUME NEW j \in 1 .. Len(fs) PROVE Less(ix[n].key, fs[j].key)
    <3>1. CASE j = Len(es) + 1
      BY <1>1, <3>1
    <3>2. CASE j \in 1 .. Len(es)
      BY <1>1, <2>1, <3>2 DEF AllAbove
    <3>3. QED
      BY <1>5, <3>1, <3>2
  <2>3. QED
    BY <2>2 DEF AllAbove
<1>12. ASSUME NEW n \in 1 .. l, NEW m \in 1 .. l, n < m PROVE Precedes(ds[n], ds[m])
  <2>1. n \in 1 .. Len(bs)
    BY <1>2, <1>12 DEF l
  <2>2. CASE m = l
    BY <1>3, <1>9, <2>1, <2>2
  <2>3. CASE m \in 1 .. Len(bs)
    BY <1>2, <1>3, <1>6, <1>12, <2>1, <2>3
  <2>4. QED
    BY <1>4, <2>2, <2>3
<1>13. ASSUME NEW n \in 1 .. Len(ix), NEW m \in 1 .. l, n < m PROVE AllAbove(ds[m], ix[n].key)
  <2>1. CASE m = l
    BY <1>3, <1>11, <2>1
  <2>2. CASE m \in 1 .. Len(bs)
    BY <1>2, <1>3, <1>6, <1>13, <2>2
  <2>3. QED
    BY <1>4, <2>1, <2>2
<1>14. \A n \in 1 .. l : SortedPairs(ds[n])
  BY <1>2, <1>3, <1>4, <1>6, <1>7, <1>8
<1>15. \A n \in 1 .. Len(ix) : ix[n].val = n /\ AllAtMost(ds[n], ix[n].key)
  BY <1>2, <1>3, <1>6, <1>10
<1>16. QED
  BY <1>3, <1>12, <1>13, <1>14, <1>15 DEF Ordered, ds, fs

\* A block that is still empty behind the others.
LEMMA OrderedFlush ==
    ASSUME NEW cs \in Seq(Seq(Pairs)), NEW ix \in Seq(Pairs), Ordered(cs, ix), Len(ix) <= Len(cs)
    PROVE  Ordered(Append(cs, <<>>), ix)
<1> DEFINE ds == Append(cs, <<>>)
           l == Len(cs) + 1
<1>1. <<>> \in Seq(Pairs)
  OBVIOUS
<1>2. /\ Len(ds) = l /\ Len(cs) \in Nat /\ ds[l] = <<>> /\ \A n \in 1 .. Len(cs) : ds[n] = cs[n]
  BY <1>1, AppendIs
<1> HIDE DEF ds
<1>3. \A n \in 1 .. l : n = l \/ n \in 1 .. Len(cs)
  BY <1>2
<1>4. /\ \A es : Precedes(es, <<>>) /\ \A k : AllAbove(<<>>, k)
      /\ SortedPairs(<<>>)
  BY DEF Precedes, AllAbove, SortedPairs
<1>5. \A n \in 1 .. Len(ix) : n \in 1 .. Len(cs)
  BY <1>2
<1>6. \A n \in 1 .. l : SortedPairs(ds[n])
  BY <1>2, <1>3, <1>4 DEF Ordered
<1>7. ASSUME NEW n \in 1 .. l, NEW m \in 1 .. l, n < m PROVE Precedes(ds[n], ds[m])
  <2>1. n \in 1 .. Len(cs)
    BY <1>2, <1>7
  <2>2. QED
    BY <1>2, <1>3, <1>4, <1>7, <2>1 DEF Ordered
<1>8. ASSUME NEW n \in 1 .. Len(ix), NEW m \in 1 .. l, n < m PROVE AllAbove(ds[m], ix[n].key)
  BY <1>2, <1>3, <1>4, <1>8 DEF Ordered
<1>9. \A n \in 1 .. Len(ix) : ix[n].val = n /\ AllAtMost(ds[n], ix[n].key)
  BY <1>2, <1>5 DEF Ordered
<1>10. QED
  BY <1>2, <1>6, <1>7, <1>8, <1>9 DEF Ordered, ds

-----------------------------------------------------------------------------
(* The writer *)

Hashes == {BloomHash(k) : k \in Keys}

Writers ==
    [data: BlockWriters, index: BlockWriters, blocks: Seq(Blocks), hashes: Seq(Hashes),
     smallest: Keys, largest: Keys, pending: Nat, pendingKey: Keys]

\* The hashes of all keys of es are among the hashes.
Hashed(hashes, es) ==
    \A i \in 1 .. Len(es) : \E h \in 1 .. Len(hashes) : hashes[h] = BloomHash(es[i].key)

\* The entries of all blocks.
Content(cs) == {x \in Pairs : \E n \in 1 .. Len(cs) : \E i \in 1 .. Len(cs[n]) : x = cs[n][i]}

\* The finished blocks hold bs, none of which is empty.
BlocksHold(blocks, bs) ==
    /\ Len(blocks) = Len(bs)
    /\ \A n \in 1 .. Len(bs) : Holds(blocks[n], bs[n]) /\ bs[n] # <<>>

\* The index entry of the last finished block is made with the next key.
PendingSound(w, bs, es, ix) ==
    \/ w.pending = 0 /\ Len(ix) = Len(bs) /\ (es = <<>> => bs = <<>>)
    \/ /\ w.pending = Len(bs) /\ w.pending # 0
       /\ Len(ix) = Len(bs) - 1
       /\ es = <<>>
       /\ w.pendingKey = LastKey(bs[Len(bs)])

\* All keys have been seen by largest and by the hashes.
KeysSeen(w, cs) ==
    \A n \in 1 .. Len(cs) : AllAtMost(cs[n], w.largest) /\ Hashed(w.hashes, cs[n])

\* bs are the contents of the finished blocks, es that of the block being
\* written, ix that of the index.
WriterState(w, bs, es, ix) ==
    /\ w \in Writers
    /\ Filled(w.data, es)
    /\ w.data.interval = RestartInterval
    /\ Filled(w.index, ix)
    /\ BlocksHold(w.blocks, bs)
    /\ Ordered(Append(bs, es), ix)
    /\ PendingSound(w, bs, es, ix)
    /\ KeysSeen(w, Append(bs, es))
    /\ Len(bs) + (IF es = <<>> THEN 0 ELSE 1) <= Len(w.hashes)

\* The writer has been given the entries P.
WriterHolds(w, P) ==
    \E bs \in Seq(Seq(Pairs)), es \in Seq(Pairs), ix \in Seq(Pairs) :
        WriterState(w, bs, es, ix) /\ Content(Append(bs, es)) = P

\* A new writer has been given nothing.
LEMMA NewWriterHolds == WriterHolds(NewWriter, {})
<1> DEFINE w == NewWriter
           e == <<>>
<1>1. e \in Seq(Pairs) /\ e \in Seq(Seq(Pairs)) /\ e \in Keys /\ Len(e) = 0
  BY DEF Keys
<1>2. RestartInterval \in Nat \ {0} /\ 1 \in Nat \ {0}
  BY WriterOptionsAssumption
<1>3. Filled(NewBlockWriter(RestartInterval), <<>>) /\ Filled(NewBlockWriter(1), <<>>)
  BY <1>2, NewBlockFilled
<1>4. NewBlockWriter(RestartInterval).interval = RestartInterval
  BY DEF NewBlockWriter
<1>5. NewBlockWriter(RestartInterval) \in BlockWriters /\ NewBlockWriter(1) \in BlockWriters
  BY <1>3 DEF Filled
<1>6. /\ w.data = NewBlockWriter(RestartInterval) /\ w.index = NewBlockWriter(1)
      /\ w.blocks = <<>> /\ w.hashes = <<>> /\ w.pending = 0
      /\ w \in Writers
  BY <1>1, <1>5 DEF NewWriter, Writers
<1> HIDE DEF w
<1>7. /\ Append(<<>>, <<>>) = << <<>> >> /\ Len(<< <<>> >>) = 1 /\ << <<>> >>[1] = <<>>
  OBVIOUS
<1> DEFINE cs == Append(<<>>, <<>>)
<1>8. Len(cs) = 1 /\ cs[1] = <<>>
  OBVIOUS
<1> HIDE DEF cs
<1>9. Ordered(cs, <<>>)
  BY <1>8 DEF Ordered, SortedPairs, Precedes
<1>10. KeysSeen(w, cs)
  BY <1>8 DEF KeysSeen, AllAtMost, Hashed
<1>11. Content(cs) = {}
  BY <1>8 DEF Content
<1>12. BlocksHold(w.blocks, <<>>) /\ PendingSound(w, <<>>, <<>>, <<>>)
  BY <1>6 DEF BlocksHold, PendingSound
<1>13. WriterState(w, <<>>, <<>>, <<>>)
  BY <1>3, <1>4, <1>6, <1>9, <1>10, <1>12 DEF WriterState, cs
<1>14. QED
  BY <1>1, <1>11, <1>13 DEF WriterHolds, w, cs

\* A key the writer accepts is above all keys it has been given.
LEMMA MayAddAbove ==
    ASSUME NEW w, NEW bs \in Seq(Seq(Pairs)), NEW es \in Seq(Pairs), NEW ix \in Seq(Pairs),
           WriterState(w, bs, es, ix), NEW key \in Keys, MayAdd(w, key)
    PROVE  \A n \in 1 .. Len(bs) + 1 : AllBelow(Append(bs, es)[n], key)
<1> DEFINE cs == Append(bs, es)
<1>1. /\ cs \in Seq(Seq(Pairs)) /\ Len(cs) = Len(bs) + 1 /\ Len(bs) \in Nat /\ cs[Len(bs) + 1] = es
  BY AppendIs
<1>2. KeysSeen(w, cs) /\ w.largest \in Keys
  BY DEF WriterState, Writers
<1> HIDE DEF cs
<1>3. CASE w.hashes = <<>>
  <2>1. Len(bs) + (IF es = <<>> THEN 0 ELSE 1) <= 0
    BY <1>3 DEF WriterState
  <2>2. Len(bs) = 0 /\ es = <<>>
    BY <1>1, <2>1
  <2>3. ASSUME NEW n \in 1 .. Len(bs) + 1 PROVE cs[n] = <<>>
    BY <1>1, <2>2
  <2>4. QED
    BY <2>3 DEF AllBelow, cs
<1>4. CASE Less(w.largest, key)
  <2>1. ASSUME NEW n \in 1 .. Len(bs) + 1 PROVE AllBelow(cs[n], key)
    <3>1. cs[n] \in Seq(Pairs)
      BY <1>1, ElementOfSeq
    <3>2. AllAtMost(cs[n], w.largest)
      BY <1>1, <1>2 DEF KeysSeen
    <3>3. QED
      BY <1>2, <1>4, <3>1, <3>2, AtMostBelow
  <2>2. QED
    BY <2>1 DEF cs
<1>5. QED
  BY <1>3, <1>4 DEF MayAdd

\* The pending index entry is made: nothing is pending any more, and with the
\* separator of the next key all keys of the index are below that key.
LEMMA AddIndexSeparates ==
    ASSUME NEW w, NEW bs \in Seq(Seq(Pairs)), NEW es \in Seq(Pairs), NEW ix \in Seq(Pairs),
           WriterState(w, bs, es, ix), NEW key \in Keys,
           \A n \in 1 .. Len(bs) + 1 : AllBelow(Append(bs, es)[n], key)
    PROVE  \E iy \in Seq(Pairs) :
                LET i == AddIndexEntry(w, ShortSeparator(w.pendingKey, key))
                IN  /\ i \in Writers
                    /\ Filled(i.index, iy)
                    /\ Ordered(Append(bs, es), iy)
                    /\ i.pending = 0 /\ Len(iy) = Len(bs)
                    /\ \A n \in 1 .. Len(iy) : Less(iy[n].key, key)
                    /\ i.data = w.data /\ i.blocks = w.blocks /\ i.hashes = w.hashes
                    /\ i.largest = w.largest
<1> DEFINE cs == Append(bs, es)
           i == AddIndexEntry(w, ShortSeparator(w.pendingKey, key))
<1>1. /\ cs \in Seq(Seq(Pairs)) /\ Len(cs) = Len(bs) + 1 /\ Len(bs) \in Nat /\ cs[Len(bs) + 1] = es
      /\ \A n \in 1 .. Len(bs) : cs[n] = bs[n] /\ bs[n] \in Seq(Pairs)
  BY AppendIs, ElementOfSeq
<1>2. \A n \in 1 .. Len(bs) + 1 : AllBelow(cs[n], key)
  OBVIOUS
<1>3. /\ w \in Writers /\ Filled(w.index, ix) /\ BlocksHold(w.blocks, bs) /\ Ordered(cs, ix)
      /\ PendingSound(w, bs, es, ix)
  BY DEF WriterState
<1>4. Len(ix) \in Nat /\ w.pending \in Nat
  BY <1>3 DEF Writers
<1> HIDE DEF cs
\* an index key in front of a block that is not empty
<1>5. ASSUME NEW n \in 1 .. Len(ix), NEW m \in 1 .. Len(bs) + 1, n < m, cs[m] # <<>>
      PROVE  Less(ix[n].key, key)
  <2>1. cs[m] \in Seq(Pairs) /\ 1 \in 1 .. Len(cs[m])
    <3>1. cs[m] \in Seq(Pairs)
      BY <1>1, ElementOfSeq
    <3>2. QED
      BY <1>5, <3>1
  <2>2. cs[m][1].key \in Keys /\ ix[n].key \in Keys
    BY <2>1, PairKey
  <2>3. Less(ix[n].key, cs[m][1].key)
    BY <1>1, <1>3, <1>5, <2>1 DEF Ordered, AllAbove
  <2>4. Less(cs[m][1].key, key)
    BY <1>2, <2>1 DEF AllBelow
  <2>5. QED
    BY <2>2, <2>3, <2>4, LessTransitive
<1>6. CASE w.pending = 0
  <2>1. i = w
    BY <1>6 DEF AddIndexEntry
  <2>2. Len(ix) = Len(bs) /\ (es = <<>> => bs = <<>>)
    BY <1>3, <1>6 DEF PendingSound
  <2>3. ASSUME NEW n \in 1 .. Len(ix) PROVE Less(ix[n].key, key)
    <3>1. bs # <<>>
      BY <1>1, <2>2
    <3>2. Len(bs) + 1 \in 1 .. Len(bs) + 1 /\ n < Len(bs) + 1 /\ cs[Len(bs) + 1] # <<>>
      BY <1>1, <2>2, <3>1
    <3>3. QED
      BY <1>5, <3>2
  <2> HIDE DEF i
  <2>4. QED
    BY <1>3, <1>6, <2>1, <2>2, <2>3 DEF cs, i
<1>7. CASE w.pending # 0
  <2> DEFINE sep == ShortSeparator(w.pendingKey, key)
             l == Len(bs)
             x == [key |-> sep, val |-> w.pending]
             iy == Append(ix, x)
             idx == BlockAdd(w.index, sep, w.pending)
  <2>1. /\ w.pending = l /\ Len(ix) = l - 1 /\ es = <<>> /\ w.pendingKey = LastKey(bs[l])
    BY <1>3, <1>7 DEF PendingSound
  <2>2. l \in 1 .. l /\ l \in 1 .. l + 1 /\ Len(ix) + 1 = l
    BY <1>1, <1>7, <2>1
  <2>3. bs[l] \in Seq(Pairs) /\ bs[l] # <<>> /\ SortedPairs(bs[l]) /\ AllBelow(bs[l], key)
    BY <1>1, <1>2, <1>3, <2>2 DEF BlocksHold, Ordered
  <2>4. /\ w.pendingKey \in Keys /\ AllAtMost(bs[l], w.pendingKey)
        /\ Less(w.pendingKey, key)
    <3>1. LastKey(bs[l]) \in Keys /\ AllAtMost(bs[l], LastKey(bs[l]))
      BY <2>3, LastKeyHighest
    <3>2. Len(bs[l]) \in 1 .. Len(bs[l]) /\ LastKey(bs[l]) = bs[l][Len(bs[l])].key
      BY <2>3 DEF LastKey
    <3>3. Less(LastKey(bs[l]), key)
      BY <2>3, <3>2 DEF AllBelow
    <3>4. QED
      BY <2>1, <3>1, <3>3
  <2>5. sep \in Keys /\ AtLeast(sep, w.pendingKey) /\ Less(sep, key)
    BY <2>4, ShortSeparatorIs
  <2> HIDE DEF sep
  <2>6. x \in Pairs /\ x.key = sep /\ x.val = Len(ix) + 1
    BY <1>4, <2>1, <2>2, <2>5 DEF Pairs
  <2>7. Filled(idx, iy)
    BY <1>3, <1>4, <2>5, BlockAddFilled
  <2>8. AllAtMost(bs[l], sep)
    BY <2>3, <2>4, <2>5, AtMostHigher
  <2>9. ASSUME NEW m \in 1 .. Len(cs), l < m PROVE AllAbove(cs[m], sep)
    <3>1. m = l + 1
      BY <1>1, <2>9
    <3>2. cs[m] = <<>>
      BY <1>1, <2>1, <3>1
    <3>3. QED
      BY <3>2 DEF AllAbove
  <2>10. Ordered(cs, iy)
    <3>1. Len(ix) + 1 \in 1 .. Len(cs) /\ AllAtMost(cs[Len(ix) + 1], x.key)
      BY <1>1, <2>2, <2>6, <2>8
    <3>2. \A m \in 1 .. Len(cs) : Len(ix) + 1 < m => AllAbove(cs[m], x.key)
      BY <2>2, <2>6, <2>9
    <3> HIDE DEF x
    <3>3. QED
      BY <1>1, <1>3, <2>6, <3>1, <3>2, OrderedIndex
  <2>11. /\ iy \in Seq(Pairs) /\ Len(iy) = Len(ix) + 1 /\ iy[Len(ix) + 1] = x
         /\ \A n \in 1 .. Len(ix) : iy[n] = ix[n]
    <3> HIDE DEF x
    <3> QED BY <2>6, AppendIs
  <2>12. ASSUME NEW n \in 1 .. Len(iy) PROVE Less(iy[n].key, key)
    <3>1. CASE n = l
      BY <2>2, <2>5, <2>6, <2>11, <3>1
    <3>2. CASE n \in 1 .. Len(ix)
      <4>1. n < l /\ cs[l] # <<>>
        BY <1>1, <2>1, <2>2, <2>3, <3>2
      <4>2. Less(ix[n].key, key)
        BY <1>5, <2>2, <3>2, <4>1
      <4>3. QED
        BY <2>11, <3>2, <4>2
    <3>3. n = l \/ n \in 1 .. Len(ix)
      BY <1>4, <2>2, <2>11
    <3>4. QED
      BY <3>1, <3>2, <3>3
  <2>13. i = [w EXCEPT !.index = idx, !.pending = 0]
    BY <1>7 DEF AddIndexEntry, sep
  <2>14. idx \in BlockWriters
    BY <2>7 DEF Filled
  <2> HIDE DEF i, idx, iy
  <2>15. /\ i \in Writers /\ i.index = idx /\ i.pending = 0
         /\ i.data = w.data /\ i.blocks = w.blocks /\ i.hashes = w.hashes /\ i.largest = w.largest
    BY <1>3, <2>13, <2>14 DEF Writers
  <2>16. QED
    BY <2>2, <2>7, <2>10, <2>11, <2>12, <2>15 DEF cs, i
<1>8. QED
  BY <1>6, <1>7

\* The block being written is finished: its content goes on where it was.
LEMMA FlushState ==
    ASSUME NEW w, NEW bs \in Seq(Seq(Pairs)), NEW es \in Seq(Pairs), NEW ix \in Seq(Pairs),
           WriterState(w, bs, es, ix), es # <<>>
    PROVE  /\ WriterState(FlushDataBlock(w), Append(bs, es), <<>>, ix)
           /\ FlushDataBlock(w).hashes = w.hashes
           /\ FlushDataBlock(w).pending # 0
<1> DEFINE v == FlushDataBlock(w)
           cs == Append(bs, es)
           ds == Append(cs, <<>>)
           blk == Finish(w.data)
           new == NewBlockWriter(RestartInterval)
<1>1. /\ cs \in Seq(Seq(Pairs)) /\ Len(cs) = Len(bs) + 1 /\ Len(bs) \in Nat /\ cs[Len(bs) + 1] = es
      /\ \A n \in 1 .. Len(bs) : cs[n] = bs[n]
  BY AppendIs
<1> HIDE DEF cs
<1>2. /\ Len(ds) = Len(cs) + 1 /\ ds[Len(cs) + 1] = <<>> /\ \A n \in 1 .. Len(cs) : ds[n] = cs[n]
  <2>1. <<>> \in Seq(Pairs)
    OBVIOUS
  <2>2. QED
    BY <1>1, <2>1, AppendIs
<1> HIDE DEF ds
<1>3. /\ w \in Writers /\ Filled(w.data, es) /\ Filled(w.index, ix) /\ BlocksHold(w.blocks, bs)
      /\ Ordered(cs, ix) /\ PendingSound(w, bs, es, ix) /\ KeysSeen(w, cs)
      /\ Len(bs) + 1 <= Len(w.hashes)
  BY DEF WriterState, cs
<1>4. Holds(blk, es)
  BY <1>3, FinishHolds
<1>5. /\ blk \in Blocks /\ w.blocks \in Seq(Blocks) /\ w.data.prevKey \in Keys
      /\ w.data.prevKey = LastKey(es)
  BY <1>3, <1>4 DEF Holds, Writers, Filled, BlockWriters
<1>6. Filled(new, <<>>) /\ new \in BlockWriters /\ new.interval = RestartInterval
  <2>1. Filled(new, <<>>)
    BY WriterOptionsAssumption, NewBlockFilled
  <2>2. QED
    BY <2>1 DEF Filled, NewBlockWriter
<1>7. v = [w EXCEPT !.blocks = Append(w.blocks, blk), !.pending = Len(w.blocks) + 1,
                    !.pendingKey = w.data.prevKey, !.data = new]
  BY DEF FlushDataBlock
<1> HIDE DEF blk, new
<1>8. /\ Append(w.blocks, blk) \in Seq(Blocks) /\ Len(Append(w.blocks, blk)) = Len(w.blocks) + 1
      /\ Len(w.blocks) \in Nat /\ Append(w.blocks, blk)[Len(w.blocks) + 1] = blk
      /\ \A n \in 1 .. Len(w.blocks) : Append(w.blocks, blk)[n] = w.blocks[n]
  BY <1>5, AppendIs
<1> DEFINE blocks == Append(w.blocks, blk)
<1> HIDE DEF v, blocks
<1>9. /\ v \in Writers /\ v.blocks = blocks /\ v.pending = Len(w.blocks) + 1
      /\ v.pendingKey = w.data.prevKey /\ v.data = new /\ v.index = w.index
      /\ v.hashes = w.hashes /\ v.largest = w.largest
  <2> DEFINE p == Len(w.blocks) + 1
             k == w.data.prevKey
  <2>1. blocks \in Seq(Blocks) /\ p \in Nat /\ k \in Keys
    BY <1>5, <1>8 DEF blocks
  <2>2. v = [w EXCEPT !.blocks = blocks, !.pending = p, !.pendingKey = k, !.data = new]
    BY <1>7 DEF blocks
  <2> HIDE DEF p, k
  <2>3. v \in Writers
    BY <1>3, <1>6, <2>1, <2>2 DEF Writers
  <2>4. /\ v.blocks = blocks /\ v.pending = p /\ v.pendingKey = k /\ v.data = new
        /\ v.index = w.index /\ v.hashes = w.hashes /\ v.largest = w.largest
    BY <1>3, <2>2 DEF Writers
  <2>5. QED
    BY <2>3, <2>4 DEF p, k
<1>10. Len(w.blocks) = Len(bs) /\ \A n \in 1 .. Len(bs) : Holds(w.blocks[n], bs[n]) /\ bs[n] # <<>>
  BY <1>3 DEF BlocksHold
<1>11. BlocksHold(blocks, cs)
  <2>1. ASSUME NEW n \in 1 .. Len(cs) PROVE Holds(blocks[n], cs[n]) /\ cs[n] # <<>>
    <3>1. CASE n = Len(bs) + 1
      BY <1>1, <1>4, <1>8, <1>10, <3>1 DEF blocks
    <3>2. CASE n \in 1 .. Len(bs)
      BY <1>1, <1>8, <1>10, <3>2 DEF blocks
    <3>3. QED
      BY <1>1, <3>1, <3>2
  <2>2. QED
    BY <1>1, <1>8, <1>10, <2>1 DEF BlocksHold, blocks
<1>12. w.pending = 0 /\ Len(ix) = Len(bs)
  BY <1>3 DEF PendingSound
<1>13. Ordered(ds, ix)
  BY <1>1, <1>3, <1>12, OrderedFlush DEF ds
<1>14. PendingSound(v, cs, <<>>, ix)
  <2>1. v.pending = Len(cs) /\ v.pending # 0 /\ Len(ix) = Len(cs) - 1
    BY <1>1, <1>9, <1>10, <1>12
  <2>2. v.pendingKey = LastKey(cs[Len(cs)])
    BY <1>1, <1>5, <1>9
  <2>3. QED
    BY <2>1, <2>2 DEF PendingSound
<1>15. KeysSeen(v, ds)
  <2>1. ASSUME NEW n \in 1 .. Len(ds)
        PROVE  AllAtMost(ds[n], v.largest) /\ Hashed(v.hashes, ds[n])
    <3>1. CASE n = Len(cs) + 1
      BY <1>2, <3>1 DEF AllAtMost, Hashed
    <3>2. CASE n \in 1 .. Len(cs)
      BY <1>2, <1>3, <1>9, <3>2 DEF KeysSeen
    <3>3. QED
      BY <1>1, <1>2, <3>1, <3>2
  <2>2. QED
    BY <2>1 DEF KeysSeen
<1>16. Len(cs) + 0 <= Len(v.hashes)
  BY <1>1, <1>3, <1>9
<1>17. WriterState(v, cs, <<>>, ix)
  BY <1>3, <1>6, <1>9, <1>11, <1>13, <1>14, <1>15, <1>16 DEF WriterState, ds
<1>18. v.hashes = w.hashes /\ v.pending # 0
  BY <1>8, <1>9
<1>19. QED
  BY <1>17, <1>18 DEF v, cs

\* An empty block adds nothing to the content.
LEMMA ContentEmpty ==
    ASSUME NEW cs \in Seq(Seq(Pairs))
    PROVE  Content(Append(cs, <<>>)) = Content(cs)
<1> DEFINE ds == Append(cs, <<>>)
<1>1. /\ Len(ds) = Len(cs) + 1 /\ ds[Len(cs) + 1] = <<>> /\ Len(cs) \in Nat
      /\ \A n \in 1 .. Len(cs) : ds[n] = cs[n]
  <2>1. <<>> \in Seq(Pairs)
    OBVIOUS
  <2>2. QED
    BY <2>1, AppendIs
<1> HIDE DEF ds
<1>2. ASSUME NEW n \in 1 .. Len(ds), NEW i \in 1 .. Len(ds[n]) PROVE n \in 1 .. Len(cs)
  BY <1>1
<1>3. \A n \in 1 .. Len(cs) : n \in 1 .. Len(ds)
  BY <1>1
<1>4. QED
  BY <1>1, <1>2, <1>3 DEF Content, ds

\* An entry more in the last block.
LEMMA ContentAdd ==
    ASSUME NEW bs \in Seq(Seq(Pairs)), NEW es \in Seq(Pairs), NEW x \in Pairs
    PROVE  Content(Append(bs, Append(es, x))) = Content(Append(bs, es)) \cup {x}
<1> DEFINE fs == Append(es, x)
           cs == Append(bs, es)
           ds == Append(bs, fs)
           l == Len(bs) + 1
<1>1. /\ fs \in Seq(Pairs) /\ Len(fs) = Len(es) + 1 /\ Len(es) \in Nat /\ fs[Len(es) + 1] = x
      /\ \A i \in 1 .. Len(es) : fs[i] = es[i]
  BY AppendIs
<1>2. /\ Len(cs) = l /\ Len(bs) \in Nat /\ cs[l] = es /\ \A n \in 1 .. Len(bs) : cs[n] = bs[n]
  BY AppendIs
<1>3. /\ Len(ds) = l /\ ds[l] = fs /\ \A n \in 1 .. Len(bs) : ds[n] = bs[n]
  BY <1>1, AppendIs
<1>4. l \in 1 .. l /\ \A n \in 1 .. l : n = l \/ n \in 1 .. Len(bs)
  BY <1>2
<1> HIDE DEF cs, ds, fs, l
<1>5. ASSUME NEW y \in Content(ds) PROVE y \in Content(cs) \cup {x}
  <2>1. PICK n \in 1 .. l : \E i \in 1 .. Len(ds[n]) : y = ds[n][i]
    BY <1>3 DEF Content
  <2>2. PICK i \in 1 .. Len(ds[n]) : y = ds[n][i]
    BY <2>1
  <2>3. y \in Pairs
    BY DEF Content
  <2>4. CASE n = l
    <3>1. i = Len(es) + 1 \/ i \in 1 .. Len(es)
      BY <1>1, <1>3, <2>2, <2>4
    <3>2. i = Len(es) + 1 => y = x
      BY <1>1, <1>3, <2>2, <2>4
    <3>3. i \in 1 .. Len(es) => y = cs[n][i] /\ i \in 1 .. Len(cs[n])
      BY <1>1, <1>2, <1>3, <2>2, <2>4
    <3>4. QED
      BY <1>2, <2>3, <3>1, <3>2, <3>3 DEF Content
  <2>5. CASE n \in 1 .. Len(bs)
    <3>1. ds[n] = cs[n]
      BY <1>2, <1>3, <2>5
    <3>2. QED
      BY <1>2, <2>2, <2>3, <3>1 DEF Content
  <2>6. QED
    BY <1>4, <2>4, <2>5
<1>6. ASSUME NEW y \in Content(cs) PROVE y \in Content(ds)
  <2>1. PICK n \in 1 .. l : \E i \in 1 .. Len(cs[n]) : y = cs[n][i]
    BY <1>2 DEF Content
  <2>2. PICK i \in 1 .. Len(cs[n]) : y = cs[n][i]
    BY <2>1
  <2>3. i \in 1 .. Len(ds[n]) /\ y = ds[n][i] /\ y \in Pairs
    <3>1. y \in Pairs
      BY DEF Content
    <3>2. CASE n = l
      BY <1>1, <1>2, <1>3, <2>2, <3>1, <3>2
    <3>3. CASE n \in 1 .. Len(bs)
      BY <1>2, <1>3, <2>2, <3>1, <3>3
    <3>4. QED
      BY <1>4, <3>2, <3>3
  <2>4. QED
    BY <1>3, <2>3 DEF Content
<1>7. x \in Content(ds)
  <2>1. Len(es) + 1 \in 1 .. Len(ds[l]) /\ ds[l][Len(es) + 1] = x
    BY <1>1, <1>3
  <2>2. QED
    BY <1>3, <1>4, <2>1 DEF Content
<1>8. QED
  BY <1>5, <1>6, <1>7 DEF cs, ds, fs

\* The writer takes in an entry it accepts, and nothing else changes.
LEMMA WriterAddHolds ==
    ASSUME NEW w, NEW P, WriterHolds(w, P), NEW key \in Keys, NEW val \in Nat, MayAdd(w, key)
    PROVE  /\ WriterHolds(WriterAdd(w, key, val), P \cup {[key |-> key, val |-> val]})
           /\ Len(WriterAdd(w, key, val).hashes) = Len(w.hashes) + 1
           /\ Len(w.hashes) \in Nat
           /\ \A x \in P : Less(x.key, key)
<1> DEFINE x == [key |-> key, val |-> val]
<1>1. PICK bs \in Seq(Seq(Pairs)), es \in Seq(Pairs), ix \in Seq(Pairs) :
            WriterState(w, bs, es, ix) /\ Content(Append(bs, es)) = P
  BY DEF WriterHolds
<1> DEFINE cs == Append(bs, es)
           fs == Append(es, x)
           ds == Append(bs, fs)
           l == Len(bs) + 1
           i == AddIndexEntry(w, ShortSeparator(w.pendingKey, key))
<1>2. \A n \in 1 .. Len(bs) + 1 : AllBelow(Append(bs, es)[n], key)
  BY <1>1, MayAddAbove
<1>3. PICK iy \in Seq(Pairs) :
        /\ i \in Writers /\ Filled(i.index, iy) /\ Ordered(cs, iy)
        /\ i.pending = 0 /\ Len(iy) = Len(bs)
        /\ \A n \in 1 .. Len(iy) : Less(iy[n].key, key)
        /\ i.data = w.data /\ i.blocks = w.blocks /\ i.hashes = w.hashes /\ i.largest = w.largest
  BY <1>1, <1>2, AddIndexSeparates
<1> HIDE DEF i
<1>4. x \in Pairs /\ x.key = key
  BY DEF Pairs
<1>5. /\ fs \in Seq(Pairs) /\ fs # <<>> /\ Len(fs) = Len(es) + 1 /\ Len(es) \in Nat
      /\ fs[Len(es) + 1] = x /\ \A j \in 1 .. Len(es) : fs[j] = es[j]
  <2> HIDE DEF x
  <2> QED BY <1>4, AppendIs
<1>6. /\ Len(cs) = l /\ Len(bs) \in Nat /\ cs[l] = es /\ \A n \in 1 .. Len(bs) : cs[n] = bs[n]
      /\ cs \in Seq(Seq(Pairs))
  BY AppendIs
<1>7. /\ Len(ds) = l /\ ds[l] = fs /\ \A n \in 1 .. Len(bs) : ds[n] = bs[n]
  BY <1>5, AppendIs
<1>8. Filled(w.data, es) /\ w.data.interval = RestartInterval /\ BlocksHold(w.blocks, bs)
      /\ KeysSeen(w, cs) /\ w \in Writers /\ Len(bs) + (IF es = <<>> THEN 0 ELSE 1) <= Len(w.hashes)
  BY <1>1 DEF WriterState
<1> DEFINE data == BlockAdd(w.data, key, val)
           h == BloomHash(key)
           hashes == Append(w.hashes, h)
           d == [i EXCEPT !.data = BlockAdd(@, key, val),
                          !.hashes = Append(@, BloomHash(key)),
                          !.smallest = IF i.hashes = <<>> THEN key ELSE @,
                          !.largest = key]
<1>9. WriterAdd(w, key, val) = IF EstimatedSize(d.data) >= BlockSize THEN FlushDataBlock(d) ELSE d
  BY DEF WriterAdd, i
<1>10. Filled(data, fs) /\ data.interval = RestartInterval /\ data \in BlockWriters
  <2>1. Filled(data, fs) /\ data.interval = w.data.interval
    BY <1>8, BlockAddFilled
  <2>2. QED
    BY <1>8, <2>1 DEF Filled
<1>11. /\ hashes \in Seq(Hashes) /\ Len(hashes) = Len(w.hashes) + 1 /\ hashes[Len(w.hashes) + 1] = h
       /\ \A j \in 1 .. Len(w.hashes) : hashes[j] = w.hashes[j]
       /\ Len(w.hashes) \in Nat
  <2>1. h \in Hashes /\ w.hashes \in Seq(Hashes)
    BY <1>8 DEF Hashes, Writers
  <2> HIDE DEF h
  <2>2. QED
    BY <2>1, AppendIs
<1>12. /\ d \in Writers /\ d.data = data /\ d.hashes = hashes /\ d.largest = key
       /\ d.index = i.index /\ d.blocks = i.blocks /\ d.pending = i.pending
  <2> DEFINE smallest == IF i.hashes = <<>> THEN key ELSE i.smallest
  <2>1. smallest \in Keys
    BY <1>3 DEF Writers
  <2>2. d = [i EXCEPT !.data = data, !.hashes = hashes, !.smallest = smallest, !.largest = key]
    BY <1>3, Zenon
  <2> HIDE DEF d, data, hashes, smallest
  <2>3. d \in Writers
    BY <1>3, <1>10, <1>11, <2>1, <2>2 DEF Writers
  <2>4. /\ d.data = data /\ d.hashes = hashes /\ d.largest = key
        /\ d.index = i.index /\ d.blocks = i.blocks /\ d.pending = i.pending
    BY <1>3, <2>2 DEF Writers
  <2>5. QED
    BY <2>3, <2>4
<1> HIDE DEF d, data, hashes, cs, ds, fs
<1>13. Ordered(ds, iy)
  <2>1. \A n \in 1 .. Len(bs) + 1 : AllBelow(Append(bs, es)[n], x.key)
    BY <1>2, <1>4
  <2>2. \A n \in 1 .. Len(iy) : Less(iy[n].key, x.key)
    BY <1>3, <1>4
  <2>3. Len(iy) <= Len(bs)
    BY <1>3, <1>6
  <2>4. Ordered(Append(bs, es), iy)
    BY <1>3 DEF cs
  <2> HIDE DEF x
  <2>5. QED
    BY <1>4, <2>1, <2>2, <2>3, <2>4, OrderedAdd DEF ds, fs
<1>14. KeysSeen(d, ds)
  <2>1. ASSUME NEW n \in 1 .. Len(bs) + 1 PROVE AllAtMost(cs[n], key) /\ Hashed(hashes, cs[n])
    <3>1. cs[n] \in Seq(Pairs) /\ AllBelow(cs[n], key) /\ Hashed(w.hashes, cs[n])
      <4>1. cs[n] \in Seq(Pairs)
        BY <1>6, ElementOfSeq
      <4>2. QED
        BY <1>2, <1>6, <1>8, <4>1 DEF KeysSeen, cs
    <3>2. ASSUME NEW j \in 1 .. Len(cs[n]) PROVE AtLeast(key, cs[n][j].key)
      BY <3>1, PairKey, LessTotal DEF AllBelow, AtLeast
    <3>3. ASSUME NEW j \in 1 .. Len(cs[n])
          PROVE  \E k \in 1 .. Len(hashes) : hashes[k] = BloomHash(cs[n][j].key)
      <4>1. PICK k \in 1 .. Len(w.hashes) : w.hashes[k] = BloomHash(cs[n][j].key)
        BY <3>1 DEF Hashed
      <4>2. k \in 1 .. Len(hashes) /\ hashes[k] = w.hashes[k]
        BY <1>11
      <4>3. QED
        BY <4>1, <4>2
    <3>4. QED
      BY <3>2, <3>3 DEF AllAtMost, Hashed
  <2>2. AllAtMost(fs, key) /\ Hashed(hashes, fs)
    <3>1. AllAtMost(es, key) /\ Hashed(hashes, es)
      BY <1>6, <2>1
    <3>2. ~Less(key, key)
      BY LessTotal
    <3>3. \A j \in 1 .. Len(fs) : j = Len(es) + 1 \/ j \in 1 .. Len(es)
      BY <1>5
    <3>4. Len(w.hashes) + 1 \in 1 .. Len(hashes)
      BY <1>11
    <3>5. AllAtMost(fs, key)
      BY <1>4, <1>5, <3>1, <3>2, <3>3 DEF AllAtMost, AtLeast
    <3>6. Hashed(hashes, fs)
      BY <1>4, <1>5, <1>11, <3>1, <3>3, <3>4 DEF Hashed
    <3>7. QED
      BY <3>5, <3>6
  <2>3. ASSUME NEW n \in 1 .. Len(ds) PROVE AllAtMost(ds[n], key) /\ Hashed(hashes, ds[n])
    <3>1. CASE n = l
      BY <1>7, <2>2, <3>1
    <3>2. CASE n \in 1 .. Len(bs)
      BY <1>6, <1>7, <2>1, <3>2
    <3>3. QED
      BY <1>6, <1>7, <3>1, <3>2
  <2>4. QED
    BY <1>12, <2>3 DEF KeysSeen
<1>15. Len(bs) + 1 <= Len(hashes)
  <2> DEFINE more == IF es = <<>> THEN 0 ELSE 1
  <2>1. more \in Nat /\ Len(bs) + more <= Len(w.hashes)
    BY <1>8
  <2> HIDE DEF more
  <2>2. QED
    BY <1>6, <1>11, <2>1
<1>16. PendingSound(d, bs, fs, iy)
  BY <1>3, <1>5, <1>12 DEF PendingSound
<1>17. WriterState(d, bs, fs, iy)
  BY <1>3, <1>5, <1>8, <1>10, <1>12, <1>13, <1>14, <1>15, <1>16 DEF WriterState, ds
<1>18. Content(ds) = P \cup {x}
  BY <1>1, <1>4, ContentAdd DEF ds, fs
<1>19. ASSUME NEW y \in P PROVE Less(y.key, key)
  <2>1. PICK n \in 1 .. Len(cs) : \E j \in 1 .. Len(cs[n]) : y = cs[n][j]
    BY <1>1 DEF Content, cs
  <2>2. QED
    BY <1>2, <1>6, <2>1 DEF AllBelow, cs
<1>20. CASE EstimatedSize(d.data) >= BlockSize
  <2> DEFINE v == FlushDataBlock(d)
  <2>1. WriterState(v, ds, <<>>, iy) /\ v.hashes = d.hashes
    BY <1>5, <1>17, FlushState DEF ds
  <2>2. ds \in Seq(Seq(Pairs)) /\ <<>> \in Seq(Pairs)
    BY <1>5 DEF ds
  <2>3. Content(Append(ds, <<>>)) = P \cup {x}
    BY <1>18, <2>2, ContentEmpty
  <2>4. WriterAdd(w, key, val) = v
    BY <1>9, <1>20
  <2> HIDE DEF v, x
  <2>5. WriterHolds(v, P \cup {x})
    BY <2>1, <2>2, <2>3 DEF WriterHolds
  <2>6. QED
    BY <1>11, <1>12, <1>19, <2>1, <2>4, <2>5 DEF x
<1>21. CASE ~(EstimatedSize(d.data) >= BlockSize)
  <2>1. WriterAdd(w, key, val) = d
    BY <1>9, <1>21
  <2>2. WriterHolds(d, P \cup {x})
    BY <1>5, <1>17, <1>18 DEF WriterHolds, ds
  <2>3. QED
    BY <1>11, <1>12, <1>19, <2>1, <2>2
<1>22. QED
  BY <1>20, <1>21

-----------------------------------------------------------------------------
(* Tables *)

\* bs are the contents of the blocks of the table, ix that of its index.
TableState(t, bs, ix) ==
    /\ BlocksHold(t.blocks, bs)
    /\ bs # <<>>
    /\ Holds(t.index, ix)
    /\ Len(ix) = Len(bs)
    /\ Ordered(bs, ix)
    /\ \A x \in Content(bs) : MayContain(t.filter, x.key)

\* The table holds the entries P.
TableHolds(t, P) ==
    \E bs \in Seq(Seq(Pairs)), ix \in Seq(Pairs) : TableState(t, bs, ix) /\ Content(bs) = P

\* The filter of the hashes of some keys rejects none of these keys.
LEMMA FilterAccepts ==
    ASSUME NEW hashes, NEW key, NEW h \in 1 .. Len(hashes), hashes[h] = BloomHash(key)
    PROVE  MayContain(BuildFilter(hashes), key)
<1> DEFINE n == NLines(Len(hashes))
           f == BuildFilter(hashes)
           bits == {FilterBit(hashes[i], j, n) : i \in 1 .. Len(hashes), j \in 0 .. NumProbes - 1}
<1>1. f.nLines = n /\ f.bits = bits
  BY DEF BuildFilter
<1>2. ASSUME NEW j \in 0 .. NumProbes - 1
      PROVE  FilterBit(BloomHash(key), j, n) \in bits
  <2>1. FilterBit(hashes[h], j, n) \in bits
    OBVIOUS
  <2>2. QED
    BY <2>1
<1> HIDE DEF f, bits, n
<1>3. QED
  BY <1>1, <1>2 DEF MayContain, f

\* The blocks of a table without the empty one behind them.
LEMMA OrderedFront ==
    ASSUME NEW bs \in Seq(Seq(Pairs)), NEW es \in Seq(Pairs), NEW ix \in Seq(Pairs),
           Ordered(Append(bs, es), ix), Len(ix) <= Len(bs)
    PROVE  Ordered(bs, ix)
<1> DEFINE cs == Append(bs, es)
<1>1. /\ Len(cs) = Len(bs) + 1 /\ Len(bs) \in Nat /\ Len(ix) \in Nat
      /\ \A n \in 1 .. Len(bs) : cs[n] = bs[n]
  BY AppendIs
<1> HIDE DEF cs
<1>2. /\ \A n \in 1 .. Len(bs) : n \in 1 .. Len(cs)
      /\ \A n \in 1 .. Len(ix) : n \in 1 .. Len(bs)
  BY <1>1
<1>3. Ordered(cs, ix)
  BY DEF cs
<1>4. QED
  BY <1>1, <1>2, <1>3 DEF Ordered

\* Close makes a table of all that the writer has been given.
LEMMA WriterCloseHolds ==
    ASSUME NEW w, NEW P, WriterHolds(w, P), w.hashes # <<>>, P # {}
    PROVE  /\ TableHolds(WriterClose(w), P)
           /\ Len(WriterClose(w).blocks) <= Len(w.hashes)
           /\ WriterClose(w).blocks \in Seq(Blocks)
<1>1. PICK cs \in Seq(Seq(Pairs)), es \in Seq(Pairs), ix \in Seq(Pairs) :
            WriterState(w, cs, es, ix) /\ Content(Append(cs, es)) = P
  BY DEF WriterHolds
<1> DEFINE d == IF w.data.entries # <<>> THEN FlushDataBlock(w) ELSE w
           k == ShortSuccessor(d.pendingKey)
           i == AddIndexEntry(d, k)
           t == WriterClose(w)
<1>2. /\ t.blocks = i.blocks /\ t.index = Finish(i.index) /\ t.filter = BuildFilter(i.hashes)
  BY DEF WriterClose
<1>3. w.data.entries # <<>> <=> es # <<>>
  <2>1. Len(w.data.entries) = Len(es) /\ w.data.entries \in Seq(EncodedEntries)
    BY <1>1 DEF WriterState, Filled, Decodes, BlockWriters
  <2>2. QED
    BY <2>1
\* after the last block: bs are the blocks, none is being written
<1>4. PICK bs \in Seq(Seq(Pairs)) :
        /\ WriterState(d, bs, <<>>, ix) /\ Content(Append(bs, <<>>)) = P /\ d.hashes = w.hashes
  <2>1. CASE es # <<>>
    <3>1. WriterState(d, Append(cs, es), <<>>, ix) /\ d.hashes = w.hashes
      BY <1>1, <1>3, <2>1, FlushState
    <3>2. Append(cs, es) \in Seq(Seq(Pairs))
      OBVIOUS
    <3>3. Content(Append(Append(cs, es), <<>>)) = P
      BY <1>1, <3>2, ContentEmpty
    <3> HIDE DEF d
    <3>4. QED
      BY <3>1, <3>2, <3>3
  <2>2. CASE es = <<>>
    BY <1>1, <1>3, <2>2
  <2>3. QED
    BY <2>1, <2>2
<1> HIDE DEF t, d
<1>5. Content(bs) = P
  BY <1>4, ContentEmpty
<1>6. bs # <<>> /\ Len(bs) \in Nat /\ Len(bs) > 0
  <2>1. bs # <<>>
    <3>1. bs = <<>> => Content(bs) = {}
      BY DEF Content
    <3>2. QED
      BY <1>5, <3>1
  <2>2. QED
    BY <2>1
<1>7. /\ d \in Writers /\ Filled(d.index, ix) /\ BlocksHold(d.blocks, bs)
      /\ Ordered(Append(bs, <<>>), ix) /\ PendingSound(d, bs, <<>>, ix)
      /\ KeysSeen(d, Append(bs, <<>>)) /\ Len(bs) + 0 <= Len(d.hashes)
  BY <1>4 DEF WriterState
<1> DEFINE l == Len(bs)
           x == [key |-> k, val |-> d.pending]
           iy == Append(ix, x)
<1>8. d.pending = l /\ Len(ix) = l - 1 /\ d.pendingKey = LastKey(bs[l]) /\ d.pending # 0
  BY <1>6, <1>7 DEF PendingSound
<1>9. bs[l] \in Seq(Pairs) /\ bs[l] # <<>> /\ SortedPairs(bs[l]) /\ l \in 1 .. l
  <2>1. l \in 1 .. l
    BY <1>6
  <2>2. bs[l] \in Seq(Pairs)
    BY <2>1, ElementOfSeq
  <2>3. Ordered(bs, ix)
    <3>1. Len(ix) <= Len(bs) /\ <<>> \in Seq(Pairs)
      BY <1>6, <1>8
    <3>2. QED
      BY <1>7, <3>1, OrderedFront
  <2>4. QED
    BY <1>7, <2>1, <2>2, <2>3 DEF BlocksHold, Ordered
<1>10. d.pendingKey \in Keys /\ AllAtMost(bs[l], d.pendingKey)
  BY <1>8, <1>9, LastKeyHighest
<1>11. k \in Keys /\ AtLeast(k, d.pendingKey)
  BY <1>10, ShortSuccessorIs
<1> HIDE DEF k
<1>12. AllAtMost(bs[l], k)
  BY <1>9, <1>10, <1>11, AtMostHigher
<1>13. x \in Pairs /\ x.key = k /\ x.val = Len(ix) + 1 /\ Len(ix) + 1 = l
  BY <1>6, <1>8, <1>11 DEF Pairs
<1>14. Ordered(bs, iy)
  <2>1. Ordered(bs, ix)
    <3>1. Len(ix) <= Len(bs) /\ <<>> \in Seq(Pairs)
      BY <1>6, <1>8
    <3>2. QED
      BY <1>7, <3>1, OrderedFront
  <2>2. Len(ix) + 1 \in 1 .. Len(bs) /\ AllAtMost(bs[Len(ix) + 1], x.key)
    BY <1>9, <1>12, <1>13
  <2>3. \A m \in 1 .. Len(bs) : Len(ix) + 1 < m => AllAbove(bs[m], x.key)
    BY <1>6, <1>13
  <2> HIDE DEF x
  <2>4. QED
    BY <1>13, <2>1, <2>2, <2>3, OrderedIndex
<1> DEFINE idx == BlockAdd(d.index, k, d.pending)
<1>15. Filled(idx, iy)
  <2>1. d.pending \in Nat
    BY <1>6, <1>8
  <2>2. QED
    BY <1>7, <1>11, <2>1, BlockAddFilled
<1>16. i = [d EXCEPT !.index = idx, !.pending = 0]
  BY <1>8 DEF AddIndexEntry
<1> HIDE DEF idx, i
<1>17. i.index = idx /\ i.blocks = d.blocks /\ i.hashes = d.hashes
  BY <1>7, <1>16 DEF Writers
<1>18. iy \in Seq(Pairs) /\ Len(iy) = Len(bs)
  <2> HIDE DEF x
  <2> QED BY <1>13, AppendIs
<1> HIDE DEF iy
<1>19. Holds(t.index, iy)
  BY <1>2, <1>15, <1>17, <1>18, FinishHolds DEF i, k
<1>20. BlocksHold(t.blocks, bs)
  BY <1>2, <1>7, <1>17 DEF i, k
<1>21. ASSUME NEW y \in Content(bs) PROVE MayContain(t.filter, y.key)
  <2>1. PICK n \in 1 .. Len(bs) : \E j \in 1 .. Len(bs[n]) : y = bs[n][j]
    BY DEF Content
  <2>2. n \in 1 .. Len(Append(bs, <<>>)) /\ Append(bs, <<>>)[n] = bs[n]
    <3>1. <<>> \in Seq(Pairs)
      OBVIOUS
    <3>2. Len(Append(bs, <<>>)) = Len(bs) + 1 /\ Append(bs, <<>>)[n] = bs[n]
      BY <3>1, AppendIs
    <3>3. QED
      BY <1>6, <3>2
  <2>3. Hashed(d.hashes, bs[n])
    BY <1>7, <2>2 DEF KeysSeen
  <2>4. PICK h \in 1 .. Len(d.hashes) : d.hashes[h] = BloomHash(y.key)
    BY <2>1, <2>3 DEF Hashed
  <2>5. MayContain(BuildFilter(d.hashes), y.key)
    BY <2>4, FilterAccepts
  <2>6. t.filter = BuildFilter(d.hashes)
    BY <1>2, <1>17 DEF i, k
  <2>7. QED
    BY <2>5, <2>6
<1>22. TableState(t, bs, iy)
  BY <1>6, <1>14, <1>18, <1>19, <1>20, <1>21 DEF TableState
<1>23. TableHolds(t, P)
  BY <1>5, <1>18, <1>22 DEF TableHolds
<1>24. Len(t.blocks) = Len(bs) /\ t.blocks \in Seq(Blocks)
  <2>1. d.blocks \in Seq(Blocks)
    BY <1>7 DEF Writers
  <2>2. QED
    BY <1>2, <1>17, <1>20, <2>1 DEF BlocksHold, i, k
<1>25. Len(bs) <= Len(w.hashes)
  BY <1>4, <1>6, <1>7
<1>26. QED
  BY <1>6, <1>23, <1>24, <1>25 DEF t

-----------------------------------------------------------------------------
(* Table iterators *)

TableIterators(f) ==
    [fileID: {f}, idx: BlockIterators, dat: BlockIterators, blk: Nat, ok: BOOLEAN,
     loads: Seq({f} \X (Nat \ {0}))]

\* The iterator stands at the i-th entry of the n-th block.
StandsAt(t, bs, ix, it, n, i) ==
    /\ n \in 1 .. Len(bs)
    /\ it.ok
    /\ it.blk = n
    /\ At(it.idx, ix, n) /\ Ready(t.index, ix, it.idx)
    /\ At(it.dat, bs[n], i) /\ Ready(t.blocks[n], bs[n], it.dat)

\* The iterator stands at an entry of the table, which holds the entries P.
Stands(t, P, it) ==
    \E bs \in Seq(Seq(Pairs)), ix \in Seq(Pairs) :
        /\ TableState(t, bs, ix)
        /\ Content(bs) = P
        /\ \E n \in 1 .. Len(bs) : \E i \in 1 .. Len(bs[n]) : StandsAt(t, bs, ix, it, n, i)

\* The blocks it has loaded are blocks of the table.
LoadsSound(t, it) == \A l \in 1 .. Len(it.loads) : it.loads[l][2] \in 1 .. Len(t.blocks)

\* The order of keys is that of their places.
LEMMA OrderIsPlace ==
    ASSUME NEW bs \in Seq(Seq(Pairs)), NEW ix \in Seq(Pairs), Ordered(bs, ix),
           NEW n \in 1 .. Len(bs), NEW i \in 1 .. Len(bs[n]),
           NEW m \in 1 .. Len(bs), NEW j \in 1 .. Len(bs[m])
    PROVE  /\ Less(bs[n][i].key, bs[m][j].key) <=> (n < m \/ (n = m /\ i < j))
           /\ bs[n][i].key \in Keys /\ bs[m][j].key \in Keys
<1>1. bs[n] \in Seq(Pairs) /\ bs[m] \in Seq(Pairs) /\ Len(bs) \in Nat
  BY ElementOfSeq
<1>2. bs[n][i].key \in Keys /\ bs[m][j].key \in Keys
  BY <1>1, PairKey
<1>3. /\ n < m => Less(bs[n][i].key, bs[m][j].key)
      /\ m < n => Less(bs[m][j].key, bs[n][i].key)
  BY DEF Ordered, Precedes
<1>4. /\ n = m /\ i < j => Less(bs[n][i].key, bs[m][j].key)
      /\ n = m /\ j < i => Less(bs[m][j].key, bs[n][i].key)
  BY DEF Ordered, SortedPairs
<1>5. n \in Nat /\ m \in Nat /\ i \in Nat /\ j \in Nat
  BY <1>1
<1>6. n < m \/ m < n \/ (n = m /\ (i < j \/ j < i \/ i = j))
  BY <1>5
<1>7. n = m /\ i = j => bs[n][i].key = bs[m][j].key
  OBVIOUS
<1>8. ~(n < m /\ m < n) /\ ~(n < m /\ n = m) /\ ~(m < n /\ n = m) /\ ~(i < j /\ j < i) /\ ~(i < j /\ i = j)
  BY <1>5
<1>9. QED
  BY <1>2, <1>3, <1>4, <1>6, <1>7, <1>8, LessTotal

\* A data block is loaded, and its first entry is there.
LEMMA LoadAndFirstStands ==
    ASSUME NEW t, NEW bs \in Seq(Seq(Pairs)), NEW ix \in Seq(Pairs), TableState(t, bs, ix),
           NEW f, NEW it \in TableIterators(f), NEW n \in 1 .. Len(bs),
           At(it.idx, ix, n), Ready(t.index, ix, it.idx), LoadsSound(t, it)
    PROVE  /\ StandsAt(t, bs, ix, LoadAndFirst(t, it), n, 1)
           /\ 1 \in 1 .. Len(bs[n])
           /\ LoadAndFirst(t, it) \in TableIterators(f)
           /\ LoadsSound(t, LoadAndFirst(t, it))
<1> DEFINE new == NewBlockIterator(t.blocks[n])
           loads == Append(it.loads, <<f, n>>)
           l == LoadDataBlock(t, it)
           d == BlockFirst(t.blocks[n], new)
           r == LoadAndFirst(t, it)
<1>1. bs[n] \in Seq(Pairs) /\ bs[n] # <<>> /\ Holds(t.blocks[n], bs[n]) /\ Len(t.blocks) = Len(bs)
  <2>1. bs[n] \in Seq(Pairs)
    BY ElementOfSeq
  <2>2. QED
    BY <2>1 DEF TableState, BlocksHold
<1>2. 1 \in 1 .. Len(bs[n])
  BY <1>1
<1>3. it.idx.val = n /\ it.fileID = f
  <2>1. it.idx.val = ix[n].val /\ n \in 1 .. Len(ix)
    BY DEF At
  <2>2. QED
    BY <2>1 DEF TableState, Ordered, TableIterators
<1>4. new \in BlockIterators
  BY <1>1, NewIteratorAtEnd
<1>5. At(d, bs[n], 1) /\ Ready(t.blocks[n], bs[n], d)
  BY <1>1, <1>4, BlockFirstAt
<1>6. d \in BlockIterators /\ d.valid
  BY <1>5 DEF Ready, At
<1>7. loads \in Seq({f} \X (Nat \ {0})) /\ \A k \in 1 .. Len(loads) : loads[k][2] \in 1 .. Len(t.blocks)
  <2>1. it.loads \in Seq({f} \X (Nat \ {0})) /\ n \in Nat \ {0}
    BY DEF TableIterators
  <2>2. <<f, n>> \in {f} \X (Nat \ {0}) /\ <<f, n>>[2] = n
    BY <2>1
  <2> DEFINE e == <<f, n>>
             L == {f} \X (Nat \ {0})
  <2>3. e \in L /\ e[2] = n /\ it.loads \in Seq(L)
    BY <2>1, <2>2
  <2>4. loads = Append(it.loads, e)
    OBVIOUS
  <2> HIDE DEF e, L, loads
  <2>5. /\ loads \in Seq(L) /\ Len(loads) = Len(it.loads) + 1 /\ Len(it.loads) \in Nat
        /\ loads[Len(it.loads) + 1] = e /\ \A k \in 1 .. Len(it.loads) : loads[k] = it.loads[k]
    BY <2>3, <2>4, AppendIs
  <2>6. ASSUME NEW k \in 1 .. Len(loads) PROVE loads[k][2] \in 1 .. Len(t.blocks)
    <3>1. CASE k = Len(it.loads) + 1
      BY <1>1, <2>3, <2>5, <3>1
    <3>2. CASE k \in 1 .. Len(it.loads)
      BY <2>5, <3>2 DEF LoadsSound
    <3>3. QED
      BY <2>5, <3>1, <3>2
  <2>7. QED
    BY <2>5, <2>6 DEF L
<1>8. l = [it EXCEPT !.blk = n, !.dat = new, !.loads = loads]
  BY <1>3 DEF LoadDataBlock
<1> HIDE DEF new, loads, l
<1>9. l \in TableIterators(f) /\ l.blk = n /\ l.dat = new /\ l.loads = loads /\ l.idx = it.idx
  <2>1. n \in Nat
    OBVIOUS
  <2>2. l \in TableIterators(f)
    BY <1>4, <1>7, <1>8, <2>1 DEF TableIterators
  <2>3. l.blk = n /\ l.dat = new /\ l.loads = loads /\ l.idx = it.idx
    BY <1>8 DEF TableIterators
  <2>4. QED
    BY <2>2, <2>3
<1>10. r = [l EXCEPT !.dat = d, !.ok = d.valid]
  BY <1>9 DEF LoadAndFirst, l
<1> HIDE DEF r, d
<1>11. /\ r \in TableIterators(f) /\ r.dat = d /\ r.ok = d.valid /\ r.blk = l.blk /\ r.idx = l.idx
       /\ r.loads = l.loads
  <2>1. d.valid \in BOOLEAN
    BY <1>6 DEF BlockIterators
  <2> DEFINE v == d.valid
  <2> HIDE DEF v
  <2>2. r = [l EXCEPT !.dat = d, !.ok = v] /\ v \in BOOLEAN
    BY <1>10, <2>1 DEF v
  <2>3. r \in TableIterators(f)
    BY <1>6, <1>9, <2>2 DEF TableIterators
  <2>4. r.dat = d /\ r.ok = v /\ r.blk = l.blk /\ r.idx = l.idx /\ r.loads = l.loads
    BY <1>9, <2>2 DEF TableIterators
  <2>5. QED
    BY <2>3, <2>4 DEF v
<1>12. StandsAt(t, bs, ix, r, n, 1)
  <2>1. r.ok
    BY <1>6, <1>11
  <2>2. QED
    BY <1>5, <1>9, <1>11, <2>1 DEF StandsAt
<1>13. LoadsSound(t, r)
  BY <1>7, <1>9, <1>11 DEF LoadsSound
<1>14. QED
  BY <1>2, <1>11, <1>12, <1>13 DEF r

\* The next block, if there is one.
LEMMA NextBlockStands ==
    ASSUME NEW t, NEW bs \in Seq(Seq(Pairs)), NEW ix \in Seq(Pairs), TableState(t, bs, ix),
           NEW f, NEW it \in TableIterators(f), NEW n \in 1 .. Len(bs),
           At(it.idx, ix, n), Ready(t.index, ix, it.idx), LoadsSound(t, it)
    PROVE  /\ n < Len(bs) => /\ StandsAt(t, bs, ix, NextBlock(t, it), n + 1, 1)
                             /\ n + 1 \in 1 .. Len(bs)
                             /\ 1 \in 1 .. Len(bs[n + 1])
           /\ n = Len(bs) => ~NextBlock(t, it).ok
           /\ NextBlock(t, it) \in TableIterators(f)
           /\ LoadsSound(t, NextBlock(t, it))
<1> DEFINE i == BlockNext(t.index, it.idx)
           j == [it EXCEPT !.idx = i]
           r == NextBlock(t, it)
<1>1. Holds(t.index, ix) /\ Len(ix) = Len(bs) /\ Len(bs) \in Nat
  BY DEF TableState
<1>2. it.idx.offset = n + 1 /\ it.idx \in BlockIterators
  BY DEF At, TableIterators
<1>3. CASE n < Len(bs)
  <2>1. it.idx.offset <= Len(ix) /\ n + 1 \in 1 .. Len(bs)
    BY <1>1, <1>2, <1>3
  <2>2. At(i, ix, n + 1) /\ Ready(t.index, ix, i)
    BY <1>1, <1>2, <2>1, BlockNextAt
  <2>3. i.valid /\ i \in BlockIterators
    BY <2>2 DEF At, Ready
  <2>4. r = LoadAndFirst(t, j)
    BY <2>3 DEF NextBlock
  <2> HIDE DEF i
  <2>5. j \in TableIterators(f) /\ j.idx = i /\ j.loads = it.loads
    BY <2>3 DEF TableIterators
  <2> HIDE DEF j, r
  <2>6. LoadsSound(t, j)
    BY <2>5 DEF LoadsSound
  <2>7. /\ StandsAt(t, bs, ix, LoadAndFirst(t, j), n + 1, 1) /\ 1 \in 1 .. Len(bs[n + 1])
        /\ LoadAndFirst(t, j) \in TableIterators(f) /\ LoadsSound(t, LoadAndFirst(t, j))
    BY <2>1, <2>2, <2>5, <2>6, LoadAndFirstStands
  <2>8. n # Len(bs)
    BY <1>1, <1>3
  <2>9. QED
    BY <2>1, <2>4, <2>7, <2>8 DEF r
<1>4. CASE n = Len(bs)
  <2>1. ~i.valid /\ i \in BlockIterators
    BY <1>1, <1>2, <1>4, BlockNextEnd
  <2>2. r = [it EXCEPT !.idx = i, !.blk = 0, !.ok = FALSE]
    BY <2>1 DEF NextBlock
  <2> HIDE DEF i, r
  <2>3. r \in TableIterators(f)
    BY <2>1, <2>2 DEF TableIterators
  <2>4. ~r.ok /\ r.loads = it.loads
    BY <2>2 DEF TableIterators
  <2>5. LoadsSound(t, r) /\ ~(n < Len(bs))
    BY <1>1, <1>4, <2>4 DEF LoadsSound
  <2>6. QED
    BY <2>3, <2>4, <2>5 DEF r
<1>5. n < Len(bs) \/ n = Len(bs)
  BY <1>1
<1>6. QED
  BY <1>3, <1>4, <1>5

\* The keys of the index are in order, and there is one for every block.
LEMMA IndexSorted ==
    ASSUME NEW t, NEW bs \in Seq(Seq(Pairs)), NEW ix \in Seq(Pairs), TableState(t, bs, ix)
    PROVE  SortedPairs(ix) /\ ix # <<>> /\ Holds(t.index, ix) /\ Len(ix) = Len(bs) /\ Len(bs) \in Nat
<1>1. /\ Holds(t.index, ix) /\ Len(ix) = Len(bs) /\ Len(bs) \in Nat /\ bs # <<>>
      /\ Ordered(bs, ix) /\ BlocksHold(t.blocks, bs)
  BY DEF TableState
<1>2. ix # <<>>
  BY <1>1
<1>3. ASSUME NEW n \in 1 .. Len(ix), NEW m \in 1 .. Len(ix), n < m
      PROVE  Less(ix[n].key, ix[m].key)
  <2>1. bs[m] \in Seq(Pairs) /\ bs[m] # <<>> /\ m \in 1 .. Len(bs)
    <3>1. m \in 1 .. Len(bs)
      BY <1>1
    <3>2. bs[m] \in Seq(Pairs)
      BY <3>1, ElementOfSeq
    <3>3. QED
      BY <1>1, <3>1, <3>2 DEF BlocksHold
  <2>2. 1 \in 1 .. Len(bs[m])
    BY <2>1
  <2>3. Less(ix[n].key, bs[m][1].key) /\ AtLeast(ix[m].key, bs[m][1].key)
    BY <1>1, <1>3, <2>1, <2>2 DEF Ordered, AllAbove, AllAtMost
  <2>4. ix[n].key \in Keys /\ ix[m].key \in Keys /\ bs[m][1].key \in Keys
    BY <2>1, <2>2, PairKey
  <2>5. QED
    BY <2>3, <2>4, LessMixed DEF AtLeast
<1>4. QED
  BY <1>1, <1>2, <1>3 DEF SortedPairs

\* Every entry has a place, and a place an entry.
LEMMA ContentPlace ==
    ASSUME NEW bs \in Seq(Seq(Pairs))
    PROVE  /\ \A x \in Content(bs) :
                 \E m \in 1 .. Len(bs) : \E j \in 1 .. Len(bs[m]) : x = bs[m][j]
           /\ \A m \in 1 .. Len(bs) : \A j \in 1 .. Len(bs[m]) :
                 bs[m][j] \in Content(bs) /\ bs[m][j] \in Pairs
<1>1. ASSUME NEW m \in 1 .. Len(bs), NEW j \in 1 .. Len(bs[m])
      PROVE  bs[m][j] \in Content(bs) /\ bs[m][j] \in Pairs
  <2>1. bs[m] \in Seq(Pairs)
    BY ElementOfSeq
  <2>2. bs[m][j] \in Pairs
    BY <2>1, PairKey
  <2>3. QED
    BY <2>2 DEF Content
<1>2. QED
  BY <1>1 DEF Content

\* The iterator stands at the first entry of the table that is not below the
\* target, or there is none.
TableFound(t, P, it, target) ==
    /\ it.ok => /\ Stands(t, P, it)
                /\ AtLeast(it.dat.key, target)
                /\ \A x \in P : AtLeast(x.key, target) => AtLeast(x.key, it.dat.key)
    /\ ~it.ok => \A x \in P : Less(x.key, target)

\* What stands first among the places that are not below the target has the
\* smallest key of all that are not below it.
LEMMA FirstPlaceFound ==
    ASSUME NEW t, NEW bs \in Seq(Seq(Pairs)), NEW ix \in Seq(Pairs), TableState(t, bs, ix),
           NEW it, NEW n \in 1 .. Len(bs), NEW i \in 1 .. Len(bs[n]), StandsAt(t, bs, ix, it, n, i),
           NEW target \in Keys, AtLeast(bs[n][i].key, target),
           \A m \in 1 .. Len(bs) : \A j \in 1 .. Len(bs[m]) :
                (m < n \/ (m = n /\ j < i)) => Less(bs[m][j].key, target)
    PROVE  TableFound(t, Content(bs), it, target)
<1>1. it.ok /\ it.dat.key = bs[n][i].key
  BY DEF StandsAt, At
<1>2. Stands(t, Content(bs), it)
  BY DEF Stands
<1>3. ASSUME NEW x \in Content(bs), AtLeast(x.key, target) PROVE AtLeast(x.key, it.dat.key)
  <2>1. PICK m \in 1 .. Len(bs) : \E j \in 1 .. Len(bs[m]) : x = bs[m][j]
    BY ContentPlace
  <2>2. PICK j \in 1 .. Len(bs[m]) : x = bs[m][j]
    BY <2>1
  <2>3. ~(m < n \/ (m = n /\ j < i))
    BY <1>3, <2>2 DEF AtLeast
  <2>4. Less(bs[m][j].key, bs[n][i].key) <=> (m < n \/ (m = n /\ j < i))
    <3>1. Ordered(bs, ix)
      BY DEF TableState
    <3>2. QED
      BY <3>1, OrderIsPlace
  <2>5. QED
    BY <1>1, <2>2, <2>3, <2>4 DEF AtLeast
<1>4. QED
  BY <1>1, <1>2, <1>3 DEF TableFound

\* SeekGE in a table finds the first entry that is not below the target, by way
\* of the index: the block whose key in the index is the first that is not below
\* the target, and the block after it if all its entries are below the target.
LEMMA TableSeekIs ==
    ASSUME NEW t, NEW P, TableHolds(t, P), NEW f, NEW it \in TableIterators(f), NEW target \in Keys
    PROVE  /\ TableSeekGE(t, it, target) \in TableIterators(f)
           /\ LoadsSound(t, TableSeekGE(t, it, target))
           /\ TableFound(t, P, TableSeekGE(t, it, target), target)
<1>1. PICK bs \in Seq(Seq(Pairs)), ix \in Seq(Pairs) : TableState(t, bs, ix) /\ Content(bs) = P
  BY DEF TableHolds
<1>2. SortedPairs(ix) /\ ix # <<>> /\ Holds(t.index, ix) /\ Len(ix) = Len(bs) /\ Len(bs) \in Nat
  BY <1>1, IndexSorted
<1>3. Ordered(bs, ix) /\ BlocksHold(t.blocks, bs)
  BY <1>1 DEF TableState
<1> DEFINE i == BlockSeekGE(t.index, NewBlockIterator(t.index), target)
           j == [it EXCEPT !.idx = i, !.ok = FALSE, !.loads = <<>>]
           l == LoadDataBlock(t, j)
           d == BlockSeekGE(t.blocks[l.blk], l.dat, target)
           r == TableSeekGE(t, it, target)
<1>4. r = IF ~i.valid THEN j
          ELSE IF d.valid THEN [l EXCEPT !.dat = d, !.ok = TRUE]
          ELSE NextBlock(t, [l EXCEPT !.dat = d])
  BY DEF TableSeekGE
<1>5. Found(i, ix, target) /\ i \in BlockIterators /\ (i.valid => Ready(t.index, ix, i))
  <2>1. NewBlockIterator(t.index) \in BlockIterators
    BY <1>2, NewIteratorAtEnd
  <2>2. QED
    BY <1>2, <2>1, BlockSeekFound
<1> HIDE DEF i
<1>6. /\ j \in TableIterators(f) /\ j.idx = i /\ ~j.ok /\ j.loads = <<>>
  <2> DEFINE e == <<>>
  <2>1. e \in Seq({f} \X (Nat \ {0})) /\ j = [it EXCEPT !.idx = i, !.ok = FALSE, !.loads = e]
    OBVIOUS
  <2> HIDE DEF e, j
  <2>2. j \in TableIterators(f)
    BY <1>5, <2>1 DEF TableIterators
  <2>3. j.idx = i /\ ~j.ok /\ j.loads = e
    BY <2>1 DEF TableIterators
  <2>4. QED
    BY <2>2, <2>3 DEF e
<1>7. LoadsSound(t, j)
  BY <1>6 DEF LoadsSound
<1> HIDE DEF j
<1>8. ASSUME NEW m \in 1 .. Len(bs), Less(ix[m].key, target), NEW k \in 1 .. Len(bs[m])
      PROVE  Less(bs[m][k].key, target)
  <2>1. AtLeast(ix[m].key, bs[m][k].key)
    BY <1>2, <1>3 DEF Ordered, AllAtMost
  <2>2. ix[m].key \in Keys /\ bs[m][k].key \in Keys
    <3>1. m \in 1 .. Len(ix) /\ bs[m] \in Seq(Pairs)
      BY <1>2, ElementOfSeq
    <3>2. QED
      BY <3>1, PairKey
  <2>3. QED
    BY <1>8, <2>1, <2>2, LessMixed DEF AtLeast
<1>9. CASE ~i.valid
  <2>1. r = j
    BY <1>4, <1>9
  <2>2. \A m \in 1 .. Len(ix) : Less(ix[m].key, target)
    BY <1>5, <1>9 DEF Found, At
  <2>3. \A x \in Content(bs) : Less(x.key, target)
    BY <1>2, <1>8, <2>2, ContentPlace
  <2>4. TableFound(t, P, r, target)
    BY <1>1, <1>6, <2>1, <2>3 DEF TableFound
  <2> HIDE DEF r
  <2>5. QED
    BY <1>6, <1>7, <2>1, <2>4 DEF r
<1>10. CASE i.valid
  <2>1. PICK n \in 1 .. Len(ix) :
            /\ At(i, ix, n)
            /\ AtLeast(ix[n].key, target)
            /\ \A m \in 1 .. Len(ix) : m < n => Less(ix[m].key, target)
    BY <1>5, <1>10 DEF Found
  <2>2. n \in 1 .. Len(bs)
    BY <1>2
  <2>3. bs[n] \in Seq(Pairs) /\ bs[n] # <<>> /\ SortedPairs(bs[n]) /\ Holds(t.blocks[n], bs[n])
    BY <1>3, <2>2, ElementOfSeq DEF BlocksHold, Ordered
  <2> DEFINE new == NewBlockIterator(t.blocks[n])
             loads == <<<<f, n>>>>
  <2>4. i.val = n /\ j.fileID = f
    BY <1>3, <1>6, <2>1 DEF At, Ordered, TableIterators
  <2>5. l = [j EXCEPT !.blk = n, !.dat = new, !.loads = loads]
    BY <1>6, <2>4 DEF LoadDataBlock
  <2>6. new \in BlockIterators
    BY <2>3, NewIteratorAtEnd
  <2>7. loads \in Seq({f} \X (Nat \ {0})) /\ Len(loads) = 1 /\ loads[1][2] = n
    <3>1. <<f, n>> \in {f} \X (Nat \ {0})
      OBVIOUS
    <3>2. QED
      BY <3>1
  <2> HIDE DEF new, loads, l
  <2>8. l \in TableIterators(f) /\ l.blk = n /\ l.dat = new /\ l.loads = loads /\ l.idx = i
    <3>1. n \in Nat
      OBVIOUS
    <3>2. l \in TableIterators(f)
      BY <1>6, <2>5, <2>6, <2>7, <3>1 DEF TableIterators
    <3>3. l.blk = n /\ l.dat = new /\ l.loads = loads /\ l.idx = i
      BY <1>6, <2>5 DEF TableIterators
    <3>4. QED
      BY <3>2, <3>3
  <2>9. Found(d, bs[n], target) /\ d \in BlockIterators /\ (d.valid => Ready(t.blocks[n], bs[n], d))
    BY <2>3, <2>6, <2>8, BlockSeekFound
  <2> HIDE DEF d
  <2>10. LoadsSound(t, l)
    <3>1. Len(t.blocks) = Len(bs) /\ \A k \in 1 .. Len(loads) : k = 1
      BY <1>3, <2>7 DEF BlocksHold
    <3>2. QED
      BY <2>2, <2>7, <2>8, <3>1 DEF LoadsSound
  <2>11. ASSUME NEW m \in 1 .. Len(bs), m < n, NEW k \in 1 .. Len(bs[m])
         PROVE  Less(bs[m][k].key, target)
    BY <1>2, <1>8, <2>1, <2>11
  <2>12. CASE d.valid
    <3>1. r = [l EXCEPT !.dat = d, !.ok = TRUE]
      BY <1>4, <1>10, <2>12
    <3> HIDE DEF r
    <3>2. r \in TableIterators(f)
      BY <2>8, <2>9, <3>1 DEF TableIterators
    <3>3. r.dat = d /\ r.ok /\ r.blk = n /\ r.loads = l.loads /\ r.idx = i
      BY <2>8, <3>1 DEF TableIterators
    <3>4. PICK k \in 1 .. Len(bs[n]) :
            /\ At(d, bs[n], k)
            /\ AtLeast(bs[n][k].key, target)
            /\ \A m \in 1 .. Len(bs[n]) : m < k => Less(bs[n][m].key, target)
      BY <2>9, <2>12 DEF Found
    <3>5. StandsAt(t, bs, ix, r, n, k)
      BY <1>5, <1>10, <2>1, <2>2, <2>9, <2>12, <3>3, <3>4 DEF StandsAt
    <3>6. \A m \in 1 .. Len(bs) : \A c \in 1 .. Len(bs[m]) :
                (m < n \/ (m = n /\ c < k)) => Less(bs[m][c].key, target)
      BY <2>11, <3>4
    <3>7. TableFound(t, Content(bs), r, target)
      BY <1>1, <2>2, <3>4, <3>5, <3>6, FirstPlaceFound
    <3>8. LoadsSound(t, r)
      BY <2>10, <3>3 DEF LoadsSound
    <3>9. QED
      BY <1>1, <3>2, <3>7, <3>8 DEF r
  <2>13. CASE ~d.valid
    <3> DEFINE e == [l EXCEPT !.dat = d]
    <3>1. r = NextBlock(t, e)
      BY <1>4, <1>10, <2>13
    <3>2. e \in TableIterators(f) /\ e.idx = i /\ e.loads = l.loads
      BY <2>8, <2>9 DEF TableIterators
    <3> HIDE DEF e, r
    <3>3. LoadsSound(t, e)
      BY <2>10, <3>2 DEF LoadsSound
    <3>4. /\ n < Len(bs) => /\ StandsAt(t, bs, ix, r, n + 1, 1)
                            /\ n + 1 \in 1 .. Len(bs)
                            /\ 1 \in 1 .. Len(bs[n + 1])
          /\ n = Len(bs) => ~r.ok
          /\ r \in TableIterators(f)
          /\ LoadsSound(t, r)
      BY <1>1, <1>5, <1>10, <2>1, <2>2, <3>1, <3>2, <3>3, NextBlockStands
    <3>5. ASSUME NEW m \in 1 .. Len(bs), m <= n, NEW k \in 1 .. Len(bs[m])
          PROVE  Less(bs[m][k].key, target)
      <4>1. m = n => Less(bs[m][k].key, target)
        BY <2>9, <2>13 DEF Found, At
      <4>2. m = n \/ m < n
        BY <3>5
      <4>3. QED
        BY <2>11, <4>1, <4>2
    <3>6. CASE n < Len(bs)
      <4>1. AtLeast(bs[n + 1][1].key, target)
        <5>1. Less(ix[n].key, bs[n + 1][1].key)
          <6>1. n < n + 1 /\ n \in 1 .. Len(ix) /\ n + 1 \in 1 .. Len(bs)
            BY <1>2, <3>4, <3>6
          <6>2. AllAbove(bs[n + 1], ix[n].key)
            BY <1>3, <6>1 DEF Ordered
          <6>3. QED
            BY <3>4, <3>6, <6>2 DEF AllAbove
        <5>2. ix[n].key \in Keys /\ bs[n + 1][1].key \in Keys
          <6>1. bs[n + 1] \in Seq(Pairs)
            BY <3>4, <3>6, ElementOfSeq
          <6>2. QED
            BY <3>4, <3>6, <6>1, PairKey
        <5>3. QED
          BY <2>1, <5>1, <5>2, LessTransitive DEF AtLeast
      <4>2. \A m \in 1 .. Len(bs) : \A c \in 1 .. Len(bs[m]) :
                (m < n + 1 \/ (m = n + 1 /\ c < 1)) => Less(bs[m][c].key, target)
        <5>1. \A m \in 1 .. Len(bs) : m < n + 1 => m <= n
          BY <1>2
        <5>2. QED
          BY <3>5, <5>1
      <4>3. TableFound(t, Content(bs), r, target)
        BY <1>1, <3>4, <3>6, <4>1, <4>2, FirstPlaceFound
      <4>4. QED
        BY <1>1, <3>4, <4>3 DEF r
    <3>7. CASE n = Len(bs)
      <4>1. \A m \in 1 .. Len(bs) : m <= n
        BY <3>7
      <4>2. \A x \in Content(bs) : Less(x.key, target)
        BY <3>5, <4>1, ContentPlace
      <4>3. TableFound(t, P, r, target)
        BY <1>1, <3>4, <3>7, <4>2 DEF TableFound
      <4>4. QED
        BY <3>4, <4>3 DEF r
    <3>8. n < Len(bs) \/ n = Len(bs)
      BY <1>2
    <3>9. QED
      BY <3>6, <3>7, <3>8
  <2>14. QED
    BY <2>12, <2>13
<1>11. QED
  BY <1>9, <1>10

\* A new iterator over a table.
LEMMA NewTableIteratorIs ==
    ASSUME NEW t, NEW P, TableHolds(t, P), NEW f
    PROVE  /\ NewTableIterator(t, f) \in TableIterators(f)
           /\ LoadsSound(t, NewTableIterator(t, f))
           /\ ~NewTableIterator(t, f).ok
<1>1. PICK bs \in Seq(Seq(Pairs)), ix \in Seq(Pairs) : TableState(t, bs, ix)
  BY DEF TableHolds
<1> DEFINE b == NewBlockIterator(t.index)
           e == <<>>
           r == NewTableIterator(t, f)
<1>2. b \in BlockIterators
  BY <1>1, IndexSorted, NewIteratorAtEnd
<1>3. e \in Seq({f} \X (Nat \ {0})) /\ Len(e) = 0
  OBVIOUS
<1>4. r = [fileID |-> f, idx |-> b, dat |-> b, blk |-> 0, ok |-> FALSE, loads |-> e]
  BY DEF NewTableIterator
<1> HIDE DEF b, e, r
<1>5. r \in TableIterators(f)
  BY <1>2, <1>3, <1>4 DEF TableIterators
<1>6. ~r.ok /\ r.loads = e
  BY <1>4
<1>7. LoadsSound(t, r)
  BY <1>3, <1>6 DEF LoadsSound
<1>8. QED
  BY <1>5, <1>6, <1>7 DEF r

\* What an iterator stands at is an entry of the table.
LEMMA StandsEntry ==
    ASSUME NEW t, NEW P, NEW it, Stands(t, P, it)
    PROVE  /\ [key |-> it.dat.key, val |-> it.dat.val] \in P
           /\ it.dat.key \in Keys /\ it.dat.val \in Nat /\ it.ok
<1>1. PICK bs \in Seq(Seq(Pairs)), ix \in Seq(Pairs) :
        /\ TableState(t, bs, ix) /\ Content(bs) = P
        /\ \E n \in 1 .. Len(bs) : \E i \in 1 .. Len(bs[n]) : StandsAt(t, bs, ix, it, n, i)
  BY DEF Stands
<1>2. PICK n \in 1 .. Len(bs) : \E i \in 1 .. Len(bs[n]) : StandsAt(t, bs, ix, it, n, i)
  BY <1>1
<1>3. PICK i \in 1 .. Len(bs[n]) : StandsAt(t, bs, ix, it, n, i)
  BY <1>2
<1>4. it.dat.key = bs[n][i].key /\ it.dat.val = bs[n][i].val /\ it.ok
  BY <1>3 DEF StandsAt, At
<1>5. bs[n][i] \in Content(bs) /\ bs[n][i] \in Pairs
  BY ContentPlace
<1> DEFINE x == bs[n][i]
<1> HIDE DEF x
<1>6. x \in Pairs
  BY <1>5 DEF x
<1>7. [key |-> x.key, val |-> x.val] = x /\ x.key \in Keys /\ x.val \in Nat
  BY <1>6 DEF Pairs
<1>8. it.dat.key = x.key /\ it.dat.val = x.val /\ x \in P
  BY <1>1, <1>4, <1>5 DEF x
<1>9. QED
  BY <1>4, <1>7, <1>8

\* Where an iterator stands does not depend on what it has loaded.
LEMMA StandsLoads ==
    ASSUME NEW t, NEW P, NEW f, NEW it \in TableIterators(f), NEW r,
           r = [it EXCEPT !.loads = <<>>]
    PROVE  /\ r \in TableIterators(f) /\ r.ok = it.ok /\ r.dat = it.dat /\ r.blk = it.blk
           /\ Stands(t, P, r) <=> Stands(t, P, it)
           /\ r.loads = <<>>
<1> DEFINE e == <<>>
<1>1. e \in Seq({f} \X (Nat \ {0})) /\ r = [it EXCEPT !.loads = e]
  OBVIOUS
<1> HIDE DEF e
<1>2. r \in TableIterators(f)
  BY <1>1 DEF TableIterators
<1>3. r.ok = it.ok /\ r.dat = it.dat /\ r.blk = it.blk /\ r.idx = it.idx /\ r.loads = e
  BY <1>1 DEF TableIterators
<1>4. Stands(t, P, r) <=> Stands(t, P, it)
  BY <1>3 DEF Stands, StandsAt
<1>5. QED
  BY <1>2, <1>3, <1>4 DEF e

\* First stands at the smallest key.
LEMMA TableFirstIs ==
    ASSUME NEW t, NEW P, TableHolds(t, P), NEW f, NEW it \in TableIterators(f)
    PROVE  /\ TableFirst(t, it) \in TableIterators(f)
           /\ LoadsSound(t, TableFirst(t, it))
           /\ Stands(t, P, TableFirst(t, it))
           /\ \A x \in P : AtLeast(x.key, TableFirst(t, it).dat.key)
<1>1. PICK bs \in Seq(Seq(Pairs)), ix \in Seq(Pairs) : TableState(t, bs, ix) /\ Content(bs) = P
  BY DEF TableHolds
<1>2. ix # <<>> /\ Holds(t.index, ix) /\ Len(ix) = Len(bs) /\ Len(bs) \in Nat
  BY <1>1, IndexSorted
<1> DEFINE i == BlockFirst(t.index, NewBlockIterator(t.index))
           e == <<>>
           j == [it EXCEPT !.idx = i, !.ok = FALSE, !.loads = e]
           r == TableFirst(t, it)
<1>3. At(i, ix, 1) /\ Ready(t.index, ix, i)
  BY <1>2, NewIteratorAtEnd, BlockFirstAt
<1>4. i.valid /\ i \in BlockIterators
  BY <1>3 DEF At, Ready
<1>5. r = LoadAndFirst(t, j)
  BY <1>4 DEF TableFirst
<1>6. e \in Seq({f} \X (Nat \ {0})) /\ Len(e) = 0
  OBVIOUS
<1> HIDE DEF i, e, r
<1>7. j \in TableIterators(f)
  BY <1>4, <1>6 DEF TableIterators
<1>8. j.idx = i /\ j.loads = e
  BY DEF TableIterators
<1> HIDE DEF j
<1>9. LoadsSound(t, j)
  BY <1>6, <1>8 DEF LoadsSound
<1>10. 1 \in 1 .. Len(bs)
  BY <1>2
<1>11. /\ StandsAt(t, bs, ix, r, 1, 1) /\ 1 \in 1 .. Len(bs[1])
       /\ r \in TableIterators(f) /\ LoadsSound(t, r)
  BY <1>1, <1>3, <1>5, <1>7, <1>8, <1>9, <1>10, LoadAndFirstStands
<1>12. Stands(t, P, r)
  BY <1>1, <1>10, <1>11 DEF Stands
<1>13. ASSUME NEW x \in P PROVE AtLeast(x.key, r.dat.key)
  <2>1. PICK m \in 1 .. Len(bs) : \E k \in 1 .. Len(bs[m]) : x = bs[m][k]
    BY <1>1, ContentPlace
  <2>2. PICK k \in 1 .. Len(bs[m]) : x = bs[m][k]
    BY <2>1
  <2>3. bs[m] \in Seq(Pairs) /\ m \in Nat /\ m >= 1 /\ k \in Nat /\ k >= 1
    BY ElementOfSeq
  <2>4. ~(m < 1 \/ (m = 1 /\ k < 1))
    BY <2>3
  <2>5. Less(bs[m][k].key, bs[1][1].key) <=> (m < 1 \/ (m = 1 /\ k < 1))
    BY <1>1, <1>10, <1>11, OrderIsPlace DEF TableState
  <2>6. r.dat.key = bs[1][1].key
    BY <1>11 DEF StandsAt, At
  <2>7. QED
    BY <2>2, <2>4, <2>5, <2>6 DEF AtLeast
<1>14. QED
  BY <1>11, <1>12, <1>13 DEF r

\* The iterator r stands behind the key, at the next one of P, or there is none.
Follows(t, P, r, key) ==
    /\ r.ok => /\ Stands(t, P, r)
               /\ Less(key, r.dat.key)
               /\ \A x \in P : Less(key, x.key) => AtLeast(x.key, r.dat.key)
    /\ ~r.ok => \A x \in P : AtLeast(key, x.key)

\* Next goes from one key to the next, over the end of a block too.
LEMMA TableNextIs ==
    ASSUME NEW t, NEW P, NEW f, NEW it \in TableIterators(f), Stands(t, P, it)
    PROVE  /\ TableNext(t, it) \in TableIterators(f)
           /\ LoadsSound(t, TableNext(t, it))
           /\ Follows(t, P, TableNext(t, it), it.dat.key)
<1>1. PICK bs \in Seq(Seq(Pairs)), ix \in Seq(Pairs) :
        /\ TableState(t, bs, ix) /\ Content(bs) = P
        /\ \E n \in 1 .. Len(bs) : \E i \in 1 .. Len(bs[n]) : StandsAt(t, bs, ix, it, n, i)
  BY DEF Stands
<1>2. PICK n \in 1 .. Len(bs) : \E i \in 1 .. Len(bs[n]) : StandsAt(t, bs, ix, it, n, i)
  BY <1>1
<1>3. PICK i \in 1 .. Len(bs[n]) : StandsAt(t, bs, ix, it, n, i)
  BY <1>2
<1>4. /\ it.ok /\ it.blk = n
      /\ At(it.idx, ix, n) /\ Ready(t.index, ix, it.idx)
      /\ At(it.dat, bs[n], i) /\ Ready(t.blocks[n], bs[n], it.dat)
  BY <1>3 DEF StandsAt
<1>5. bs[n] \in Seq(Pairs) /\ Holds(t.blocks[n], bs[n]) /\ Len(bs) \in Nat /\ Len(bs[n]) \in Nat
  <2>1. bs[n] \in Seq(Pairs)
    BY ElementOfSeq
  <2>2. QED
    BY <1>1, <2>1 DEF TableState, BlocksHold
<1>6. it.dat.offset = i + 1 /\ it.dat.key = bs[n][i].key /\ it.dat \in BlockIterators
  BY <1>4 DEF At, Ready
<1> DEFINE d == BlockNext(t.blocks[n], it.dat)
           e == <<>>
           j == [it EXCEPT !.dat = d, !.loads = e]
           r == TableNext(t, it)
<1>7. r = IF d.valid THEN [j EXCEPT !.ok = TRUE] ELSE NextBlock(t, j)
  BY <1>4 DEF TableNext
<1>8. d \in BlockIterators
  <2>1. CASE i < Len(bs[n])
    <3>1. Ready(t.blocks[n], bs[n], d)
      BY <1>4, <1>5, <1>6, <2>1, BlockNextAt
    <3>2. QED
      BY <3>1 DEF Ready
  <2>2. CASE i = Len(bs[n])
    BY <1>5, <1>6, <2>2, BlockNextEnd
  <2>3. i < Len(bs[n]) \/ i = Len(bs[n])
    BY <1>5
  <2>4. QED
    BY <2>1, <2>2, <2>3
<1>9. e \in Seq({f} \X (Nat \ {0})) /\ Len(e) = 0
  OBVIOUS
<1>10. /\ i < Len(bs[n]) => At(d, bs[n], i + 1) /\ Ready(t.blocks[n], bs[n], d)
       /\ i = Len(bs[n]) => ~d.valid
  <2>1. i < Len(bs[n]) => At(d, bs[n], i + 1) /\ Ready(t.blocks[n], bs[n], d)
    BY <1>4, <1>5, <1>6, BlockNextAt
  <2>2. i = Len(bs[n]) => ~d.valid
    BY <1>5, <1>6, BlockNextEnd
  <2>3. QED
    BY <2>1, <2>2
<1> HIDE DEF d, e, r
<1>11. j \in TableIterators(f)
  BY <1>8, <1>9 DEF TableIterators
<1>12. j.dat = d /\ j.loads = e /\ j.idx = it.idx /\ j.blk = it.blk
  BY DEF TableIterators
<1> HIDE DEF j
<1>13. LoadsSound(t, j)
  BY <1>9, <1>12 DEF LoadsSound
\* the place after a given one, and the keys behind it
<1>14. ASSUME NEW m \in 1 .. Len(bs), NEW k \in 1 .. Len(bs[m]), StandsAt(t, bs, ix, r, m, k),
              n < m \/ (n = m /\ i < k),
              \A p \in 1 .. Len(bs) : \A q \in 1 .. Len(bs[p]) :
                (n < p \/ (n = p /\ i < q)) => ~(p < m \/ (p = m /\ q < k))
       PROVE  Follows(t, P, r, it.dat.key)
  <2>1. r.ok /\ r.dat.key = bs[m][k].key
    BY <1>14 DEF StandsAt, At
  <2>2. Stands(t, P, r)
    BY <1>1, <1>14 DEF Stands
  <2>3. Ordered(bs, ix)
    BY <1>1 DEF TableState
  <2>4. Less(it.dat.key, r.dat.key)
    BY <1>6, <1>14, <2>1, <2>3, OrderIsPlace
  <2>5. ASSUME NEW x \in P, Less(it.dat.key, x.key) PROVE AtLeast(x.key, r.dat.key)
    <3>1. PICK p \in 1 .. Len(bs) : \E q \in 1 .. Len(bs[p]) : x = bs[p][q]
      BY <1>1, ContentPlace
    <3>2. PICK q \in 1 .. Len(bs[p]) : x = bs[p][q]
      BY <3>1
    <3>3. n < p \/ (n = p /\ i < q)
      BY <1>6, <2>3, <2>5, <3>2, OrderIsPlace
    <3>4. ~(p < m \/ (p = m /\ q < k))
      BY <1>14, <3>3
    <3>5. Less(bs[p][q].key, bs[m][k].key) <=> (p < m \/ (p = m /\ q < k))
      BY <2>3, OrderIsPlace
    <3>6. QED
      BY <2>1, <3>2, <3>4, <3>5 DEF AtLeast
  <2>6. QED
    BY <2>1, <2>2, <2>4, <2>5 DEF Follows
<1>15. CASE i < Len(bs[n])
  <2>1. At(d, bs[n], i + 1) /\ Ready(t.blocks[n], bs[n], d) /\ d.valid
    BY <1>10, <1>15 DEF At
  <2>2. r = [j EXCEPT !.ok = TRUE]
    BY <1>7, <2>1
  <2>3. r \in TableIterators(f)
    BY <1>11, <2>2 DEF TableIterators
  <2>4. r.ok /\ r.dat = d /\ r.idx = it.idx /\ r.blk = n /\ r.loads = e
    BY <1>4, <1>11, <1>12, <2>2 DEF TableIterators
  <2>5. StandsAt(t, bs, ix, r, n, i + 1) /\ i + 1 \in 1 .. Len(bs[n])
    BY <1>4, <2>1, <2>4 DEF StandsAt, At
  <2>6. \A p \in 1 .. Len(bs) : \A q \in 1 .. Len(bs[p]) :
                (n < p \/ (n = p /\ i < q)) => ~(p < n \/ (p = n /\ q < i + 1))
    <3>1. ASSUME NEW p \in 1 .. Len(bs), NEW q \in 1 .. Len(bs[p]), n < p \/ (n = p /\ i < q)
          PROVE  ~(p < n \/ (p = n /\ q < i + 1))
      <4>1. q \in Nat /\ p \in Nat /\ n \in Nat /\ i \in Nat
        BY <1>5, ElementOfSeq
      <4>2. QED
        BY <3>1, <4>1
    <3>2. QED
      BY <3>1
  <2>7. Follows(t, P, r, it.dat.key)
    <3>1. n = n /\ i < i + 1
      BY <1>5
    <3>2. QED
      BY <1>14, <2>5, <2>6, <3>1
  <2>8. LoadsSound(t, r)
    BY <1>9, <2>4 DEF LoadsSound
  <2>9. QED
    BY <2>3, <2>7, <2>8 DEF r
<1>16. CASE i = Len(bs[n])
  <2>1. r = NextBlock(t, j)
    BY <1>7, <1>10, <1>16
  <2>2. /\ n < Len(bs) => /\ StandsAt(t, bs, ix, r, n + 1, 1)
                          /\ n + 1 \in 1 .. Len(bs)
                          /\ 1 \in 1 .. Len(bs[n + 1])
        /\ n = Len(bs) => ~r.ok
        /\ r \in TableIterators(f)
        /\ LoadsSound(t, r)
    BY <1>1, <1>4, <1>11, <1>12, <1>13, <2>1, NextBlockStands
  <2>3. CASE n < Len(bs)
    <3>1. ASSUME NEW p \in 1 .. Len(bs), NEW q \in 1 .. Len(bs[p]), n < p \/ (n = p /\ i < q)
          PROVE  ~(p < n + 1 \/ (p = n + 1 /\ q < 1))
      <4>1. q \in Nat /\ p \in Nat /\ n \in Nat /\ i \in Nat /\ q >= 1 /\ q <= Len(bs[p])
        <5>1. bs[p] \in Seq(Pairs)
          BY ElementOfSeq
        <5>2. QED
          BY <1>5, <5>1
      <4>2. QED
        BY <1>5, <1>16, <3>1, <4>1
    <3>2. n < n + 1
      BY <1>5
    <3>3. Follows(t, P, r, it.dat.key)
      BY <1>14, <2>2, <2>3, <3>1, <3>2
    <3>4. QED
      BY <2>2, <3>3 DEF r
  <2>4. CASE n = Len(bs)
    <3>1. ASSUME NEW x \in P PROVE AtLeast(it.dat.key, x.key)
      <4>1. PICK p \in 1 .. Len(bs) : \E q \in 1 .. Len(bs[p]) : x = bs[p][q]
        BY <1>1, ContentPlace
      <4>2. PICK q \in 1 .. Len(bs[p]) : x = bs[p][q]
        BY <4>1
      <4>3. bs[p] \in Seq(Pairs)
        BY ElementOfSeq
      <4>4. ~(n < p \/ (n = p /\ i < q))
        BY <1>5, <1>16, <2>4, <4>3
      <4>5. Less(bs[n][i].key, bs[p][q].key) <=> (n < p \/ (n = p /\ i < q))
        BY <1>1, OrderIsPlace DEF TableState
      <4>6. QED
        BY <1>6, <4>2, <4>4, <4>5 DEF AtLeast
    <3>2. Follows(t, P, r, it.dat.key)
      BY <2>2, <2>4, <3>1 DEF Follows
    <3>3. QED
      BY <2>2, <3>2 DEF r
  <2>5. n < Len(bs) \/ n = Len(bs)
    BY <1>5
  <2>6. QED
    BY <2>3, <2>4, <2>5
<1>17. i < Len(bs[n]) \/ i = Len(bs[n])
  BY <1>5
<1>18. QED
  BY <1>15, <1>16, <1>17

\* A key is found exactly if the table has it: the filter lets it pass, and no
\* block can hold it but the one the index names.
LEMMA ReaderGetIs ==
    ASSUME NEW t, NEW P, TableHolds(t, P), NEW key \in Keys
    PROVE  /\ \A x \in P : x.key = key => ReaderGet(t, key) = {x.val}
           /\ (\A x \in P : x.key # key) => ReaderGet(t, key) = {}
<1>1. PICK bs \in Seq(Seq(Pairs)), ix \in Seq(Pairs) : TableState(t, bs, ix) /\ Content(bs) = P
  BY DEF TableHolds
<1>2. SortedPairs(ix) /\ ix # <<>> /\ Holds(t.index, ix) /\ Len(ix) = Len(bs) /\ Len(bs) \in Nat
  BY <1>1, IndexSorted
<1>3. Ordered(bs, ix) /\ BlocksHold(t.blocks, bs) /\ \A x \in P : MayContain(t.filter, x.key)
  BY <1>1 DEF TableState
<1> DEFINE i == BlockSeekGE(t.index, NewBlockIterator(t.index), key)
           n == FindDataBlock(t, key)
           b == BlockSeekGE(t.blocks[n], NewBlockIterator(t.blocks[n]), key)
<1>4. n = IF i.valid THEN i.val ELSE 0
  BY DEF FindDataBlock
<1>5. ReaderGet(t, key) =
        IF MayContain(t.filter, key) /\ n # 0 /\ b.valid /\ b.key = key THEN {b.val} ELSE {}
  BY DEF ReaderGet
<1>6. Found(i, ix, key)
  <2>1. NewBlockIterator(t.index) \in BlockIterators
    BY <1>2, NewIteratorAtEnd
  <2>2. QED
    BY <1>2, <2>1, BlockSeekFound
<1> HIDE DEF i
<1>7. ASSUME NEW m \in 1 .. Len(bs), NEW k \in 1 .. Len(bs[m])
      PROVE  /\ bs[m][k].key \in Keys /\ ix[m].key \in Keys
             /\ Less(ix[m].key, key) => bs[m][k].key # key
  <2>1. AtLeast(ix[m].key, bs[m][k].key)
    BY <1>2, <1>3 DEF Ordered, AllAtMost
  <2>2. ix[m].key \in Keys /\ bs[m][k].key \in Keys
    <3>1. m \in 1 .. Len(ix) /\ bs[m] \in Seq(Pairs)
      BY <1>2, ElementOfSeq
    <3>2. QED
      BY <3>1, PairKey
  <2>3. QED
    BY <2>1, <2>2, LessTotal DEF AtLeast
<1>8. CASE ~i.valid
  <2>1. n = 0
    BY <1>4, <1>8
  <2>2. \A m \in 1 .. Len(ix) : Less(ix[m].key, key)
    BY <1>6, <1>8 DEF Found, At
  <2>3. \A x \in P : x.key # key
    <3>1. ASSUME NEW x \in P PROVE x.key # key
      <4>1. PICK m \in 1 .. Len(bs) : \E k \in 1 .. Len(bs[m]) : x = bs[m][k]
        BY <1>1, ContentPlace
      <4>2. PICK k \in 1 .. Len(bs[m]) : x = bs[m][k]
        BY <4>1
      <4>3. QED
        BY <1>2, <1>7, <2>2, <4>2
    <3>2. QED
      BY <3>1
  <2>4. QED
    BY <1>5, <2>1, <2>3
<1>9. CASE i.valid
  <2>1. PICK c \in 1 .. Len(ix) :
            /\ At(i, ix, c)
            /\ AtLeast(ix[c].key, key)
            /\ \A m \in 1 .. Len(ix) : m < c => Less(ix[m].key, key)
    BY <1>6, <1>9 DEF Found
  <2>2. n = c /\ n # 0 /\ n \in 1 .. Len(bs)
    <3>1. i.val = c
      BY <1>3, <2>1 DEF At, Ordered
    <3>2. n = c
      BY <1>4, <1>9, <3>1
    <3> HIDE DEF n
    <3>3. QED
      BY <1>2, <3>2
  <2> HIDE DEF n
  <2>3. bs[n] \in Seq(Pairs) /\ bs[n] # <<>> /\ SortedPairs(bs[n]) /\ Holds(t.blocks[n], bs[n])
    BY <1>3, <2>2, ElementOfSeq DEF BlocksHold, Ordered
  <2>4. Found(b, bs[n], key)
    BY <2>3, NewIteratorAtEnd, BlockSeekFound
  <2> HIDE DEF b
  <2>5. ASSUME NEW x \in P, x.key = key
        PROVE  b.valid /\ b.key = key /\ b.val = x.val
    <3>1. PICK m \in 1 .. Len(bs) : \E k \in 1 .. Len(bs[m]) : x = bs[m][k]
      BY <1>1, ContentPlace
    <3>2. PICK k \in 1 .. Len(bs[m]) : x = bs[m][k]
      BY <3>1
    <3>3. ~(m < n)
      BY <1>2, <1>7, <2>1, <2>2, <2>5, <3>2
    <3>4. ~(n < m)
      <4>1. SUFFICES ASSUME n < m PROVE FALSE
        OBVIOUS
      <4>2. Less(ix[n].key, bs[m][k].key)
        BY <1>2, <1>3, <2>2, <4>1 DEF Ordered, AllAbove
      <4>3. QED
        BY <2>1, <2>2, <2>5, <3>2, <4>2 DEF AtLeast
    <3>5. m = n
      BY <1>2, <2>2, <3>3, <3>4
    <3>6. ~Less(key, key)
      BY LessTotal
    <3>7. PICK o \in 1 .. Len(bs[n]) :
            /\ At(b, bs[n], o)
            /\ AtLeast(bs[n][o].key, key)
            /\ \A q \in 1 .. Len(bs[n]) : q < o => Less(bs[n][q].key, key)
      BY <2>4, <2>5, <3>2, <3>5, <3>6 DEF Found
    <3>8. ~(k < o)
      BY <2>5, <3>2, <3>5, <3>6, <3>7
    <3>9. ~(o < k)
      <4>1. SUFFICES ASSUME o < k PROVE FALSE
        OBVIOUS
      <4>2. Less(bs[n][o].key, bs[n][k].key)
        BY <2>3, <3>5, <3>7, <4>1 DEF SortedPairs
      <4>3. QED
        BY <2>5, <3>2, <3>5, <3>7, <4>2 DEF AtLeast
    <3>10. k = o
      BY <2>3, <3>5, <3>8, <3>9
    <3>11. QED
      BY <2>5, <3>2, <3>5, <3>7, <3>10 DEF At
  <2>6. ASSUME b.valid, b.key = key PROVE \E x \in P : x.key = key
    <3>1. PICK o \in 1 .. Len(bs[n]) : At(b, bs[n], o)
      BY <2>4, <2>6 DEF Found
    <3>2. bs[n][o] \in P /\ bs[n][o].key = key
      BY <1>1, <2>2, <2>6, <3>1, ContentPlace DEF At
    <3>3. QED
      BY <3>2
  <2>7. ASSUME NEW x \in P, x.key = key PROVE ReaderGet(t, key) = {x.val}
    <3>1. MayContain(t.filter, key)
      BY <1>3, <2>7
    <3>2. QED
      BY <1>5, <2>2, <2>5, <2>7, <3>1
  <2>8. ASSUME \A x \in P : x.key # key PROVE ReaderGet(t, key) = {}
    BY <1>5, <2>6, <2>8
  <2>9. QED
    BY <2>7, <2>8
<1>10. QED
  BY <1>8, <1>9

-----------------------------------------------------------------------------
(* The lengths of cached blocks *)

\* What LruCache knows of a cached block.
CachedBlocks == [block: CacheKeys, len: Nat]

TotalLen(s) == Lru!TotalLen(s)

\* The fields of a cached block.
LEMMA BlockFields ==
    ASSUME NEW e \in CachedBlocks PROVE e.block \in CacheKeys /\ e.len \in Nat
BY DEF CachedBlocks

\* The lengths of no blocks, and of one more.
LEMMA TotalLenEmpty == TotalLen(<<>>) = 0
BY Lru!Adding!LoopEmpty DEF TotalLen, Lru!TotalLen

\* One more block takes its length more.
LEMMA TotalLenAppend ==
    ASSUME NEW s \in Seq(CachedBlocks), NEW e \in CachedBlocks
    PROVE  TotalLen(Append(s, e)) = TotalLen(s) + e.len
<1>1. Lru!Adding!Loop(0, Append(s, e)) = Lru!AddLen(Lru!Adding!Loop(0, s), e)
  BY Lru!Adding!LoopAppend
<1>2. QED
  BY <1>1 DEF TotalLen, Lru!TotalLen, Lru!AddLen

\* What blocks take together is a natural number.
LEMMA TotalLenNat ==
    ASSUME NEW s \in Seq(CachedBlocks) PROVE TotalLen(s) \in Nat
<1> DEFINE f == [i \in 0 .. Len(s) |-> Nat]
<1>1. /\ Len(s) \in Nat /\ 0 \in f[0] /\ f[Len(s)] = Nat
      /\ \A i \in 1 .. Len(s) : f[i - 1] = Nat /\ f[i] = Nat
  OBVIOUS
<1>2. \A i \in 1 .. Len(s) : s[i].len \in Nat
  <2>1. \A i \in 1 .. Len(s) : s[i] \in CachedBlocks
    OBVIOUS
  <2>2. QED
    BY <2>1, BlockFields
<1>3. \A i \in 1 .. Len(s) : \A a \in f[i - 1] : Lru!AddLen(a, s[i]) \in f[i]
  BY <1>1, <1>2 DEF Lru!AddLen
<1> HIDE DEF f
<1>4. Lru!Adding!Loop(0, s) \in f[Len(s)]
  BY <1>1, <1>3, Lru!Adding!LoopInvariant
<1>5. QED
  BY <1>1, <1>4 DEF TotalLen, Lru!TotalLen

\* Two sequences of blocks take as much as the two together.
LEMMA TotalLenConcat ==
    ASSUME NEW s \in Seq(CachedBlocks), NEW t \in Seq(CachedBlocks)
    PROVE  TotalLen(s \o t) = TotalLen(s) + TotalLen(t)
<1> DEFINE b == TotalLen(s)
           f == [i \in 0 .. Len(t) |-> {b + TotalLen(SubSeq(t, 1, i))}]
<1>1. Len(t) \in Nat /\ 0 \in 0 .. Len(t) /\ Len(t) \in 0 .. Len(t) /\ b \in Nat
  BY TotalLenNat
<1>2. \A i \in 0 .. Len(t) : f[i] = {b + TotalLen(SubSeq(t, 1, i))}
  OBVIOUS
<1> HIDE DEF f, b
<1>3. SubSeq(t, 1, 0) = <<>> /\ SubSeq(t, 1, Len(t)) = t
  OBVIOUS
<1>4. b \in f[0]
  <2>1. TotalLen(SubSeq(t, 1, 0)) = 0
    BY <1>3, TotalLenEmpty, Zenon
  <2>2. QED
    BY <1>1, <1>2, <2>1
<1>5. ASSUME NEW i \in 1 .. Len(t), NEW a \in f[i - 1] PROVE Lru!AddLen(a, t[i]) \in f[i]
  <2> DEFINE u == SubSeq(t, 1, i - 1)
             v == SubSeq(t, 1, i)
  <2>1. i - 1 \in 0 .. Len(t) /\ i \in 0 .. Len(t) /\ t[i] \in CachedBlocks
    OBVIOUS
  <2>2. u \in Seq(CachedBlocks) /\ v = Append(u, t[i])
    BY <2>1
  <2> HIDE DEF u, v
  <2>3. TotalLen(v) = TotalLen(u) + t[i].len /\ TotalLen(u) \in Nat /\ t[i].len \in Nat
    BY <2>1, <2>2, TotalLenAppend, TotalLenNat, BlockFields
  <2>4. a = b + TotalLen(u) /\ f[i] = {b + TotalLen(v)}
    BY <1>2, <2>1 DEF u, v
  <2>5. QED
    BY <1>1, <2>1, <2>3, <2>4 DEF Lru!AddLen
<1>6. Lru!Adding!Loop(b, t) \in f[Len(t)]
  BY <1>1, <1>4, <1>5, Lru!Adding!LoopInvariant
<1>7. Lru!Adding!Loop(0, s \o t) = Lru!Adding!Loop(Lru!Adding!Loop(0, s), t)
  BY Lru!Adding!LoopConcat
<1>8. QED
  BY <1>1, <1>2, <1>3, <1>6, <1>7 DEF TotalLen, Lru!TotalLen, b

\* A prefix that is longer by one block takes more by its length.
LEMMA TotalLenPrefix ==
    ASSUME NEW s \in Seq(CachedBlocks), NEW n \in 0 .. Len(s) - 1
    PROVE  /\ TotalLen(SubSeq(s, 1, n + 1)) = TotalLen(SubSeq(s, 1, n)) + s[n + 1].len
           /\ TotalLen(SubSeq(s, 1, n)) \in Nat /\ s[n + 1].len \in Nat
<1> DEFINE u == SubSeq(s, 1, n)
<1>1. u \in Seq(CachedBlocks) /\ SubSeq(s, 1, n + 1) = Append(u, s[n + 1]) /\ s[n + 1] \in CachedBlocks
  OBVIOUS
<1> HIDE DEF u
<1>2. TotalLen(Append(u, s[n + 1])) = TotalLen(u) + s[n + 1].len /\ TotalLen(u) \in Nat
  BY <1>1, TotalLenAppend, TotalLenNat
<1>3. s[n + 1].len \in Nat
  BY <1>1 DEF CachedBlocks
<1>4. QED
  BY <1>1, <1>2, <1>3 DEF u

\* The block at position i may come first as well.
LEMMA TotalLenMoved ==
    ASSUME NEW a \in Seq(CachedBlocks), NEW b \in Seq(CachedBlocks), NEW e \in CachedBlocks
    PROVE  /\ TotalLen((a \o <<e>>) \o b) = TotalLen(a \o b) + e.len
           /\ TotalLen(<<e>> \o (a \o b)) = TotalLen(a \o b) + e.len
           /\ TotalLen(a \o b) \in Nat
<1> DEFINE x == <<e>>
<1>1. x \in Seq(CachedBlocks) /\ a \o b \in Seq(CachedBlocks) /\ a \o x \in Seq(CachedBlocks)
  OBVIOUS
<1>2. TotalLen(x) = e.len
  <2> DEFINE z == <<>>
  <2>1. z \in Seq(CachedBlocks) /\ x = Append(z, e)
    OBVIOUS
  <2>2. TotalLen(z) = 0 /\ e.len \in Nat
    BY TotalLenEmpty, BlockFields
  <2> HIDE DEF z, x
  <2>3. QED
    BY <2>1, <2>2, TotalLenAppend
<1> HIDE DEF x
<1>3. /\ TotalLen((a \o x) \o b) = TotalLen(a \o x) + TotalLen(b)
      /\ TotalLen(x \o (a \o b)) = TotalLen(x) + TotalLen(a \o b)
      /\ TotalLen(a \o x) = TotalLen(a) + TotalLen(x)
      /\ TotalLen(a \o b) = TotalLen(a) + TotalLen(b)
  BY <1>1, TotalLenConcat
<1>4. TotalLen(a) \in Nat /\ TotalLen(b) \in Nat /\ TotalLen(x) \in Nat
  BY <1>1, TotalLenNat
<1>5. QED
  BY <1>2, <1>3, <1>4 DEF x

-----------------------------------------------------------------------------
(* The list of the cache *)

Pointers == CacheKeys \cup {Nil}

\* No block is identified by nil.
LEMMA NilIsNoKey == Nil \notin CacheKeys
BY BoundsAssumption DEF Nil, CacheKeys

\* The i-th of the n keys of o, Nil beyond them.
KeyIn(o, n, i) == IF i \in 1 .. n THEN o[i] ELSE Nil

\* The pointers of a list of the n keys of o.
Chain(head, tail, prv, nxt, o, n) ==
    /\ n \in Nat /\ o \in [1 .. n -> CacheKeys]
    /\ \A i, j \in 1 .. n : o[i] = o[j] => i = j
    /\ prv \in [Pointers -> Pointers] /\ nxt \in [Pointers -> Pointers]
    /\ nxt[Nil] = Nil
    /\ head = KeyIn(o, n, 1) /\ tail = KeyIn(o, n, n)
    /\ \A i \in 1 .. n : nxt[o[i]] = KeyIn(o, n, i + 1) /\ prv[o[i]] = KeyIn(o, n, i - 1)

\* Store changes one pointer, and none if it is given nil.
LEMMA StoreIs ==
    ASSUME NEW f \in [Pointers -> Pointers], NEW k \in Pointers, NEW v \in Pointers
    PROVE  /\ Store(f, k, v) \in [Pointers -> Pointers]
           /\ k # Nil => Store(f, k, v)[k] = v
           /\ \A y \in Pointers : y # k => Store(f, k, v)[y] = f[y]
           /\ Store(f, k, v)[Nil] = f[Nil]
<1>1. Nil \in Pointers
  BY DEF Pointers
<1>2. CASE k = Nil
  BY <1>2 DEF Store
<1>3. CASE k # Nil
  BY <1>1, <1>3 DEF Store
<1>4. QED
  BY <1>2, <1>3

\* A new key comes in front.
LEMMA ChainPush ==
    ASSUME NEW h, NEW t, NEW p, NEW x, NEW o, NEW n, Chain(h, t, p, x, o, n),
           NEW k \in CacheKeys, \A i \in 1 .. n : o[i] # k,
           NEW q \in [1 .. n + 1 -> CacheKeys], q[1] = k, \A i \in 1 .. n : q[i + 1] = o[i]
    PROVE  Chain(k, IF t = Nil THEN k ELSE t, Store(Store(p, k, Nil), h, k), Store(x, k, h), q, n + 1)
<1> DEFINE p1 == Store(p, k, Nil)
           p2 == Store(p1, h, k)
           x2 == Store(x, k, h)
<1>1. /\ n \in Nat /\ o \in [1 .. n -> CacheKeys] /\ \A i, j \in 1 .. n : o[i] = o[j] => i = j
      /\ p \in [Pointers -> Pointers] /\ x \in [Pointers -> Pointers] /\ x[Nil] = Nil
      /\ h = KeyIn(o, n, 1) /\ t = KeyIn(o, n, n)
      /\ \A i \in 1 .. n : x[o[i]] = KeyIn(o, n, i + 1) /\ p[o[i]] = KeyIn(o, n, i - 1)
  BY DEF Chain
<1>2. /\ CacheKeys \subseteq Pointers /\ Nil \in Pointers /\ k # Nil /\ h \in Pointers
      /\ \A y \in CacheKeys : y # Nil
      /\ k \in Pointers
  BY <1>1, NilIsNoKey DEF Pointers, KeyIn
<1>3. /\ p1 \in [Pointers -> Pointers] /\ p1[k] = Nil /\ \A y \in Pointers : y # k => p1[y] = p[y]
      /\ x2 \in [Pointers -> Pointers] /\ x2[k] = h /\ x2[Nil] = Nil
      /\ \A y \in Pointers : y # k => x2[y] = x[y]
  <2>1. p \in [Pointers -> Pointers] /\ x \in [Pointers -> Pointers] /\ x[Nil] = Nil
    BY <1>1
  <2>2. k \in Pointers /\ k # Nil /\ h \in Pointers /\ Nil \in Pointers
    BY <1>2
  <2>3. p1 \in [Pointers -> Pointers] /\ p1[k] = Nil /\ \A y \in Pointers : y # k => p1[y] = p[y]
    BY <2>1, <2>2, StoreIs
  <2>4. x2 \in [Pointers -> Pointers] /\ x2[k] = h /\ \A y \in Pointers : y # k => x2[y] = x[y]
    <3>1. x \in [Pointers -> Pointers] /\ k \in Pointers /\ h \in Pointers /\ k # Nil
      BY <2>1, <2>2
    <3>2. x2 \in [Pointers -> Pointers]
      BY <3>1, StoreIs
    <3>3. x2[k] = h
      BY <3>1, StoreIs
    <3>4. \A y \in Pointers : y # k => x2[y] = x[y]
      BY <3>1, StoreIs
    <3>5. QED
      BY <3>2, <3>3, <3>4
  <2>5. QED
    BY <2>1, <2>2, <2>3, <2>4
<1> HIDE DEF p1, x2
<1>4. /\ p2 \in [Pointers -> Pointers] /\ (h # Nil => p2[h] = k)
      /\ \A y \in Pointers : y # h => p2[y] = p1[y]
  <2>1. p1 \in [Pointers -> Pointers] /\ h \in Pointers /\ k \in Pointers
    BY <1>2, <1>3
  <2>2. QED
    BY <2>1, StoreIs
<1> HIDE DEF p2
<1>5. \A i, j \in 1 .. n + 1 : q[i] = q[j] => i = j
  <2>1. ASSUME NEW i \in 1 .. n + 1 PROVE i = 1 \/ (i - 1 \in 1 .. n /\ q[i] = o[i - 1] /\ q[i] # k)
    <3>1. i = 1 \/ (i - 1 \in 1 .. n /\ (i - 1) + 1 = i)
      BY <1>1
    <3>2. QED
      BY <3>1
  <2>2. QED
    BY <1>1, <2>1
<1>6. \A i \in 1 .. n + 1 : x2[q[i]] = KeyIn(q, n + 1, i + 1)
  <2>1. x2[q[1]] = KeyIn(q, n + 1, 1 + 1)
    <3>1. CASE n = 0
      BY <1>1, <1>3, <3>1 DEF KeyIn
    <3>2. CASE n # 0
      BY <1>1, <1>3, <3>2 DEF KeyIn
    <3>3. QED
      BY <3>1, <3>2
  <2>2. ASSUME NEW i \in 1 .. n PROVE x2[q[i + 1]] = KeyIn(q, n + 1, (i + 1) + 1)
    <3>1. x2[q[i + 1]] = KeyIn(o, n, i + 1)
      BY <1>1, <1>2, <1>3
    <3>2. QED
      BY <1>1, <3>1 DEF KeyIn
  <2>3. \A i \in 1 .. n + 1 : i = 1 \/ \E j \in 1 .. n : i = j + 1
    <3>1. \A i \in 1 .. n + 1 : i = 1 \/ (i - 1 \in 1 .. n /\ i = (i - 1) + 1)
      BY <1>1
    <3>2. QED
      BY <3>1
  <2>4. QED
    BY <2>1, <2>2, <2>3
<1>7. \A i \in 1 .. n + 1 : p2[q[i]] = KeyIn(q, n + 1, i - 1)
  <2>1. p2[q[1]] = KeyIn(q, n + 1, 1 - 1)
    <3>1. h # k /\ k \in Pointers
      BY <1>1, <1>2 DEF KeyIn
    <3>2. p2[k] = Nil
      BY <1>3, <1>4, <3>1
    <3>3. QED
      BY <1>1, <3>2 DEF KeyIn
  <2>2. ASSUME NEW i \in 1 .. n PROVE p2[q[i + 1]] = KeyIn(q, n + 1, (i + 1) - 1)
    <3>1. KeyIn(q, n + 1, (i + 1) - 1) = q[i]
      BY <1>1 DEF KeyIn
    <3>2. CASE i = 1
      <4>1. h = o[1] /\ h # Nil
        BY <1>1, <1>2, <3>2 DEF KeyIn
      <4>2. QED
        BY <1>4, <3>1, <3>2, <4>1
    <3>3. CASE i # 1
      <4>1. i - 1 \in 1 .. n /\ (i - 1) + 1 = i /\ 1 \in 1 .. n
        BY <1>1, <3>3
      <4>2. h = o[1] /\ o[i] # o[1] /\ o[i] \in Pointers /\ q[i] = o[i - 1]
        BY <1>1, <1>2, <3>3, <4>1 DEF KeyIn
      <4>3. p2[o[i]] = p[o[i]]
        BY <1>3, <1>4, <4>2
      <4>4. p[o[i]] = o[i - 1]
        BY <1>1, <4>1 DEF KeyIn
      <4>5. QED
        BY <3>1, <4>2, <4>3, <4>4
    <3>4. QED
      BY <3>2, <3>3
  <2>3. \A i \in 1 .. n + 1 : i = 1 \/ \E j \in 1 .. n : i = j + 1
    <3>1. \A i \in 1 .. n + 1 : i = 1 \/ (i - 1 \in 1 .. n /\ i = (i - 1) + 1)
      BY <1>1
    <3>2. QED
      BY <3>1
  <2>4. QED
    BY <2>1, <2>2, <2>3
<1>8. k = KeyIn(q, n + 1, 1) /\ (IF t = Nil THEN k ELSE t) = KeyIn(q, n + 1, n + 1)
  <2>1. CASE n = 0
    BY <1>1, <2>1 DEF KeyIn
  <2>2. CASE n # 0
    <3>1. n \in 1 .. n
      BY <1>1, <2>2
    <3>2. QED
      BY <1>1, <1>2, <3>1 DEF KeyIn
  <2>3. QED
    BY <2>1, <2>2
<1>9. Chain(k, IF t = Nil THEN k ELSE t, p2, x2, q, n + 1)
  BY <1>1, <1>3, <1>4, <1>5, <1>6, <1>7, <1>8 DEF Chain
<1>10. QED
  BY <1>9 DEF p1, p2, x2

\* The j-th key goes.
LEMMA ChainUnlink ==
    ASSUME NEW h, NEW t, NEW p, NEW x, NEW o, NEW n, Chain(h, t, p, x, o, n),
           NEW j \in 1 .. n, NEW q \in [1 .. n - 1 -> CacheKeys],
           \A i \in 1 .. j - 1 : q[i] = o[i], \A i \in j .. n - 1 : q[i] = o[i + 1]
    PROVE  Chain(IF p[o[j]] = Nil THEN x[o[j]] ELSE h, IF x[o[j]] = Nil THEN p[o[j]] ELSE t,
                 Store(Store(p, x[o[j]], p[o[j]]), o[j], Nil),
                 Store(Store(x, p[o[j]], x[o[j]]), o[j], Nil), q, n - 1)
<1> DEFINE k == o[j]
           a == p[k]
           b == x[k]
           p1 == Store(p, b, a)
           p2 == Store(p1, k, Nil)
           x1 == Store(x, a, b)
           x2 == Store(x1, k, Nil)
<1>1. /\ n \in Nat /\ o \in [1 .. n -> CacheKeys] /\ \A u, v \in 1 .. n : o[u] = o[v] => u = v
      /\ p \in [Pointers -> Pointers] /\ x \in [Pointers -> Pointers] /\ x[Nil] = Nil
      /\ h = KeyIn(o, n, 1) /\ t = KeyIn(o, n, n)
      /\ \A i \in 1 .. n : x[o[i]] = KeyIn(o, n, i + 1) /\ p[o[i]] = KeyIn(o, n, i - 1)
  BY DEF Chain
<1>2. /\ k \in CacheKeys /\ b = KeyIn(o, n, j + 1) /\ a = KeyIn(o, n, j - 1)
  BY <1>1
<1>3. /\ CacheKeys \subseteq Pointers /\ Nil \in Pointers /\ k # Nil /\ k \in Pointers
      /\ a \in Pointers /\ b \in Pointers /\ \A y \in CacheKeys : y # Nil
  BY <1>1, <1>2, NilIsNoKey DEF Pointers, KeyIn
<1> HIDE DEF a, b, k
<1>4. /\ x1 \in [Pointers -> Pointers] /\ (a # Nil => x1[a] = b) /\ x1[Nil] = x[Nil]
      /\ \A y \in Pointers : y # a => x1[y] = x[y]
  <2>1. x \in [Pointers -> Pointers] /\ a \in Pointers /\ b \in Pointers
    BY <1>1, <1>3
  <2>2. QED
    BY <2>1, StoreIs
<1>5. /\ p1 \in [Pointers -> Pointers] /\ (b # Nil => p1[b] = a)
      /\ \A y \in Pointers : y # b => p1[y] = p[y]
  <2>1. p \in [Pointers -> Pointers] /\ a \in Pointers /\ b \in Pointers
    BY <1>1, <1>3
  <2>2. QED
    BY <2>1, StoreIs
<1> HIDE DEF x1, p1
<1>6. /\ x2 \in [Pointers -> Pointers] /\ x2[Nil] = x1[Nil]
      /\ \A y \in Pointers : y # k => x2[y] = x1[y]
  <2>1. x1 \in [Pointers -> Pointers] /\ k \in Pointers /\ Nil \in Pointers
    BY <1>3, <1>4
  <2>2. QED
    BY <2>1, StoreIs
<1>7. /\ p2 \in [Pointers -> Pointers]
      /\ \A y \in Pointers : y # k => p2[y] = p1[y]
  <2>1. p1 \in [Pointers -> Pointers] /\ k \in Pointers /\ Nil \in Pointers
    BY <1>3, <1>5
  <2>2. QED
    BY <2>1, StoreIs
<1> HIDE DEF x2, p2
<1>8. ASSUME NEW i \in 1 .. n - 1
      PROVE  \/ i \in 1 .. j - 1 /\ i \in 1 .. n /\ i + 1 \in 1 .. n /\ q[i] = o[i]
             \/ i \in j .. n - 1 /\ i \notin 1 .. j - 1 /\ i + 1 \in 1 .. n /\ q[i] = o[i + 1]
  <2>1. i \in 1 .. j - 1 \/ (i \in j .. n - 1 /\ i \notin 1 .. j - 1)
    BY <1>1
  <2>2. i \in 1 .. n /\ i + 1 \in 1 .. n
    BY <1>1
  <2>3. QED
    BY <2>1, <2>2
<1>9. \A u, v \in 1 .. n - 1 : q[u] = q[v] => u = v
  <2>1. SUFFICES ASSUME NEW u \in 1 .. n - 1, NEW v \in 1 .. n - 1, q[u] = q[v] PROVE u = v
    OBVIOUS
  <2>2. \/ u \in 1 .. j - 1 /\ u \in 1 .. n /\ q[u] = o[u]
        \/ u \in j .. n - 1 /\ u + 1 \in 1 .. n /\ q[u] = o[u + 1]
    BY <1>8
  <2>3. \/ v \in 1 .. j - 1 /\ v \in 1 .. n /\ q[v] = o[v]
        \/ v \in j .. n - 1 /\ v + 1 \in 1 .. n /\ q[v] = o[v + 1]
    BY <1>8
  <2>4. QED
    BY <1>1, <2>1, <2>2, <2>3
<1>10. ASSUME NEW i \in 1 .. n - 1 PROVE x2[q[i]] = KeyIn(q, n - 1, i + 1)
  <2>1. CASE i \in 1 .. j - 1
    <3>1. i \in 1 .. n /\ i + 1 \in 1 .. n /\ q[i] = o[i] /\ i # j
      BY <1>1, <1>8, <2>1
    <3>2. o[i] # k /\ o[i] \in Pointers /\ x2[q[i]] = x1[o[i]]
      BY <1>1, <1>3, <1>6, <3>1 DEF k
    <3>3. CASE i = j - 1
      <4>1. a = o[i] /\ a # Nil
        BY <1>1, <1>2, <1>3, <3>1, <3>3 DEF KeyIn
      <4>2. x2[q[i]] = KeyIn(o, n, j + 1)
        BY <1>2, <1>4, <3>2, <4>1
      <4>3. KeyIn(o, n, j + 1) = KeyIn(q, n - 1, i + 1)
        <5>1. CASE j = n
          BY <1>1, <3>3, <5>1 DEF KeyIn
        <5>2. CASE j # n
          BY <1>1, <3>3, <5>2 DEF KeyIn
        <5>3. QED
          BY <5>1, <5>2
      <4>4. QED
        BY <4>2, <4>3
    <3>4. CASE i # j - 1
      <4>1. i + 1 \in 1 .. j - 1 /\ j - 1 \in 1 .. n /\ i + 1 \in 1 .. n - 1
        BY <1>1, <2>1, <3>4
      <4>2. a = o[j - 1] /\ o[i] # a
        BY <1>1, <1>2, <3>1, <3>4, <4>1 DEF KeyIn
      <4>3. x2[q[i]] = x[o[i]]
        BY <1>4, <3>2, <4>2
      <4>4. x[o[i]] = o[i + 1] /\ q[i + 1] = o[i + 1]
        BY <1>1, <3>1, <4>1 DEF KeyIn
      <4>5. QED
        BY <4>1, <4>3, <4>4 DEF KeyIn
    <3>5. QED
      BY <3>3, <3>4
  <2>2. CASE i \in j .. n - 1
    <3>1. i + 1 \in 1 .. n /\ q[i] = o[i + 1] /\ i + 1 # j /\ j - 1 # i + 1
      BY <1>1, <1>8, <2>2
    <3>2. o[i + 1] # k /\ o[i + 1] \in Pointers /\ x2[q[i]] = x1[o[i + 1]]
      BY <1>1, <1>3, <1>6, <3>1 DEF k
    <3>3. a # o[i + 1]
      BY <1>1, <1>2, <1>3, <3>1 DEF KeyIn
    <3>4. x2[q[i]] = KeyIn(o, n, (i + 1) + 1)
      BY <1>1, <1>4, <3>1, <3>2, <3>3
    <3>5. KeyIn(o, n, (i + 1) + 1) = KeyIn(q, n - 1, i + 1)
      BY <1>1, <2>2 DEF KeyIn
    <3>6. QED
      BY <3>4, <3>5
  <2>3. QED
    BY <1>1, <2>1, <2>2
<1>11. ASSUME NEW i \in 1 .. n - 1 PROVE p2[q[i]] = KeyIn(q, n - 1, i - 1)
  <2>1. CASE i \in 1 .. j - 1
    <3>1. i \in 1 .. n /\ q[i] = o[i] /\ i # j /\ i # j + 1
      BY <1>1, <1>8, <2>1
    <3>2. o[i] # k /\ o[i] \in Pointers /\ p2[q[i]] = p1[o[i]]
      BY <1>1, <1>3, <1>7, <3>1 DEF k
    <3>3. b # o[i]
      BY <1>1, <1>2, <1>3, <3>1 DEF KeyIn
    <3>4. p2[q[i]] = KeyIn(o, n, i - 1)
      BY <1>1, <1>5, <3>1, <3>2, <3>3
    <3>5. KeyIn(o, n, i - 1) = KeyIn(q, n - 1, i - 1)
      BY <1>1, <2>1 DEF KeyIn
    <3>6. QED
      BY <3>4, <3>5
  <2>2. CASE i \in j .. n - 1
    <3>1. i + 1 \in 1 .. n /\ q[i] = o[i + 1] /\ i + 1 # j
      BY <1>1, <1>8, <2>2
    <3>2. o[i + 1] # k /\ o[i + 1] \in Pointers /\ p2[q[i]] = p1[o[i + 1]]
      BY <1>1, <1>3, <1>7, <3>1 DEF k
    <3>3. CASE i = j
      <4>1. b = o[i + 1] /\ b # Nil
        BY <1>1, <1>2, <1>3, <3>1, <3>3 DEF KeyIn
      <4>2. p2[q[i]] = KeyIn(o, n, j - 1)
        BY <1>2, <1>5, <3>2, <4>1
      <4>3. KeyIn(o, n, j - 1) = KeyIn(q, n - 1, i - 1)
        <5>1. CASE j = 1
          BY <1>1, <3>3, <5>1 DEF KeyIn
        <5>2. CASE j # 1
          BY <1>1, <3>3, <5>2 DEF KeyIn
        <5>3. QED
          BY <5>1, <5>2
      <4>4. QED
        BY <4>2, <4>3
    <3>4. CASE i # j
      <4>1. i - 1 \in j .. n - 1 /\ j + 1 \in 1 .. n /\ i - 1 \in 1 .. n - 1 /\ (i - 1) + 1 = i
            /\ (i + 1) - 1 = i /\ i \in 1 .. n
        BY <1>1, <2>2, <3>4
      <4>2. b = o[j + 1] /\ o[i + 1] # b
        BY <1>1, <1>2, <3>1, <3>4, <4>1 DEF KeyIn
      <4>3. p2[q[i]] = p[o[i + 1]]
        BY <1>5, <3>2, <4>2
      <4>4. p[o[i + 1]] = o[i] /\ q[i - 1] = o[i]
        BY <1>1, <3>1, <4>1 DEF KeyIn
      <4>5. QED
        BY <4>1, <4>3, <4>4 DEF KeyIn
    <3>5. QED
      BY <3>3, <3>4
  <2>3. QED
    BY <1>1, <2>1, <2>2
<1>12. (IF a = Nil THEN b ELSE h) = KeyIn(q, n - 1, 1)
  <2>1. CASE j = 1
    <3>1. a = Nil
      BY <1>2, <2>1 DEF KeyIn
    <3>2. KeyIn(o, n, j + 1) = KeyIn(q, n - 1, 1)
      BY <1>1, <2>1 DEF KeyIn
    <3>3. QED
      BY <1>2, <3>1, <3>2
  <2>2. CASE j # 1
    <3>1. j - 1 \in 1 .. n /\ 1 \in 1 .. j - 1 /\ 1 \in 1 .. n /\ 1 \in 1 .. n - 1
      BY <1>1, <2>2
    <3>2. a # Nil /\ h = o[1] /\ q[1] = o[1]
      BY <1>1, <1>2, <1>3, <3>1 DEF KeyIn
    <3>3. QED
      BY <3>1, <3>2 DEF KeyIn
  <2>3. QED
    BY <2>1, <2>2
<1>13. (IF b = Nil THEN a ELSE t) = KeyIn(q, n - 1, n - 1)
  <2>1. CASE j = n
    <3>1. b = Nil
      BY <1>1, <1>2, <2>1 DEF KeyIn
    <3>2. KeyIn(o, n, j - 1) = KeyIn(q, n - 1, n - 1)
      BY <1>1, <2>1 DEF KeyIn
    <3>3. QED
      BY <1>2, <3>1, <3>2
  <2>2. CASE j # n
    <3>1. j + 1 \in 1 .. n /\ n - 1 \in j .. n - 1 /\ n \in 1 .. n /\ n - 1 \in 1 .. n - 1
          /\ (n - 1) + 1 = n
      BY <1>1, <2>2
    <3>2. b # Nil /\ t = o[n] /\ q[n - 1] = o[n]
      BY <1>1, <1>2, <1>3, <3>1 DEF KeyIn
    <3>3. QED
      BY <3>1, <3>2 DEF KeyIn
  <2>3. QED
    BY <2>1, <2>2
<1>14. n - 1 \in Nat
  BY <1>1
<1>15. x2[Nil] = Nil
  BY <1>1, <1>4, <1>6
<1>16. Chain(IF a = Nil THEN b ELSE h, IF b = Nil THEN a ELSE t, p2, x2, q, n - 1)
  BY <1>6, <1>7, <1>9, <1>10, <1>11, <1>12, <1>13, <1>14, <1>15 DEF Chain
<1>17. QED
  BY <1>16 DEF a, b, k, p1, p2, x1, x2

-----------------------------------------------------------------------------
(* The cache: list, map and size *)

CacheRecords ==
    [items: SUBSET CacheKeys, len: [CacheKeys -> Nat], size: Int, head: Pointers, tail: Pointers,
     prev: [Pointers -> Pointers], next: [Pointers -> Pointers]]

KeysOf(s) == [i \in 1 .. Len(s) |-> s[i].block]

\* The blocks s are those of the map, with their lengths, in the order of the list.
Listed(c, s) ==
    /\ c \in CacheRecords
    /\ s \in Seq(CachedBlocks)
    /\ Chain(c.head, c.tail, c.prev, c.next, KeysOf(s), Len(s))
    /\ c.items = {s[i].block : i \in 1 .. Len(s)}
    /\ \A i \in 1 .. Len(s) : c.len[s[i].block] = s[i].len

\* The fields of a cache.
LEMMA RecordFields ==
    ASSUME NEW c \in CacheRecords
    PROVE  /\ c.items \in SUBSET CacheKeys /\ c.len \in [CacheKeys -> Nat] /\ c.size \in Int
           /\ c.head \in Pointers /\ c.tail \in Pointers
           /\ c.prev \in [Pointers -> Pointers] /\ c.next \in [Pointers -> Pointers]
BY DEF CacheRecords

\* PushFront changes the pointers and nothing else.
LEMMA PushFrontIs ==
    ASSUME NEW c \in CacheRecords, NEW k \in CacheKeys
    PROVE  LET d == PushFront(c, k)
           IN  /\ d \in CacheRecords
               /\ d.head = k /\ d.tail = IF c.tail = Nil THEN k ELSE c.tail
               /\ d.prev = Store(Store(c.prev, k, Nil), c.head, k)
               /\ d.next = Store(c.next, k, c.head)
               /\ d.items = c.items /\ d.len = c.len /\ d.size = c.size
<1> DEFINE d == PushFront(c, k)
           p == Store(Store(c.prev, k, Nil), c.head, k)
           x == Store(c.next, k, c.head)
           t == IF c.tail = Nil THEN k ELSE c.tail
<1>1. /\ c.items \in SUBSET CacheKeys /\ c.len \in [CacheKeys -> Nat] /\ c.size \in Int
      /\ c.head \in Pointers /\ c.tail \in Pointers
      /\ c.prev \in [Pointers -> Pointers] /\ c.next \in [Pointers -> Pointers]
  BY RecordFields
<1>2. k \in Pointers /\ Nil \in Pointers
  BY DEF Pointers
<1>3. p \in [Pointers -> Pointers] /\ x \in [Pointers -> Pointers]
  <2>1. Store(c.prev, k, Nil) \in [Pointers -> Pointers]
    BY <1>1, <1>2, StoreIs
  <2>2. QED
    BY <1>1, <1>2, <2>1, StoreIs
<1>4. t \in Pointers
  BY <1>1, <1>2
<1>5. /\ d = [c EXCEPT !.next = x, !.prev = p, !.head = k, !.tail = t]
  BY DEF PushFront, CacheRecords
<1> HIDE DEF d, p, x, t
<1>6. /\ d.head = k /\ d.tail = t /\ d.prev = p /\ d.next = x
      /\ d.items = c.items /\ d.len = c.len /\ d.size = c.size
  BY <1>5 DEF CacheRecords
<1>7. d \in CacheRecords
  BY <1>2, <1>3, <1>4, <1>5 DEF CacheRecords
<1>8. QED
  BY <1>6, <1>7 DEF d, p, x, t

\* So does Unlink.
LEMMA UnlinkIs ==
    ASSUME NEW c \in CacheRecords, NEW k \in CacheKeys
    PROVE  LET d == Unlink(c, k)
           IN  /\ d \in CacheRecords
               /\ d.head = IF c.prev[k] = Nil THEN c.next[k] ELSE c.head
               /\ d.tail = IF c.next[k] = Nil THEN c.prev[k] ELSE c.tail
               /\ d.prev = Store(Store(c.prev, c.next[k], c.prev[k]), k, Nil)
               /\ d.next = Store(Store(c.next, c.prev[k], c.next[k]), k, Nil)
               /\ d.items = c.items /\ d.len = c.len /\ d.size = c.size
<1> DEFINE d == Unlink(c, k)
           p == Store(Store(c.prev, c.next[k], c.prev[k]), k, Nil)
           x == Store(Store(c.next, c.prev[k], c.next[k]), k, Nil)
           h == IF c.prev[k] = Nil THEN c.next[k] ELSE c.head
           t == IF c.next[k] = Nil THEN c.prev[k] ELSE c.tail
<1>1. /\ c.items \in SUBSET CacheKeys /\ c.len \in [CacheKeys -> Nat] /\ c.size \in Int
      /\ c.head \in Pointers /\ c.tail \in Pointers
      /\ c.prev \in [Pointers -> Pointers] /\ c.next \in [Pointers -> Pointers]
  BY RecordFields
<1>2. k \in Pointers /\ Nil \in Pointers
  BY DEF Pointers
<1>3. c.prev[k] \in Pointers /\ c.next[k] \in Pointers
  BY <1>1, <1>2
<1>4. p \in [Pointers -> Pointers] /\ x \in [Pointers -> Pointers]
  <2>1. /\ Store(c.prev, c.next[k], c.prev[k]) \in [Pointers -> Pointers]
        /\ Store(c.next, c.prev[k], c.next[k]) \in [Pointers -> Pointers]
    BY <1>1, <1>2, <1>3, StoreIs
  <2>2. QED
    BY <1>2, <2>1, StoreIs
<1>5. h \in Pointers /\ t \in Pointers
  BY <1>1, <1>3
<1>6. d = [c EXCEPT !.next = x, !.prev = p, !.head = h, !.tail = t]
  BY DEF Unlink, CacheRecords
<1> HIDE DEF d, p, x, h, t
<1>7. /\ d.head = h /\ d.tail = t /\ d.prev = p /\ d.next = x
      /\ d.items = c.items /\ d.len = c.len /\ d.size = c.size
  BY <1>6 DEF CacheRecords
<1>8. d \in CacheRecords
  BY <1>4, <1>5, <1>6 DEF CacheRecords
<1>9. QED
  BY <1>7, <1>8 DEF d, p, x, h, t

\* Block e of (a \o <<e>>) \o b, and the blocks without it.
LEMMA Around ==
    ASSUME NEW a \in Seq(CachedBlocks), NEW b \in Seq(CachedBlocks), NEW e \in CachedBlocks
    PROVE  LET s == (a \o <<e>>) \o b
               u == a \o b
               j == Len(a) + 1
           IN  /\ s \in Seq(CachedBlocks) /\ u \in Seq(CachedBlocks)
               /\ Len(u) = Len(s) - 1 /\ Len(s) \in Nat /\ j \in 1 .. Len(s) /\ s[j] = e
               /\ \A i \in 1 .. j - 1 : u[i] = s[i]
               /\ \A i \in j .. Len(u) : u[i] = s[i + 1]
               /\ \A i \in 1 .. Len(u) : i \in 1 .. j - 1 \/ i \in j .. Len(u)
               /\ \A i \in 1 .. Len(s) : i \in 1 .. j - 1 \/ i = j \/ i - 1 \in j .. Len(u)
<1> DEFINE x == <<e>>
           v == a \o x
           s == v \o b
           u == a \o b
<1>1. x \in Seq(CachedBlocks) /\ Len(x) = 1 /\ x[1] = e /\ Len(a) \in Nat /\ Len(b) \in Nat
  OBVIOUS
<1> HIDE DEF x
<1>2. v \in Seq(CachedBlocks) /\ Len(v) = Len(a) + 1 /\ v[Len(a) + 1] = e
      /\ \A i \in 1 .. Len(a) : v[i] = a[i]
  <2>1. /\ v \in Seq(CachedBlocks) /\ Len(v) = Len(a) + Len(x)
        /\ \A i \in 1 .. Len(a) + Len(x) : v[i] = IF i <= Len(a) THEN a[i] ELSE x[i - Len(a)]
    BY <1>1, ConcatProperties
  <2>2. QED
    BY <1>1, <2>1
<1> HIDE DEF v
<1>3. /\ s \in Seq(CachedBlocks) /\ Len(s) = Len(v) + Len(b)
      /\ \A i \in 1 .. Len(v) + Len(b) : s[i] = IF i <= Len(v) THEN v[i] ELSE b[i - Len(v)]
  BY <1>2, ConcatProperties
<1>4. /\ u \in Seq(CachedBlocks) /\ Len(u) = Len(a) + Len(b)
      /\ \A i \in 1 .. Len(a) + Len(b) : u[i] = IF i <= Len(a) THEN a[i] ELSE b[i - Len(a)]
  BY ConcatProperties
<1> HIDE DEF s, u
<1>5. /\ Len(u) = Len(s) - 1 /\ Len(s) \in Nat /\ Len(a) + 1 \in 1 .. Len(s) /\ s[Len(a) + 1] = e
  BY <1>1, <1>2, <1>3, <1>4
<1>6. ASSUME NEW i \in 1 .. (Len(a) + 1) - 1 PROVE u[i] = s[i]
  <2>1. i \in 1 .. Len(a) /\ i \in 1 .. Len(a) + Len(b) /\ i \in 1 .. Len(v) + Len(b)
        /\ i <= Len(v) /\ i <= Len(a)
    BY <1>1, <1>2
  <2>2. u[i] = a[i] /\ s[i] = v[i] /\ v[i] = a[i]
    BY <1>2, <1>3, <1>4, <2>1
  <2>3. QED
    BY <2>2
<1>7. ASSUME NEW i \in Len(a) + 1 .. Len(u) PROVE u[i] = s[i + 1]
  <2>1. /\ i \in 1 .. Len(a) + Len(b) /\ i + 1 \in 1 .. Len(v) + Len(b)
        /\ ~(i + 1 <= Len(v)) /\ ~(i <= Len(a)) /\ (i + 1) - Len(v) = i - Len(a)
    BY <1>1, <1>2, <1>4
  <2>2. u[i] = b[i - Len(a)] /\ s[i + 1] = b[(i + 1) - Len(v)]
    BY <1>3, <1>4, <2>1
  <2>3. QED
    BY <2>1, <2>2
<1>8. /\ \A i \in 1 .. Len(u) : i \in 1 .. (Len(a) + 1) - 1 \/ i \in Len(a) + 1 .. Len(u)
      /\ \A i \in 1 .. Len(s) : \/ i \in 1 .. (Len(a) + 1) - 1 \/ i = Len(a) + 1
                                \/ i - 1 \in Len(a) + 1 .. Len(u)
  BY <1>1, <1>5
<1>9. QED
  BY <1>3, <1>4, <1>5, <1>6, <1>7, <1>8 DEF s, u, v, x

\* The keys of blocks, and what Listed says of them.
LEMMA KeysOfIs ==
    ASSUME NEW s \in Seq(CachedBlocks)
    PROVE  /\ Len(s) \in Nat /\ KeysOf(s) \in [1 .. Len(s) -> CacheKeys]
           /\ \A i \in 1 .. Len(s) : /\ KeysOf(s)[i] = s[i].block /\ s[i] \in CachedBlocks
                                     /\ s[i].block \in CacheKeys /\ s[i].len \in Nat
<1>1. \A i \in 1 .. Len(s) : s[i] \in CachedBlocks
  OBVIOUS
<1>2. \A i \in 1 .. Len(s) : s[i].block \in CacheKeys /\ s[i].len \in Nat
  BY <1>1, BlockFields
<1>3. QED
  BY <1>1, <1>2 DEF KeysOf

\* d is the cache c with block e out of its list, which is then u; the map still
\* has the block.
Unlinked(c, d, e, u) ==
    /\ c \in CacheRecords /\ d \in CacheRecords
    /\ d.items = c.items /\ d.len = c.len /\ d.size = c.size
    /\ u \in Seq(CachedBlocks)
    /\ Chain(d.head, d.tail, d.prev, d.next, KeysOf(u), Len(u))
    /\ \A i \in 1 .. Len(u) : u[i].block # e.block /\ c.len[u[i].block] = u[i].len
    /\ \A y : y \in c.items <=> y = e.block \/ \E i \in 1 .. Len(u) : y = u[i].block
    /\ c.len[e.block] = e.len

\* A block that is taken out of the list leaves the others listed.
LEMMA ListedUnlink ==
    ASSUME NEW c, NEW a \in Seq(CachedBlocks), NEW b \in Seq(CachedBlocks), NEW e \in CachedBlocks,
           Listed(c, (a \o <<e>>) \o b)
    PROVE  Unlinked(c, Unlink(c, e.block), e, a \o b)
<1> DEFINE u == a \o b
           s == (a \o <<e>>) \o b
           j == Len(a) + 1
           k == e.block
           d == Unlink(c, k)
           o == KeysOf(s)
           q == KeysOf(u)
           n == Len(s)
<1>1. /\ s \in Seq(CachedBlocks) /\ u \in Seq(CachedBlocks) /\ Len(u) = n - 1 /\ n \in Nat
      /\ j \in 1 .. n /\ s[j] = e
      /\ \A i \in 1 .. j - 1 : u[i] = s[i]
      /\ \A i \in j .. Len(u) : u[i] = s[i + 1]
      /\ \A i \in 1 .. Len(u) : i \in 1 .. j - 1 \/ i \in j .. Len(u)
      /\ \A i \in 1 .. n : i \in 1 .. j - 1 \/ i = j \/ i - 1 \in j .. Len(u)
  BY Around
<1> HIDE DEF s, u, j, n
<1>2. /\ c \in CacheRecords /\ Chain(c.head, c.tail, c.prev, c.next, o, n)
      /\ c.items = {s[i].block : i \in 1 .. n} /\ \A i \in 1 .. n : c.len[s[i].block] = s[i].len
  BY DEF Listed, s, n
<1>3. /\ o \in [1 .. n -> CacheKeys] /\ \A i \in 1 .. n : o[i] = s[i].block
      /\ q \in [1 .. n - 1 -> CacheKeys] /\ \A i \in 1 .. n - 1 : q[i] = u[i].block
  BY <1>1, KeysOfIs DEF n
<1>4. k \in CacheKeys /\ o[j] = k
  BY <1>1, <1>3, BlockFields
<1>5. \A i \in 1 .. j - 1 : i \in 1 .. n /\ i \in 1 .. n - 1 /\ i # j
  BY <1>1
<1>6. \A i \in j .. n - 1 : i + 1 \in 1 .. n /\ i \in 1 .. n - 1 /\ i + 1 # j
  BY <1>1
<1> HIDE DEF o, q, k
<1>7. (\A i \in 1 .. j - 1 : q[i] = o[i]) /\ (\A i \in j .. n - 1 : q[i] = o[i + 1])
  <2>1. ASSUME NEW i \in 1 .. j - 1 PROVE q[i] = o[i]
    <3>1. u[i] = s[i] /\ q[i] = u[i].block /\ o[i] = s[i].block
      BY <1>1, <1>3, <1>5
    <3>2. QED
      BY <3>1
  <2>2. ASSUME NEW i \in j .. n - 1 PROVE q[i] = o[i + 1]
    <3>1. u[i] = s[i + 1] /\ q[i] = u[i].block /\ o[i + 1] = s[i + 1].block
      BY <1>1, <1>3, <1>6
    <3>2. QED
      BY <3>1
  <2>3. QED
    BY <2>1, <2>2
<1>8. Chain(IF c.prev[k] = Nil THEN c.next[k] ELSE c.head, IF c.next[k] = Nil THEN c.prev[k] ELSE c.tail,
            Store(Store(c.prev, c.next[k], c.prev[k]), k, Nil),
            Store(Store(c.next, c.prev[k], c.next[k]), k, Nil), q, n - 1)
  <2> DEFINE h == c.head
             t == c.tail
             p == c.prev
             x == c.next
  <2>1. Chain(h, t, p, x, o, n) /\ j \in 1 .. n /\ q \in [1 .. n - 1 -> CacheKeys]
    BY <1>1, <1>2, <1>3
  <2> HIDE DEF h, t, p, x
  <2>2. Chain(IF p[o[j]] = Nil THEN x[o[j]] ELSE h, IF x[o[j]] = Nil THEN p[o[j]] ELSE t,
              Store(Store(p, x[o[j]], p[o[j]]), o[j], Nil),
              Store(Store(x, p[o[j]], x[o[j]]), o[j], Nil), q, n - 1)
    BY <1>7, <2>1, ChainUnlink
  <2>3. QED
    BY <1>4, <2>2 DEF h, t, p, x
<1>9. /\ d \in CacheRecords
      /\ d.head = IF c.prev[k] = Nil THEN c.next[k] ELSE c.head
      /\ d.tail = IF c.next[k] = Nil THEN c.prev[k] ELSE c.tail
      /\ d.prev = Store(Store(c.prev, c.next[k], c.prev[k]), k, Nil)
      /\ d.next = Store(Store(c.next, c.prev[k], c.next[k]), k, Nil)
      /\ d.items = c.items /\ d.len = c.len /\ d.size = c.size
  BY <1>2, <1>4, UnlinkIs
<1> HIDE DEF d
<1>10. Chain(d.head, d.tail, d.prev, d.next, q, Len(u))
  BY <1>1, <1>8, <1>9
<1>11. \A x, y \in 1 .. n : o[x] = o[y] => x = y
  BY <1>2 DEF Chain
<1>12. ASSUME NEW i \in 1 .. Len(u) PROVE u[i].block # k /\ c.len[u[i].block] = u[i].len
  <2>1. PICK x \in 1 .. n : x # j /\ u[i] = s[x]
    <3>1. CASE i \in 1 .. j - 1
      BY <1>1, <1>5, <3>1
    <3>2. CASE i \in j .. n - 1
      BY <1>1, <1>6, <3>2
    <3>3. QED
      BY <1>1, <3>1, <3>2
  <2>2. o[x] # o[j] /\ o[x] = s[x].block
    BY <1>1, <1>3, <1>11, <2>1
  <2>3. c.len[s[x].block] = s[x].len
    BY <1>2
  <2>4. QED
    BY <1>4, <2>1, <2>2, <2>3
<1>13. ASSUME NEW y PROVE y \in c.items <=> y = k \/ \E i \in 1 .. Len(u) : y = u[i].block
  <2>1. y \in c.items <=> \E i \in 1 .. n : y = s[i].block
    BY <1>2
  <2>2. ASSUME NEW i \in 1 .. n, y = s[i].block PROVE y = k \/ \E x \in 1 .. Len(u) : y = u[x].block
    <3>1. CASE i \in 1 .. j - 1
      BY <1>1, <1>5, <2>2, <3>1
    <3>2. CASE i = j
      BY <1>1, <2>2, <3>2 DEF k
    <3>3. CASE i - 1 \in j .. n - 1
      <4>1. i - 1 \in 1 .. Len(u) /\ (i - 1) + 1 = i /\ i - 1 \in j .. Len(u)
        BY <1>1, <1>6, <3>3
      <4>2. u[i - 1] = s[i]
        BY <1>1, <4>1
      <4>3. QED
        BY <2>2, <4>1, <4>2
    <3>4. QED
      BY <1>1, <3>1, <3>2, <3>3
  <2>3. ASSUME NEW i \in 1 .. Len(u) PROVE \E x \in 1 .. n : u[i].block = s[x].block
    <3>1. CASE i \in 1 .. j - 1
      BY <1>1, <1>5, <3>1
    <3>2. CASE i \in j .. n - 1
      BY <1>1, <1>6, <3>2
    <3>3. QED
      BY <1>1, <3>1, <3>2
  <2>4. k = s[j].block
    BY <1>1 DEF k
  <2>5. QED
    BY <1>1, <2>1, <2>2, <2>3, <2>4
<1>14. c.len[k] = e.len
  BY <1>1, <1>2 DEF k
<1>15. QED
  BY <1>1, <1>2, <1>9, <1>10, <1>12, <1>13, <1>14 DEF k, q, d, u, Unlinked

\* Discard: the block is gone, and its length with it.
LEMMA ListedDiscard ==
    ASSUME NEW c, NEW a \in Seq(CachedBlocks), NEW b \in Seq(CachedBlocks), NEW e \in CachedBlocks,
           Listed(c, (a \o <<e>>) \o b)
    PROVE  /\ Listed(Discard(c, e.block), a \o b)
           /\ Discard(c, e.block).size = c.size - e.len
           /\ Discard(c, e.block).items = c.items \ {e.block}
<1> DEFINE u == a \o b
           k == e.block
           d == Unlink(c, k)
           g == Discard(c, k)
           l == [d.len EXCEPT ![k] = 0]
<1>0. Unlinked(c, d, e, u)
  BY ListedUnlink
<1>1. /\ c \in CacheRecords /\ d \in CacheRecords
      /\ d.items = c.items /\ d.len = c.len /\ d.size = c.size
      /\ u \in Seq(CachedBlocks)
      /\ Chain(d.head, d.tail, d.prev, d.next, KeysOf(u), Len(u))
      /\ \A i \in 1 .. Len(u) : u[i].block # k /\ c.len[u[i].block] = u[i].len
      /\ \A y : y \in c.items <=> y = k \/ \E i \in 1 .. Len(u) : y = u[i].block
      /\ c.len[k] = e.len
  BY <1>0 DEF Unlinked
<1>2. k \in CacheKeys /\ e.len \in Nat
  BY BlockFields
<1>3. c.len \in [CacheKeys -> Nat] /\ c.size \in Int /\ c.items \in SUBSET CacheKeys
  BY <1>1, RecordFields
<1> HIDE DEF d, u, k
<1>4. /\ l \in [CacheKeys -> Nat] /\ \A y \in CacheKeys : y # k => l[y] = c.len[y]
  BY <1>1, <1>2, <1>3
<1>5. g = [d EXCEPT !.items = d.items \ {k}, !.size = d.size - c.len[k], !.len = l]
  <2>1. g = [d EXCEPT !.items = @ \ {k}, !.size = @ - c.len[k], !.len[k] = 0]
    BY DEF Discard, d
  <2>2. QED
    BY <1>1, <2>1 DEF CacheRecords
<1> HIDE DEF g, l
<1>6. /\ g.items = c.items \ {k} /\ g.size = c.size - e.len /\ g.len = l
      /\ g.head = d.head /\ g.tail = d.tail /\ g.prev = d.prev /\ g.next = d.next
  <2>1. d \in [items: SUBSET CacheKeys, len: [CacheKeys -> Nat], size: Int, head: Pointers, tail: Pointers,
               prev: [Pointers -> Pointers], next: [Pointers -> Pointers]]
    BY <1>1 DEF CacheRecords
  <2>2. /\ g.items = d.items \ {k} /\ g.size = d.size - c.len[k] /\ g.len = l
        /\ g.head = d.head /\ g.tail = d.tail /\ g.prev = d.prev /\ g.next = d.next
    BY <1>5, <2>1
  <2>3. QED
    BY <1>1, <2>2
<1>7. g \in CacheRecords
  <2>1. g.items \in SUBSET CacheKeys /\ g.size \in Int /\ g.len \in [CacheKeys -> Nat]
    BY <1>2, <1>3, <1>4, <1>6
  <2>2. QED
    BY <1>1, <1>5, <1>6, <2>1 DEF CacheRecords
<1>8. g.items = {u[i].block : i \in 1 .. Len(u)}
  BY <1>1, <1>6
<1>9. ASSUME NEW i \in 1 .. Len(u) PROVE g.len[u[i].block] = u[i].len
  <2>1. u[i].block \in CacheKeys
    BY <1>1, KeysOfIs
  <2>2. QED
    BY <1>1, <1>4, <1>6, <2>1
<1>10. Listed(g, u)
  BY <1>1, <1>6, <1>7, <1>8, <1>9 DEF Listed
<1>11. QED
  BY <1>6, <1>10 DEF g, k, u

\* A sequence with one more block in front.
LEMMA InFront ==
    ASSUME NEW e \in CachedBlocks, NEW s \in Seq(CachedBlocks)
    PROVE  LET v == <<e>> \o s
           IN  /\ v \in Seq(CachedBlocks) /\ Len(v) = Len(s) + 1 /\ Len(s) \in Nat /\ v[1] = e
               /\ \A i \in 1 .. Len(s) : v[i + 1] = s[i] /\ i + 1 \in 1 .. Len(v)
               /\ \A i \in 1 .. Len(v) : i = 1 \/ (i - 1 \in 1 .. Len(s) /\ v[i] = s[i - 1])
<1> DEFINE x == <<e>>
           v == x \o s
<1>1. x \in Seq(CachedBlocks) /\ Len(x) = 1 /\ x[1] = e /\ Len(s) \in Nat
  OBVIOUS
<1> HIDE DEF x
<1>2. /\ v \in Seq(CachedBlocks) /\ Len(v) = Len(x) + Len(s)
      /\ \A i \in 1 .. Len(x) + Len(s) : v[i] = IF i <= Len(x) THEN x[i] ELSE s[i - Len(x)]
  BY <1>1, ConcatProperties
<1> HIDE DEF v
<1>3. Len(v) = Len(s) + 1 /\ v[1] = e
  BY <1>1, <1>2
<1>4. ASSUME NEW i \in 1 .. Len(v), i # 1 PROVE i - 1 \in 1 .. Len(s) /\ v[i] = s[i - 1]
  BY <1>1, <1>2, <1>3, <1>4
<1>5. ASSUME NEW i \in 1 .. Len(s) PROVE v[i + 1] = s[i] /\ i + 1 \in 1 .. Len(v)
  <2>1. i + 1 \in 1 .. Len(v) /\ i + 1 # 1 /\ (i + 1) - 1 = i
    BY <1>1, <1>3
  <2>2. QED
    BY <1>4, <2>1
<1>6. QED
  BY <1>1, <1>2, <1>3, <1>4, <1>5 DEF v, x

\* PushFront puts a block that is not in the list in front of it.
LEMMA ListedPush ==
    ASSUME NEW c \in CacheRecords, NEW s \in Seq(CachedBlocks), NEW e \in CachedBlocks,
           Chain(c.head, c.tail, c.prev, c.next, KeysOf(s), Len(s)),
           \A i \in 1 .. Len(s) : s[i].block # e.block
    PROVE  LET d == PushFront(c, e.block)
               v == <<e>> \o s
           IN  /\ d \in CacheRecords
               /\ d.items = c.items /\ d.len = c.len /\ d.size = c.size
               /\ Chain(d.head, d.tail, d.prev, d.next, KeysOf(v), Len(v))
<1> DEFINE k == e.block
           d == PushFront(c, k)
           v == <<e>> \o s
           n == Len(s)
           o == KeysOf(s)
           q == KeysOf(v)
<1>1. /\ v \in Seq(CachedBlocks) /\ Len(v) = n + 1 /\ n \in Nat /\ v[1] = e
      /\ \A i \in 1 .. n : v[i + 1] = s[i] /\ i + 1 \in 1 .. n + 1
  BY InFront
<1> HIDE DEF v, n
<1>2. /\ o \in [1 .. n -> CacheKeys] /\ \A i \in 1 .. n : o[i] = s[i].block
      /\ q \in [1 .. n + 1 -> CacheKeys] /\ \A i \in 1 .. n + 1 : q[i] = v[i].block
  BY <1>1, KeysOfIs DEF n
<1>3. k \in CacheKeys
  BY BlockFields
<1>4. Chain(c.head, c.tail, c.prev, c.next, o, n) /\ \A i \in 1 .. n : s[i].block # k
  BY DEF n
<1> HIDE DEF o, q, k
<1>5. q[1] = k
  <2>1. 1 \in 1 .. n + 1
    BY <1>1
  <2>2. QED
    BY <1>1, <1>2, <2>1 DEF k
<1>6. (\A i \in 1 .. n : q[i + 1] = o[i]) /\ \A i \in 1 .. n : o[i] # k
  <2>1. ASSUME NEW i \in 1 .. n PROVE q[i + 1] = o[i] /\ o[i] # k
    <3>1. v[i + 1] = s[i] /\ q[i + 1] = v[i + 1].block /\ o[i] = s[i].block
      BY <1>1, <1>2
    <3>2. QED
      BY <1>4, <3>1
  <2>2. QED
    BY <2>1
<1>7. Chain(k, IF c.tail = Nil THEN k ELSE c.tail, Store(Store(c.prev, k, Nil), c.head, k),
            Store(c.next, k, c.head), q, n + 1)
  <2> DEFINE h == c.head
             t == c.tail
             p == c.prev
             x == c.next
  <2>1. Chain(h, t, p, x, o, n)
    BY <1>4
  <2> HIDE DEF h, t, p, x
  <2>2. Chain(k, IF t = Nil THEN k ELSE t, Store(Store(p, k, Nil), h, k), Store(x, k, h), q, n + 1)
    <3>1. /\ q \in [1 .. n + 1 -> CacheKeys] /\ k \in CacheKeys /\ q[1] = k
          /\ \A i \in 1 .. n : o[i] # k
          /\ \A i \in 1 .. n : q[i + 1] = o[i]
      BY <1>2, <1>3, <1>5, <1>6
    <3>2. QED
      BY <2>1, <3>1, ChainPush, Zenon
  <2>3. QED
    BY <2>2 DEF h, t, p, x
<1>8. /\ d \in CacheRecords
      /\ d.head = k /\ d.tail = IF c.tail = Nil THEN k ELSE c.tail
      /\ d.prev = Store(Store(c.prev, k, Nil), c.head, k)
      /\ d.next = Store(c.next, k, c.head)
      /\ d.items = c.items /\ d.len = c.len /\ d.size = c.size
  BY <1>3, PushFrontIs
<1> HIDE DEF d
<1>9. Chain(d.head, d.tail, d.prev, d.next, q, Len(v))
  BY <1>1, <1>7, <1>8
<1>10. QED
  BY <1>8, <1>9 DEF d, k, q, v

\* A block further down comes to the front.
LEMMA ListedMove ==
    ASSUME NEW c, NEW a \in Seq(CachedBlocks), NEW b \in Seq(CachedBlocks), NEW e \in CachedBlocks,
           Listed(c, (a \o <<e>>) \o b)
    PROVE  LET g == PushFront(Unlink(c, e.block), e.block)
           IN  Listed(g, <<e>> \o (a \o b)) /\ g.size = c.size /\ g.items = c.items
<1> DEFINE u == a \o b
           k == e.block
           d == Unlink(c, k)
           g == PushFront(d, k)
           v == <<e>> \o u
<1>1. Unlinked(c, d, e, u)
  BY ListedUnlink
<1>2. /\ c \in CacheRecords /\ d \in CacheRecords
      /\ d.items = c.items /\ d.len = c.len /\ d.size = c.size
      /\ u \in Seq(CachedBlocks)
      /\ Chain(d.head, d.tail, d.prev, d.next, KeysOf(u), Len(u))
      /\ \A i \in 1 .. Len(u) : u[i].block # k /\ c.len[u[i].block] = u[i].len
      /\ \A y : y \in c.items <=> y = k \/ \E i \in 1 .. Len(u) : y = u[i].block
      /\ c.len[k] = e.len
  BY <1>1 DEF Unlinked
<1> HIDE DEF d, u
<1>3. /\ g \in CacheRecords /\ g.items = d.items /\ g.len = d.len /\ g.size = d.size
      /\ Chain(g.head, g.tail, g.prev, g.next, KeysOf(v), Len(v))
  BY <1>2, ListedPush
<1>4. /\ v \in Seq(CachedBlocks) /\ Len(v) = Len(u) + 1 /\ Len(u) \in Nat /\ v[1] = e
      /\ \A i \in 1 .. Len(u) : v[i + 1] = u[i] /\ i + 1 \in 1 .. Len(v)
      /\ \A i \in 1 .. Len(v) : i = 1 \/ (i - 1 \in 1 .. Len(u) /\ v[i] = u[i - 1])
  BY <1>2, InFront
<1> HIDE DEF g, v
<1>5. ASSUME NEW i \in 1 .. Len(v) PROVE g.len[v[i].block] = v[i].len
  <2>1. CASE i = 1
    BY <1>2, <1>3, <1>4, <2>1 DEF k
  <2>2. CASE i # 1
    BY <1>2, <1>3, <1>4, <2>2
  <2>3. QED
    BY <2>1, <2>2
<1>6. g.items = {v[i].block : i \in 1 .. Len(v)}
  <2>1. ASSUME NEW y PROVE y \in g.items <=> \E i \in 1 .. Len(v) : y = v[i].block
    <3>1. y \in g.items <=> y = k \/ \E i \in 1 .. Len(u) : y = u[i].block
      BY <1>2, <1>3
    <3>2. 1 \in 1 .. Len(v) /\ v[1].block = k
      BY <1>4 DEF k
    <3>3. ASSUME NEW i \in 1 .. Len(v) PROVE v[i].block = k \/ \E x \in 1 .. Len(u) : v[i].block = u[x].block
      BY <1>4, <3>2
    <3>4. ASSUME NEW i \in 1 .. Len(u) PROVE \E x \in 1 .. Len(v) : u[i].block = v[x].block
      BY <1>4
    <3>5. QED
      BY <3>1, <3>2, <3>3, <3>4
  <2>2. QED
    BY <2>1
<1>7. Listed(g, v)
  BY <1>3, <1>4, <1>5, <1>6 DEF Listed
<1>8. QED
  BY <1>2, <1>3, <1>7 DEF g, v, d, k, u

\* A block that was not cached comes in.
LEMMA ListedAdd ==
    ASSUME NEW c, NEW s, Listed(c, s), NEW e \in CachedBlocks, e.block \notin c.items
    PROVE  LET k == e.block
               g == [PushFront(c, k) EXCEPT !.items = @ \cup {k}, !.len[k] = e.len, !.size = @ + e.len]
           IN  Listed(g, <<e>> \o s) /\ g.size = c.size + e.len
<1> DEFINE k == e.block
           d == PushFront(c, k)
           l == [d.len EXCEPT ![k] = e.len]
           g == [d EXCEPT !.items = @ \cup {k}, !.len[k] = e.len, !.size = @ + e.len]
           v == <<e>> \o s
<1>1. /\ c \in CacheRecords /\ s \in Seq(CachedBlocks)
      /\ Chain(c.head, c.tail, c.prev, c.next, KeysOf(s), Len(s))
      /\ c.items = {s[i].block : i \in 1 .. Len(s)}
      /\ \A i \in 1 .. Len(s) : c.len[s[i].block] = s[i].len
  BY DEF Listed
<1>2. k \in CacheKeys /\ e.len \in Nat /\ \A i \in 1 .. Len(s) : s[i].block # k
  BY <1>1, BlockFields
<1>3. /\ d \in CacheRecords /\ d.items = c.items /\ d.len = c.len /\ d.size = c.size
      /\ Chain(d.head, d.tail, d.prev, d.next, KeysOf(v), Len(v))
  BY <1>1, <1>2, ListedPush
<1>4. /\ v \in Seq(CachedBlocks) /\ Len(v) = Len(s) + 1 /\ Len(s) \in Nat /\ v[1] = e
      /\ \A i \in 1 .. Len(s) : v[i + 1] = s[i] /\ i + 1 \in 1 .. Len(v)
      /\ \A i \in 1 .. Len(v) : i = 1 \/ (i - 1 \in 1 .. Len(s) /\ v[i] = s[i - 1])
  BY <1>1, InFront
<1>5. c.len \in [CacheKeys -> Nat] /\ c.size \in Int /\ c.items \in SUBSET CacheKeys
  BY <1>1, RecordFields
<1> HIDE DEF d, v, k
<1>6. l \in [CacheKeys -> Nat] /\ l[k] = e.len /\ \A y \in CacheKeys : y # k => l[y] = c.len[y]
  BY <1>2, <1>3, <1>5
<1>7. g = [d EXCEPT !.items = d.items \cup {k}, !.size = d.size + e.len, !.len = l]
  BY <1>3 DEF CacheRecords
<1> HIDE DEF g, l
<1>8. /\ g.items = c.items \cup {k} /\ g.size = c.size + e.len /\ g.len = l
      /\ g.head = d.head /\ g.tail = d.tail /\ g.prev = d.prev /\ g.next = d.next
  <2>1. d \in [items: SUBSET CacheKeys, len: [CacheKeys -> Nat], size: Int, head: Pointers, tail: Pointers,
               prev: [Pointers -> Pointers], next: [Pointers -> Pointers]]
    BY <1>3 DEF CacheRecords
  <2>2. /\ g.items = d.items \cup {k} /\ g.size = d.size + e.len /\ g.len = l
        /\ g.head = d.head /\ g.tail = d.tail /\ g.prev = d.prev /\ g.next = d.next
    BY <1>7, <2>1
  <2>3. QED
    BY <1>3, <2>2
<1>9. g \in CacheRecords
  <2>1. g.items \in SUBSET CacheKeys /\ g.size \in Int /\ g.len \in [CacheKeys -> Nat]
    BY <1>2, <1>5, <1>6, <1>8
  <2>2. QED
    BY <1>3, <1>7, <1>8, <2>1 DEF CacheRecords
<1>10. ASSUME NEW i \in 1 .. Len(v) PROVE g.len[v[i].block] = v[i].len
  <2>1. CASE i = 1
    BY <1>4, <1>6, <1>8, <2>1 DEF k
  <2>2. CASE i # 1
    <3>1. i - 1 \in 1 .. Len(s) /\ v[i] = s[i - 1]
      BY <1>4, <2>2
    <3>2. s[i - 1].block \in CacheKeys /\ s[i - 1].block # k /\ c.len[s[i - 1].block] = s[i - 1].len
      BY <1>1, <1>2, <3>1, KeysOfIs
    <3>3. QED
      BY <1>6, <1>8, <3>1, <3>2
  <2>3. QED
    BY <2>1, <2>2
<1>11. g.items = {v[i].block : i \in 1 .. Len(v)}
  <2>1. ASSUME NEW y PROVE y \in g.items <=> \E i \in 1 .. Len(v) : y = v[i].block
    <3>1. y \in g.items <=> y = k \/ \E i \in 1 .. Len(s) : y = s[i].block
      BY <1>1, <1>8
    <3>2. 1 \in 1 .. Len(v) /\ v[1].block = k
      BY <1>4 DEF k
    <3>3. ASSUME NEW i \in 1 .. Len(v) PROVE v[i].block = k \/ \E x \in 1 .. Len(s) : v[i].block = s[x].block
      BY <1>4, <3>2
    <3>4. ASSUME NEW i \in 1 .. Len(s) PROVE \E x \in 1 .. Len(v) : s[i].block = v[x].block
      BY <1>4
    <3>5. QED
      BY <3>1, <3>2, <3>3, <3>4
  <2>2. QED
    BY <2>1
<1>12. Listed(g, v)
  BY <1>3, <1>4, <1>8, <1>9, <1>10, <1>11 DEF Listed
<1>13. QED
  BY <1>8, <1>12 DEF g, v, d, k

-----------------------------------------------------------------------------
(* The order of the list *)

\* What the refinement mapping makes of a cache.
ContentsOf(c) ==
    LET o == CacheOrder(c) IN [n \in DOMAIN o |-> [block |-> o[n], len |-> c.len[o[n]]]]

\* There are finitely many keys; those of a list are as many as its blocks.
LEMMA KeysFinite == IsFiniteSet(CacheKeys) /\ Cardinality(CacheKeys) \in Nat
<1>1. IsFiniteSet(1 .. MaxTables) /\ IsFiniteSet(1 .. Len(Writes))
  BY BoundsAssumption, WritesAssumption, FS_Interval
<1>2. IsFiniteSet((1 .. MaxTables) \X (1 .. Len(Writes)))
  BY <1>1, FS_Product
<1>3. QED
  BY <1>2, FS_CardinalityType DEF CacheKeys

\* The map has as many keys as the list has blocks.
LEMMA ListedFinite ==
    ASSUME NEW c, NEW s, Listed(c, s)
    PROVE  Len(s) \in Nat /\ Len(s) <= Cardinality(CacheKeys) /\ Cardinality(c.items) = Len(s)
<1> DEFINE n == Len(s)
           o == KeysOf(s)
           S == 1 .. n
           T == c.items
<1>1. /\ s \in Seq(CachedBlocks) /\ T = {s[i].block : i \in 1 .. n} /\ T \in SUBSET CacheKeys
      /\ \A i, j \in 1 .. n : o[i] = o[j] => i = j
  BY RecordFields DEF Listed, Chain
<1>2. n \in Nat /\ o \in [1 .. n -> CacheKeys] /\ \A i \in 1 .. n : o[i] = s[i].block
  BY <1>1, KeysOfIs
<1> HIDE DEF o, n, T
<1>3. IsFiniteSet(S) /\ Cardinality(S) = n
  BY <1>2, FS_Interval
<1>4. o \in [S -> T]
  BY <1>1, <1>2
<1>5. o \in Bijection(S, T)
  <2>1. \A y \in T : \E i \in S : o[i] = y
    BY <1>1, <1>2
  <2>2. DOMAIN o = S
    BY <1>2
  <2> HIDE DEF S
  <2>3. QED
    BY <1>1, <1>4, <2>1, <2>2 DEF Bijection, Injection, Surjection, IsInjective, S
<1>6. ExistsBijection(S, T)
  BY <1>5 DEF ExistsBijection
<1>7. Cardinality(T) = n
  BY <1>3, <1>6, FS_Bijection
<1>8. Cardinality(T) <= Cardinality(CacheKeys)
  BY <1>1, KeysFinite, FS_Subset
<1>9. QED
  BY <1>2, <1>7, <1>8 DEF n, T

\* Following the list one comes to its blocks one after the other, and then to nil.
LEMMA NthIs ==
    ASSUME NEW c, NEW s, Listed(c, s), NEW m \in Nat
    PROVE  Nth(c, m + 1) = KeyIn(KeysOf(s), Len(s), m + 1)
<1> DEFINE o == KeysOf(s)
           n == Len(s)
           ts == Following!Times((m + 1) - 1, c)
           f == [i \in 0 .. m |-> {KeyIn(o, n, i + 1)}]
<1>1. /\ n \in Nat /\ o \in [1 .. n -> CacheKeys] /\ c.next[Nil] = Nil /\ c.head = KeyIn(o, n, 1)
      /\ \A i \in 1 .. n : c.next[o[i]] = KeyIn(o, n, i + 1)
  BY DEF Listed, Chain
<1> HIDE DEF o, n
<1>2. Len(ts) = m /\ \A i \in 1 .. m : ts[i] = c
  <2>1. (m + 1) - 1 = m
    OBVIOUS
  <2>2. ts = [i \in 1 .. m |-> c]
    BY <2>1 DEF Following!Times
  <2>3. QED
    BY <2>2
<1>3. \A i \in 0 .. m : f[i] = {KeyIn(o, n, i + 1)}
  OBVIOUS
<1> HIDE DEF f
<1>4. c.head \in f[0]
  <2>1. 0 \in 0 .. m /\ 0 + 1 = 1
    OBVIOUS
  <2>2. QED
    BY <1>1, <1>3, <2>1
<1>5. ASSUME NEW i \in 1 .. m, NEW k \in f[i - 1] PROVE Follow(k, ts[i]) \in f[i]
  <2>1. i - 1 \in 0 .. m /\ i \in 0 .. m /\ (i - 1) + 1 = i
    OBVIOUS
  <2>2. k = KeyIn(o, n, i) /\ f[i] = {KeyIn(o, n, i + 1)} /\ ts[i] = c
    BY <1>2, <1>3, <2>1
  <2>3. c.next[k] = KeyIn(o, n, i + 1)
    <3>1. CASE i \in 1 .. n
      BY <1>1, <2>2, <3>1 DEF KeyIn
    <3>2. CASE i \notin 1 .. n
      <4>1. i + 1 \notin 1 .. n
        BY <1>1, <3>2
      <4>2. QED
        BY <1>1, <2>2, <3>2, <4>1 DEF KeyIn
    <3>3. QED
      BY <3>1, <3>2
  <2>4. QED
    BY <2>2, <2>3 DEF Follow
<1> DEFINE h == c.head
<1>6. Len(ts) \in Nat /\ h \in f[0] /\ \A i \in 1 .. Len(ts) : \A a \in f[i - 1] : Follow(a, ts[i]) \in f[i]
  BY <1>2, <1>4, <1>5
<1> HIDE DEF ts, h
<1>7. Following!Loop(h, ts) \in f[Len(ts)]
  BY <1>6, Following!LoopInvariant
<1>8. f[Len(ts)] = {KeyIn(o, n, m + 1)}
  BY <1>2, <1>3
<1>9. QED
  BY <1>7, <1>8 DEF Nth, ts, h, o, n

\* The order of a cache is that of its list.
LEMMA ContentsIs ==
    ASSUME NEW c, NEW s, Listed(c, s) PROVE ContentsOf(c) = s
<1> DEFINE n == Len(s)
           o == KeysOf(s)
           m == Cardinality(DOMAIN c.len)
           X == {i \in 1 .. m : Nth(c, i) # Nil}
<1>1. /\ c \in CacheRecords /\ s \in Seq(CachedBlocks) /\ \A i \in 1 .. n : c.len[s[i].block] = s[i].len
  BY DEF Listed
<1>2. /\ n \in Nat /\ \A i \in 1 .. n : o[i] = s[i].block /\ s[i] \in CachedBlocks /\ o[i] \in CacheKeys
  BY <1>1, KeysOfIs
<1>3. DOMAIN c.len = CacheKeys
  BY <1>1, RecordFields
<1>4. m \in Nat /\ n <= m
  BY <1>3, ListedFinite, KeysFinite
<1> HIDE DEF m, n, o
<1>5. ASSUME NEW i \in 1 .. m PROVE Nth(c, i) = KeyIn(o, n, i)
  <2>1. i - 1 \in Nat /\ (i - 1) + 1 = i
    BY <1>4
  <2>2. Nth(c, (i - 1) + 1) = KeyIn(o, n, (i - 1) + 1)
    BY <2>1, NthIs DEF o, n
  <2>3. QED
    BY <2>1, <2>2
<1>6. \A i \in 1 .. n : Nth(c, i) = o[i] /\ o[i] # Nil /\ i \in 1 .. m
  BY <1>2, <1>4, <1>5, NilIsNoKey DEF KeyIn
<1>7. X = 1 .. n
  <2>1. \A i \in 1 .. m : Nth(c, i) # Nil => i \in 1 .. n
    BY <1>5 DEF KeyIn
  <2>2. QED
    BY <1>6, <2>1
<1>8. Cardinality(X) = n
  <2>1. Cardinality(1 .. n) = n
    BY <1>2, FS_Interval
  <2>2. QED
    BY <1>7, <2>1, Zenon
<1>9. CacheOrder(c) = [i \in 1 .. n |-> Nth(c, i)]
  BY <1>8 DEF CacheOrder, m
<1> DEFINE q == CacheOrder(c)
<1>10. DOMAIN q = 1 .. n /\ \A i \in 1 .. n : q[i] = s[i].block
  BY <1>2, <1>6, <1>9
<1>11. ContentsOf(c) = [i \in DOMAIN q |-> [block |-> q[i], len |-> c.len[q[i]]]]
  BY DEF ContentsOf
<1> HIDE DEF q
<1>12. ContentsOf(c) = [i \in 1 .. n |-> [block |-> q[i], len |-> c.len[q[i]]]]
  BY <1>10, <1>11
<1>13. ASSUME NEW i \in 1 .. n PROVE [block |-> q[i], len |-> c.len[q[i]]] = s[i]
  <2>1. q[i] = s[i].block /\ c.len[q[i]] = s[i].len
    BY <1>1, <1>10 DEF n
  <2>2. s[i] = [block |-> s[i].block, len |-> s[i].len]
    BY <1>2 DEF CachedBlocks
  <2>3. QED
    BY <2>1, <2>2
<1>14. s = [i \in 1 .. n |-> s[i]]
  BY <1>1 DEF n
<1>15. QED
  BY <1>12, <1>13, <1>14, Zenon

-----------------------------------------------------------------------------
(* Making room *)

\* The first n blocks of s.
FirstBlocks(s, n) == SubSeq(s, 1, n)

\* What the first n blocks of s take, together.
LEMMA FirstBlocksIs ==
    ASSUME NEW s \in Seq(CachedBlocks), NEW n \in 0 .. Len(s)
    PROVE  /\ FirstBlocks(s, n) \in Seq(CachedBlocks) /\ Len(FirstBlocks(s, n)) = n
           /\ TotalLen(FirstBlocks(s, n)) \in Nat
           /\ \A i \in 1 .. n : FirstBlocks(s, n)[i] = s[i]
<1>1. /\ FirstBlocks(s, n) \in Seq(CachedBlocks) /\ Len(FirstBlocks(s, n)) = n
      /\ \A i \in 1 .. n : FirstBlocks(s, n)[i] = s[i]
  BY DEF FirstBlocks
<1>2. QED
  BY <1>1, TotalLenNat

\* More blocks take more.
LEMMA FirstBlocksGrow ==
    ASSUME NEW s \in Seq(CachedBlocks), NEW m \in 0 .. Len(s), NEW n \in 0 .. Len(s), m <= n
    PROVE  TotalLen(FirstBlocks(s, m)) <= TotalLen(FirstBlocks(s, n))
<1> DEFINE Bad == {i \in 0 .. Len(s) :
                    m <= i /\ ~(TotalLen(FirstBlocks(s, m)) <= TotalLen(FirstBlocks(s, i)))}
<1> SUFFICES ASSUME Bad # {} PROVE FALSE
  OBVIOUS
<1>1. PICK i \in Bad : \A j \in Bad : i <= j
  <2>1. Bad \subseteq Nat
    OBVIOUS
  <2> HIDE DEF Bad
  <2>2. QED
    BY <2>1, Search!NatMin
<1>2. /\ i \in 0 .. Len(s) /\ m <= i /\ ~(TotalLen(FirstBlocks(s, m)) <= TotalLen(FirstBlocks(s, i)))
      /\ Len(s) \in Nat
  OBVIOUS
<1>3. TotalLen(FirstBlocks(s, m)) \in Nat
  BY FirstBlocksIs
<1>4. i # m
  BY <1>2, <1>3
<1>5. i - 1 \in 0 .. Len(s) /\ m <= i - 1 /\ i - 1 \in 0 .. Len(s) - 1 /\ (i - 1) + 1 = i /\ ~(i <= i - 1)
  BY <1>2, <1>4
<1>6. TotalLen(FirstBlocks(s, m)) <= TotalLen(FirstBlocks(s, i - 1))
  BY <1>1, <1>5
<1> HIDE DEF Bad
<1>7. /\ TotalLen(FirstBlocks(s, (i - 1) + 1)) = TotalLen(FirstBlocks(s, i - 1)) + s[(i - 1) + 1].len
      /\ TotalLen(FirstBlocks(s, i - 1)) \in Nat /\ s[(i - 1) + 1].len \in Nat
  BY <1>5, TotalLenPrefix DEF FirstBlocks
<1>8. QED
  BY <1>2, <1>3, <1>5, <1>6, <1>7

\* n is how many blocks of s fit.
Fits(s, n) ==
    /\ n \in 0 .. Len(s)
    /\ TotalLen(FirstBlocks(s, n)) <= CacheCapacity
    /\ n < Len(s) => TotalLen(FirstBlocks(s, n + 1)) > CacheCapacity

\* That many are what LruCache keeps: there is only one such number.
LEMMA FittingIs ==
    ASSUME NEW s \in Seq(CachedBlocks), NEW n, Fits(s, n)
    PROVE  Lru!Fitting(s) = FirstBlocks(s, n)
<1> DEFINE P(m) == /\ TotalLen(FirstBlocks(s, m)) <= CacheCapacity
                   /\ m < Len(s) => TotalLen(FirstBlocks(s, m + 1)) > CacheCapacity
           c == CHOOSE m \in 0 .. Len(s) : P(m)
<1>1. n \in 0 .. Len(s) /\ P(n)
  BY DEF Fits
<1>2. c \in 0 .. Len(s) /\ P(c)
  BY <1>1
<1>3. Len(s) \in Nat /\ CacheCapacity \in Nat
  BY BoundsAssumption
<1>4. Lru!Fitting(s) = FirstBlocks(s, c)
  BY DEF Lru!Fitting, FirstBlocks, TotalLen
<1> HIDE DEF c
<1>5. ASSUME NEW u \in 0 .. Len(s), NEW v \in 0 .. Len(s), P(u), P(v) PROVE ~(u < v)
  <2>1. SUFFICES ASSUME u < v PROVE FALSE
    OBVIOUS
  <2>2. u < Len(s) /\ u + 1 \in 0 .. Len(s) /\ u + 1 <= v
    BY <1>3, <2>1
  <2>3. TotalLen(FirstBlocks(s, u + 1)) <= TotalLen(FirstBlocks(s, v))
    BY <2>2, FirstBlocksGrow
  <2>4. TotalLen(FirstBlocks(s, u + 1)) \in Nat /\ TotalLen(FirstBlocks(s, v)) \in Nat
    BY <2>2, FirstBlocksIs
  <2>5. TotalLen(FirstBlocks(s, v)) <= CacheCapacity /\ TotalLen(FirstBlocks(s, u + 1)) > CacheCapacity
    BY <1>5, <2>2
  <2> HIDE DEF P
  <2>6. QED
    BY <1>3, <2>3, <2>4, <2>5
<1> HIDE DEF P
<1>6. c = n
  <2>1. ~(c < n) /\ ~(n < c)
    BY <1>1, <1>2, <1>5
  <2>2. QED
    BY <1>1, <1>2, <1>3, <2>1
<1>7. QED
  BY <1>4, <1>6

\* The cache holds the first n blocks of s, and nothing that fits has been evicted.
HoldsFirst(c, s, n) ==
    /\ n \in 0 .. Len(s)
    /\ Listed(c, FirstBlocks(s, n))
    /\ c.size = TotalLen(FirstBlocks(s, n))
    /\ n < Len(s) => TotalLen(FirstBlocks(s, n + 1)) > CacheCapacity

\* One round of the eviction.
LEMMA EvictsOne ==
    ASSUME NEW s \in Seq(CachedBlocks), NEW c, NEW n, HoldsFirst(c, s, n),
           NEW d, d = EvictStep(c, CacheCapacity)
    PROVE  /\ c.size <= CacheCapacity => d = c
           /\ ~(c.size <= CacheCapacity) => n # 0 /\ HoldsFirst(d, s, n - 1)
<1> DEFINE u == FirstBlocks(s, n)
<1>1. /\ n \in 0 .. Len(s) /\ Listed(c, u) /\ c.size = TotalLen(u) /\ Len(s) \in Nat
      /\ (n < Len(s) => TotalLen(FirstBlocks(s, n + 1)) > CacheCapacity)
  BY DEF HoldsFirst
<1>2. u \in Seq(CachedBlocks) /\ Len(u) = n /\ c.size \in Nat /\ CacheCapacity \in Nat
      /\ \A i \in 1 .. n : u[i] = s[i]
  BY <1>1, FirstBlocksIs, BoundsAssumption
<1>3. ASSUME c.size <= CacheCapacity PROVE d = c
  <2>1. ~(c.size > CacheCapacity)
    BY <1>2, <1>3
  <2>2. QED
    BY <2>1 DEF EvictStep
<1>4. ASSUME ~(c.size <= CacheCapacity) PROVE n # 0 /\ HoldsFirst(d, s, n - 1)
  <2>1. n # 0
    <3>1. SUFFICES ASSUME n = 0 PROVE FALSE
      OBVIOUS
    <3>2. u = <<>>
      BY <1>2, <3>1
    <3>3. c.size = 0
      BY <1>1, <3>2, TotalLenEmpty, Zenon
    <3>4. QED
      BY <1>2, <1>4, <3>3
  <2>2. n \in 1 .. Len(s) /\ n - 1 \in 0 .. Len(s) /\ n - 1 \in 0 .. Len(s) - 1 /\ (n - 1) + 1 = n
        /\ n \in 1 .. n /\ n \in 1 .. Len(u)
    BY <1>1, <1>2, <2>1
  <2> DEFINE e == s[n]
             a == FirstBlocks(s, n - 1)
             b == <<>>
  <2>3. e \in CachedBlocks /\ a \in Seq(CachedBlocks) /\ Len(a) = n - 1 /\ b \in Seq(CachedBlocks)
    BY <2>2, FirstBlocksIs
  <2>4. u = Append(a, e)
    BY <1>1, <2>2 DEF FirstBlocks
  <2> HIDE DEF a, e, u
  <2>5. (a \o <<e>>) \o b = u /\ a \o b = a
    BY <2>3, <2>4
  <2>6. c.tail = e.block /\ c.tail # Nil
    <3> DEFINE o == KeysOf(u)
               m == Len(u)
    <3>1. c.tail = KeyIn(o, m, m)
      BY <1>1 DEF Listed, Chain
    <3>2. m \in 1 .. m /\ o[m] = u[m].block /\ u[m].block \in CacheKeys
      BY <1>2, <2>2, KeysOfIs
    <3>3. u[m] = e
      BY <1>2, <2>2 DEF e
    <3>4. QED
      BY <3>1, <3>2, <3>3, NilIsNoKey DEF KeyIn
  <2>7. d = Discard(c, e.block)
    BY <1>2, <1>4, <2>6 DEF EvictStep
  <2>8. Listed(d, a) /\ d.size = c.size - e.len
    <3> HIDE DEF b
    <3>1. Listed(c, (a \o <<e>>) \o b)
      BY <1>1, <2>5
    <3>2. Listed(Discard(c, e.block), a \o b) /\ Discard(c, e.block).size = c.size - e.len
      BY <2>3, <3>1, ListedDiscard
    <3>3. QED
      BY <2>5, <2>7, <3>2
  <2>9. /\ TotalLen(u) = TotalLen(a) + e.len /\ TotalLen(a) \in Nat /\ e.len \in Nat
    <3>1. TotalLen(Append(a, e)) = TotalLen(a) + e.len /\ TotalLen(a) \in Nat /\ e.len \in Nat
      BY <2>3, TotalLenAppend, TotalLenNat, BlockFields
    <3>2. QED
      BY <2>4, <3>1
  <2>10. d.size = TotalLen(a)
    BY <1>1, <1>2, <2>8, <2>9
  <2>11. TotalLen(FirstBlocks(s, (n - 1) + 1)) > CacheCapacity
    <3>1. TotalLen(u) > CacheCapacity
      BY <1>1, <1>2, <1>4
    <3>2. QED
      BY <2>2, <3>1 DEF u
  <2>12. QED
    BY <2>1, <2>2, <2>8, <2>10, <2>11 DEF HoldsFirst, a
<1>5. QED
  BY <1>3, <1>4

\* Making room: the blocks that fit are left.
LEMMA EvictTailsIs ==
    ASSUME NEW c, NEW s, Listed(c, s), c.size = TotalLen(s)
    PROVE  \E n : /\ Fits(s, n) /\ Listed(EvictTails(c, CacheCapacity), FirstBlocks(s, n))
                  /\ EvictTails(c, CacheCapacity).size = TotalLen(FirstBlocks(s, n))
<1> DEFINE m == Len(s)
           ts == Evicting!Times(Cardinality(c.items), CacheCapacity)
           Good(d, i) == \E n : HoldsFirst(d, s, n) /\ (n <= m - i \/ d.size <= CacheCapacity)
           f == [i \in 0 .. m |-> {d \in CacheRecords : Good(d, i)}]
<1>1. s \in Seq(CachedBlocks) /\ m \in Nat /\ Cardinality(c.items) = m /\ c \in CacheRecords
      /\ CacheCapacity \in Nat
  BY ListedFinite, BoundsAssumption DEF Listed
<1>2. Len(ts) = m /\ \A i \in 1 .. m : ts[i] = CacheCapacity
  <2>1. ts = [i \in 1 .. m |-> CacheCapacity]
    BY <1>1 DEF Evicting!Times
  <2>2. QED
    BY <1>1, <2>1
<1>3. \A i \in 0 .. m : \A d : d \in f[i] <=> d \in CacheRecords /\ Good(d, i)
  BY <1>1
<1> HIDE DEF f, ts, m
<1>4. c \in f[0]
  <2>1. m \in 0 .. m /\ 0 \in 0 .. m /\ m <= m - 0 /\ ~(m < m)
    BY <1>1
  <2>2. FirstBlocks(s, m) = s
    BY <1>1 DEF FirstBlocks, m
  <2>3. HoldsFirst(c, s, m)
    BY <2>1, <2>2 DEF HoldsFirst, m
  <2>4. Good(c, 0)
    BY <2>1, <2>3
  <2> HIDE DEF Good
  <2>5. QED
    BY <1>1, <1>3, <2>1, <2>4
<1>5. ASSUME NEW i \in 1 .. m, NEW d \in f[i - 1] PROVE EvictStep(d, ts[i]) \in f[i]
  <2> DEFINE g == EvictStep(d, CacheCapacity)
  <2>1. i - 1 \in 0 .. m /\ i \in 0 .. m
    BY <1>1
  <2>2. d \in CacheRecords /\ Good(d, i - 1)
    BY <1>3, <2>1
  <2>3. PICK n : HoldsFirst(d, s, n) /\ (n <= m - (i - 1) \/ d.size <= CacheCapacity)
    BY <2>2
  <2>4. n \in 0 .. m
    BY <2>3 DEF HoldsFirst, m
  <2>5. /\ d.size <= CacheCapacity => g = d
        /\ ~(d.size <= CacheCapacity) => n # 0 /\ HoldsFirst(g, s, n - 1)
    BY <1>1, <2>3, EvictsOne
  <2> HIDE DEF g
  <2>6. CASE d.size <= CacheCapacity
    <3>1. g = d /\ Good(g, i)
      BY <2>3, <2>5, <2>6
    <3> HIDE DEF Good
    <3>2. QED
      BY <1>2, <1>3, <2>1, <2>2, <3>1 DEF g
  <2>7. CASE ~(d.size <= CacheCapacity)
    <3>1. HoldsFirst(g, s, n - 1) /\ n - 1 <= m - i
      BY <1>1, <2>3, <2>4, <2>5, <2>7
    <3>2. Good(g, i) /\ g \in CacheRecords
      BY <3>1 DEF HoldsFirst, Listed
    <3> HIDE DEF Good
    <3>3. QED
      BY <1>2, <1>3, <2>1, <3>2 DEF g
  <2>8. QED
    BY <2>6, <2>7
<1> DEFINE r == Evicting!Loop(c, ts)
<1>6. r \in f[Len(ts)]
  <2>1. Len(ts) \in Nat /\ \A i \in 1 .. Len(ts) : \A a \in f[i - 1] : EvictStep(a, ts[i]) \in f[i]
    BY <1>1, <1>2, <1>5
  <2>2. QED
    BY <1>4, <2>1, Evicting!LoopInvariant
<1>7. r = EvictTails(c, CacheCapacity)
  BY DEF EvictTails, ts
<1> HIDE DEF r
<1>8. Good(r, m)
  <2> HIDE DEF Good
  <2>1. m \in 0 .. m
    BY <1>1
  <2>2. QED
    BY <1>2, <1>3, <1>6, <2>1
<1>9. PICK n : HoldsFirst(r, s, n) /\ (n <= m - m \/ r.size <= CacheCapacity)
  BY <1>8
<1>10. /\ n \in 0 .. m /\ Listed(r, FirstBlocks(s, n)) /\ r.size = TotalLen(FirstBlocks(s, n))
       /\ n < m => TotalLen(FirstBlocks(s, n + 1)) > CacheCapacity
  BY <1>9 DEF HoldsFirst, m
<1>11. TotalLen(FirstBlocks(s, n)) <= CacheCapacity
  <2>1. CASE r.size <= CacheCapacity
    BY <1>10, <2>1
  <2>2. CASE n <= m - m
    <3>1. n = 0
      BY <1>1, <1>10, <2>2
    <3>2. FirstBlocks(s, n) = <<>>
      BY <3>1 DEF FirstBlocks
    <3>3. TotalLen(FirstBlocks(s, n)) = 0
      BY <3>2, TotalLenEmpty, Zenon
    <3>4. QED
      BY <1>1, <3>3
  <2>3. QED
    BY <1>9, <2>1, <2>2
<1>12. Fits(s, n)
  BY <1>10, <1>11 DEF Fits, m
<1>13. QED
  BY <1>7, <1>10, <1>12

-----------------------------------------------------------------------------
(* Evicting the blocks of a file *)

\* The blocks of s whose keys are in S, in their order.
Picks(s, S) == [i \in DOMAIN s |-> IF s[i].block \in S THEN <<s[i]>> ELSE <<>>]
Kept(s, S) == Lru!Cat!Loop(<<>>, Picks(s, S))

\* Sequences of blocks, put together.
LEMMA CatIs ==
    ASSUME NEW z \in Seq(CachedBlocks), NEW y \in Seq(Seq(CachedBlocks))
    PROVE  /\ Lru!Cat!Loop(z, y) \in Seq(CachedBlocks)
<1> DEFINE T == Seq(CachedBlocks)
           f == [i \in 0 .. Len(y) |-> T]
<1>1. /\ Len(y) \in Nat /\ z \in f[0] /\ f[Len(y)] = T
      /\ \A i \in 1 .. Len(y) : f[i - 1] = T /\ f[i] = T /\ y[i] \in T
  OBVIOUS
<1>2. \A a, b \in T : a \o b \in T
  OBVIOUS
<1> HIDE DEF f, T
<1>3. \A i \in 1 .. Len(y) : \A a \in f[i - 1] : a \o y[i] \in f[i]
  BY <1>1, <1>2
<1>4. Lru!Cat!Loop(z, y) \in f[Len(y)]
  BY <1>1, <1>3, Lru!Cat!LoopInvariant
<1>5. QED
  BY <1>1, <1>4 DEF T

\* A loop of concatenations puts what it adds behind what it began with.
LEMMA CatFrom ==
    ASSUME NEW z \in Seq(CachedBlocks), NEW y \in Seq(Seq(CachedBlocks))
    PROVE  Lru!Cat!Loop(z, y) = z \o Lru!Cat!Loop(<<>>, y)
<1> DEFINE T == Seq(CachedBlocks)
           C(x) == Lru!Cat!Loop(<<>>, x)
           f == [i \in 0 .. Len(y) |-> {z \o C(SubSeq(y, 1, i))}]
<1>1. Len(y) \in Nat /\ 0 \in 0 .. Len(y) /\ Len(y) \in 0 .. Len(y) /\ <<>> \in T
  OBVIOUS
<1>2. \A i \in 0 .. Len(y) : f[i] = {z \o C(SubSeq(y, 1, i))}
  OBVIOUS
<1> HIDE DEF f
<1>3. SubSeq(y, 1, 0) = <<>> /\ SubSeq(y, 1, Len(y)) = y /\ (z \o <<>>) = z
  OBVIOUS
<1>4. z \in f[0]
  <2>1. C(<<>>) = <<>>
    BY Lru!Cat!LoopEmpty
  <2>2. z \o C(SubSeq(y, 1, 0)) = z
    BY <1>3, <2>1, Zenon
  <2> HIDE DEF C
  <2>3. QED
    BY <1>1, <1>2, <2>2
<1>5. ASSUME NEW i \in 1 .. Len(y), NEW a \in f[i - 1] PROVE a \o y[i] \in f[i]
  <2> DEFINE u == SubSeq(y, 1, i - 1)
             v == SubSeq(y, 1, i)
             e == y[i]
  <2>1. i - 1 \in 0 .. Len(y) /\ i \in 0 .. Len(y) /\ e \in T
    OBVIOUS
  <2>2. u \in Seq(T) /\ v = Append(u, e)
    BY <2>1
  <2> HIDE DEF u, v, e, T
  <2>3. C(v) = C(u) \o e
    BY <2>1, <2>2, Lru!Cat!LoopAppend
  <2>4. C(u) \in T
    BY <1>1, <2>2, CatIs DEF T
  <2> HIDE DEF C
  <2>5. z \o C(v) = (z \o C(u)) \o e
    <3> DEFINE w == C(u)
    <3>1. w \in Seq(CachedBlocks) /\ e \in Seq(CachedBlocks)
      BY <2>1, <2>4 DEF T
    <3> HIDE DEF w
    <3>2. (z \o w) \o e = z \o (w \o e)
      BY <3>1
    <3>3. QED
      BY <2>3, <3>2 DEF w
  <2>6. a = z \o C(u) /\ f[i] = {z \o C(v)}
    BY <1>2, <2>1 DEF u, v
  <2>7. QED
    BY <2>5, <2>6 DEF e
<1>6. Lru!Cat!Loop(z, y) \in f[Len(y)]
  BY <1>1, <1>4, <1>5, Lru!Cat!LoopInvariant
<1>7. f[Len(y)] = {z \o C(y)}
  BY <1>1, <1>2, <1>3
<1>8. QED
  BY <1>6, <1>7

\* What is picked is a sequence of sequences, and of a sequence in two parts it is
\* picked from both.
LEMMA PicksIs ==
    ASSUME NEW s \in Seq(CachedBlocks), NEW S
    PROVE  /\ Picks(s, S) \in Seq(Seq(CachedBlocks)) /\ Len(Picks(s, S)) = Len(s)
           /\ \A i \in 1 .. Len(s) : Picks(s, S)[i] = IF s[i].block \in S THEN <<s[i]>> ELSE <<>>
<1> DEFINE p(i) == IF s[i].block \in S THEN <<s[i]>> ELSE <<>>
           T == Seq(CachedBlocks)
<1>1. Len(s) \in Nat /\ DOMAIN s = 1 .. Len(s)
  OBVIOUS
<1>2. ASSUME NEW i \in 1 .. Len(s) PROVE p(i) \in T
  <2>1. s[i] \in CachedBlocks
    OBVIOUS
  <2>2. <<s[i]>> \in T /\ <<>> \in T
    BY <2>1
  <2>3. QED
    BY <2>2
<1>3. Picks(s, S) = [i \in 1 .. Len(s) |-> p(i)]
  BY <1>1 DEF Picks
<1>4. \A i \in 1 .. Len(s) : Picks(s, S)[i] = p(i)
  BY <1>3
<1> HIDE DEF p, T
<1>5. Picks(s, S) \in [1 .. Len(s) -> T]
  BY <1>2, <1>3
<1>6. Picks(s, S) \in Seq(T) /\ Len(Picks(s, S)) = Len(s)
  BY <1>1, <1>5
<1>7. QED
  BY <1>4, <1>6 DEF p, T

\* What is kept are blocks.
LEMMA KeptSeq ==
    ASSUME NEW s \in Seq(CachedBlocks), NEW S PROVE Kept(s, S) \in Seq(CachedBlocks)
<1> DEFINE p == Picks(s, S)
           z == <<>>
<1>1. p \in Seq(Seq(CachedBlocks)) /\ z \in Seq(CachedBlocks)
  BY PicksIs
<1> HIDE DEF p, z
<1>2. Lru!Cat!Loop(z, p) \in Seq(CachedBlocks)
  BY <1>1, CatIs
<1>3. QED
  BY <1>2 DEF Kept, p, z

\* What is kept of two sequences is kept of each.
LEMMA KeptConcat ==
    ASSUME NEW a \in Seq(CachedBlocks), NEW b \in Seq(CachedBlocks), NEW S
    PROVE  Kept(a \o b, S) = Kept(a, S) \o Kept(b, S)
<1> DEFINE s == a \o b
           T == Seq(CachedBlocks)
           pa == Picks(a, S)
           pb == Picks(b, S)
           ps == Picks(s, S)
           z == <<>>
<1>1. /\ s \in T /\ Len(s) = Len(a) + Len(b) /\ Len(a) \in Nat /\ Len(b) \in Nat
      /\ \A i \in 1 .. Len(a) + Len(b) : s[i] = IF i <= Len(a) THEN a[i] ELSE b[i - Len(a)]
  BY ConcatProperties
<1> HIDE DEF s
<1>2. /\ pa \in Seq(T) /\ Len(pa) = Len(a)
      /\ \A i \in 1 .. Len(a) : pa[i] = IF a[i].block \in S THEN <<a[i]>> ELSE <<>>
  BY PicksIs
<1>3. /\ pb \in Seq(T) /\ Len(pb) = Len(b)
      /\ \A i \in 1 .. Len(b) : pb[i] = IF b[i].block \in S THEN <<b[i]>> ELSE <<>>
  BY PicksIs
<1>4. /\ ps \in Seq(T) /\ Len(ps) = Len(s)
      /\ \A i \in 1 .. Len(s) : ps[i] = IF s[i].block \in S THEN <<s[i]>> ELSE <<>>
  <2>1. s \in Seq(CachedBlocks)
    BY <1>1
  <2>2. QED
    BY <2>1, PicksIs
<1> HIDE DEF pa, pb, ps, T
<1> DEFINE q == pa \o pb
<1>5. /\ q \in Seq(T) /\ Len(q) = Len(pa) + Len(pb)
      /\ \A i \in 1 .. Len(pa) + Len(pb) : q[i] = IF i <= Len(pa) THEN pa[i] ELSE pb[i - Len(pa)]
  <2>1. pa \in Seq(T) /\ pb \in Seq(T)
    BY <1>2, <1>3
  <2>2. QED
    BY <2>1, ConcatProperties
<1> HIDE DEF q
<1>6. ps = q
  <2>1. ASSUME NEW i \in 1 .. Len(ps) PROVE ps[i] = q[i]
    <3>1. i \in 1 .. Len(a) + Len(b) /\ i \in 1 .. Len(s) /\ i \in 1 .. Len(pa) + Len(pb)
      BY <1>1, <1>2, <1>3, <1>4
    <3>2. CASE i <= Len(a)
      <4>1. i \in 1 .. Len(a) /\ i <= Len(pa)
        BY <1>1, <1>2, <3>1, <3>2
      <4>2. s[i] = a[i] /\ q[i] = pa[i]
        BY <1>1, <1>5, <3>1, <3>2, <4>1
      <4>3. QED
        BY <1>2, <1>4, <3>1, <4>1, <4>2, Zenon
    <3>3. CASE ~(i <= Len(a))
      <4>1. i - Len(a) \in 1 .. Len(b) /\ ~(i <= Len(pa)) /\ i - Len(pa) = i - Len(a)
        BY <1>1, <1>2, <3>1, <3>3
      <4>2. s[i] = b[i - Len(a)] /\ q[i] = pb[i - Len(a)]
        BY <1>1, <1>5, <3>1, <3>3, <4>1
      <4>3. QED
        BY <1>3, <1>4, <3>1, <4>1, <4>2, Zenon
    <3>4. QED
      BY <3>2, <3>3
  <2>2. Len(ps) = Len(q)
    BY <1>1, <1>2, <1>3, <1>4, <1>5
  <2>3. QED
    BY <1>4, <1>5, <2>1, <2>2, SeqEqual
<1>7. z \in T
  BY DEF T
<1> HIDE DEF z
<1>8. Lru!Cat!Loop(z, pa \o pb) = Lru!Cat!Loop(Lru!Cat!Loop(z, pa), pb)
  BY <1>2, <1>3, Lru!Cat!LoopConcat
<1> DEFINE k == Lru!Cat!Loop(z, pa)
<1>9. k \in T
  BY <1>2, <1>7, CatIs DEF T
<1> HIDE DEF k
<1>10. Lru!Cat!Loop(k, pb) = k \o Lru!Cat!Loop(<<>>, pb)
  BY <1>3, <1>9, CatFrom DEF T
<1>11. Lru!Cat!Loop(z, ps) = Lru!Cat!Loop(k, pb)
  BY <1>6, <1>8 DEF q, k
<1>12. QED
  BY <1>10, <1>11 DEF Kept, pa, pb, ps, s, z, k

\* One block, kept or not.
LEMMA KeptOne ==
    ASSUME NEW e \in CachedBlocks, NEW S
    PROVE  Kept(<<e>>, S) = IF e.block \in S THEN <<e>> ELSE <<>>
<1> DEFINE s == <<e>>
           p == Picks(s, S)
           x == IF e.block \in S THEN <<e>> ELSE <<>>
           T == Seq(CachedBlocks)
           z == <<>>
<1>1. s \in T /\ Len(s) = 1 /\ s[1] = e
  OBVIOUS
<1> HIDE DEF s
<1>2. p \in Seq(T) /\ Len(p) = 1 /\ p[1] = x
  <2>1. 1 \in 1 .. Len(s)
    BY <1>1
  <2>2. /\ p \in Seq(T) /\ Len(p) = Len(s)
        /\ \A i \in 1 .. Len(s) : p[i] = IF s[i].block \in S THEN <<s[i]>> ELSE <<>>
    BY <1>1, PicksIs
  <2>3. p[1] = x
    BY <1>1, <2>1, <2>2, Zenon
  <2>4. QED
    BY <1>1, <2>2, <2>3
<1> HIDE DEF p, x, T
<1>3. x \in T
  <2>1. 1 \in 1 .. Len(p)
    BY <1>2
  <2>2. QED
    BY <1>2, <2>1
<1>4. z \in Seq(T) /\ p = Append(z, x)
  BY <1>2, <1>3
<1> HIDE DEF z
<1>5. Lru!Cat!Loop(<<>>, Append(z, x)) = Lru!Cat!Loop(<<>>, z) \o x
  BY <1>3, <1>4, Lru!Cat!LoopAppend
<1>6. Lru!Cat!Loop(<<>>, z) = <<>>
  BY Lru!Cat!LoopEmpty DEF z
<1>7. <<>> \o x = x
  BY <1>3, ConcatEmptySeq DEF T
<1>8. Lru!Cat!Loop(<<>>, p) = x
  BY <1>4, <1>5, <1>6, <1>7, Zenon
<1>9. QED
  BY <1>8 DEF Kept, p, s, x

\* Only the keys of the blocks matter.
LEMMA KeptSame ==
    ASSUME NEW s, NEW S, NEW T, \A i \in DOMAIN s : s[i].block \in S <=> s[i].block \in T
    PROVE  Kept(s, S) = Kept(s, T)
<1>1. ASSUME NEW i \in DOMAIN s
      PROVE  (IF s[i].block \in S THEN <<s[i]>> ELSE <<>>) = (IF s[i].block \in T THEN <<s[i]>> ELSE <<>>)
  OBVIOUS
<1>2. Picks(s, S) = Picks(s, T)
  BY <1>1 DEF Picks
<1>3. QED
  BY <1>2 DEF Kept

\* All of them.
LEMMA KeptAll ==
    ASSUME NEW s \in Seq(CachedBlocks), NEW S, \A i \in 1 .. Len(s) : s[i].block \in S
    PROVE  Kept(s, S) = s
<1> DEFINE p == Picks(s, S)
           f == [i \in 0 .. Len(s) |-> {SubSeq(s, 1, i)}]
<1>1. Len(p) = Len(s) /\ \A i \in 1 .. Len(s) : p[i] = <<s[i]>>
  BY PicksIs
<1>2. Len(s) \in Nat /\ Len(s) \in 0 .. Len(s) /\ 0 \in 0 .. Len(s)
      /\ SubSeq(s, 1, 0) = <<>> /\ SubSeq(s, 1, Len(s)) = s
  OBVIOUS
<1>3. \A i \in 0 .. Len(s) : f[i] = {SubSeq(s, 1, i)}
  OBVIOUS
<1> HIDE DEF f, p
<1>4. <<>> \in f[0]
  BY <1>2, <1>3
<1>5. ASSUME NEW i \in 1 .. Len(s), NEW a \in f[i - 1] PROVE a \o p[i] \in f[i]
  <2>1. i - 1 \in 0 .. Len(s) /\ i \in 0 .. Len(s)
    OBVIOUS
  <2>2. a = SubSeq(s, 1, i - 1) /\ f[i] = {SubSeq(s, 1, i)} /\ p[i] = <<s[i]>>
    BY <1>1, <1>3, <2>1
  <2>3. SubSeq(s, 1, i) = SubSeq(s, 1, i - 1) \o <<s[i]>>
    OBVIOUS
  <2>4. QED
    BY <2>2, <2>3
<1> DEFINE z == <<>>
<1>6. Len(p) \in Nat /\ z \in f[0] /\ \A i \in 1 .. Len(p) : \A a \in f[i - 1] : a \o p[i] \in f[i]
  BY <1>1, <1>2, <1>4, <1>5
<1> HIDE DEF z
<1>7. Lru!Cat!Loop(z, p) \in f[Len(p)]
  BY <1>6, Lru!Cat!LoopInvariant
<1>8. f[Len(p)] = {s}
  BY <1>1, <1>2, <1>3
<1>9. QED
  BY <1>7, <1>8 DEF Kept, p, z

\* The place of a block in a sequence of blocks.
LEMMA SplitAt ==
    ASSUME NEW s \in Seq(CachedBlocks), NEW j \in 1 .. Len(s)
    PROVE  LET a == SubSeq(s, 1, j - 1)
               b == SubSeq(s, j + 1, Len(s))
           IN  /\ a \in Seq(CachedBlocks) /\ b \in Seq(CachedBlocks) /\ s[j] \in CachedBlocks
               /\ s = (a \o <<s[j]>>) \o b
               /\ \A i \in 1 .. Len(a) : i \in 1 .. Len(s) /\ i # j /\ a[i] = s[i]
               /\ \A i \in 1 .. Len(b) : i + j \in 1 .. Len(s) /\ i + j # j /\ b[i] = s[i + j]
<1> DEFINE a == SubSeq(s, 1, j - 1)
           b == SubSeq(s, j + 1, Len(s))
           x == <<s[j]>>
           n == Len(s)
<1>1. n \in Nat /\ j \in 1 .. n /\ s[j] \in CachedBlocks
  OBVIOUS
<1>2. /\ a \in Seq(CachedBlocks) /\ Len(a) = j - 1
      /\ \A i \in 1 .. j - 1 : a[i] = s[i]
  BY <1>1
<1>3. b \in Seq(CachedBlocks) /\ Len(b) = n - j /\ \A i \in 1 .. n - j : b[i] = s[i + j]
  <2>1. \A i \in j + 1 .. n : s[i] \in CachedBlocks
    BY <1>1
  <2>2. /\ b \in Seq(CachedBlocks) /\ Len(b) = (IF j + 1 <= n THEN n - (j + 1) + 1 ELSE 0)
        /\ \A i \in 1 .. n - (j + 1) + 1 : b[i] = s[(j + 1) + i - 1]
    BY <1>1, <2>1, SubSeqProperties
  <2>3. Len(b) = n - j
    BY <1>1, <2>2
  <2>4. ASSUME NEW i \in 1 .. n - j PROVE b[i] = s[i + j]
    <3>1. i \in 1 .. n - (j + 1) + 1 /\ (j + 1) + i - 1 = i + j
      BY <1>1
    <3> HIDE DEF b
    <3>2. QED
      BY <2>2, <3>1
  <2>5. QED
    BY <2>2, <2>3, <2>4
<1>4. x \in Seq(CachedBlocks) /\ Len(x) = 1 /\ x[1] = s[j]
  BY <1>1
<1> HIDE DEF a, b, x, n
<1> DEFINE v == a \o x
           t == v \o b
<1>5. /\ v \in Seq(CachedBlocks) /\ Len(v) = Len(a) + Len(x)
      /\ \A i \in 1 .. Len(a) + Len(x) : v[i] = IF i <= Len(a) THEN a[i] ELSE x[i - Len(a)]
  BY <1>2, <1>4, ConcatProperties
<1> HIDE DEF v
<1>6. /\ t \in Seq(CachedBlocks) /\ Len(t) = Len(v) + Len(b)
      /\ \A i \in 1 .. Len(v) + Len(b) : t[i] = IF i <= Len(v) THEN v[i] ELSE b[i - Len(v)]
  <2>1. v \in Seq(CachedBlocks) /\ b \in Seq(CachedBlocks)
    BY <1>3, <1>5
  <2>2. QED
    BY <2>1, ConcatProperties
<1> HIDE DEF t
<1>7. Len(v) = j /\ Len(t) = n
  BY <1>1, <1>2, <1>3, <1>4, <1>5, <1>6
<1>8. ASSUME NEW i \in 1 .. n PROVE t[i] = s[i]
  <2>1. i \in 1 .. Len(v) + Len(b)
    BY <1>6, <1>7
  <2>2. CASE i <= j - 1
    <3>1. i \in 1 .. Len(a) + Len(x) /\ i <= Len(a) /\ i <= Len(v) /\ i \in 1 .. j - 1
      BY <1>1, <1>2, <1>4, <1>7, <2>2
    <3>2. t[i] = v[i] /\ v[i] = a[i] /\ a[i] = s[i]
      BY <1>2, <1>5, <1>6, <2>1, <3>1
    <3>3. QED
      BY <3>2
  <2>3. CASE i = j
    <3>1. i \in 1 .. Len(a) + Len(x) /\ ~(i <= Len(a)) /\ i <= Len(v) /\ i - Len(a) = 1
      BY <1>1, <1>2, <1>4, <1>7, <2>3
    <3>2. t[i] = v[i] /\ v[i] = x[1]
      BY <1>5, <1>6, <2>1, <3>1
    <3>3. QED
      BY <1>4, <2>3, <3>2
  <2>4. CASE i > j
    <3>1. ~(i <= Len(v)) /\ i - Len(v) = i - j /\ i - j \in 1 .. n - j /\ (i - j) + j = i
      BY <1>1, <1>7, <2>4
    <3>2. t[i] = b[i - j] /\ b[i - j] = s[(i - j) + j]
      BY <1>3, <1>6, <2>1, <3>1
    <3>3. QED
      BY <3>1, <3>2
  <2>5. QED
    BY <1>1, <2>2, <2>3, <2>4
<1>9. s = t
  BY <1>6, <1>7, <1>8, SeqEqual DEF n
<1>10. \A i \in 1 .. Len(a) : i \in 1 .. n /\ i # j /\ a[i] = s[i]
  BY <1>1, <1>2
<1>11. \A i \in 1 .. Len(b) : i + j \in 1 .. n /\ i + j # j /\ b[i] = s[i + j]
  BY <1>1, <1>3
<1>12. QED
  BY <1>1, <1>2, <1>3, <1>9, <1>10, <1>11 DEF a, b, x, n, v, t

\* No block occurs twice.
Distinct(s) == \A x, y \in 1 .. Len(s) : s[x].block = s[y].block => x = y

\* One key less.
LEMMA KeptLess ==
    ASSUME NEW s \in Seq(CachedBlocks), Distinct(s),
           NEW S, NEW j \in 1 .. Len(s), s[j].block \in S
    PROVE  \E a, b \in Seq(CachedBlocks) : /\ Kept(s, S) = (a \o <<s[j]>>) \o b
                                           /\ Kept(s, S \ {s[j].block}) = a \o b
<1> DEFINE a == SubSeq(s, 1, j - 1)
           b == SubSeq(s, j + 1, Len(s))
           e == s[j]
           x == <<e>>
           R == S \ {e.block}
<1>1. /\ a \in Seq(CachedBlocks) /\ b \in Seq(CachedBlocks) /\ e \in CachedBlocks
      /\ s = (a \o x) \o b
      /\ \A i \in 1 .. Len(a) : i \in 1 .. Len(s) /\ i # j /\ a[i] = s[i]
      /\ \A i \in 1 .. Len(b) : i + j \in 1 .. Len(s) /\ i + j # j /\ b[i] = s[i + j]
  BY SplitAt
<1>2. /\ \A i \in 1 .. Len(a) : a[i].block # e.block
      /\ \A i \in 1 .. Len(b) : b[i].block # e.block
  BY <1>1 DEF Distinct
<1>3. DOMAIN a = 1 .. Len(a) /\ DOMAIN b = 1 .. Len(b)
  BY <1>1
<1>4. x \in Seq(CachedBlocks) /\ a \o x \in Seq(CachedBlocks)
  <2>1. a \in Seq(CachedBlocks) /\ e \in CachedBlocks
    BY <1>1
  <2> HIDE DEF a, e
  <2>2. QED
    BY <2>1
<1>5. Kept(x, S) = x /\ Kept(x, R) = <<>>
  <2>1. /\ Kept(x, S) = IF e.block \in S THEN x ELSE <<>>
        /\ Kept(x, R) = IF e.block \in R THEN x ELSE <<>>
    <3> HIDE DEF e, R
    <3>1. QED
      BY <1>1, KeptOne
  <2>2. e.block \in S /\ e.block \notin R
    OBVIOUS
  <2>3. QED
    BY <2>1, <2>2, Zenon
<1> HIDE DEF a, b, x, e
<1>6. Kept(a, R) = Kept(a, S) /\ Kept(b, R) = Kept(b, S)
  <2>1. /\ \A i \in DOMAIN a : a[i].block \in R <=> a[i].block \in S
        /\ \A i \in DOMAIN b : b[i].block \in R <=> b[i].block \in S
    BY <1>2, <1>3
  <2> HIDE DEF R
  <2>2. QED
    BY <2>1, KeptSame
<1> HIDE DEF R
<1>7. /\ Kept((a \o x) \o b, S) = Kept(a \o x, S) \o Kept(b, S)
      /\ Kept((a \o x) \o b, R) = Kept(a \o x, R) \o Kept(b, R)
      /\ Kept(a \o x, S) = Kept(a, S) \o Kept(x, S)
      /\ Kept(a \o x, R) = Kept(a, R) \o Kept(x, R)
  <2>1. a \in Seq(CachedBlocks) /\ b \in Seq(CachedBlocks)
    BY <1>1
  <2> DEFINE w == a \o x
  <2>2. w \in Seq(CachedBlocks)
    BY <1>4
  <2>3. Kept(w, S) = Kept(a, S) \o Kept(x, S) /\ Kept(w, R) = Kept(a, R) \o Kept(x, R)
    <3>1. a \in Seq(CachedBlocks) /\ x \in Seq(CachedBlocks)
      BY <1>4, <2>1
    <3>2. Kept(a \o x, S) = Kept(a, S) \o Kept(x, S)
      BY <3>1, KeptConcat, Zenon
    <3>3. Kept(a \o x, R) = Kept(a, R) \o Kept(x, R)
      BY <3>1, KeptConcat, Zenon
    <3>4. QED
      BY <3>2, <3>3
  <2> HIDE DEF w
  <2>4. Kept(w \o b, S) = Kept(w, S) \o Kept(b, S) /\ Kept(w \o b, R) = Kept(w, R) \o Kept(b, R)
    BY <2>1, <2>2, KeptConcat
  <2>5. QED
    BY <2>3, <2>4 DEF w
<1> DEFINE u == Kept(a, S)
           v == Kept(b, S)
<1>8. u \in Seq(CachedBlocks) /\ v \in Seq(CachedBlocks)
  BY <1>1, KeptSeq
<1>9. u \o <<>> = u
  <2> HIDE DEF u
  <2>1. QED
    BY <1>8, ConcatEmptySeq
<1>10. Kept(s, S) = (u \o x) \o v
  BY <1>1, <1>5, <1>7, Zenon
<1>11. Kept(s, R) = u \o v
  BY <1>1, <1>5, <1>6, <1>7, <1>9, Zenon
<1> HIDE DEF u, v
<1>12. QED
  BY <1>8, <1>10, <1>11 DEF R, x, e

\* The cache holds the blocks of s whose keys are in S.
HoldsKept(c, s, S) == Listed(c, Kept(s, S)) /\ c.size = TotalLen(Kept(s, S)) /\ c.items = S

\* One more of them is discarded.
LEMMA DiscardsOne ==
    ASSUME NEW s \in Seq(CachedBlocks), Distinct(s),
           NEW c, NEW S, HoldsKept(c, s, S), NEW k \in S, \E j \in 1 .. Len(s) : s[j].block = k
    PROVE  HoldsKept(Discard(c, k), s, S \ {k})
<1>1. PICK j \in 1 .. Len(s) : s[j].block = k
  OBVIOUS
<1> DEFINE e == s[j]
<1>2. PICK a \in Seq(CachedBlocks), b \in Seq(CachedBlocks) :
        Kept(s, S) = (a \o <<e>>) \o b /\ Kept(s, S \ {e.block}) = a \o b
  <2>1. s[j].block \in S
    BY <1>1
  <2>2. \E a, b \in Seq(CachedBlocks) : /\ Kept(s, S) = (a \o <<s[j]>>) \o b
                                        /\ Kept(s, S \ {s[j].block}) = a \o b
    BY <2>1, KeptLess
  <2>3. QED
    BY <2>2, Zenon
<1>3. e \in CachedBlocks /\ e.block = k
  BY <1>1
<1> HIDE DEF e
<1>4. Listed(c, (a \o <<e>>) \o b) /\ c.size = TotalLen((a \o <<e>>) \o b) /\ c.items = S
  BY <1>2 DEF HoldsKept
<1>5. /\ Listed(Discard(c, k), a \o b) /\ Discard(c, k).size = c.size - e.len
      /\ Discard(c, k).items = c.items \ {k}
  BY <1>3, <1>4, ListedDiscard
<1>6. /\ TotalLen((a \o <<e>>) \o b) = TotalLen(a \o b) + e.len
      /\ TotalLen(a \o b) \in Nat /\ e.len \in Nat
  BY <1>3, TotalLenMoved, BlockFields
<1>7. Discard(c, k).size = TotalLen(a \o b)
  BY <1>4, <1>5, <1>6
<1>8. QED
  BY <1>2, <1>3, <1>4, <1>5, <1>7 DEF HoldsKept

\* The elements of a finite set in a sequence, each once.
LEMMA SetToSeqIs ==
    ASSUME NEW X, IsFiniteSet(X)
    PROVE  LET q == SetToSeq(X)
           IN  /\ Len(q) \in Nat /\ q \in [1 .. Len(q) -> X]
               /\ \A i, j \in 1 .. Len(q) : q[i] = q[j] => i = j
               /\ \A x \in X : \E i \in 1 .. Len(q) : q[i] = x
<1> DEFINE n == Cardinality(X)
           D == 1 .. n
           q == SetToSeq(X)
<1>1. n \in Nat /\ ExistsBijection(D, X)
  BY FS_CardinalityType
<1>2. IsFiniteSet(D) /\ Cardinality(D) = n
  <2>1. n >= 1 => 1 \in Int /\ n \in Int /\ n - 1 + 1 = n
    BY <1>1
  <2>2. IsFiniteSet(1 .. n) /\ Cardinality(1 .. n) = IF 1 > n THEN 0 ELSE n - 1 + 1
    <3> HIDE DEF n
    <3>1. QED
      BY <1>1, FS_Interval
  <2>3. QED
    BY <1>1, <2>2
<1> HIDE DEF n
<1>3. \E f \in [D -> X] : IsInjective(f)
  BY <1>1 DEF ExistsBijection, Bijection, Injection
<1>4. q = CHOOSE f \in [D -> X] : IsInjective(f)
  BY DEF SetToSeq, n
<1> HIDE DEF q, D
<1>5. q \in [D -> X] /\ IsInjective(q)
  BY <1>3, <1>4, Zenon
<1>6. q \in Injection(D, X)
  BY <1>5 DEF Injection
<1>7. q \in Surjection(D, X)
  BY <1>2, <1>6, FS_Injection DEF n
<1>8. Len(q) = n
  BY <1>1, <1>5 DEF D
<1>9. /\ \A i, j \in D : q[i] = q[j] => i = j
      /\ \A x \in X : \E i \in D : q[i] = x
  BY <1>5, <1>7 DEF IsInjective, Surjection
<1>10. QED
  BY <1>1, <1>5, <1>8, <1>9 DEF D, q

\* The keys of file g.
OfFile(S, g) == {k \in S : k[1] = g}

\* Evicting a file leaves the other blocks, in their order.
LEMMA EvictIs ==
    ASSUME NEW c, NEW s, Listed(c, s), c.size = TotalLen(s), NEW g
    PROVE  HoldsKept(CacheEvict(c, g), s, c.items \ OfFile(c.items, g))
<1> DEFINE X == OfFile(c.items, g)
           q == SetToSeq(X)
           n == Len(q)
           R(i) == c.items \ {q[j] : j \in 1 .. i}
           f == [i \in 0 .. n |-> {d \in CacheRecords : HoldsKept(d, s, R(i))}]
<1>1. c \in CacheRecords /\ s \in Seq(CachedBlocks) /\ c.items \in SUBSET CacheKeys
      /\ c.items = {s[i].block : i \in 1 .. Len(s)}
  BY RecordFields DEF Listed
<1>2. IsFiniteSet(X)
  <2>1. X \in SUBSET CacheKeys
    BY <1>1 DEF OfFile
  <2> HIDE DEF X
  <2>2. QED
    BY <2>1, KeysFinite, FS_Subset
<1>3. /\ n \in Nat /\ q \in [1 .. n -> X]
      /\ \A i, j \in 1 .. n : q[i] = q[j] => i = j
      /\ \A x \in X : \E i \in 1 .. n : q[i] = x
  <2> HIDE DEF X
  <2>1. QED
    BY <1>2, SetToSeqIs
<1>4. Distinct(s)
  <2>1. Chain(c.head, c.tail, c.prev, c.next, KeysOf(s), Len(s))
    BY DEF Listed
  <2>2. \A i, j \in 1 .. Len(s) : KeysOf(s)[i] = KeysOf(s)[j] => i = j
    BY <2>1 DEF Chain
  <2>3. \A i \in 1 .. Len(s) : KeysOf(s)[i] = s[i].block
    BY <1>1 DEF KeysOf
  <2>4. QED
    BY <2>2, <2>3 DEF Distinct
<1>5. CacheEvict(c, g) = Discarding!Loop(c, q)
  BY DEF CacheEvict, OfFile
<1>6. X \subseteq c.items
  BY DEF OfFile
<1> HIDE DEF X, q, n
<1>7. R(0) = c.items /\ R(n) = c.items \ X
  <2>1. R(0) = c.items
    OBVIOUS
  <2>2. {q[j] : j \in 1 .. n} = X
    BY <1>3
  <2>3. QED
    BY <2>1, <2>2
<1>8. ASSUME NEW i \in 1 .. n
      PROVE  q[i] \in R(i - 1) /\ R(i) = R(i - 1) \ {q[i]} /\ q[i] \in c.items
  <2>1. \A j \in 1 .. i - 1 : j \in 1 .. n /\ j # i
    BY <1>3
  <2>2. q[i] \in c.items /\ q[i] \notin {q[j] : j \in 1 .. i - 1}
    BY <1>3, <1>6, <2>1
  <2>3. \A j : j \in 1 .. i <=> j = i \/ j \in 1 .. i - 1
    BY <1>3
  <2>4. QED
    BY <2>2, <2>3
<1>9. \A i \in 0 .. n : \A d : d \in f[i] <=> d \in CacheRecords /\ HoldsKept(d, s, R(i))
  BY <1>3
<1> HIDE DEF f, R
<1>10. c \in f[0]
  <2>1. Kept(s, c.items) = s
    <3>1. \A i \in 1 .. Len(s) : s[i].block \in c.items
      BY <1>1
    <3>2. QED
      BY <1>1, <3>1, KeptAll
  <2>2. HoldsKept(c, s, c.items)
    BY <2>1 DEF HoldsKept
  <2>3. 0 \in 0 .. n
    BY <1>3
  <2>4. QED
    BY <1>1, <1>7, <1>9, <2>2, <2>3
<1>11. ASSUME NEW i \in 1 .. n, NEW d \in f[i - 1] PROVE Discard(d, q[i]) \in f[i]
  <2>1. i - 1 \in 0 .. n /\ i \in 0 .. n
    BY <1>3
  <2>2. HoldsKept(d, s, R(i - 1))
    BY <1>9, <2>1
  <2>3. q[i] \in R(i - 1) /\ R(i) = R(i - 1) \ {q[i]} /\ q[i] \in c.items
    BY <1>8
  <2>4. \E j \in 1 .. Len(s) : s[j].block = q[i]
    BY <1>1, <2>3
  <2>5. HoldsKept(Discard(d, q[i]), s, R(i))
    <3> DEFINE S == R(i - 1)
               k == q[i]
    <3>1. HoldsKept(d, s, S) /\ k \in S /\ \E j \in 1 .. Len(s) : s[j].block = k
      BY <2>2, <2>3, <2>4
    <3> HIDE DEF S, k
    <3>2. HoldsKept(Discard(d, k), s, S \ {k})
      BY <1>1, <1>4, <3>1, DiscardsOne
    <3>3. QED
      BY <2>3, <3>2 DEF S, k
  <2>6. Discard(d, q[i]) \in CacheRecords
    BY <2>5 DEF HoldsKept, Listed
  <2>7. QED
    BY <1>9, <2>1, <2>5, <2>6
<1>12. Discarding!Loop(c, q) \in f[n]
  <2>1. Len(q) \in Nat /\ \A i \in 1 .. Len(q) : \A a \in f[i - 1] : Discard(a, q[i]) \in f[i]
    BY <1>3, <1>11 DEF n
  <2>2. QED
    BY <1>10, <2>1, Discarding!LoopInvariant DEF n
<1>13. n \in 0 .. n
  BY <1>3
<1>14. HoldsKept(Discarding!Loop(c, q), s, R(n))
  BY <1>9, <1>12, <1>13
<1>15. QED
  BY <1>5, <1>7, <1>14 DEF X

\* What is kept is what the abstract cache keeps.
LEMMA KeptWithout ==
    ASSUME NEW c, NEW s, Listed(c, s), NEW g
    PROVE  Kept(s, c.items \ OfFile(c.items, g)) = Lru!Without(s, g)
<1> DEFINE S == c.items \ OfFile(c.items, g)
<1>1. s \in Seq(CachedBlocks) /\ c.items = {s[i].block : i \in 1 .. Len(s)} /\ DOMAIN s = 1 .. Len(s)
  BY DEF Listed
<1>2. ASSUME NEW i \in DOMAIN s
      PROVE  s[i].block \in S <=> s[i].block[1] # g
  BY <1>1 DEF OfFile
<1>3. [i \in DOMAIN s |-> IF s[i].block \in S THEN <<s[i]>> ELSE <<>>]
        = [i \in DOMAIN s |-> IF s[i].block[1] = g THEN <<>> ELSE <<s[i]>>]
  <2> HIDE DEF S
  <2>1. ASSUME NEW i \in DOMAIN s
        PROVE  (IF s[i].block \in S THEN <<s[i]>> ELSE <<>>) = (IF s[i].block[1] = g THEN <<>> ELSE <<s[i]>>)
    BY <1>2
  <2>2. QED
    BY <2>1, Zenon
<1>4. QED
  BY <1>3 DEF Kept, Picks, Lru!Without

\* The cache holds the blocks s, and its size is what they take.
Caches(c, s) == Listed(c, s) /\ c.size = TotalLen(s)

\* The block at i comes to the front.
Touched(s, i) == <<s[i]>> \o RemoveAt(s, i)

\* The steps of the abstract cache, from blocks s to blocks t.
Lists(s, t) ==
    \/ \E i \in DOMAIN s : t = Touched(s, i)
    \/ \E e \in ToSet(t) : /\ \A i \in 1 .. Len(s) : s[i].block # e.block
                           /\ t = Lru!Fitting(<<e>> \o s)
    \/ t = <<>>
    \/ \E g \in 1 .. MaxTables : t = Lru!Without(s, g)

CacheStep(c, d) == c = d \/ \E s, t : Caches(c, s) /\ Caches(d, t) /\ Lists(s, t)

\* A cached block is used.
LEMMA MoveToFrontIs ==
    ASSUME NEW c, NEW s, Caches(c, s), NEW k \in c.items
    PROVE  /\ \E t : Caches(MoveToFront(c, k), t)
           /\ CacheStep(c, MoveToFront(c, k))
<1>1. /\ Listed(c, s) /\ c.size = TotalLen(s) /\ s \in Seq(CachedBlocks)
      /\ c.items = {s[i].block : i \in 1 .. Len(s)}
  BY DEF Caches, Listed
<1>2. CASE k = c.head
  BY <1>2 DEF MoveToFront, CacheStep
<1>3. CASE k # c.head
  <2>1. PICK j \in 1 .. Len(s) : s[j].block = k
    BY <1>1
  <2> DEFINE a == SubSeq(s, 1, j - 1)
             b == SubSeq(s, j + 1, Len(s))
             e == s[j]
             d == MoveToFront(c, k)
             t == <<e>> \o (a \o b)
  <2>2. /\ a \in Seq(CachedBlocks) /\ b \in Seq(CachedBlocks) /\ e \in CachedBlocks
        /\ s = (a \o <<e>>) \o b
    BY <1>1, SplitAt
  <2>3. e.block = k
    BY <2>1
  <2>4. d = PushFront(Unlink(c, k), k)
    BY <1>3 DEF MoveToFront
  <2>5. j \in DOMAIN s /\ t = Touched(s, j)
    BY <1>1 DEF Touched, RemoveAt
  <2> HIDE DEF a, b, e, d
  <2>6. Listed(c, (a \o <<e>>) \o b)
    BY <1>1, <2>2
  <2>7. Listed(d, t) /\ d.size = c.size
    BY <2>2, <2>3, <2>4, <2>6, ListedMove
  <2>8. TotalLen(t) = TotalLen((a \o <<e>>) \o b)
    BY <2>2, TotalLenMoved
  <2>9. Caches(d, t)
    BY <1>1, <2>2, <2>7, <2>8 DEF Caches
  <2> HIDE DEF t
  <2>10. Lists(s, t)
    BY <2>5 DEF Lists
  <2>11. CacheStep(c, d)
    BY <2>9, <2>10 DEF CacheStep
  <2>12. QED
    BY <2>9, <2>11 DEF d
<1>4. QED
  BY <1>2, <1>3

\* Get: a block that is cached is used, otherwise nothing happens.
LEMMA CacheGetIs ==
    ASSUME NEW c, NEW s, Caches(c, s), NEW k
    PROVE  /\ \E t : Caches(CacheGet(c, k), t)
           /\ CacheStep(c, CacheGet(c, k))
<1>1. CASE k \in c.items
  <2>1. CacheGet(c, k) = MoveToFront(c, k)
    BY <1>1 DEF CacheGet, CacheHas
  <2>2. QED
    BY <1>1, <2>1, MoveToFrontIs
<1>2. CASE k \notin c.items
  BY <1>2 DEF CacheGet, CacheHas, CacheStep
<1>3. QED
  BY <1>1, <1>2

\* A block comes in.
LEMMA CacheSetIs ==
    ASSUME NEW c, NEW s, Caches(c, s), NEW k \in CacheKeys, NEW len \in Nat
    PROVE  /\ \E t : Caches(CacheSet(c, k, len, CacheCapacity), t)
           /\ CacheStep(c, CacheSet(c, k, len, CacheCapacity))
<1> DEFINE d == CacheSet(c, k, len, CacheCapacity)
<1>1. CASE k \in c.items
  <2>1. d = MoveToFront(c, k)
    BY <1>1 DEF CacheSet, CacheHas
  <2>2. QED
    BY <1>1, <2>1, MoveToFrontIs
<1>2. CASE k \notin c.items
  <2> DEFINE e == [block |-> k, len |-> len]
             g == [PushFront(c, k) EXCEPT !.items = @ \cup {k}, !.len[k] = len, !.size = @ + len]
             v == <<e>> \o s
  <2>1. e \in CachedBlocks /\ e.block = k /\ e.len = len
    BY DEF CachedBlocks
  <2>2. d = EvictTails(g, CacheCapacity)
    BY <1>2 DEF CacheSet, CacheHas
  <2>3. Listed(c, s) /\ c.size = TotalLen(s) /\ s \in Seq(CachedBlocks)
    BY DEF Caches, Listed
  <2> HIDE DEF e, d
  <2>4. Listed(g, v) /\ g.size = c.size + len
    <3>1. e.block \notin c.items
      BY <1>2, <2>1
    <3>2. LET x == [PushFront(c, e.block) EXCEPT !.items = @ \cup {e.block},
                                                 !.len[e.block] = e.len, !.size = @ + e.len]
          IN  Listed(x, <<e>> \o s) /\ x.size = c.size + e.len
      BY <2>1, <2>3, <3>1, ListedAdd
    <3>3. QED
      BY <2>1, <3>2, Zenon
  <2> HIDE DEF g
  <2>5. TotalLen(v) = c.size + len
    <3>1. <<e>> \in Seq(CachedBlocks) /\ <<e>> = Append(<<>>, e) /\ <<>> \in Seq(CachedBlocks)
      BY <2>1
    <3>2. TotalLen(<<e>>) = TotalLen(<<>>) + e.len
      BY <2>1, <3>1, TotalLenAppend
    <3>3. TotalLen(v) = TotalLen(<<e>>) + TotalLen(s)
      BY <2>3, <3>1, TotalLenConcat
    <3>4. TotalLen(s) \in Nat
      BY <2>3, TotalLenNat
    <3>5. TotalLen(<<>>) = 0
      BY TotalLenEmpty
    <3> HIDE DEF v
    <3>6. QED
      BY <2>1, <2>3, <3>2, <3>3, <3>4, <3>5
  <2>6. /\ v \in Seq(CachedBlocks) /\ Len(v) = Len(s) + 1 /\ Len(s) \in Nat /\ v[1] = e
    BY <2>1, <2>3, InFront
  <2> HIDE DEF v
  <2>7. PICK n : Fits(v, n) /\ Listed(d, FirstBlocks(v, n)) /\ d.size = TotalLen(FirstBlocks(v, n))
    <3>1. Listed(g, v) /\ g.size = TotalLen(v)
      BY <2>4, <2>5
    <3>2. \E n : /\ Fits(v, n) /\ Listed(EvictTails(g, CacheCapacity), FirstBlocks(v, n))
                 /\ EvictTails(g, CacheCapacity).size = TotalLen(FirstBlocks(v, n))
      BY <3>1, EvictTailsIs
    <3>3. QED
      BY <2>2, <3>2, Zenon
  <2> DEFINE t == FirstBlocks(v, n)
  <2>8. Caches(d, t)
    BY <2>7 DEF Caches
  <2>9. t = Lru!Fitting(v) /\ n \in 0 .. Len(v)
    BY <2>6, <2>7, FittingIs DEF Fits
  <2>10. t \in Seq(CachedBlocks) /\ Len(t) = n /\ \A i \in 1 .. n : t[i] = v[i]
    BY <2>6, <2>9, FirstBlocksIs
  <2> HIDE DEF t
  <2>11. Lists(s, t)
    <3>1. CASE n = 0
      <4>1. t = <<>>
        BY <2>10, <3>1, EmptySeq
      <4>2. QED
        BY <4>1 DEF Lists
    <3>2. CASE n # 0
      <4>1. 1 \in 1 .. n /\ DOMAIN t = 1 .. n
        BY <2>6, <2>9, <2>10, <3>2
      <4>2. e \in ToSet(t)
        BY <2>6, <2>10, <4>1 DEF ToSet
      <4>3. \A i \in 1 .. Len(s) : s[i].block # e.block
        <5>1. c.items = {s[i].block : i \in 1 .. Len(s)}
          BY <2>3 DEF Listed
        <5>2. QED
          BY <1>2, <2>1, <5>1
      <4>4. t = Lru!Fitting(<<e>> \o s)
        BY <2>9 DEF v
      <4>5. QED
        BY <4>2, <4>3, <4>4, Zenon DEF Lists
    <3>3. QED
      BY <3>1, <3>2
  <2>12. CacheStep(c, d)
    BY <2>8, <2>11 DEF CacheStep
  <2>13. QED
    BY <2>8, <2>12 DEF d
<1>3. QED
  BY <1>1, <1>2

\* The blocks of a file go.
LEMMA CacheEvictIs ==
    ASSUME NEW c, NEW s, Caches(c, s), NEW g \in 1 .. MaxTables
    PROVE  /\ \E t : Caches(CacheEvict(c, g), t)
           /\ CacheStep(c, CacheEvict(c, g))
<1> DEFINE d == CacheEvict(c, g)
           S == c.items \ OfFile(c.items, g)
           t == Kept(s, S)
<1>1. Listed(c, s) /\ c.size = TotalLen(s)
  BY DEF Caches
<1>2. HoldsKept(d, s, S)
  BY <1>1, EvictIs
<1>3. t = Lru!Without(s, g)
  BY <1>1, KeptWithout
<1> HIDE DEF d, S
<1>4. Caches(d, t)
  BY <1>2 DEF HoldsKept, Caches
<1> HIDE DEF t
<1>5. Lists(s, t)
  BY <1>3, Zenon DEF Lists
<1>6. CacheStep(c, d)
  BY <1>4, <1>5 DEF CacheStep
<1>7. QED
  BY <1>4, <1>6 DEF d

\* A new cache holds nothing.
LEMMA NewCacheIs ==
    Caches(NewBlockCache(CacheKeys), <<>>)
<1> DEFINE c == NewBlockCache(CacheKeys)
           s == <<>>
<1>1. s \in Seq(CachedBlocks) /\ Len(s) = 0 /\ \A i : i \notin 1 .. 0
  OBVIOUS
<1>2. c \in CacheRecords
  BY DEF NewBlockCache, CacheRecords, Pointers
<1>3. /\ c.items = {} /\ c.size = 0 /\ c.head = Nil /\ c.tail = Nil
      /\ c.prev \in [Pointers -> Pointers] /\ c.next \in [Pointers -> Pointers] /\ c.next[Nil] = Nil
  BY DEF NewBlockCache, Pointers
<1> HIDE DEF c
<1>4. KeysOf(s) \in [1 .. 0 -> CacheKeys]
  BY <1>1 DEF KeysOf
<1>5. Chain(c.head, c.tail, c.prev, c.next, KeysOf(s), 0)
  BY <1>1, <1>3, <1>4 DEF Chain, KeyIn
<1>6. c.items = {s[i].block : i \in 1 .. 0}
  BY <1>1, <1>3
<1>7. Listed(c, s)
  BY <1>1, <1>2, <1>5, <1>6 DEF Listed
<1>8. QED
  BY <1>3, <1>7, TotalLenEmpty DEF Caches, c
=============================================================================
