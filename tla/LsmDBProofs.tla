----------------------------- MODULE LsmDBProofs -----------------------------
(***************************************************************************)
(* Proofs about the LSM database: for any writers, keys, sizes, numbers of *)
(* levels and bounds, with all the faults and with crashes and restarts.   *)
(*                                                                         *)
(* None of the properties is inductive.  What a reader holds is complete   *)
(* and readable only because of what the background goroutines have in     *)
(* hand between writing a table, logging the edit and removing the inputs  *)
(* (FlushSound, CompactSound), because a file number is never used twice   *)
(* between two restarts (Numbered), and because no table is empty, so that *)
(* ranges of keys mean something (FullSound).                              *)
(*                                                                         *)
(* The lemmas about the operators of LsmTables come first, then the        *)
(* invariant and what follows from it, then the order of the entries.      *)
(***************************************************************************)
EXTENDS LsmDB, FiniteSetTheorems, WellFoundedInduction, TLAPS

-----------------------------------------------------------------------------
(* Tables of finitely many entries: internal keys are totally ordered, so   *)
(* every table has a smallest and a largest key; the ranks of the entries   *)
(* of a merge are 0, 1, 2 ..., so the output files are not empty, follow    *)
(* each other and have exactly the entries of the inputs.                   *)

\* Entries as LsmDB has them, whatever its bounds.
AnyEntry == [key : Nat, seq : Nat, kind : {KindDelete, KindSet}]

-----------------------------------------------------------------------------
(* Finite sets *)

\* A set of numbers that is not empty has a least one.
LEMMA LeastNumber ==
    ASSUME NEW T \in SUBSET Nat, T # {}
    PROVE  \E x \in T : \A y \in T : x <= y
<1>1. PICK R : IsWellFoundedOn(R, Nat) /\ \A x, y \in Nat : y < x => <<y, x>> \in R
  <2>1. \A x, y \in Nat : y < x => <<y, x>> \in OpToRel(<, Nat)
    BY DEF OpToRel
  <2> QED
    BY <2>1, NatLessThanWellFounded, Zenon
<1>2. \E x \in T : \A y \in T : ~(<<y, x>> \in R)
  BY <1>1, WFMin
<1>3. PICK x \in T : \A y \in T : ~(<<y, x>> \in R)
  BY <1>2
<1>4. ASSUME NEW y \in T PROVE x <= y
  <2>1. x \in Nat /\ y \in Nat /\ ~(<<y, x>> \in R)
    BY <1>3
  <2>2. ~(y < x)
    BY <2>1, <1>1
  <2> QED
    BY <2>1, <2>2
<1> QED
  BY <1>4

\* Finitely many files with finitely many entries have finitely many entries.
LEMMA EntriesFinite ==
    ASSUME NEW V, IsFiniteSet(V), NEW g, \A n \in V : IsFiniteSet(g[n].entries)
    PROVE  IsFiniteSet(Entries(V, g))
<1> DEFINE f == [n \in V |-> g[n].entries]
           T == {g[n].entries : n \in V}
<1>1. f \in Surjection(V, T)
  BY DEF Surjection
<1>2. IsFiniteSet(T)
  BY <1>1, FS_Surjection
<1>3. \A es \in T : IsFiniteSet(es)
  OBVIOUS
<1> QED
  BY <1>2, <1>3, FS_UNION DEF Entries

\* A finite set with a strict order R has an element that nothing is before.
LEMMA MinimalExists ==
    ASSUME NEW S, IsFiniteSet(S), S # {}, NEW R,
           \A x \in S : <<x, x>> \notin R,
           \A x, y, z \in S : <<x, y>> \in R /\ <<y, z>> \in R => <<x, z>> \in R
    PROVE  \E x \in S : \A y \in S : <<y, x>> \notin R
<1> DEFINE pred(x) == {y \in S : <<y, x>> \in R}
           rank == [x \in S |-> Cardinality(pred(x))]
<1>1. \A x \in S : IsFiniteSet(pred(x)) /\ rank[x] = Cardinality(pred(x)) /\ rank[x] \in Nat
  <2> SUFFICES ASSUME NEW x \in S PROVE IsFiniteSet(pred(x)) /\ Cardinality(pred(x)) \in Nat
    OBVIOUS
  <2>1. pred(x) \in SUBSET S
    OBVIOUS
  <2>2. IsFiniteSet(pred(x))
    BY <2>1, FS_Subset
  <2> QED
    BY <2>2, FS_CardinalityType
<1>2. ASSUME NEW x \in S, NEW y \in S, <<y, x>> \in R PROVE rank[y] < rank[x]
  <2>1. pred(y) \in SUBSET pred(x) /\ y \in pred(x) /\ y \notin pred(y)
    BY <1>2
  <2>2. IsFiniteSet(pred(x)) /\ rank[x] = Cardinality(pred(x)) /\ rank[y] = Cardinality(pred(y))
        /\ rank[x] \in Nat /\ rank[y] \in Nat
    BY <1>1
  <2> HIDE DEF pred, rank
  <2>3. Cardinality(pred(y)) <= Cardinality(pred(x)) /\ Cardinality(pred(x)) # Cardinality(pred(y))
    BY <2>1, <2>2, FS_Subset
  <2> QED
    BY <2>2, <2>3
<1> HIDE DEF pred, rank
<1> DEFINE T == {rank[x] : x \in S}
<1>3. T \in SUBSET Nat /\ T # {}
  BY <1>1
<1>4. PICK r \in T : \A y \in T : r <= y
  BY <1>3, LeastNumber
<1>5. PICK x \in S : rank[x] = r
  BY <1>4
<1>6. \A y \in S : <<y, x>> \notin R
  BY <1>1, <1>2, <1>4, <1>5
<1> QED
  BY <1>6

-----------------------------------------------------------------------------
(* The order of internal keys *)

\* The order is total: of two different entries one is before the other.
LEMMA BeforeTotal ==
    ASSUME NEW a \in AnyEntry, NEW b \in AnyEntry
    PROVE  a = b \/ Before(a, b) \/ Before(b, a)
<1>1. /\ a.key \in Nat /\ a.seq \in Nat /\ a.kind \in {0, 1}
      /\ b.key \in Nat /\ b.seq \in Nat /\ b.kind \in {0, 1}
      /\ a.key = b.key /\ a.seq = b.seq /\ a.kind = b.kind => a = b
  BY DEF AnyEntry, KindDelete, KindSet
<1> QED
  BY <1>1 DEF Before

\* No entry is before itself.
LEMMA BeforeIrreflexive ==
    ASSUME NEW a \in AnyEntry
    PROVE  ~Before(a, a)
<1>1. a.key \in Nat /\ a.seq \in Nat /\ a.kind \in {0, 1}
  BY DEF AnyEntry, KindDelete, KindSet
<1> QED
  BY <1>1 DEF Before

\* The order is transitive.
LEMMA BeforeTransitive ==
    ASSUME NEW a \in AnyEntry, NEW b \in AnyEntry, NEW c \in AnyEntry, Before(a, b), Before(b, c)
    PROVE  Before(a, c)
<1>1. /\ a.key \in Nat /\ a.seq \in Nat /\ a.kind \in {0, 1}
      /\ b.key \in Nat /\ b.seq \in Nat /\ b.kind \in {0, 1}
      /\ c.key \in Nat /\ c.seq \in Nat /\ c.kind \in {0, 1}
  BY DEF AnyEntry, KindDelete, KindSet
<1> QED
  BY <1>1 DEF Before

\* Smallest is what its name says.
LEMMA SmallestExists ==
    ASSUME NEW es \in SUBSET AnyEntry, IsFiniteSet(es), es # {}
    PROVE  Smallest(es) \in es /\ \A x \in es : x = Smallest(es) \/ Before(Smallest(es), x)
<1> DEFINE R == {z \in es \X es : Before(z[1], z[2])}
<1>1. \A x, y \in es : <<x, y>> \in R <=> Before(x, y)
  OBVIOUS
<1> HIDE DEF R
<1>2. \E x \in es : \A y \in es : <<y, x>> \notin R
  <2>1. \A x \in es : <<x, x>> \notin R
    BY <1>1, BeforeIrreflexive
  <2>2. \A x, y, z \in es : <<x, y>> \in R /\ <<y, z>> \in R => <<x, z>> \in R
    BY <1>1, BeforeTransitive
  <2> QED
    BY <2>1, <2>2, MinimalExists
<1>3. \E e \in es : \A x \in es : x = e \/ Before(e, x)
  BY <1>1, <1>2, BeforeTotal
<1> QED
  BY <1>3 DEF Smallest

\* Largest is what its name says.
LEMMA LargestExists ==
    ASSUME NEW es \in SUBSET AnyEntry, IsFiniteSet(es), es # {}
    PROVE  Largest(es) \in es /\ \A x \in es : x = Largest(es) \/ Before(x, Largest(es))
<1> DEFINE R == {z \in es \X es : Before(z[2], z[1])}
<1>1. \A x, y \in es : <<x, y>> \in R <=> Before(y, x)
  OBVIOUS
<1> HIDE DEF R
<1>2. \E x \in es : \A y \in es : <<y, x>> \notin R
  <2>1. \A x \in es : <<x, x>> \notin R
    BY <1>1, BeforeIrreflexive
  <2>2. \A x, y, z \in es : <<x, y>> \in R /\ <<y, z>> \in R => <<x, z>> \in R
    BY <1>1, BeforeTransitive
  <2> QED
    BY <2>1, <2>2, MinimalExists
<1>3. \E e \in es : \A x \in es : x = e \/ Before(x, e)
  BY <1>1, <1>2, BeforeTotal
<1> QED
  BY <1>3 DEF Largest

-----------------------------------------------------------------------------
(* The outputs of a merge *)

\* Ranks follow the order.
LEMMA RankOrder ==
    ASSUME NEW es \in SUBSET AnyEntry, IsFiniteSet(es), NEW a \in es, NEW b \in es, Before(a, b)
    PROVE  Rank(a, es) < Rank(b, es)
<1> DEFINE A == {x \in es : Before(x, a)}
           B == {x \in es : Before(x, b)}
<1>1. A \in SUBSET es /\ B \in SUBSET es
  OBVIOUS
<1>2. A \in SUBSET B /\ a \in B /\ a \notin A
  BY BeforeTransitive, BeforeIrreflexive
<1>3. Rank(a, es) = Cardinality(A) /\ Rank(b, es) = Cardinality(B)
  BY DEF Rank
<1> HIDE DEF A, B
<1>4. IsFiniteSet(A) /\ IsFiniteSet(B)
  BY <1>1, FS_Subset
<1>5. Cardinality(A) <= Cardinality(B) /\ Cardinality(A) # Cardinality(B)
  BY <1>2, <1>4, FS_Subset
<1>6. Cardinality(A) \in Nat /\ Cardinality(B) \in Nat
  BY <1>4, FS_CardinalityType
<1> QED
  BY <1>3, <1>5, <1>6

\* A rank is less than the number of entries.
LEMMA RankRange ==
    ASSUME NEW es \in SUBSET AnyEntry, IsFiniteSet(es), NEW a \in es
    PROVE  Cardinality(es) \in Nat /\ Rank(a, es) \in 0 .. Cardinality(es) - 1
<1> DEFINE A == {x \in es : Before(x, a)}
<1>1. A \in SUBSET es /\ a \notin A
  BY BeforeIrreflexive
<1>2. Rank(a, es) = Cardinality(A)
  BY DEF Rank
<1> HIDE DEF A
<1>3. IsFiniteSet(A) /\ Cardinality(A) <= Cardinality(es) /\ Cardinality(A) # Cardinality(es)
  BY <1>1, FS_Subset
<1>4. Cardinality(A) \in Nat /\ Cardinality(es) \in Nat
  BY <1>3, FS_CardinalityType
<1> QED
  BY <1>2, <1>3, <1>4

\* Every number below the number of entries is the rank of one.
LEMMA RankOnto ==
    ASSUME NEW es \in SUBSET AnyEntry, IsFiniteSet(es), NEW i \in 0 .. Cardinality(es) - 1
    PROVE  \E a \in es : Rank(a, es) = i
<1> DEFINE f == [a \in es |-> Rank(a, es)]
           T == 0 .. Cardinality(es) - 1
<1>1. Cardinality(es) \in Nat
  BY FS_CardinalityType
<1>2. f \in [es -> T]
  BY RankRange
<1>3. ASSUME NEW a \in es, NEW b \in es, f[a] = f[b] PROVE a = b
  <2>1. Rank(a, es) = Rank(b, es) /\ Rank(a, es) \in Nat
    BY <1>3, RankRange, <1>1
  <2>2. ~Before(a, b) /\ ~Before(b, a)
    BY <2>1, RankOrder
  <2> QED
    BY <2>2, BeforeTotal
<1>4. f \in Injection(es, T)
  BY <1>2, <1>3 DEF Injection, IsInjective
<1>5. IsFiniteSet(T) /\ Cardinality(T) = Cardinality(es)
  BY <1>1, FS_Interval
<1>6. f \in Surjection(es, T)
  BY <1>4, <1>5, FS_Injection
<1> QED
  BY <1>6 DEF Surjection

\* Dividing a number by the size of a file.
LEMMA DivisionBounds ==
    ASSUME NEW x \in Nat, NEW t \in Nat \ {0}
    PROVE  /\ x \div t \in Nat
           /\ t * (x \div t) <= x /\ x < t * (x \div t) + t
<1>1. x \div t \in Nat /\ x = t * (x \div t) + (x % t) /\ x % t \in 0 .. t - 1
  OBVIOUS
<1> QED
  BY <1>1

\* Multiples of t keep the order.
LEMMA TimesOrder ==
    ASSUME NEW i \in Nat, NEW j \in Nat, NEW t \in Nat \ {0}, i < j
    PROVE  t * i + t <= t * j
<1>1. j >= i + 1
  OBVIOUS
<1>2. t * j >= t * (i + 1)
  BY <1>1
<1>3. t * (i + 1) = t * i + t
  OBVIOUS
<1> QED
  BY <1>2, <1>3

\* The merge writes every entry, and nothing else, to one of its outputs.
LEMMA OutputsPartition ==
    ASSUME NEW es \in SUBSET AnyEntry, IsFiniteSet(es), NEW t \in Nat \ {0}
    PROVE  /\ OutputCount(es, t) \in Nat
           /\ \A a \in es : \E i \in 0 .. OutputCount(es, t) - 1 : a \in Output(es, t, i)
<1> DEFINE c == Cardinality(es)
           x == c + t - 1
<1>1. c \in Nat /\ x \in Nat
  BY FS_CardinalityType
<1>2. OutputCount(es, t) = x \div t
  BY DEF OutputCount
<1>3. x \div t \in Nat /\ x < t * (x \div t) + t
  BY <1>1, DivisionBounds
<1>4. ASSUME NEW a \in es PROVE \E i \in 0 .. (x \div t) - 1 : a \in Output(es, t, i)
  <2> DEFINE r == Rank(a, es)
             i == r \div t
             n == x \div t
  <2>1. r \in Nat /\ r <= c - 1
    BY <1>1, RankRange
  <2>2. i \in Nat /\ t * i <= r
    BY <2>1, DivisionBounds
  <2>3. a \in Output(es, t, i)
    BY DEF Output
  <2>4. n \in Nat /\ x < t * n + t /\ x = c + t - 1
    BY <1>3
  <2> HIDE DEF r, i, n, x, c
  <2>5. i < n
    <3>1. SUFFICES ASSUME n <= i PROVE FALSE
      BY <2>2, <2>4
    <3>2. t * n <= t * i
      BY <3>1, <2>2, <2>4
    <3>3. t * n \in Nat /\ t * i \in Nat
      BY <2>2, <2>4
    <3> QED
      BY <3>2, <3>3, <2>1, <2>2, <2>4, <1>1
  <2> QED
    BY <2>2, <2>3, <2>4, <2>5 DEF n
<1> QED
  BY <1>2, <1>3, <1>4

\* Every output has an entry.
LEMMA OutputNonEmpty ==
    ASSUME NEW es \in SUBSET AnyEntry, IsFiniteSet(es), NEW t \in Nat \ {0},
           NEW i \in 0 .. OutputCount(es, t) - 1
    PROVE  Output(es, t, i) # {}
<1> DEFINE c == Cardinality(es)
           x == c + t - 1
           n == x \div t
           q == (t * i) \div t
<1>1. c \in Nat /\ x \in Nat
  BY FS_CardinalityType
<1>2. OutputCount(es, t) = n
  BY DEF OutputCount
<1>3. n \in Nat /\ t * n <= x
  BY <1>1, DivisionBounds
<1>4. i \in Nat /\ i < n /\ t * i \in Nat
  BY <1>2, <1>3
<1>5. q \in Nat /\ t * q <= t * i /\ t * i < t * q + t
  BY <1>4, DivisionBounds
<1> HIDE DEF q, n
<1>6. t * i <= c - 1
  <2>1. t * i + t <= t * n
    BY <1>3, <1>4, TimesOrder
  <2>2. t * n \in Nat
    BY <1>3
  <2> QED
    BY <2>1, <2>2, <1>1, <1>3, <1>4
<1>7. PICK a \in es : Rank(a, es) = t * i
  BY <1>1, <1>4, <1>6, RankOnto
<1>8. q = i
  <2>1. CASE q < i
    BY <2>1, <1>4, <1>5, TimesOrder
  <2>2. CASE i < q
    <3>1. t * i + t <= t * q
      BY <2>2, <1>4, <1>5, TimesOrder
    <3>2. t * q \in Nat
      BY <1>5
    <3> QED
      BY <3>1, <3>2, <1>4, <1>5
  <2> QED
    BY <2>1, <2>2, <1>4, <1>5
<1>9. a \in Output(es, t, i)
  BY <1>7, <1>8 DEF Output, q
<1> QED
  BY <1>9

\* An output is before every later one.
LEMMA OutputOrder ==
    ASSUME NEW es \in SUBSET AnyEntry, IsFiniteSet(es), NEW t \in Nat \ {0},
           NEW i \in Nat, NEW j \in Nat, i < j,
           NEW a \in Output(es, t, i), NEW b \in Output(es, t, j)
    PROVE  Before(a, b)
<1> DEFINE r == Rank(a, es)
           s == Rank(b, es)
<1>1. a \in es /\ b \in es /\ r \div t = i /\ s \div t = j
  BY DEF Output
<1>2. r \in Nat /\ s \in Nat
  BY <1>1, RankRange
<1>3. t * i <= r /\ r < t * i + t /\ t * j <= s /\ s < t * j + t
  BY <1>1, <1>2, DivisionBounds
<1>4. t * i + t <= t * j
  BY TimesOrder
<1> HIDE DEF r, s
<1>5. r < s
  <2>1. t * i \in Nat /\ t * j \in Nat
    OBVIOUS
  <2> QED
    BY <2>1, <1>2, <1>3, <1>4
<1>6. ~Before(b, a)
  <2>1. Before(b, a) => s < r
    BY <1>1, RankOrder DEF r, s
  <2> QED
    BY <2>1, <1>2, <1>5
<1>7. a # b
  BY <1>2, <1>5 DEF r, s
<1> QED
  BY <1>1, <1>6, <1>7, BeforeTotal

-----------------------------------------------------------------------------
(* Ranges of keys and the choice of a file *)

\* All of one set is before all of the other.
Apart(es, fs) ==
    \/ \A a \in es, b \in fs : Before(a, b)
    \/ \A a \in es, b \in fs : Before(b, a)

\* Version.overlapping compares ends only, but that decides about every entry.
LEMMA OverlapsApart ==
    ASSUME NEW es \in SUBSET AnyEntry, IsFiniteSet(es), es # {},
           NEW fs \in SUBSET AnyEntry, IsFiniteSet(fs), fs # {}
    PROVE  Overlaps(es, fs) <=> ~Apart(es, fs)
<1>1. /\ Smallest(es) \in es /\ \A x \in es : x = Smallest(es) \/ Before(Smallest(es), x)
      /\ Largest(es) \in es /\ \A x \in es : x = Largest(es) \/ Before(x, Largest(es))
  BY SmallestExists, LargestExists
<1>2. /\ Smallest(fs) \in fs /\ \A x \in fs : x = Smallest(fs) \/ Before(Smallest(fs), x)
      /\ Largest(fs) \in fs /\ \A x \in fs : x = Largest(fs) \/ Before(x, Largest(fs))
  BY SmallestExists, LargestExists
<1>3. ASSUME Before(Largest(es), Smallest(fs)), NEW a \in es, NEW b \in fs PROVE Before(a, b)
  <2>1. a = Largest(es) \/ Before(a, Largest(es))
    BY <1>1
  <2>2. b = Smallest(fs) \/ Before(Smallest(fs), b)
    BY <1>2
  <2>3. Before(a, Smallest(fs))
    BY <2>1, <1>1, <1>2, <1>3, BeforeTransitive
  <2> QED
    BY <2>2, <2>3, <1>2, BeforeTransitive
<1>4. ASSUME Before(Largest(fs), Smallest(es)), NEW a \in es, NEW b \in fs PROVE Before(b, a)
  <2>1. b = Largest(fs) \/ Before(b, Largest(fs))
    BY <1>2
  <2>2. a = Smallest(es) \/ Before(Smallest(es), a)
    BY <1>1
  <2>3. Before(b, Smallest(es))
    BY <2>1, <1>1, <1>2, <1>4, BeforeTransitive
  <2> QED
    BY <2>2, <2>3, <1>1, BeforeTransitive
<1>5. Apart(es, fs) => Before(Largest(es), Smallest(fs)) \/ Before(Largest(fs), Smallest(es))
  BY <1>1, <1>2 DEF Apart
<1> QED
  BY <1>3, <1>4, <1>5 DEF Overlaps, Apart

\* A set that is apart from the source of a compaction, and from each of the
\* files that overlap the source, is apart from all of them together.
LEMMA MergeApart ==
    ASSUME NEW src \in SUBSET AnyEntry, src # {},
           NEW ms \in SUBSET AnyEntry, ms # {}, Apart(src, ms),
           NEW F, \A f \in F : f \in SUBSET AnyEntry /\ ~Apart(src, f) /\ Apart(f, ms)
    PROVE  Apart(src \cup UNION F, ms)
<1>1. CASE \A a \in src, b \in ms : Before(a, b)
  <2>1. ASSUME NEW f \in F, NEW a \in f, NEW b \in ms PROVE Before(a, b)
    <3>1. CASE \A x \in f, y \in ms : Before(y, x)
      <4>1. ASSUME NEW x \in src, NEW y \in f PROVE Before(x, y)
        <5>1. PICK z \in ms : TRUE
          OBVIOUS
        <5>2. Before(x, z) /\ Before(z, y)
          BY <1>1, <3>1
        <5>3. x \in AnyEntry /\ y \in AnyEntry /\ z \in AnyEntry
          OBVIOUS
        <5> QED
          BY <5>2, <5>3, BeforeTransitive
      <4> QED
        BY <4>1 DEF Apart
    <3> QED
      BY <3>1 DEF Apart
  <2> QED
    BY <1>1, <2>1 DEF Apart
<1>2. CASE \A a \in src, b \in ms : Before(b, a)
  <2>1. ASSUME NEW f \in F, NEW a \in f, NEW b \in ms PROVE Before(b, a)
    <3>1. CASE \A x \in f, y \in ms : Before(x, y)
      <4>1. ASSUME NEW x \in src, NEW y \in f PROVE Before(y, x)
        <5>1. PICK z \in ms : TRUE
          OBVIOUS
        <5>2. Before(z, x) /\ Before(y, z)
          BY <1>2, <3>1
        <5>3. x \in AnyEntry /\ y \in AnyEntry /\ z \in AnyEntry
          OBVIOUS
        <5> QED
          BY <5>2, <5>3, BeforeTransitive
      <4> QED
        BY <4>1 DEF Apart
    <3> QED
      BY <3>1 DEF Apart
  <2> QED
    BY <1>2, <2>1 DEF Apart
<1> QED
  BY <1>1, <1>2 DEF Apart

\* The file that pickLevelCompaction takes is a file of the level.
LEMMA LargestFileExists ==
    ASSUME NEW V, IsFiniteSet(V), NEW g, NEW l, Level(V, g, l) # {},
           \A n \in V : /\ g[n].entries \in SUBSET AnyEntry
                              /\ IsFiniteSet(g[n].entries) /\ g[n].entries # {}
    PROVE  LargestFile(V, g, l) \in Level(V, g, l)
<1> DEFINE lev == Level(V, g, l)
           size == [n \in lev |-> Cardinality(g[n].entries)]
           R == {z \in lev \X lev : size[z[2]] < size[z[1]]
                                    \/ (size[z[1]] = size[z[2]] /\ Sorted(g, z[1], z[2]))}
<1>1. lev \in SUBSET V
  BY DEF Level
<1>2. IsFiniteSet(lev)
  BY <1>1, FS_Subset
<1>3. \A n \in lev : size[n] = Cardinality(g[n].entries) /\ size[n] \in Nat
  BY <1>1, FS_CardinalityType
<1>4. \A m, n \in lev : <<m, n>> \in R <=> size[n] < size[m] \/ (size[m] = size[n] /\ Sorted(g, m, n))
  OBVIOUS
<1> HIDE DEF R, size
<1>5. ASSUME NEW n \in lev PROVE Smallest(g[n].entries) \in AnyEntry
  BY <1>1, <1>5, SmallestExists
<1> HIDE DEF lev
<1>6. \A n \in lev : <<n, n>> \notin R
  BY <1>3, <1>4, <1>5, BeforeIrreflexive DEF Sorted
<1>7. ASSUME NEW x \in lev, NEW y \in lev, NEW z \in lev, <<x, y>> \in R, <<y, z>> \in R PROVE <<x, z>> \in R
  <2>1. Sorted(g, x, y) /\ Sorted(g, y, z) => Sorted(g, x, z)
    BY <1>5, BeforeTransitive DEF Sorted
  <2> QED
    BY <2>1, <1>3, <1>4, <1>7
<1>8. PICK n \in lev : \A m \in lev : <<m, n>> \notin R
  BY <1>2, <1>6, <1>7, MinimalExists DEF lev
<1>9. \A m \in lev : size[m] < size[n] \/ (size[m] = size[n] /\ ~Sorted(g, m, n))
  <2> SUFFICES ASSUME NEW m \in lev PROVE size[m] < size[n] \/ (size[m] = size[n] /\ ~Sorted(g, m, n))
    OBVIOUS
  <2>1. size[m] \in Nat /\ size[n] \in Nat
    BY <1>3
  <2>2. ~(size[n] < size[m]) /\ ~(size[m] = size[n] /\ Sorted(g, m, n))
    BY <1>4, <1>8
  <2> QED
    BY <2>1, <2>2
<1>10. \E k \in lev : \A m \in lev :
          \/ Cardinality(g[m].entries) < Cardinality(g[k].entries)
          \/ (Cardinality(g[m].entries) = Cardinality(g[k].entries) /\ ~Sorted(g, m, k))
  BY <1>3, <1>9
<1> QED
  BY <1>10 DEF LargestFile, lev

-----------------------------------------------------------------------------
(* The invariant *)

\* flush or compaction, between writing its tables and being done with them
Busy == {"written", "logged"}

\* A call of Set or Delete that has its number carries an entry.
WriterSound ==
    \A w \in Writers : wr[w].pc \in {"alloc", "stored"} =>
        wr[w].key \in Keys /\ wr[w].kind \in Kinds /\ wr[w].seq \in 1 .. MaxSeq

\* Memtables and tables are finite, and the memtables to come are empty.
FinSound ==
    /\ \A m \in 1 .. MaxMems : m > memId => table[m] = {}
    /\ \A m \in 1 .. MaxMems : IsFiniteSet(table[m])
    /\ \A n \in 1 .. MaxFiles : IsFiniteSet(file[n].entries)

\* Nothing empty is sealed, written to disk or listed.
FullSound ==
    /\ \A m \in 1 .. MaxMems : m \in immLo .. memId - 1 => table[m] # {}
    /\ \A n \in version \cup manifest.files \cup co.outputs : file[n].entries # {}

\* The file numbers in use are below the counter, and recovery's counter is not
\* ahead of it.
Numbered ==
    /\ \A n \in manifest.files : n < manifest.next
    /\ up # "down" =>
        /\ \A n \in version \cup manifest.files \cup rd.files \cup co.inputs \cup co.outputs : n < nextFileNum
        /\ manifest.next <= nextFileNum
        /\ fl.pc \in Busy => fl.num < nextFileNum

\* The background goroutines work while the database is open, and nothing runs
\* when it is down.
Running ==
    /\ fl.pc \in Busy \cup {"loop"} \/ co.pc \in Busy \cup {"loop"} => up \in {"open", "closing"}
    /\ up = "down" => version = {} /\ rd.pc = "idle" /\ immLo = memId

\* Tables in use exist.
DiskSound ==
    /\ version \cup manifest.files \subseteq onDisk
    /\ up # "closed" => rd.files \subseteq onDisk \cup tableCache

\* A table that flush has written is a copy of the oldest sealed memtable, under
\* a number that nobody else knows; once logged, its entries are in the version.
FlushSound ==
    /\ fl.pc \in Busy => immLo < memId
    /\ fl.pc = "written" =>
        /\ fl.num \in onDisk
        /\ fl.num \notin version \cup manifest.files \cup co.inputs \cup co.outputs
        /\ file[fl.num].entries = table[immLo]
    /\ fl.pc = "logged" => table[immLo] \subseteq Entries(version, file)

\* The tables that compaction has written have the entries of its inputs; once
\* logged, the inputs are nowhere listed, and readers have them open.
CompactSound ==
    /\ co.pc = "written" =>
        /\ co.inputs \subseteq version
        /\ co.outputs \subseteq onDisk
        /\ co.outputs \cap (version \cup manifest.files) = {}
        /\ Entries(co.outputs, file) = Entries(co.inputs, file)
    /\ co.pc = "logged" => co.inputs \cap (version \cup manifest.files) = {}
    /\ co.pc \in Busy => co.inputs \subseteq tableCache
    /\ co.pc \notin Busy => co.inputs = {} /\ co.outputs = {}

\* What has been written can be found, and nothing else.
ContentSound ==
    /\ inserted = Contents
    /\ Durable \subseteq Contents

\* The stages of a call.
Stages(op) ==
    CASE op = "get" -> {"mems", "lookup", "version", "ready", "done"}
      [] op = "iter" -> {"mems", "version", "ready", "held"}
      [] op = "snap" -> {"mems", "version", "held"}

\* What a reader has captured so far, with what it has yet to capture, covers
\* what it must see.
ReadSound ==
    /\ rd.pc # "idle" => rd.pc \in Stages(rd.op)
    /\ up # "closed" /\ rd.op # "snap" =>
        /\ rd.pc = "mems" => rd.must \subseteq inserted
        /\ rd.pc \in {"lookup", "version"} => rd.must \subseteq Mems(rd.lo, rd.hi) \cup Entries(version, file)
        /\ rd.pc \in {"ready", "held"} => rd.must \subseteq Captured
    /\ up # "closed" /\ rd.op = "snap" =>
        /\ rd.pc = "version" => rd.must \subseteq inserted
        /\ rd.pc = "mems" =>
            /\ rd.oldest \in 1 .. immLo
            /\ rd.must \subseteq Mems(rd.oldest, memId) \cup Entries(rd.files, file)
        /\ rd.pc = "held" /\ rd.lo = rd.oldest => rd.must \subseteq Captured

Inv ==
    /\ TypeOK /\ WriterSound /\ FinSound /\ FullSound /\ Numbered /\ Running /\ DiskSound
    /\ FlushSound /\ CompactSound /\ ContentSound /\ ReadSound

-----------------------------------------------------------------------------
(* Entries and files *)

\* The entries of the database are entries in the sense of AnyEntry.
LEMMA EntryTypes == Entry \subseteq AnyEntry
<1>1. Keys \subseteq Nat /\ 1 .. MaxSeq \subseteq Nat /\ Kinds \subseteq {KindDelete, KindSet}
  BY KeysAssumption, KindsAssumption, BoundsAssumption
<1> QED
  BY <1>1 DEF Entry, AnyEntry

\* What it means to be in some file of V.
LEMMA InEntries ==
    ASSUME NEW V, NEW f, NEW e
    PROVE  e \in Entries(V, f) <=> \E n \in V : e \in f[n].entries
<1> QED
  BY DEF Entries

\* Only the files of V matter.
LEMMA EntriesSame ==
    ASSUME NEW V, NEW f, NEW g, \A n \in V : f[n] = g[n]
    PROVE  Entries(V, f) = Entries(V, g)
<1>1. \A e : e \in Entries(V, f) <=> e \in Entries(V, g)
  BY InEntries
<1> QED
  BY <1>1

\* An edit that adds the files new and drops the files old leaves the entries of
\* the rest, of V, and of new.
LEMMA EntriesEdit ==
    ASSUME NEW V, NEW f, NEW new, NEW old
    PROVE  /\ Entries((V \ old) \cup new, f) \subseteq Entries(V, f) \cup Entries(new, f)
           /\ Entries(old, f) \subseteq Entries(new, f) => Entries(V, f) \subseteq Entries((V \ old) \cup new, f)
           /\ Entries(new, f) \subseteq Entries((V \ old) \cup new, f)
<1>1. \A e : e \in Entries((V \ old) \cup new, f) => e \in Entries(V, f) \/ e \in Entries(new, f)
  BY InEntries
<1>2. \A e : e \in Entries(new, f) => e \in Entries((V \ old) \cup new, f)
  BY InEntries
<1>3. \A e : e \in Entries(V, f) => e \in Entries((V \ old) \cup new, f) \/ e \in Entries(old, f)
  BY InEntries
<1> QED
  BY <1>1, <1>2, <1>3

\* The files of a smaller set have fewer entries.
LEMMA EntriesMono ==
    ASSUME NEW V, NEW W, V \subseteq W, NEW f
    PROVE  Entries(V, f) \subseteq Entries(W, f)
<1> QED
  BY InEntries

\* The size of an output file is positive.
LEMMA TargetPositive ==
    ASSUME NEW l \in Nat
    PROVE  TargetFileSize(l) \in Nat \ {0}
<1> DEFINE S == 1 .. l
<1>1. IsFiniteSet(S) /\ Cardinality(S) = l
  BY FS_Interval
<1>2. IsFiniteSet(SUBSET S) /\ Cardinality(SUBSET S) = 2 ^ l
  BY <1>1, FS_SUBSET
<1>3. SUBSET S # {}
  <2>1. {} \in SUBSET S
    OBVIOUS
  <2> QED
    BY <2>1
<1> HIDE DEF S
<1>4. 2 ^ l \in Nat /\ 2 ^ l # 0
  BY <1>2, <1>3, FS_CardinalityType, FS_EmptySet
<1>5. FileTarget \in Nat /\ FileTarget # 0
  BY SizesAssumption
<1> DEFINE x == 2 ^ l
<1>6. x \in Nat /\ x # 0
  BY <1>4
<1> HIDE DEF x
<1>7. FileTarget * x \in Nat \ {0}
  BY <1>5, <1>6
<1> QED
  BY <1>7 DEF TargetFileSize, x

\* The files of the current version are finite sets of entries that are not
\* empty.
LEMMA VersionFiles ==
    ASSUME Inv, NEW n \in version
    PROVE  /\ n \in 1 .. MaxFiles /\ n \in Nat
           /\ file[n].entries \in SUBSET Entry /\ file[n].entries \in SUBSET AnyEntry
           /\ IsFiniteSet(file[n].entries) /\ file[n].entries # {}
<1>1. n \in 1 .. MaxFiles
  BY DEF Inv, TypeOK, TypeTree
<1>2. file[n].entries \in SUBSET Entry
  BY <1>1 DEF Inv, TypeOK, TypeTree
<1>3. n \in Nat
  BY <1>1, BoundsAssumption
<1> QED
  BY <1>1, <1>2, <1>3, EntryTypes DEF Inv, FinSound, FullSound

\* There are finitely many file numbers.
LEMMA FinitelyMany ==
    ASSUME NEW V \in SUBSET (1 .. MaxFiles)
    PROVE  IsFiniteSet(V)
<1>1. IsFiniteSet(1 .. MaxFiles)
  BY BoundsAssumption, FS_Interval
<1> QED
  BY <1>1, FS_Subset

\* pickCompaction picks files of the current version.
LEMMA PickSound ==
    ASSUME Inv, CompactionNeeded
    PROVE  /\ SourceLevel \in 0 .. NumLevels - 2
           /\ SourceFiles \subseteq Level(version, file, SourceLevel)
           /\ SourceFiles # {}
           /\ CompactionInputs \subseteq version
<1>1. Oversized \in SUBSET Nat
  BY SizesAssumption DEF Oversized
<1>v. version \in SUBSET (1 .. MaxFiles) /\ IsFiniteSet(version)
  BY FinitelyMany DEF Inv, TypeOK, TypeTree
<1>2. CASE L0Full
  <2>1. SourceLevel = 0 /\ SourceFiles = Level(version, file, 0)
    BY <1>2 DEF SourceLevel, SourceFiles
  <2>2. SourceFiles # {}
    <3>1. Cardinality({}) = 0
      BY FS_EmptySet
    <3> QED
      BY <1>2, <2>1, <3>1, SizesAssumption DEF L0Full
  <2>3. 0 \in 0 .. NumLevels - 2
    BY SizesAssumption
  <2> QED
    BY <2>1, <2>2, <2>3 DEF CompactionInputs, Overlapping, Level
<1>3. CASE ~L0Full
  <2>1. Oversized # {}
    BY <1>3 DEF CompactionNeeded
  <2>2. SourceLevel \in Oversized
    <3>1. \E l \in Oversized : \A k \in Oversized : l <= k
      BY <1>1, <2>1, LeastNumber
    <3> QED
      BY <3>1, <1>3 DEF SourceLevel
  <2>3. SourceLevel \in 1 .. NumLevels - 2 /\ LevelSize(version, file, SourceLevel) > TargetLevelSize(SourceLevel)
    BY <2>2 DEF Oversized
  <2>4. Level(version, file, SourceLevel) # {}
    <3>1. SUFFICES ASSUME Level(version, file, SourceLevel) = {} PROVE FALSE
      OBVIOUS
    <3>2. UNION {{n} \X file[n].entries : n \in {}} = {}
      OBVIOUS
    <3>3. LevelSize(version, file, SourceLevel) = 0
      BY <3>1, <3>2, FS_EmptySet DEF LevelSize
    <3>4. TargetLevelSize(SourceLevel) \in Nat
      BY <2>3, LevelTargetsAssumption
    <3> QED
      BY <2>3, <3>3, <3>4
  <2>5. LargestFile(version, file, SourceLevel) \in Level(version, file, SourceLevel)
    BY <1>v, <2>4, VersionFiles, LargestFileExists
  <2>6. SourceFiles = {LargestFile(version, file, SourceLevel)}
    BY <1>3 DEF SourceFiles
  <2>7. SourceLevel \in 0 .. NumLevels - 2
    BY <2>3
  <2> QED
    BY <2>5, <2>6, <2>7 DEF CompactionInputs, Overlapping, Level
<1> QED
  BY <1>2, <1>3

\* runCompaction writes the entries of its inputs, and nothing else, to new files
\* that are not empty.
LEMMA MergeSound ==
    ASSUME Inv, CompactMerge
    PROVE  /\ co'.pc = "written" /\ co'.inputs = CompactionInputs /\ co'.inputs \subseteq version
           /\ co'.outputs \in SUBSET (1 .. MaxFiles)
           /\ \A n \in co'.outputs : /\ nextFileNum <= n /\ n < nextFileNum'
                                     /\ file'[n].level = SourceLevel + 1
                                     /\ file'[n].entries \in SUBSET Entry
                                     /\ file'[n].entries # {} /\ IsFiniteSet(file'[n].entries)
           /\ \A n \in 1 .. MaxFiles : n \notin co'.outputs => file'[n] = file[n]
           /\ nextFileNum' \in 1 .. MaxFiles + 1 /\ nextFileNum <= nextFileNum'
           /\ onDisk' = onDisk \cup co'.outputs
           /\ tableCache' = tableCache \cup co'.inputs
           /\ Entries(co'.outputs, file') = Entries(co'.inputs, file)
           /\ SourceLevel + 1 \in 0 .. NumLevels - 1
           /\ file' \in [1 .. MaxFiles -> [level : 0 .. NumLevels - 1, entries : SUBSET Entry]]
<1> DEFINE inputs == CompactionInputs
           es == Entries(inputs, file)
           target == TargetFileSize(SourceLevel + 1)
           count == OutputCount(es, target)
           outputs == nextFileNum .. nextFileNum + count - 1
<1>1. CompactionNeeded
  BY DEF CompactMerge
<1>2. SourceLevel \in 0 .. NumLevels - 2 /\ inputs \subseteq version
  BY <1>1, PickSound
<1>3. SourceLevel + 1 \in 0 .. NumLevels - 1 /\ SourceLevel + 1 \in Nat
  BY <1>2, SizesAssumption
<1>4. target \in Nat \ {0}
  BY <1>3, TargetPositive
<1>5. es \in SUBSET Entry /\ es \in SUBSET AnyEntry /\ IsFiniteSet(es)
  <2>1. \A n \in inputs : file[n].entries \in SUBSET Entry /\ IsFiniteSet(file[n].entries)
    BY <1>2, VersionFiles
  <2>2. es \in SUBSET Entry
    BY <2>1, InEntries
  <2>3. IsFiniteSet(inputs)
    BY <1>2, FinitelyMany DEF Inv, TypeOK, TypeTree
  <2> QED
    BY <2>1, <2>2, <2>3, EntryTypes, EntriesFinite
<1>6. /\ nextFileNum + count - 1 <= MaxFiles
      /\ tableCache' = tableCache \cup inputs
      /\ nextFileNum' = nextFileNum + count
      /\ file' = [n \in 1 .. MaxFiles |->
                    IF n \in outputs
                    THEN [level |-> SourceLevel + 1, entries |-> Output(es, target, n - nextFileNum)]
                    ELSE file[n]]
      /\ onDisk' = onDisk \cup outputs
      /\ co' = [pc |-> "written", inputs |-> inputs, outputs |-> outputs]
  BY DEF CompactMerge
<1> HIDE DEF inputs, es, target
<1>7. count \in Nat
  BY <1>4, <1>5, OutputsPartition
<1>8. \A a \in es : \E i \in 0 .. count - 1 : a \in Output(es, target, i)
  BY <1>4, <1>5, OutputsPartition
<1>9. \A i \in 0 .. count - 1 : Output(es, target, i) # {}
  BY <1>4, <1>5, OutputNonEmpty
<1>10. \A i : Output(es, target, i) \in SUBSET es
  BY DEF Output
<1>11. \A i : IsFiniteSet(Output(es, target, i))
  BY <1>5, <1>10, FS_Subset
<1> HIDE DEF count
<1>12. nextFileNum \in Nat /\ nextFileNum >= 1 /\ MaxFiles \in Nat
  BY BoundsAssumption DEF Inv, TypeOK, TypeTree
<1>13. \A n \in outputs : n \in 1 .. MaxFiles /\ n \in Nat /\ n - nextFileNum \in 0 .. count - 1
  BY <1>6, <1>7, <1>12
<1>14. \A n \in outputs : /\ file'[n].level = SourceLevel + 1
                          /\ file'[n].entries = Output(es, target, n - nextFileNum)
  BY <1>6, <1>13
<1>15. Entries(outputs, file') = es
  <2>1. ASSUME NEW e \in es PROVE e \in Entries(outputs, file')
    <3>1. PICK i \in 0 .. count - 1 : e \in Output(es, target, i)
      BY <1>8
    <3>2. nextFileNum + i \in outputs /\ (nextFileNum + i) - nextFileNum = i
      BY <3>1, <1>7, <1>12
    <3>3. e \in file'[nextFileNum + i].entries
      BY <3>1, <3>2, <1>14
    <3> QED
      BY <3>2, <3>3, InEntries
  <2>2. ASSUME NEW e \in Entries(outputs, file') PROVE e \in es
    <3>1. PICK n \in outputs : e \in file'[n].entries
      BY InEntries
    <3> QED
      BY <3>1, <1>14, <1>10
  <2> QED
    BY <2>1, <2>2
<1>16. /\ co'.pc = "written" /\ co'.inputs = inputs /\ co'.outputs = outputs
  BY <1>6
<1>17. \A n \in outputs : /\ nextFileNum <= n /\ n < nextFileNum'
                          /\ file'[n].level = SourceLevel + 1
                          /\ file'[n].entries \in SUBSET Entry
                          /\ file'[n].entries # {} /\ IsFiniteSet(file'[n].entries)
  <2> SUFFICES ASSUME NEW n \in outputs
               PROVE  /\ nextFileNum <= n /\ n < nextFileNum'
                      /\ file'[n].level = SourceLevel + 1
                      /\ file'[n].entries \in SUBSET Entry
                      /\ file'[n].entries # {} /\ IsFiniteSet(file'[n].entries)
    OBVIOUS
  <2>1. nextFileNum <= n /\ n < nextFileNum'
    BY <1>6, <1>7, <1>12
  <2>2. file'[n].level = SourceLevel + 1 /\ file'[n].entries = Output(es, target, n - nextFileNum)
    BY <1>14
  <2> QED
    BY <2>1, <2>2, <1>5, <1>9, <1>10, <1>11, <1>13
<1>18. \A n \in 1 .. MaxFiles : n \notin outputs => file'[n] = file[n]
  BY <1>6
<1>19. nextFileNum' \in 1 .. MaxFiles + 1 /\ nextFileNum <= nextFileNum'
  BY <1>6, <1>7, <1>12
<1>20. file' \in [1 .. MaxFiles -> [level : 0 .. NumLevels - 1, entries : SUBSET Entry]]
  <2>1. \A i : Output(es, target, i) \in SUBSET Entry
    BY <1>5, <1>10
  <2>2. file \in [1 .. MaxFiles -> [level : 0 .. NumLevels - 1, entries : SUBSET Entry]]
    BY DEF Inv, TypeOK, TypeTree
  <2> QED
    BY <1>6, <2>1, <2>2, <1>3
<1> HIDE DEF outputs
<1> QED
  BY <1>2, <1>3, <1>6, <1>13, <1>15, <1>16, <1>17, <1>18, <1>19, <1>20 DEF inputs, es

-----------------------------------------------------------------------------
(* Types *)

\* A new database satisfies the invariant.
LEMMA InitInv == Init => Inv
<1> SUFFICES ASSUME Init PROVE Inv
  OBVIOUS
<1> USE SizesAssumption, BoundsAssumption DEF Init
<1>1. TypeWrite
  BY DEF TypeWrite, Idle
<1>2. TypeTree
  BY DEF TypeTree, NoFile
<1>3. TypeWork
  <2>1. flushCh \in BOOLEAN /\ compactCh \in BOOLEAN /\ panic \in BOOLEAN
    OBVIOUS
  <2>2. fl \in [pc : {"idle", "loop", "written", "logged", "done"}, num : 0 .. MaxFiles, last : BOOLEAN]
    BY DEF FlushIdle
  <2>3. co \in [pc : {"idle", "loop", "written", "logged", "done"},
                inputs : SUBSET (1 .. MaxFiles), outputs : SUBSET (1 .. MaxFiles)]
    BY DEF CompactIdle
  <2> QED
    BY <2>1, <2>2, <2>3 DEF TypeWork
<1>4. TypeRead
  BY DEF TypeRead, ReadIdle
<1>5. FinSound /\ WriterSound
  BY FS_EmptySet DEF FinSound, WriterSound, NoFile, Idle
<1>6. FullSound /\ Numbered /\ Running /\ DiskSound
  BY DEF FullSound, Numbered, Running, DiskSound, ReadIdle, FlushIdle, CompactIdle, Busy
<1>7. FlushSound /\ CompactSound
  BY DEF FlushSound, CompactSound, FlushIdle, CompactIdle, Busy
<1>8. ContentSound
  BY DEF ContentSound, Contents, Durable, Entries, Mems
<1>9. ReadSound
  BY DEF ReadSound, ReadIdle
<1> QED
  BY <1>1, <1>2, <1>3, <1>4, <1>5, <1>6, <1>7, <1>8, <1>9 DEF Inv, TypeOK

\* What a lookup finds is a value that has been written.
LEMMA FoundValue ==
    ASSUME NEW es \in SUBSET Entry, IsFiniteSet(es), NEW k, NEW s, Visible(es, k, s) # {}
    PROVE  Found(Newest(Visible(es, k, s))).val \in 0 .. MaxSeq
<1> DEFINE vs == Visible(es, k, s)
<1>1. vs \in SUBSET es
  BY DEF Visible
<1>2. vs \in SUBSET AnyEntry /\ IsFiniteSet(vs) /\ vs # {}
  BY <1>1, EntryTypes, FS_Subset
<1>3. Newest(vs) \in Entry
  BY <1>1, <1>2, SmallestExists DEF Newest
<1> HIDE DEF vs
<1>4. Newest(vs).seq \in 0 .. MaxSeq
  BY <1>3, BoundsAssumption DEF Entry
<1>5. 0 \in 0 .. MaxSeq
  BY BoundsAssumption
<1> QED
  BY <1>4, <1>5 DEF Found, vs

\* The values that the reader returns.
LEMMA AnswersTyped ==
    ASSUME Inv, NEW k
    PROVE  /\ Holding(k) # {} => MemtableAnswer(k) \in 0 .. MaxSeq
           /\ \A s : GetFromVersion(rd.files, file, k, s) \in 0 .. MaxSeq
<1>1. ASSUME Holding(k) # {} PROVE MemtableAnswer(k) \in 0 .. MaxSeq
  <2>1. rd.lo \in 1 .. MaxMems /\ rd.hi \in 0 .. MaxMems /\ MaxMems \in Nat
    BY BoundsAssumption DEF Inv, TypeOK, TypeRead
  <2>2. \A m \in Holding(k) : m \in 1 .. MaxMems /\ m \in Nat /\ m <= rd.hi
    BY <2>1 DEF Holding
  <2>3. \E m \in Holding(k) : \A o \in Holding(k) : o <= m
    <3> DEFINE T == {rd.hi - m : m \in Holding(k)}
    <3>1. T \in SUBSET Nat /\ T # {}
      BY <1>1, <2>1, <2>2
    <3>2. PICK x \in T : \A y \in T : x <= y
      BY <3>1, LeastNumber
    <3>3. PICK m \in Holding(k) : x = rd.hi - m
      BY <3>2
    <3>4. \A o \in Holding(k) : rd.hi - m <= rd.hi - o
      BY <3>2, <3>3
    <3>5. ASSUME NEW o \in Holding(k) PROVE o <= m
      BY <3>4, <2>1, <2>2
    <3> QED
      BY <3>5
  <2> DEFINE m == CHOOSE m \in Holding(k) : \A o \in Holding(k) : o <= m
  <2>4. m \in Holding(k)
    BY <2>3
  <2> HIDE DEF m
  <2>5. table[m] \in SUBSET Entry /\ IsFiniteSet(table[m]) /\ Visible(table[m], k, rd.seq) # {}
    BY <2>2, <2>4 DEF Inv, TypeOK, TypeWrite, FinSound, Holding
  <2>6. Found(Newest(Visible(table[m], k, rd.seq))).val \in 0 .. MaxSeq
    BY <2>5, FoundValue
  <2> QED
    BY <2>6 DEF MemtableAnswer, m
<1>2. ASSUME NEW s PROVE GetFromVersion(rd.files, file, k, s) \in 0 .. MaxSeq
  <2>0. 0 \in 0 .. MaxSeq
    BY BoundsAssumption
  <2>1. CASE Deciding(rd.files, file, k, s) = {}
    BY <2>0, <2>1 DEF GetFromVersion
  <2>2. CASE Deciding(rd.files, file, k, s) # {}
    <3> DEFINE n == CHOOSE n \in Deciding(rd.files, file, k, s) : TRUE
    <3>1. n \in Deciding(rd.files, file, k, s)
      BY <2>2
    <3> HIDE DEF n
    <3>2. n \in rd.files
      BY <3>1 DEF Deciding, Candidates, LevelCandidate, Level
    <3>3. file[n].entries \in SUBSET Entry /\ IsFiniteSet(file[n].entries)
      BY <3>2 DEF Inv, TypeOK, TypeRead, TypeTree, FinSound
    <3>4. GetFromTable(file[n].entries, k, s).val \in 0 .. MaxSeq
      BY <3>3, <2>0, FoundValue DEF GetFromTable, NotInTable
    <3> QED
      BY <2>2, <3>4 DEF GetFromVersion, n
  <2> QED
    BY <2>1, <2>2
<1> QED
  BY <1>1, <1>2

\* The order in which the parts of the database are captured.
LEMMA NextStage ==
    ASSUME Inv, rd.pc \in {"mems", "lookup", "version"}
    PROVE  AfterCapture =
             CASE rd.op = "get" -> (CASE rd.pc = "mems" -> "lookup" [] rd.pc = "lookup" -> "version" [] OTHER -> "ready")
               [] rd.op = "iter" -> IF rd.pc = "mems" THEN "version" ELSE "ready"
               [] OTHER -> IF rd.pc = "version" THEN "mems" ELSE "held"
<1>1. rd.op \in {"get", "iter", "snap"} /\ rd.pc \in Stages(rd.op)
  BY DEF Inv, TypeOK, TypeRead, ReadSound
<1> DEFINE order == CaptureOrder(rd.op)
           i == CHOOSE i \in DOMAIN order : order[i] = rd.pc
<1>2. CASE rd.op = "get"
  <2>1. order = <<"mems", "lookup", "version", "ready">>
    BY <1>2 DEF CaptureOrder
  <2>2. \E j \in DOMAIN order : order[j] = rd.pc
    <3>1. 1 \in DOMAIN order /\ 2 \in DOMAIN order /\ 3 \in DOMAIN order
      BY <2>1
    <3> QED
      BY <2>1, <3>1
  <2>3. i \in DOMAIN order /\ order[i] = rd.pc
    BY <2>2
  <2> HIDE DEF i
  <2>4. i \in {1, 2, 3, 4}
    BY <2>1, <2>3
  <2>5. order[i + 1] = (CASE rd.pc = "mems" -> "lookup" [] rd.pc = "lookup" -> "version" [] OTHER -> "ready")
    BY <2>1, <2>3, <2>4
  <2> QED
    BY <1>2, <2>5 DEF AfterCapture, i
<1>3. CASE rd.op = "iter"
  <2>1. order = <<"mems", "version", "ready">> /\ rd.pc \in {"mems", "version"}
    BY <1>1, <1>3 DEF CaptureOrder, Stages
  <2>2. \E j \in DOMAIN order : order[j] = rd.pc
    <3>1. 1 \in DOMAIN order /\ 2 \in DOMAIN order
      BY <2>1
    <3> QED
      BY <2>1, <3>1
  <2>3. i \in DOMAIN order /\ order[i] = rd.pc
    BY <2>2
  <2> HIDE DEF i
  <2>4. i \in {1, 2, 3}
    BY <2>1, <2>3
  <2>5. order[i + 1] = IF rd.pc = "mems" THEN "version" ELSE "ready"
    BY <2>1, <2>3, <2>4
  <2> QED
    BY <1>3, <2>5 DEF AfterCapture, i
<1>4. CASE rd.op = "snap"
  <2>1. order = <<"version", "mems", "held">> /\ rd.pc \in {"mems", "version"}
    BY <1>1, <1>4 DEF CaptureOrder, Stages
  <2>2. \E j \in DOMAIN order : order[j] = rd.pc
    <3>1. 1 \in DOMAIN order /\ 2 \in DOMAIN order
      BY <2>1
    <3> QED
      BY <2>1, <3>1
  <2>3. i \in DOMAIN order /\ order[i] = rd.pc
    BY <2>2
  <2> HIDE DEF i
  <2>4. i \in {1, 2, 3}
    BY <2>1, <2>3
  <2>5. order[i + 1] = IF rd.pc = "version" THEN "mems" ELSE "held"
    BY <2>1, <2>3, <2>4
  <2> QED
    BY <1>4, <2>5 DEF AfterCapture, i
<1> QED
  BY <1>1, <1>2, <1>3, <1>4

-----------------------------------------------------------------------------
(* Steps that move no entries *)

\* A goroutine that has its tables in hand keeps them, or gives them up.
FlushKeeps == fl' = fl \/ fl'.pc \notin Busy
CompactKeeps == co' = co \/ (co'.pc \notin Busy /\ co'.inputs = {} /\ co'.outputs = {})

\* A step that moves no entries, touches no table and leaves the reader alone
\* keeps the invariant.
LEMMA QuietStep ==
    ASSUME Inv, TypeWrite', TypeWork', WriterSound', Running',
           UNCHANGED <<table, memId, immLo, inserted, treeVars, tableCache, rd>>,
           up' = up \/ (up = "open" /\ up' = "closing"),
           FlushKeeps, CompactKeeps
    PROVE  Inv'
<1> USE DEF Inv, treeVars
<1>1. TypeTree' /\ TypeRead'
  BY DEF TypeOK, TypeTree, TypeRead
<1>2. co'.outputs \subseteq co.outputs /\ co'.inputs \subseteq co.inputs
  BY DEF CompactKeeps
<1>3. FinSound' /\ DiskSound'
  BY DEF FinSound, DiskSound
<1>4. FullSound'
  BY <1>2 DEF FullSound
<1>5. Numbered'
  BY <1>2 DEF Numbered, FlushKeeps
<1>6. FlushSound'
  BY <1>2 DEF FlushSound, FlushKeeps, Busy
<1>7. CompactSound'
  <2>1. CASE co' = co
    BY <2>1 DEF CompactSound
  <2>2. CASE co'.pc \notin Busy /\ co'.inputs = {} /\ co'.outputs = {}
    BY <2>2 DEF CompactSound, Busy
  <2> QED
    BY <2>1, <2>2 DEF CompactKeeps
<1>8. ContentSound'
  <2>1. Durable' = Durable /\ Contents' = Contents
    BY DEF Durable, Contents, Mems
  <2> QED
    BY <2>1 DEF ContentSound
<1>9. ReadSound'
  <2>1. Captured' = Captured /\ \A lo, hi : Mems(lo, hi)' = Mems(lo, hi)
    BY DEF Captured, Mems
  <2> QED
    BY <2>1 DEF ReadSound
<1> QED
  BY <1>1, <1>3, <1>4, <1>5, <1>6, <1>7, <1>8, <1>9 DEF TypeOK

\* A call of Set or Delete, but for its insertion.
LEMMA WriteQuiet ==
    ASSUME Inv, NEW w \in Writers, WriteAlloc(w) \/ WriteStore(w) \/ WriteSignal(w)
    PROVE  Inv'
<1> USE DEF treeVars
<1>1. /\ UNCHANGED <<up, table, memId, immLo, inserted, treeVars, tableCache, rd, compactCh, panic, fl, co, restarts>>
      /\ flushCh' \in {flushCh, TRUE}
  BY DEF WriteAlloc, WriteStore, WriteSignal
<1>2. TypeWrite'
  <2>0. TypeWrite /\ MaxSeq \in Nat
    BY BoundsAssumption DEF Inv, TypeOK
  <2>1. CASE WriteAlloc(w)
    <3>1. PICK k \in Keys, kind \in Kinds :
            wr' = [wr EXCEPT ![w] = [pc |-> "alloc", key |-> k, kind |-> kind, seq |-> seqNum + 1]]
      BY <2>1 DEF WriteAlloc
    <3>2. seqNum' = seqNum + 1 /\ seqNum < MaxSeq /\ lastSeqNum' = lastSeqNum
      BY <2>1 DEF WriteAlloc
    <3>3. seqNum' \in 0 .. MaxSeq /\ seqNum + 1 \in 0 .. MaxSeq
      BY <2>0, <3>2 DEF TypeWrite
    <3>4. wr' \in [Writers -> [pc : {"idle", "alloc", "stored", "signal"}, key : Keys \cup {0},
                              kind : Kinds \cup {0}, seq : 0 .. MaxSeq]]
      BY <2>0, <3>1, <3>3 DEF TypeWrite
    <3> QED
      BY <1>1, <2>0, <3>2, <3>3, <3>4 DEF TypeWrite
  <2>2. CASE WriteStore(w)
    <3>1. wr' \in [Writers -> [pc : {"idle", "alloc", "stored", "signal"}, key : Keys \cup {0},
                              kind : Kinds \cup {0}, seq : 0 .. MaxSeq]]
      BY <2>0, <2>2 DEF TypeWrite, WriteStore
    <3>2. seqNum' = seqNum /\ lastSeqNum' \in 0 .. MaxSeq
      BY <2>0, <2>2 DEF TypeWrite, WriteStore
    <3> QED
      BY <1>1, <2>0, <3>1, <3>2 DEF TypeWrite
  <2>3. CASE WriteSignal(w)
    <3>1. wr' \in [Writers -> [pc : {"idle", "alloc", "stored", "signal"}, key : Keys \cup {0},
                              kind : Kinds \cup {0}, seq : 0 .. MaxSeq]]
      BY <2>0, <2>3 DEF TypeWrite, WriteSignal, Idle
    <3>2. seqNum' = seqNum /\ lastSeqNum' = lastSeqNum
      BY <2>3 DEF WriteSignal
    <3> QED
      BY <1>1, <2>0, <3>1, <3>2 DEF TypeWrite
  <2> QED
    BY <2>1, <2>2, <2>3
<1>3. TypeWork'
  BY <1>1 DEF Inv, TypeOK, TypeWork
<1>4. Running' /\ FlushKeeps /\ CompactKeeps
  BY <1>1 DEF Inv, Running, FlushKeeps, CompactKeeps
<1>5. WriterSound'
  <2>0. WriterSound /\ wr \in [Writers -> [pc : {"idle", "alloc", "stored", "signal"}, key : Keys \cup {0},
                                         kind : Kinds \cup {0}, seq : 0 .. MaxSeq]]
        /\ seqNum \in 0 .. MaxSeq /\ MaxSeq \in Nat
    BY BoundsAssumption DEF Inv, TypeOK, TypeWrite
  <2>1. CASE WriteAlloc(w)
    <3>1. PICK k \in Keys, kind \in Kinds :
            wr' = [wr EXCEPT ![w] = [pc |-> "alloc", key |-> k, kind |-> kind, seq |-> seqNum + 1]]
      BY <2>1 DEF WriteAlloc
    <3>2. seqNum + 1 \in 1 .. MaxSeq
      BY <2>0, <2>1 DEF WriteAlloc
    <3> QED
      BY <2>0, <3>1, <3>2 DEF WriterSound
  <2>2. CASE WriteStore(w)
    BY <2>0, <2>2 DEF WriterSound, WriteStore
  <2>3. CASE WriteSignal(w)
    BY <2>0, <2>3 DEF WriterSound, WriteSignal, Idle
  <2> QED
    BY <2>1, <2>2, <2>3
<1> QED
  BY <1>1, <1>2, <1>3, <1>4, <1>5, QuietStep

\* The flush goroutine wakes up, finds nothing to do, or gives up.
LEMMA FlushQuiet ==
    ASSUME Inv, FlushWake \/ FlushNothing \/ FlushFails
    PROVE  Inv'
<1> USE DEF treeVars, FlushFrame, writeVars
<1>1. UNCHANGED <<up, writeVars, treeVars, tableCache, rd, compactCh, panic, co, restarts>>
  BY DEF FlushWake, FlushNothing, FlushFails
<1>2. /\ fl' \in [pc : {"idle", "loop", "written", "logged", "done"}, num : 0 .. MaxFiles, last : BOOLEAN]
      /\ fl'.pc \in {"idle", "loop", "done"}
      /\ fl'.pc = "loop" => up \in {"open", "closing"}
  <2>0. fl \in [pc : {"idle", "loop", "written", "logged", "done"}, num : 0 .. MaxFiles, last : BOOLEAN]
        /\ 0 \in 0 .. MaxFiles
    BY BoundsAssumption DEF Inv, TypeOK, TypeWork
  <2>1. CASE FlushWake
    <3>1. fl' = [fl EXCEPT !.pc = "loop"] \/ fl' = [fl EXCEPT !.pc = "loop", !.last = TRUE]
      BY <2>1 DEF FlushWake
    <3>2. up \in {"open", "closing"}
      BY <2>1 DEF FlushWake
    <3> QED
      BY <2>0, <3>1, <3>2
  <2>2. CASE FlushNothing \/ FlushFails
    <3>1. fl' = [pc |-> IF fl.last THEN "done" ELSE "idle", num |-> 0, last |-> FALSE]
      BY <2>2 DEF FlushNothing, FlushFails, FlushReturn, FlushIdle
    <3> QED
      BY <2>0, <3>1
  <2> QED
    BY <2>1, <2>2
<1>3. flushCh' \in BOOLEAN
  BY DEF FlushWake, FlushNothing, FlushFails, Inv, TypeOK, TypeWork
<1>4. TypeWrite'
  BY <1>1 DEF Inv, TypeOK, TypeWrite
<1>5. TypeWork'
  BY <1>1, <1>2, <1>3 DEF Inv, TypeOK, TypeWork
<1>6. Running' /\ FlushKeeps /\ CompactKeeps
  BY <1>1, <1>2 DEF Inv, Running, FlushKeeps, CompactKeeps, Busy
<1>7. WriterSound'
  BY <1>1 DEF Inv, WriterSound
<1> QED
  BY <1>1, <1>4, <1>5, <1>6, <1>7, QuietStep

\* The compaction goroutine wakes up, finds nothing to do, or gives up.
LEMMA CompactQuiet ==
    ASSUME Inv, CompactWake \/ CompactNothing \/ CompactFails
    PROVE  Inv'
<1> USE DEF treeVars, CompactFrame, writeVars
<1>1. UNCHANGED <<up, writeVars, treeVars, tableCache, rd, flushCh, panic, fl, restarts>>
  BY DEF CompactWake, CompactNothing, CompactFails
<1>2. /\ co' \in [pc : {"idle", "loop", "written", "logged", "done"},
                 inputs : SUBSET (1 .. MaxFiles), outputs : SUBSET (1 .. MaxFiles)]
      /\ co'.pc \in {"idle", "loop", "done"}
      /\ co'.inputs = {} /\ co'.outputs = {}
      /\ co'.pc = "loop" => up \in {"open", "closing"}
  <2>0. co \in [pc : {"idle", "loop", "written", "logged", "done"},
                inputs : SUBSET (1 .. MaxFiles), outputs : SUBSET (1 .. MaxFiles)]
    BY DEF Inv, TypeOK, TypeWork
  <2>1. CASE CompactWake
    <3>1. co' = [co EXCEPT !.pc = "loop"] \/ co' = [co EXCEPT !.pc = "done"]
      BY <2>1 DEF CompactWake
    <3>2. up \in {"open", "closing"} /\ co.pc = "idle"
      BY <2>1 DEF CompactWake
    <3>3. co.inputs = {} /\ co.outputs = {}
      BY <3>2 DEF Inv, CompactSound, Busy
    <3> QED
      BY <2>0, <3>1, <3>2, <3>3
  <2>2. CASE CompactNothing \/ CompactFails
    BY <2>2 DEF CompactNothing, CompactFails, CompactIdle
  <2> QED
    BY <2>1, <2>2
<1>3. compactCh' \in BOOLEAN
  BY DEF CompactWake, CompactNothing, CompactFails, Inv, TypeOK, TypeWork
<1>4. TypeWrite'
  BY <1>1 DEF Inv, TypeOK, TypeWrite
<1>5. TypeWork'
  BY <1>1, <1>2, <1>3 DEF Inv, TypeOK, TypeWork
<1>6. Running' /\ FlushKeeps /\ CompactKeeps
  BY <1>1, <1>2 DEF Inv, Running, FlushKeeps, CompactKeeps, Busy
<1>7. WriterSound'
  BY <1>1 DEF Inv, WriterSound
<1> QED
  BY <1>1, <1>4, <1>5, <1>6, <1>7, QuietStep

\* Close begins.
LEMMA CloseBeginInv ==
    ASSUME Inv, CloseBegin
    PROVE  Inv'
<1> USE DEF treeVars, writeVars
<1>1. up = "open" /\ up' = "closing"
      /\ UNCHANGED <<writeVars, treeVars, flushCh, compactCh, fl, co, tableCache, rd, panic, restarts>>
  BY DEF CloseBegin
<1>2. TypeWrite' /\ TypeWork'
  BY <1>1 DEF Inv, TypeOK, TypeWrite, TypeWork
<1>3. WriterSound' /\ Running' /\ FlushKeeps /\ CompactKeeps
  BY <1>1 DEF Inv, WriterSound, Running, FlushKeeps, CompactKeeps
<1> QED
  BY <1>1, <1>2, <1>3, QuietStep

\* Close ends: nothing is read through the table cache any more.
LEMMA CloseEndInv ==
    ASSUME Inv, CloseEnd
    PROVE  Inv'
<1> USE DEF treeVars, writeVars
<1>1. up = "closing" /\ up' = "closed" /\ fl.pc = "done" /\ co.pc = "done" /\ tableCache' = {}
      /\ UNCHANGED <<writeVars, treeVars, flushCh, compactCh, fl, co, rd, panic, restarts>>
  BY DEF CloseEnd
<1>2. TypeWrite' /\ TypeTree' /\ TypeWork' /\ TypeRead'
  <2>1. TypeWrite'
    BY <1>1 DEF Inv, TypeOK, TypeWrite
  <2>2. TypeTree'
    BY <1>1 DEF Inv, TypeOK, TypeTree
  <2>3. TypeWork'
    BY <1>1 DEF Inv, TypeOK, TypeWork
  <2>4. TypeRead'
    BY <1>1 DEF Inv, TypeOK, TypeRead
  <2>5. QED
    BY <2>1, <2>2, <2>3, <2>4
<1>3. WriterSound' /\ FinSound' /\ FullSound' /\ Numbered' /\ Running' /\ DiskSound'
  BY <1>1 DEF Inv, WriterSound, FinSound, FullSound, Numbered, Running, DiskSound, Busy
<1>4. FlushSound' /\ CompactSound'
  BY <1>1 DEF Inv, FlushSound, CompactSound, Busy
<1>5. ContentSound'
  <2>1. Durable' = Durable /\ Contents' = Contents
    BY <1>1 DEF Durable, Contents, Mems
  <2> QED
    BY <1>1, <2>1 DEF Inv, ContentSound
<1>6. ReadSound'
  BY <1>1 DEF Inv, ReadSound
<1> QED
  BY <1>2, <1>3, <1>4, <1>5, <1>6 DEF Inv, TypeOK

-----------------------------------------------------------------------------
(* The reader *)

\* A step of the reader changes nothing but the reader and the table cache.
LEMMA ReaderStep ==
    ASSUME Inv, UNCHANGED ReadFrame, TypeRead', ReadSound',
           panic' \in BOOLEAN,
           tableCache \subseteq tableCache', tableCache' \subseteq 1 .. MaxFiles,
           rd'.files \subseteq rd.files \cup version,
           up = "down" => rd'.pc = "idle",
           up # "closed" => rd'.files \subseteq onDisk \cup tableCache'
    PROVE  Inv'
<1> USE DEF treeVars, writeVars, ReadFrame
<1>1. TypeWrite' /\ TypeTree' /\ TypeWork'
  BY DEF Inv, TypeOK, TypeWrite, TypeTree, TypeWork
<1>2. WriterSound' /\ FinSound' /\ FullSound' /\ Numbered'
  BY DEF Inv, WriterSound, FinSound, FullSound, Numbered
<1>3. Running' /\ DiskSound'
  BY DEF Inv, Running, DiskSound
<1>4. FlushSound' /\ CompactSound'
  BY DEF Inv, FlushSound, CompactSound
<1>5. ContentSound'
  <2>1. Durable' = Durable /\ Contents' = Contents
    BY DEF Durable, Contents, Mems
  <2> QED
    BY <2>1 DEF Inv, ContentSound
<1> QED
  BY <1>1, <1>2, <1>3, <1>4, <1>5 DEF Inv, TypeOK

\* What the tables of a version look like to the step that opens them.
LEMMA OpenTablesKeeps ==
    ASSUME Inv, NEW ns, OpenTables(ns)
    PROVE  /\ panic' \in BOOLEAN
           /\ tableCache \subseteq tableCache' /\ tableCache' \subseteq 1 .. MaxFiles
<1>1. CASE up = "closed"
  <2>1. panic' = (panic \/ ns \cap onDisk # {}) /\ tableCache' = tableCache
    BY <1>1 DEF OpenTables
  <2>2. panic' \in BOOLEAN
    BY <2>1 DEF Inv, TypeOK, TypeWork
  <2> QED
    BY <2>1, <2>2 DEF Inv, TypeOK, TypeTree
<1>2. CASE up # "closed"
  <2>1. tableCache' = tableCache \cup (ns \cap onDisk) /\ panic' = panic
    BY <1>2 DEF OpenTables
  <2>2. panic' \in BOOLEAN
    BY <2>1 DEF Inv, TypeOK, TypeWork
  <2> QED
    BY <2>1, <2>2 DEF Inv, TypeOK, TypeTree
<1> QED
  BY <1>1, <1>2

\* Where a call starts.
LEMMA FirstStage ==
    ASSUME NEW op \in {"get", "iter", "snap"}
    PROVE  CaptureOrder(op)[1] = IF op = "snap" THEN "version" ELSE "mems"
<1> QED
  BY DEF CaptureOrder

\* A call begins, with what has been written so far to be seen.
LEMMA ReadBeginInv ==
    ASSUME Inv, NEW op \in ReadOps, NEW k \in Keys, ReadBegin(op, k)
    PROVE  Inv'
<1> DEFINE first == CaptureOrder(op)[1]
<1>0. op \in {"get", "iter", "snap"}
  BY ReadOpsAssumption
<1>1. first = IF op = "snap" THEN "version" ELSE "mems"
  BY <1>0, FirstStage
<1> DEFINE s == IF op = "iter" THEN MaxSeq ELSE seqNum
<1>2. s \in 0 .. MaxSeq
  BY BoundsAssumption DEF Inv, TypeOK, TypeWrite
<1>3. UNCHANGED ReadFrame /\ UNCHANGED <<tableCache, panic>> /\ up # "down"
  BY DEF ReadBegin
<1> HIDE DEF first
<1>4. rd' = [pc |-> first, op |-> op, key |-> k, seq |-> s,
             lo |-> 1, hi |-> 0, files |-> {}, val |-> 0, must |-> inserted, oldest |-> 0]
  BY DEF ReadBegin, ReadIdle, first
<1> HIDE DEF s
<1>5. TypeRead'
  <2>1. inserted \in SUBSET Entry
    BY DEF Inv, TypeOK, TypeWrite
  <2>2. 1 \in 1 .. MaxMems /\ 0 \in 0 .. MaxMems /\ 0 \in 0 .. MaxSeq
    BY BoundsAssumption
  <2>3. first \in {"idle", "mems", "lookup", "version", "ready", "held", "done"}
    BY <1>1
  <2> QED
    BY <1>0, <1>2, <1>4, <2>1, <2>2, <2>3 DEF TypeRead
<1>6. ReadSound'
  <2>1. rd'.pc = first /\ rd'.op = op /\ rd'.must = inserted /\ inserted' = inserted
    BY <1>3, <1>4 DEF ReadFrame, writeVars
  <2>2. first \in Stages(op)
    BY <1>0, <1>1 DEF Stages
  <2>3. /\ rd'.pc # "idle" => rd'.pc \in Stages(rd'.op)
        /\ rd'.op # "snap" => rd'.pc = "mems" /\ rd'.must \subseteq inserted'
        /\ rd'.op = "snap" => rd'.pc = "version" /\ rd'.must \subseteq inserted'
    BY <1>1, <2>1, <2>2
  <2> QED
    BY <2>3 DEF ReadSound
<1>7. rd'.files = {}
  BY <1>4
<1>8. panic' \in BOOLEAN
  BY <1>3 DEF Inv, TypeOK, TypeWork
<1>9. tableCache' \subseteq 1 .. MaxFiles /\ tableCache \subseteq tableCache'
  BY <1>3 DEF Inv, TypeOK, TypeTree
<1> QED
  BY <1>3, <1>5, <1>6, <1>7, <1>8, <1>9, ReaderStep

\* The call ends.
LEMMA ReadEndInv ==
    ASSUME Inv, ReadEnd
    PROVE  Inv'
<1>1. UNCHANGED ReadFrame /\ UNCHANGED <<tableCache, panic>> /\ rd' = ReadIdle
  BY DEF ReadEnd
<1>2. TypeRead'
  BY <1>1, BoundsAssumption DEF TypeRead, ReadIdle
<1>3. rd'.pc = "idle" /\ rd'.files = {}
  BY <1>1 DEF ReadIdle
<1>4. ReadSound'
  BY <1>3 DEF ReadSound
<1>5. panic' \in BOOLEAN
  BY <1>1 DEF Inv, TypeOK, TypeWork
<1>6. tableCache' \subseteq 1 .. MaxFiles /\ tableCache \subseteq tableCache'
  BY <1>1 DEF Inv, TypeOK, TypeTree
<1> QED
  BY <1>1, <1>2, <1>3, <1>4, <1>5, <1>6, ReaderStep

\* While the database is not down, what has been written is in the memtables and
\* in the files of the version.
LEMMA WrittenWhere ==
    ASSUME Inv, up # "down"
    PROVE  inserted = Mems(immLo, memId) \cup Entries(version, file)
<1> QED
  BY DEF Inv, ContentSound, Contents

\* The reader takes the memtables.
LEMMA ReadMemsInv ==
    ASSUME Inv, ReadMems
    PROVE  Inv'
<1> DEFINE next == AfterCapture
<1>1. UNCHANGED ReadFrame /\ UNCHANGED <<tableCache, panic>> /\ rd.pc = "mems"
      /\ rd' = [rd EXCEPT !.lo = immLo, !.hi = memId, !.pc = next]
  BY DEF ReadMems
<1>2. /\ rd.op = "get" => next = "lookup"
      /\ rd.op = "iter" => next = "version"
      /\ rd.op = "snap" => next = "held"
  BY <1>1, NextStage
<1> HIDE DEF next
<1>3. TypeRead
  BY DEF Inv, TypeOK
<1>4. rd.op \in {"get", "iter", "snap"}
  BY <1>3 DEF TypeRead
<1>5. /\ rd'.pc = next /\ rd'.op = rd.op /\ rd'.lo = immLo /\ rd'.hi = memId /\ rd'.files = rd.files
      /\ rd'.must = rd.must /\ rd'.oldest = rd.oldest
  BY <1>1, <1>3 DEF TypeRead
<1>6. TypeRead'
  <2>1. immLo \in 1 .. MaxMems /\ memId \in 0 .. MaxMems
    BY BoundsAssumption DEF Inv, TypeOK, TypeWrite
  <2>2. next \in {"idle", "mems", "lookup", "version", "ready", "held", "done"}
    BY <1>2, <1>4
  <2> QED
    BY <1>1, <1>3, <2>1, <2>2 DEF TypeRead
<1>7. up # "down"
  BY <1>1 DEF Inv, Running
<1>8. UNCHANGED <<up, table, memId, immLo, inserted, version, file>>
  BY <1>1 DEF ReadFrame, writeVars, treeVars
<1>9. ReadSound'
  <2>1. rd'.pc \in Stages(rd'.op)
    BY <1>2, <1>4, <1>5 DEF Stages
  <2>2. ASSUME up # "closed", rd.op # "snap"
        PROVE  rd.must \subseteq Mems(immLo, memId) \cup Entries(version, file)
    BY <1>1, <1>7, <2>2, WrittenWhere DEF Inv, ReadSound
  <2>3. ASSUME up # "closed", rd.op = "snap", immLo = rd.oldest
        PROVE  rd.must \subseteq Mems(immLo, memId) \cup Entries(rd.files, file)
    BY <1>1, <2>3 DEF Inv, ReadSound
  <2>4. Mems(rd.lo, rd.hi)' = Mems(immLo, memId) /\ Captured' = Mems(immLo, memId) \cup Entries(rd.files, file)
    <3>1. Mems(rd.lo, rd.hi)' = Mems(immLo, memId) /\ Entries(rd.files, file)' = Entries(rd.files, file)
      BY <1>5, <1>8 DEF Mems
    <3> QED
      BY <3>1, <1>5, <1>8 DEF Captured
  <2>5. CASE rd.op = "snap"
    BY <1>2, <1>5, <1>8, <2>1, <2>3, <2>4, <2>5 DEF ReadSound
  <2>6. CASE rd.op # "snap"
    <3>1. rd'.pc \in {"lookup", "version"}
      BY <1>2, <1>4, <1>5, <2>6
    <3>2. Entries(version, file)' = Entries(version, file)
      BY <1>8
    <3>3. ~(rd'.op = "snap")
      BY <1>5, <2>6
    <3>4. up' # "closed" => rd'.must \subseteq Mems(rd.lo, rd.hi)' \cup Entries(version, file)'
      BY <1>5, <1>8, <2>2, <2>4, <2>6, <3>2
    <3> QED
      BY <2>1, <3>1, <3>3, <3>4 DEF ReadSound
  <2> QED
    BY <2>5, <2>6
<1>10. panic' \in BOOLEAN
  BY <1>1 DEF Inv, TypeOK, TypeWork
<1>11. tableCache' \subseteq 1 .. MaxFiles /\ tableCache \subseteq tableCache'
  BY <1>1 DEF Inv, TypeOK, TypeTree
<1>12. up # "closed" => rd'.files \subseteq onDisk \cup tableCache'
  BY <1>1, <1>5 DEF Inv, DiskSound
<1> QED
  BY <1>1, <1>5, <1>6, <1>7, <1>9, <1>10, <1>11, <1>12, ReaderStep

\* The reader takes the version.
LEMMA ReadVersionInv ==
    ASSUME Inv, ReadVersion
    PROVE  Inv'
<1> DEFINE next == AfterCapture
           old == IF rd.op = "snap" THEN immLo ELSE 0
<1>1. UNCHANGED ReadFrame /\ UNCHANGED <<tableCache, panic>> /\ rd.pc = "version"
      /\ rd' = [rd EXCEPT !.files = version, !.pc = next, !.oldest = old]
  BY DEF ReadVersion
<1>2. /\ rd.op \in {"get", "iter"} => next = "ready"
      /\ rd.op = "snap" => next = "mems"
  BY <1>1, NextStage
<1> HIDE DEF next
<1>3. TypeRead
  BY DEF Inv, TypeOK
<1>4. rd.op \in {"get", "iter", "snap"}
  BY <1>3 DEF TypeRead
<1>5. immLo \in 1 .. MaxMems /\ old \in 0 .. MaxMems /\ memId \in Nat /\ immLo \in Nat /\ immLo >= 1
  BY BoundsAssumption DEF Inv, TypeOK, TypeWrite
<1>6. rd.op = "snap" => old = immLo
  OBVIOUS
<1> HIDE DEF old
<1>7. /\ rd'.pc = next /\ rd'.op = rd.op /\ rd'.lo = rd.lo /\ rd'.hi = rd.hi /\ rd'.files = version
      /\ rd'.must = rd.must /\ rd'.oldest = old
  BY <1>1, <1>3 DEF TypeRead
<1>8. TypeRead'
  <2>1. version \in SUBSET (1 .. MaxFiles)
    BY DEF Inv, TypeOK, TypeTree
  <2>2. next \in {"idle", "mems", "lookup", "version", "ready", "held", "done"}
    BY <1>2, <1>4
  <2> QED
    BY <1>1, <1>3, <1>5, <2>1, <2>2 DEF TypeRead
<1>9. up # "down"
  BY <1>1 DEF Inv, Running
<1>10. UNCHANGED <<up, table, memId, immLo, inserted, version, file>>
  BY <1>1 DEF ReadFrame, writeVars, treeVars
<1>11. ReadSound'
  <2>1. rd'.pc \in Stages(rd'.op)
    BY <1>2, <1>4, <1>7 DEF Stages
  <2>2. CASE rd.op = "snap"
    <3>1. rd'.oldest \in 1 .. immLo'
      BY <1>5, <1>6, <1>7, <1>10, <2>2
    <3>2. up # "closed" => rd.must \subseteq Mems(immLo, memId) \cup Entries(version, file)
      BY <1>1, <1>9, <2>2, WrittenWhere DEF Inv, ReadSound
    <3>3. Mems(rd.oldest, memId)' = Mems(immLo, memId) /\ Entries(rd.files, file)' = Entries(version, file)
      BY <1>6, <1>7, <1>10, <2>2 DEF Mems
    <3>4. up' # "closed" => rd'.must \subseteq Mems(rd.oldest, memId)' \cup Entries(rd.files, file)'
      BY <1>7, <1>10, <3>2, <3>3
    <3>5. rd'.pc = "mems" /\ rd'.op = "snap"
      BY <1>2, <1>7, <2>2
    <3> QED
      BY <2>1, <3>1, <3>4, <3>5 DEF ReadSound
  <2>3. CASE rd.op # "snap"
    <3>1. up # "closed" => rd.must \subseteq Mems(rd.lo, rd.hi) \cup Entries(version, file)
      BY <1>1, <2>3 DEF Inv, ReadSound
    <3>2. Captured' = Mems(rd.lo, rd.hi) \cup Entries(version, file)
      <4>1. Mems(rd.lo, rd.hi)' = Mems(rd.lo, rd.hi) /\ Entries(rd.files, file)' = Entries(version, file)
        BY <1>7, <1>10 DEF Mems
      <4> QED
        BY <4>1, <1>7, <1>10 DEF Captured
    <3>3. rd'.pc = "ready" /\ rd'.op # "snap"
      BY <1>2, <1>4, <1>7, <2>3
    <3> QED
      BY <1>7, <1>10, <2>1, <3>1, <3>2, <3>3 DEF ReadSound
  <2> QED
    BY <2>2, <2>3
<1>12. panic' \in BOOLEAN
  BY <1>1 DEF Inv, TypeOK, TypeWork
<1>13. tableCache' \subseteq 1 .. MaxFiles /\ tableCache \subseteq tableCache'
  BY <1>1 DEF Inv, TypeOK, TypeTree
<1>14. rd'.files \subseteq onDisk \cup tableCache'
  BY <1>7 DEF Inv, DiskSound
<1> QED
  BY <1>1, <1>7, <1>8, <1>9, <1>11, <1>12, <1>13, <1>14, ReaderStep

\* Get returns.
LEMMA GetReturnsSound ==
    ASSUME Inv, NEW v \in 0 .. MaxSeq, GetReturns(v)
    PROVE  /\ TypeRead' /\ ReadSound' /\ rd'.files = {}
<1>1. TypeRead
  BY DEF Inv, TypeOK
<1>2. rd' = [pc |-> "done", op |-> "get", key |-> rd.key, seq |-> 0,
             lo |-> 1, hi |-> 0, files |-> {}, val |-> v, must |-> rd.must, oldest |-> 0]
  BY DEF GetReturns, ReadIdle
<1>3. TypeRead'
  BY <1>1, <1>2, BoundsAssumption DEF TypeRead
<1>4. rd'.pc = "done" /\ rd'.op = "get" /\ rd'.files = {}
  BY <1>2
<1>5. ReadSound'
  BY <1>4 DEF ReadSound, Stages
<1> QED
  BY <1>3, <1>4, <1>5

\* Get looks into the memtables, and returns if it finds the key there.
LEMMA GetMemtablesInv ==
    ASSUME Inv, GetMemtables
    PROVE  Inv'
<1>1. UNCHANGED ReadFrame /\ UNCHANGED <<tableCache, panic>> /\ rd.pc = "lookup"
  BY DEF GetMemtables
<1>2. up # "down"
  BY <1>1 DEF Inv, Running
<1>3. rd.op = "get"
  <2>1. rd.op \in {"get", "iter", "snap"} /\ "lookup" \in Stages(rd.op)
    BY <1>1 DEF Inv, TypeOK, TypeRead, ReadSound
  <2> QED
    BY <2>1 DEF Stages
<1>4. TypeRead' /\ ReadSound' /\ rd'.files \subseteq rd.files
  <2>1. CASE Holding(rd.key) = {}
    <3> DEFINE next == AfterCapture
    <3>1. rd' = [rd EXCEPT !.pc = next]
      BY <2>1 DEF GetMemtables
    <3>2. next = "version"
      BY <1>1, <1>3, NextStage
    <3> HIDE DEF next
    <3>3. TypeRead
      BY DEF Inv, TypeOK
    <3>4. /\ rd'.pc = "version" /\ rd'.op = "get" /\ rd'.lo = rd.lo /\ rd'.hi = rd.hi
          /\ rd'.files = rd.files /\ rd'.must = rd.must
      BY <1>3, <3>1, <3>2, <3>3 DEF TypeRead
    <3>5. TypeRead'
      BY <3>1, <3>2, <3>3 DEF TypeRead
    <3>6. UNCHANGED <<up, table, version, file>>
      BY <1>1 DEF ReadFrame, writeVars, treeVars
    <3>7. up # "closed" => rd.must \subseteq Mems(rd.lo, rd.hi) \cup Entries(version, file)
      BY <1>1, <1>3 DEF Inv, ReadSound
    <3>8. Mems(rd.lo, rd.hi)' = Mems(rd.lo, rd.hi) /\ Entries(version, file)' = Entries(version, file)
      BY <3>4, <3>6 DEF Mems
    <3>9. ReadSound'
      BY <3>4, <3>6, <3>7, <3>8 DEF ReadSound, Stages
    <3> QED
      BY <3>4, <3>5, <3>9
  <2>2. CASE Holding(rd.key) # {}
    <3> DEFINE v == MemtableAnswer(rd.key)
    <3>1. v \in 0 .. MaxSeq
      BY <2>2, AnswersTyped
    <3>2. GetReturns(v)
      BY <2>2 DEF GetMemtables
    <3> HIDE DEF v
    <3> QED
      BY <3>1, <3>2, GetReturnsSound
  <2> QED
    BY <2>1, <2>2
<1>5. panic' \in BOOLEAN
  BY <1>1 DEF Inv, TypeOK, TypeWork
<1>6. tableCache' \subseteq 1 .. MaxFiles /\ tableCache \subseteq tableCache'
  BY <1>1 DEF Inv, TypeOK, TypeTree
<1>7. up # "closed" => rd'.files \subseteq onDisk \cup tableCache'
  BY <1>1, <1>4 DEF Inv, DiskSound
<1> QED
  BY <1>1, <1>2, <1>4, <1>5, <1>6, <1>7, ReaderStep

\* Get looks into the tables and returns.
LEMMA GetTablesInv ==
    ASSUME Inv, GetTables
    PROVE  Inv'
<1>1. UNCHANGED ReadFrame /\ rd.pc = "ready" /\ OpenTables(Opened(rd.files, file, rd.key, rd.seq))
  BY DEF GetTables
<1>2. up # "down"
  BY <1>1 DEF Inv, Running
<1> DEFINE v == GetFromVersion(rd.files, file, rd.key, rd.seq)
<1>3. v \in 0 .. MaxSeq
  BY AnswersTyped
<1>4. GetReturns(v)
  BY DEF GetTables
<1> HIDE DEF v
<1>5. TypeRead' /\ ReadSound' /\ rd'.files = {}
  BY <1>3, <1>4, GetReturnsSound
<1> DEFINE ns == Opened(rd.files, file, rd.key, rd.seq)
<1>6. OpenTables(ns)
  BY <1>1
<1> HIDE DEF ns
<1>7. panic' \in BOOLEAN /\ tableCache \subseteq tableCache' /\ tableCache' \subseteq 1 .. MaxFiles
  BY <1>6, OpenTablesKeeps
<1> QED
  BY <1>1, <1>2, <1>5, <1>7, ReaderStep

\* NewIterator opens its tables; all of them can be opened, unless Close has
\* ended.
LEMMA IterTablesInv ==
    ASSUME Inv, IterTables
    PROVE  Inv'
<1> DEFINE fs == rd.files \cap (onDisk \cup tableCache)
           ns == rd.files
<1>1. UNCHANGED ReadFrame /\ rd.pc = "ready" /\ rd.op = "iter" /\ OpenTables(ns)
      /\ rd' = [rd EXCEPT !.pc = "held", !.files = fs]
  BY DEF IterTables
<1>2. up # "down"
  BY <1>1 DEF Inv, Running
<1>3. up # "closed" => fs = rd.files
  BY DEF Inv, DiskSound
<1>4. fs \subseteq rd.files /\ fs \subseteq onDisk \cup tableCache
  OBVIOUS
<1> HIDE DEF fs, ns
<1>5. TypeRead
  BY DEF Inv, TypeOK
<1>6. TypeRead'
  <2>1. fs \in SUBSET (1 .. MaxFiles)
    BY <1>4, <1>5 DEF TypeRead
  <2> QED
    BY <1>1, <1>5, <2>1 DEF TypeRead
<1>7. /\ rd'.pc = "held" /\ rd'.op = "iter" /\ rd'.lo = rd.lo /\ rd'.hi = rd.hi /\ rd'.files = fs
      /\ rd'.must = rd.must
  BY <1>1, <1>5 DEF TypeRead
<1>8. ReadSound'
  <2>1. UNCHANGED <<up, table, file>>
    BY <1>1 DEF ReadFrame, writeVars, treeVars
  <2>2. up # "closed" => rd.must \subseteq Captured
    BY <1>1 DEF Inv, ReadSound
  <2>3. up # "closed" => Captured' = Captured
    BY <1>3, <1>7, <2>1 DEF Captured, Mems
  <2> QED
    BY <1>7, <2>1, <2>2, <2>3 DEF ReadSound, Stages
<1>9. panic' \in BOOLEAN /\ tableCache \subseteq tableCache' /\ tableCache' \subseteq 1 .. MaxFiles
  BY <1>1, OpenTablesKeeps
<1>10. rd'.files \subseteq onDisk \cup tableCache'
  BY <1>4, <1>7, <1>9
<1> QED
  BY <1>1, <1>2, <1>4, <1>6, <1>7, <1>8, <1>9, <1>10, ReaderStep

\* A snapshot is read.
LEMMA SnapshotGetInv ==
    ASSUME Inv, NEW k \in Keys, SnapshotGet(k)
    PROVE  Inv'
<1> DEFINE ns == Opened(rd.files, file, k, rd.seq)
<1>1. UNCHANGED ReadFrame /\ rd' = rd /\ rd.pc = "held" /\ OpenTables(ns)
  BY DEF SnapshotGet
<1> HIDE DEF ns
<1>2. panic' \in BOOLEAN /\ tableCache \subseteq tableCache' /\ tableCache' \subseteq 1 .. MaxFiles
  BY <1>1, OpenTablesKeeps
<1>3. TypeRead'
  BY <1>1 DEF Inv, TypeOK, TypeRead
<1>4. ReadSound'
  <2>1. UNCHANGED <<up, table, memId, immLo, inserted, version, file>>
    BY <1>1 DEF ReadFrame, writeVars, treeVars
  <2> QED
    BY <1>1, <2>1 DEF Inv, ReadSound, Captured, Mems
<1>5. up # "down"
  BY <1>1 DEF Inv, Running
<1>6. up # "closed" => rd'.files \subseteq onDisk \cup tableCache'
  BY <1>1, <1>2 DEF Inv, DiskSound
<1> QED
  BY <1>1, <1>2, <1>3, <1>4, <1>5, <1>6, ReaderStep

-----------------------------------------------------------------------------
(* Steps that move entries *)

\* Being in one of the memtables.
LEMMA InMems ==
    ASSUME NEW lo, NEW hi, NEW e
    PROVE  e \in Mems(lo, hi) <=> \E m \in lo .. hi : e \in table[m]
<1> QED
  BY DEF Mems

\* New files leave alone the ones that somebody refers to.
LEMMA OldFiles ==
    ASSUME Inv, up # "down", NEW f, \A n \in 1 .. MaxFiles : n < nextFileNum => f[n] = file[n]
    PROVE  /\ \A n \in version \cup manifest.files \cup rd.files \cup co.inputs \cup co.outputs :
                n < nextFileNum /\ n \in 1 .. MaxFiles /\ f[n] = file[n]
           /\ Entries(version, f) = Entries(version, file)
           /\ Entries(manifest.files, f) = Entries(manifest.files, file)
           /\ Entries(rd.files, f) = Entries(rd.files, file)
           /\ Entries(co.inputs, f) = Entries(co.inputs, file)
           /\ Entries(co.outputs, f) = Entries(co.outputs, file)
<1>1. version \cup manifest.files \cup rd.files \cup co.inputs \cup co.outputs \subseteq 1 .. MaxFiles
  BY DEF Inv, TypeOK, TypeTree, TypeRead, TypeWork
<1>2. \A n \in version \cup manifest.files \cup rd.files \cup co.inputs \cup co.outputs :
        n < nextFileNum /\ n \in 1 .. MaxFiles /\ f[n] = file[n]
  BY <1>1 DEF Inv, Numbered
<1>3. Entries(version, f) = Entries(version, file)
  BY <1>2, EntriesSame
<1>4. Entries(manifest.files, f) = Entries(manifest.files, file)
  BY <1>2, EntriesSame
<1>5. Entries(rd.files, f) = Entries(rd.files, file)
  BY <1>2, EntriesSame
<1>6. Entries(co.inputs, f) = Entries(co.inputs, file)
  BY <1>2, EntriesSame
<1>7. Entries(co.outputs, f) = Entries(co.outputs, file)
  BY <1>2, EntriesSame
<1> QED
  BY <1>2, <1>3, <1>4, <1>5, <1>6, <1>7

\* What a reader holds, and what it has yet to capture, only grows under the
\* steps of the others.
LEMMA ReadKept ==
    ASSUME Inv, TypeWrite', rd' = rd, up' = up, up # "down",
           \A m \in 1 .. MaxMems : table[m] \subseteq table'[m],
           \A n \in 1 .. MaxFiles : n < nextFileNum => file'[n] = file[n],
           inserted \subseteq inserted',
           Entries(version, file) \subseteq Entries(version', file'),
           immLo <= immLo', memId <= memId'
    PROVE  ReadSound'
<1>1. /\ rd.lo \in Nat /\ rd.lo >= 1 /\ rd.hi \in Nat /\ rd.hi <= MaxMems /\ MaxMems \in Nat
      /\ rd.oldest \in Nat
  BY BoundsAssumption DEF Inv, TypeOK, TypeRead
<1>2. memId \in Nat /\ memId' \in Nat /\ memId' <= MaxMems /\ immLo \in Nat /\ immLo' \in Nat
  BY BoundsAssumption DEF Inv, TypeOK, TypeWrite
<1>3. Entries(rd.files, file') = Entries(rd.files, file)
  BY OldFiles
<1>4. Mems(rd.lo, rd.hi) \subseteq Mems(rd.lo, rd.hi)'
  <2>1. \A m \in rd.lo .. rd.hi : m \in 1 .. MaxMems
    BY <1>1
  <2>2. \A m \in rd.lo .. rd.hi : table[m] \subseteq table'[m]
    BY <2>1
  <2> QED
    BY <2>2 DEF Mems
<1>5. Captured \subseteq Captured'
  BY <1>3, <1>4 DEF Captured
<1>6. rd.oldest >= 1 => Mems(rd.oldest, memId) \subseteq Mems(rd.oldest, memId)'
  <2> SUFFICES ASSUME rd.oldest >= 1 PROVE Mems(rd.oldest, memId) \subseteq Mems(rd.oldest, memId)'
    OBVIOUS
  <2>1. \A m \in rd.oldest .. memId : m \in 1 .. MaxMems /\ m \in rd.oldest .. memId'
    BY <1>1, <1>2
  <2>2. \A m \in rd.oldest .. memId : m \in rd.oldest .. memId' /\ table[m] \subseteq table'[m]
    BY <2>1
  <2> QED
    BY <2>2 DEF Mems
<1>7. rd.pc # "idle" => rd.pc \in Stages(rd.op)
  BY DEF Inv, ReadSound
<1>8. ASSUME up # "closed", rd.op # "snap"
      PROVE  /\ rd.pc = "mems" => rd.must \subseteq inserted'
             /\ rd.pc \in {"lookup", "version"} =>
                  rd.must \subseteq Mems(rd.lo, rd.hi)' \cup Entries(version', file')
             /\ rd.pc \in {"ready", "held"} => rd.must \subseteq Captured'
  <2>1. /\ rd.pc = "mems" => rd.must \subseteq inserted
        /\ rd.pc \in {"lookup", "version"} => rd.must \subseteq Mems(rd.lo, rd.hi) \cup Entries(version, file)
        /\ rd.pc \in {"ready", "held"} => rd.must \subseteq Captured
    BY <1>8 DEF Inv, ReadSound
  <2> QED
    BY <2>1, <1>4, <1>5
<1>9. ASSUME up # "closed", rd.op = "snap"
      PROVE  /\ rd.pc = "version" => rd.must \subseteq inserted'
             /\ rd.pc = "mems" =>
                  /\ rd.oldest \in 1 .. immLo'
                  /\ rd.must \subseteq Mems(rd.oldest, memId)' \cup Entries(rd.files, file')
             /\ rd.pc = "held" /\ rd.lo = rd.oldest => rd.must \subseteq Captured'
  <2>1. /\ rd.pc = "version" => rd.must \subseteq inserted
        /\ rd.pc = "mems" =>
             /\ rd.oldest \in 1 .. immLo
             /\ rd.must \subseteq Mems(rd.oldest, memId) \cup Entries(rd.files, file)
        /\ rd.pc = "held" /\ rd.lo = rd.oldest => rd.must \subseteq Captured
    BY <1>9 DEF Inv, ReadSound
  <2>2. rd.pc = "mems" => rd.oldest \in 1 .. immLo' /\ rd.oldest >= 1
    BY <2>1, <1>1, <1>2
  <2> QED
    BY <2>1, <2>2, <1>3, <1>5, <1>6
<1> QED
  BY <1>7, <1>8, <1>9 DEF ReadSound

\* Set and Delete insert their entry into the active memtable.
LEMMA WriteInsertInv ==
    ASSUME Inv, NEW w \in Writers, WriteInsert(w)
    PROVE  Inv'
<1> DEFINE e == [key |-> wr[w].key, seq |-> wr[w].seq, kind |-> wr[w].kind]
           full == Cardinality(table[memId]) >= MemCap
           m == IF full THEN memId + 1 ELSE memId
<1>1. /\ up # "down" /\ wr[w].pc = "stored" /\ m <= MaxMems /\ memId' = m
      /\ table' = [table EXCEPT ![m] = @ \cup {e}]
      /\ inserted' = inserted \cup {e}
      /\ wr' = [wr EXCEPT ![w] = IF immLo < m THEN [Idle EXCEPT !.pc = "signal"] ELSE Idle]
      /\ UNCHANGED <<up, seqNum, lastSeqNum, immLo, treeVars, flushCh, compactCh, fl, co, tableCache, rd, panic, restarts>>
  BY DEF WriteInsert
<1>w. \E r \in {Idle, [Idle EXCEPT !.pc = "signal"]} : wr' = [wr EXCEPT ![w] = r]
  BY <1>1
<1>2. e \in Entry
  BY <1>1 DEF Inv, WriterSound, Entry
<1>3. TypeWrite /\ memId \in 1 .. MaxMems /\ MaxMems \in Nat /\ immLo \in 1 .. memId
  BY BoundsAssumption DEF Inv, TypeOK, TypeWrite
<1>4. m \in 1 .. MaxMems /\ memId <= m /\ (m = memId \/ m = memId + 1) /\ immLo \in 1 .. m
  BY <1>1, <1>3
<1>5. m # memId => table[memId] # {}
  <2>1. Cardinality({}) = 0
    BY FS_EmptySet
  <2>2. MemCap \in Nat /\ MemCap # 0
    BY SizesAssumption
  <2>3. ASSUME table[memId] = {} PROVE ~full
    BY <2>1, <2>2, <2>3
  <2> QED
    BY <2>3
<1> HIDE DEF e, m, full
<1>6. UNCHANGED treeVars /\ UNCHANGED <<up, immLo, fl, co, tableCache, rd>>
  BY <1>1
<1>7. UNCHANGED <<version, file, nextFileNum, manifest, onDisk>>
  BY <1>1 DEF treeVars
<1>8. /\ \A o \in 1 .. MaxMems : o # m => table'[o] = table[o]
      /\ table'[m] = table[m] \cup {e}
  BY <1>1, <1>3, <1>4 DEF TypeWrite
<1>9. TypeWrite'
  <2>1. wr' \in [Writers -> [pc : {"idle", "alloc", "stored", "signal"}, key : Keys \cup {0},
                            kind : Kinds \cup {0}, seq : 0 .. MaxSeq]]
    BY <1>w, <1>3, BoundsAssumption DEF TypeWrite, Idle
  <2>2. table' \in [1 .. MaxMems -> SUBSET Entry]
    BY <1>1, <1>2, <1>3, <1>4 DEF TypeWrite
  <2>3. memId' \in 1 .. MaxMems /\ immLo' \in 1 .. memId' /\ inserted' \subseteq Entry
    BY <1>1, <1>2, <1>3, <1>4 DEF TypeWrite
  <2> QED
    BY <1>1, <1>3, <2>1, <2>2, <2>3 DEF TypeWrite
<1>10. TypeTree' /\ TypeRead'
  BY <1>6, <1>7 DEF Inv, TypeOK, TypeTree, TypeRead
<1>11. TypeWork'
  BY <1>1 DEF Inv, TypeOK, TypeWork
<1>12. WriterSound'
  <2>1. \A v \in Writers : wr'[v] = wr[v] \/ wr'[v] \in {Idle, [Idle EXCEPT !.pc = "signal"]}
    BY <1>w, <1>3 DEF TypeWrite
  <2>2. \A r \in {Idle, [Idle EXCEPT !.pc = "signal"]} : r.pc \in {"idle", "signal"}
    BY DEF Idle
  <2> QED
    BY <2>1, <2>2 DEF Inv, WriterSound
<1>13. FinSound'
  <2>1. \A o \in 1 .. MaxMems : o > memId' => table'[o] = {}
    BY <1>1, <1>3, <1>4, <1>8 DEF Inv, FinSound
  <2>2. IsFiniteSet(table[m] \cup {e})
    BY <1>4, FS_AddElement DEF Inv, FinSound
  <2>3. \A o \in 1 .. MaxMems : IsFiniteSet(table'[o])
    BY <1>8, <2>2 DEF Inv, FinSound
  <2> QED
    BY <1>7, <2>1, <2>3 DEF Inv, FinSound
<1>14. FullSound'
  <2>1. ASSUME NEW o \in 1 .. MaxMems, o \in immLo .. m - 1 PROVE table'[o] # {}
    <3>1. o \in immLo .. memId - 1 \/ (o = memId /\ m # memId)
      BY <2>1, <1>3, <1>4
    <3>2. o # m
      BY <2>1, <1>3, <1>4
    <3>3. table[o] # {}
      BY <3>1, <1>5 DEF Inv, FullSound
    <3> QED
      BY <3>2, <3>3, <1>8
  <2> QED
    BY <1>1, <1>7, <2>1 DEF Inv, FullSound
<1>15. Numbered' /\ DiskSound'
  BY <1>6, <1>7 DEF Inv, Numbered, DiskSound
<1>16. Running'
  BY <1>1, <1>6, <1>7 DEF Inv, Running
<1>17. FlushSound'
  <2>1. fl.pc \in Busy => immLo < memId' /\ table'[immLo] = table[immLo]
    <3>1. fl.pc \in Busy => immLo < memId
      BY DEF Inv, FlushSound
    <3>2. immLo < memId => immLo < m /\ immLo \in 1 .. MaxMems /\ immLo # m
      BY <1>3, <1>4
    <3> QED
      BY <1>1, <1>8, <3>1, <3>2
  <2> QED
    BY <1>6, <1>7, <2>1 DEF Inv, FlushSound, Busy
<1>18. CompactSound'
  BY <1>6, <1>7 DEF Inv, CompactSound
<1>19. ContentSound'
  <2>1. Mems(immLo, memId)' = Mems(immLo, memId) \cup {e}
    <3>1. ASSUME NEW x \in Mems(immLo, memId)' PROVE x \in Mems(immLo, memId) \cup {e}
      <4>1. PICK o \in immLo .. m : x \in table'[o]
        BY <3>1, <1>1, <1>6 DEF Mems
      <4>2. o \in 1 .. MaxMems
        BY <1>3, <1>4
      <4>3. CASE o \in immLo .. memId
        BY <4>1, <4>2, <4>3, <1>8 DEF Mems
      <4>4. CASE o \notin immLo .. memId
        <5>1. o = m /\ m > memId
          BY <4>4, <1>3, <1>4
        <5>2. table[m] = {}
          BY <5>1, <1>4 DEF Inv, FinSound
        <5> QED
          BY <4>1, <5>1, <5>2, <1>8
      <4> QED
        BY <4>3, <4>4
    <3>2. ASSUME NEW x \in Mems(immLo, memId) PROVE x \in Mems(immLo, memId)'
      <4>1. PICK o \in immLo .. memId : x \in table[o]
        BY <3>2 DEF Mems
      <4>2. o \in 1 .. MaxMems /\ o \in immLo .. m
        BY <1>3, <1>4
      <4>3. x \in table'[o]
        BY <4>1, <4>2, <1>8
      <4> QED
        BY <4>2, <4>3, <1>1, <1>6 DEF Mems
    <3>3. e \in Mems(immLo, memId)'
      <4>1. m \in immLo .. m
        BY <1>3, <1>4
      <4> QED
        BY <4>1, <1>1, <1>6, <1>8 DEF Mems
    <3> QED
      BY <3>1, <3>2, <3>3
  <2>2. Contents' = Contents \cup {e} /\ Durable' = Durable
    BY <1>1, <1>7, <2>1 DEF Contents, Durable
  <2> QED
    BY <1>1, <2>2 DEF Inv, ContentSound
<1>20. ReadSound'
  <2>1. \A o \in 1 .. MaxMems : table[o] \subseteq table'[o]
    BY <1>8
  <2>2. immLo <= immLo' /\ memId <= memId'
    BY <1>1, <1>3, <1>4
  <2>3. inserted \subseteq inserted' /\ Entries(version, file) \subseteq Entries(version', file')
    BY <1>1, <1>7
  <2> QED
    BY <1>1, <1>7, <1>9, <2>1, <2>2, <2>3, ReadKept
<1> QED
  BY <1>9, <1>10, <1>11, <1>12, <1>13, <1>14, <1>15, <1>16, <1>17, <1>18, <1>19, <1>20 DEF Inv, TypeOK

\* A step of flush or compaction leaves memtables and readers alone, keeps what is
\* in the version and adds to it and to the MANIFEST only what had been written.
LEMMA WorkStep ==
    ASSUME Inv, up \in {"open", "closing"},
           UNCHANGED <<up, seqNum, lastSeqNum, wr, table, memId, immLo, inserted, rd, restarts>>,
           TypeTree', TypeWork', FlushSound', CompactSound',
           \A n \in 1 .. MaxFiles : n < nextFileNum => file'[n] = file[n],
           \A n \in 1 .. MaxFiles : IsFiniteSet(file'[n].entries),
           nextFileNum <= nextFileNum',
           Entries(version, file) \subseteq Entries(version', file'),
           Entries(version', file') \subseteq Contents,
           Entries(manifest'.files, file') \subseteq Contents,
           \A n \in version' \cup manifest'.files \cup co'.outputs : file'[n].entries # {},
           \A n \in manifest'.files : n < manifest'.next,
           manifest'.next <= nextFileNum',
           \A n \in version' \cup manifest'.files \cup co'.inputs \cup co'.outputs : n < nextFileNum',
           fl'.pc \in Busy => fl'.num < nextFileNum',
           version' \cup manifest'.files \subseteq onDisk',
           rd.files \subseteq onDisk' \cup tableCache'
    PROVE  Inv'
<1>1. TypeWrite' /\ TypeRead'
  BY DEF Inv, TypeOK, TypeWrite, TypeRead
<1>2. WriterSound' /\ FinSound' /\ FullSound'
  BY DEF Inv, WriterSound, FinSound, FullSound
<1>3. \A n \in rd.files : n < nextFileNum'
  <2>1. \A n \in rd.files : n < nextFileNum /\ n \in Nat
    BY BoundsAssumption DEF Inv, Numbered, TypeOK, TypeRead
  <2>2. nextFileNum \in Nat /\ nextFileNum' \in Nat
    BY BoundsAssumption DEF Inv, TypeOK, TypeTree
  <2> QED
    BY <2>1, <2>2
<1>4. Numbered'
  BY <1>3 DEF Numbered
<1>5. Running' /\ DiskSound'
  BY DEF Inv, Running, DiskSound
<1>6. ContentSound'
  <2>1. Mems(immLo, memId)' = Mems(immLo, memId)
    BY DEF Mems
  <2>2. Contents = Mems(immLo, memId) \cup Entries(version, file)
    BY DEF Contents
  <2>3. Contents' = Mems(immLo, memId) \cup Entries(version', file')
    BY <2>1 DEF Contents
  <2>4. Contents' = Contents
    BY <2>2, <2>3
  <2> QED
    BY <2>4 DEF Inv, ContentSound, Durable
<1>7. ReadSound'
  <2>1. immLo <= immLo' /\ memId <= memId'
    BY BoundsAssumption DEF Inv, TypeOK, TypeWrite
  <2> QED
    BY <1>1, <2>1, ReadKept
<1> QED
  BY <1>1, <1>2, <1>4, <1>5, <1>6, <1>7 DEF Inv, TypeOK

\* What the invariant says of the tables in use.
LEMMA TablesInUse ==
    ASSUME Inv, up # "down"
    PROVE  /\ MaxFiles \in Nat /\ nextFileNum \in Nat /\ nextFileNum >= 1
           /\ version \subseteq 1 .. MaxFiles /\ manifest.files \subseteq 1 .. MaxFiles
           /\ co.inputs \subseteq 1 .. MaxFiles /\ co.outputs \subseteq 1 .. MaxFiles
           /\ rd.files \subseteq 1 .. MaxFiles
           /\ manifest.next \in Nat /\ manifest.next <= nextFileNum
           /\ \A n \in version \cup manifest.files \cup rd.files \cup co.inputs \cup co.outputs :
                n \in Nat /\ n < nextFileNum
           /\ \A n \in manifest.files : n < manifest.next
           /\ \A n \in version \cup manifest.files \cup co.outputs : file[n].entries # {}
           /\ \A n \in 1 .. MaxFiles : IsFiniteSet(file[n].entries)
           /\ version \cup manifest.files \subseteq onDisk
           /\ up # "closed" => rd.files \subseteq onDisk \cup tableCache
           /\ Entries(version, file) \subseteq Contents /\ Entries(manifest.files, file) \subseteq Contents
<1>1. /\ MaxFiles \in Nat /\ nextFileNum \in Nat /\ nextFileNum >= 1
      /\ version \subseteq 1 .. MaxFiles /\ manifest.files \subseteq 1 .. MaxFiles
      /\ manifest.next \in Nat
  BY BoundsAssumption DEF Inv, TypeOK, TypeTree
<1>2. /\ co.inputs \subseteq 1 .. MaxFiles /\ co.outputs \subseteq 1 .. MaxFiles
      /\ rd.files \subseteq 1 .. MaxFiles
  BY DEF Inv, TypeOK, TypeWork, TypeRead
<1>3. /\ manifest.next <= nextFileNum
      /\ \A n \in version \cup manifest.files \cup rd.files \cup co.inputs \cup co.outputs : n < nextFileNum
      /\ \A n \in manifest.files : n < manifest.next
  BY DEF Inv, Numbered
<1>4. \A n \in 1 .. MaxFiles : n \in Nat
  BY <1>1
<1>5. Entries(version, file) \subseteq Contents /\ Entries(manifest.files, file) \subseteq Contents
  BY DEF Inv, ContentSound, Contents, Durable
<1> QED
  BY <1>1, <1>2, <1>3, <1>4, <1>5 DEF Inv, FinSound, FullSound, DiskSound

\* Flush writes the oldest sealed memtable to a new table.
LEMMA FlushWriteInv ==
    ASSUME Inv, FlushWrite
    PROVE  Inv'
<1>1. /\ fl.pc = "loop" /\ immLo < memId /\ nextFileNum <= MaxFiles /\ nextFileNum' = nextFileNum + 1
      /\ file' = [file EXCEPT ![nextFileNum] = [level |-> 0, entries |-> table[immLo]]]
      /\ onDisk' = onDisk \cup {nextFileNum}
      /\ fl' = [fl EXCEPT !.pc = "written", !.num = nextFileNum]
      /\ UNCHANGED <<version, manifest, flushCh, compactCh>>
      /\ UNCHANGED <<up, writeVars, co, tableCache, rd, panic, restarts>>
  BY DEF FlushWrite, FlushFrame
<1>2. UNCHANGED <<up, seqNum, lastSeqNum, wr, table, memId, immLo, inserted, rd, restarts, co, tableCache, panic,
                  version, manifest, flushCh, compactCh>>
  BY <1>1 DEF writeVars
<1>3. up \in {"open", "closing"}
  BY <1>1 DEF Inv, Running
<1>4. nextFileNum \in 1 .. MaxFiles /\ nextFileNum \in Nat /\ MaxFiles \in Nat
  BY <1>1, BoundsAssumption DEF Inv, TypeOK, TypeTree
<1>5. immLo \in 1 .. MaxMems /\ immLo \in immLo .. memId - 1
  BY <1>1, BoundsAssumption DEF Inv, TypeOK, TypeWrite
<1>6. table[immLo] \in SUBSET Entry /\ IsFiniteSet(table[immLo])
  BY <1>5 DEF Inv, TypeOK, TypeWrite, FinSound
<1>7. TypeTree'
  <2>1. file' \in [1 .. MaxFiles -> [level : 0 .. NumLevels - 1, entries : SUBSET Entry]]
    <3>1. 0 \in 0 .. NumLevels - 1
      BY SizesAssumption
    <3> QED
      BY <1>1, <1>6, <3>1 DEF Inv, TypeOK, TypeTree
  <2>2. nextFileNum' \in 1 .. MaxFiles + 1
    BY <1>1, <1>4
  <2> QED
    BY <1>1, <1>2, <1>4, <2>1, <2>2 DEF Inv, TypeOK, TypeTree
<1>8. fl' \in [pc : {"idle", "loop", "written", "logged", "done"}, num : 0 .. MaxFiles, last : BOOLEAN]
      /\ fl'.pc = "written" /\ fl'.num = nextFileNum
  <2>1. nextFileNum \in 0 .. MaxFiles
    BY <1>4
  <2> QED
    BY <1>1, <2>1 DEF Inv, TypeOK, TypeWork
<1>9. TypeWork'
  BY <1>2, <1>8 DEF Inv, TypeOK, TypeWork
<1>10. /\ \A n \in 1 .. MaxFiles : n # nextFileNum => file'[n] = file[n]
       /\ file'[nextFileNum].entries = table[immLo]
  BY <1>1, <1>4 DEF Inv, TypeOK, TypeTree
<1>11. \A n \in 1 .. MaxFiles : n < nextFileNum => file'[n] = file[n]
  BY <1>4, <1>10
<1>12. /\ \A n \in version \cup manifest.files \cup rd.files \cup co.inputs \cup co.outputs :
            n < nextFileNum /\ n \in 1 .. MaxFiles /\ file'[n] = file[n]
       /\ Entries(version, file') = Entries(version, file)
       /\ Entries(manifest.files, file') = Entries(manifest.files, file)
       /\ Entries(co.inputs, file') = Entries(co.inputs, file)
       /\ Entries(co.outputs, file') = Entries(co.outputs, file)
  BY <1>3, <1>11, OldFiles
<1>13. nextFileNum \notin version \cup manifest.files \cup co.inputs \cup co.outputs
  BY <1>4, <1>12
<1>14. FlushSound'
  BY <1>1, <1>2, <1>8, <1>10, <1>13 DEF FlushSound, Busy
<1>15. CompactSound'
  BY <1>1, <1>2, <1>12 DEF Inv, CompactSound
<1>16. \A n \in 1 .. MaxFiles : IsFiniteSet(file'[n].entries)
  BY <1>6, <1>10 DEF Inv, FinSound
<1>17. nextFileNum <= nextFileNum' /\ nextFileNum < nextFileNum'
  BY <1>1, <1>4
<1>18. \A n \in version \cup manifest.files \cup co.inputs \cup co.outputs : n < nextFileNum'
  BY <1>3, <1>1, <1>4, TablesInUse
<1>19. manifest.next <= nextFileNum'
  BY <1>3, <1>1, <1>4, TablesInUse
<1>20. \A n \in version \cup manifest.files \cup co.outputs : file'[n].entries # {}
  BY <1>3, <1>12, TablesInUse
<1>21. /\ Entries(version, file) \subseteq Contents /\ Entries(manifest.files, file) \subseteq Contents
       /\ \A n \in manifest.files : n < manifest.next
       /\ version \cup manifest.files \subseteq onDisk'
       /\ rd.files \subseteq onDisk' \cup tableCache'
  BY <1>1, <1>3, TablesInUse
<1> QED
  BY <1>2, <1>3, <1>7, <1>8, <1>9, <1>11, <1>12, <1>14, <1>15, <1>16, <1>17, <1>18, <1>19, <1>20, <1>21, WorkStep

\* Being in the file n is being in the files {n}.
LEMMA OneFile ==
    ASSUME NEW n, NEW f
    PROVE  Entries({n}, f) = f[n].entries
<1> QED
  BY DEF Entries

\* Flush logs its table, and the version has it.
LEMMA FlushLogInv ==
    ASSUME Inv, FlushLog
    PROVE  Inv'
<1>1. /\ fl.pc = "written"
      /\ manifest' = [files |-> (manifest.files \ {}) \cup {fl.num}, next |-> nextFileNum, last |-> lastSeqNum]
      /\ version' = (version \ {}) \cup {fl.num}
      /\ fl' = [fl EXCEPT !.pc = "logged"]
      /\ UNCHANGED <<up, writeVars, co, tableCache, rd, panic, restarts, file, nextFileNum, onDisk, flushCh, compactCh>>
  BY DEF FlushLog, FlushFrame, LogEdit, ApplyEdit
<1>2. UNCHANGED <<up, seqNum, lastSeqNum, wr, table, memId, immLo, inserted, rd, restarts, co, tableCache, panic,
                  file, nextFileNum, onDisk, flushCh, compactCh>>
  BY <1>1 DEF writeVars
<1>3. up \in {"open", "closing"}
  BY <1>1 DEF Inv, Running, Busy
<1>4. /\ immLo < memId /\ fl.num \in onDisk /\ file[fl.num].entries = table[immLo] /\ fl.num < nextFileNum
      /\ fl.num \notin version \cup manifest.files \cup co.inputs \cup co.outputs
  BY <1>1, <1>3 DEF Inv, FlushSound, Numbered, Busy
<1>5. fl.num \in 1 .. MaxFiles /\ onDisk \subseteq 1 .. MaxFiles
  BY <1>4 DEF Inv, TypeOK, TypeTree
<1>6. immLo \in 1 .. MaxMems /\ immLo \in immLo .. memId - 1 /\ immLo \in immLo .. memId
  BY <1>4, BoundsAssumption DEF Inv, TypeOK, TypeWrite
<1>7. table[immLo] # {} /\ table[immLo] \subseteq Contents
  <2>1. table[immLo] \subseteq Mems(immLo, memId)
    BY <1>6 DEF Mems
  <2> QED
    BY <1>3, <1>6, <2>1 DEF Inv, FullSound, Contents
<1>8. manifest'.files = (manifest.files \ {}) \cup {fl.num} /\ manifest'.next = nextFileNum
  BY <1>1
<1>9. TypeTree'
  <2>1. lastSeqNum \in 0 .. MaxSeq /\ nextFileNum \in 1 .. MaxFiles + 1
        /\ (manifest.files \ {}) \cup {fl.num} \in SUBSET (1 .. MaxFiles)
    BY <1>5 DEF Inv, TypeOK, TypeTree, TypeWrite
  <2>2. manifest' \in [files : SUBSET (1 .. MaxFiles), next : 1 .. MaxFiles + 1, last : 0 .. MaxSeq]
    BY <1>1, <2>1
  <2> QED
    BY <1>1, <1>2, <1>5, <2>2 DEF Inv, TypeOK, TypeTree
<1>10. fl' \in [pc : {"idle", "loop", "written", "logged", "done"}, num : 0 .. MaxFiles, last : BOOLEAN]
       /\ fl'.pc = "logged" /\ fl'.num = fl.num
  BY <1>1 DEF Inv, TypeOK, TypeWork
<1>11. TypeWork'
  BY <1>2, <1>10 DEF Inv, TypeOK, TypeWork
<1>12. Entries({fl.num}, file) = table[immLo]
  BY <1>4, OneFile
<1>13. /\ Entries(version', file') \subseteq Contents /\ Entries(manifest'.files, file') \subseteq Contents
       /\ Entries(version, file) \subseteq Entries(version', file') /\ table[immLo] \subseteq Entries(version', file')
  <2>1. /\ Entries((version \ {}) \cup {fl.num}, file) \subseteq Entries(version, file) \cup table[immLo]
        /\ table[immLo] \subseteq Entries((version \ {}) \cup {fl.num}, file)
        /\ Entries((manifest.files \ {}) \cup {fl.num}, file) \subseteq Entries(manifest.files, file) \cup table[immLo]
    BY <1>12, EntriesEdit
  <2>2. Entries(version, file) \subseteq Entries((version \ {}) \cup {fl.num}, file)
    BY EntriesMono
  <2> QED
    BY <1>1, <1>2, <1>3, <1>7, <1>8, <2>1, <2>2, TablesInUse
<1>14. FlushSound'
  BY <1>2, <1>4, <1>10, <1>13 DEF FlushSound, Busy
<1>15. CompactSound'
  <2>1. co.inputs \subseteq version => co.inputs \subseteq version'
    BY <1>1
  <2>2. fl.num \notin co.inputs /\ fl.num \notin co.outputs
    BY <1>4
  <2>3. /\ co.outputs \cap (version \cup manifest.files) = {} => co.outputs \cap (version' \cup manifest'.files) = {}
        /\ co.inputs \cap (version \cup manifest.files) = {} => co.inputs \cap (version' \cup manifest'.files) = {}
    BY <1>1, <1>8, <2>2
  <2> QED
    BY <1>2, <2>1, <2>3 DEF Inv, CompactSound
<1>16. /\ \A n \in version' \cup manifest'.files \cup co'.outputs : file'[n].entries # {}
       /\ \A n \in manifest'.files : n < manifest'.next
       /\ \A n \in version' \cup manifest'.files \cup co'.inputs \cup co'.outputs : n < nextFileNum'
       /\ version' \cup manifest'.files \subseteq onDisk'
       /\ rd.files \subseteq onDisk' \cup tableCache'
  BY <1>1, <1>2, <1>3, <1>4, <1>7, <1>8, TablesInUse
<1>17. /\ \A n \in 1 .. MaxFiles : n < nextFileNum => file'[n] = file[n]
       /\ \A n \in 1 .. MaxFiles : IsFiniteSet(file'[n].entries)
       /\ nextFileNum <= nextFileNum' /\ manifest'.next <= nextFileNum'
       /\ fl'.num < nextFileNum'
  BY <1>2, <1>3, <1>4, <1>8, <1>10, TablesInUse
<1> QED
  BY <1>2, <1>3, <1>9, <1>11, <1>13, <1>14, <1>15, <1>16, <1>17, WorkStep

\* The edit of a flush is in the MANIFEST but the version does not have the table.
LEMMA FlushUnappliedInv ==
    ASSUME Inv, FlushUnapplied
    PROVE  Inv'
<1>1. /\ fl.pc = "written"
      /\ manifest' = [files |-> (manifest.files \ {}) \cup {fl.num}, next |-> nextFileNum, last |-> lastSeqNum]
      /\ fl' = [pc |-> IF fl.last THEN "done" ELSE "idle", num |-> 0, last |-> FALSE]
      /\ UNCHANGED <<up, writeVars, co, tableCache, rd, panic, restarts, version, file, nextFileNum, onDisk,
                     flushCh, compactCh>>
  BY DEF FlushUnapplied, FlushFrame, LogEdit, FlushReturn, FlushIdle
<1>2. UNCHANGED <<up, seqNum, lastSeqNum, wr, table, memId, immLo, inserted, rd, restarts, co, tableCache, panic,
                  version, file, nextFileNum, onDisk, flushCh, compactCh>>
  BY <1>1 DEF writeVars
<1>3. up \in {"open", "closing"}
  BY <1>1 DEF Inv, Running, Busy
<1>4. /\ immLo < memId /\ fl.num \in onDisk /\ file[fl.num].entries = table[immLo] /\ fl.num < nextFileNum
      /\ fl.num \notin version \cup manifest.files \cup co.inputs \cup co.outputs
  BY <1>1, <1>3 DEF Inv, FlushSound, Numbered, Busy
<1>5. fl.num \in 1 .. MaxFiles /\ onDisk \subseteq 1 .. MaxFiles
  BY <1>4 DEF Inv, TypeOK, TypeTree
<1>6. immLo \in 1 .. MaxMems /\ immLo \in immLo .. memId - 1 /\ immLo \in immLo .. memId
  BY <1>4, BoundsAssumption DEF Inv, TypeOK, TypeWrite
<1>7. table[immLo] # {} /\ table[immLo] \subseteq Contents
  <2>1. table[immLo] \subseteq Mems(immLo, memId)
    BY <1>6 DEF Mems
  <2> QED
    BY <1>3, <1>6, <2>1 DEF Inv, FullSound, Contents
<1>8. manifest'.files = (manifest.files \ {}) \cup {fl.num} /\ manifest'.next = nextFileNum
  BY <1>1
<1>9. TypeTree'
  <2>1. lastSeqNum \in 0 .. MaxSeq /\ nextFileNum \in 1 .. MaxFiles + 1
        /\ (manifest.files \ {}) \cup {fl.num} \in SUBSET (1 .. MaxFiles)
    BY <1>5 DEF Inv, TypeOK, TypeTree, TypeWrite
  <2>2. manifest' \in [files : SUBSET (1 .. MaxFiles), next : 1 .. MaxFiles + 1, last : 0 .. MaxSeq]
    BY <1>1, <2>1
  <2> QED
    BY <1>1, <1>2, <1>5, <2>2 DEF Inv, TypeOK, TypeTree
<1>10. fl' \in [pc : {"idle", "loop", "written", "logged", "done"}, num : 0 .. MaxFiles, last : BOOLEAN]
       /\ fl'.pc \notin Busy
  BY <1>1, BoundsAssumption DEF Busy
<1>11. TypeWork'
  BY <1>2, <1>10 DEF Inv, TypeOK, TypeWork
<1>12. Entries(manifest'.files, file') \subseteq Contents
  <2>1. Entries({fl.num}, file) = table[immLo]
    BY <1>4, OneFile
  <2>2. Entries((manifest.files \ {}) \cup {fl.num}, file) \subseteq Entries(manifest.files, file) \cup table[immLo]
    BY <2>1, EntriesEdit
  <2> QED
    BY <1>2, <1>3, <1>7, <1>8, <2>2, TablesInUse
<1>13. FlushSound'
  BY <1>10 DEF FlushSound, Busy
<1>14. CompactSound'
  <2>1. fl.num \notin co.inputs /\ fl.num \notin co.outputs
    BY <1>4
  <2>2. /\ co.outputs \cap (version \cup manifest.files) = {} => co.outputs \cap (version \cup manifest'.files) = {}
        /\ co.inputs \cap (version \cup manifest.files) = {} => co.inputs \cap (version \cup manifest'.files) = {}
    BY <1>8, <2>1
  <2> QED
    BY <1>2, <2>2 DEF Inv, CompactSound
<1>15. /\ \A n \in version' \cup manifest'.files \cup co'.outputs : file'[n].entries # {}
       /\ \A n \in manifest'.files : n < manifest'.next
       /\ \A n \in version' \cup manifest'.files \cup co'.inputs \cup co'.outputs : n < nextFileNum'
       /\ version' \cup manifest'.files \subseteq onDisk'
       /\ rd.files \subseteq onDisk' \cup tableCache'
  BY <1>1, <1>2, <1>3, <1>4, <1>7, <1>8, TablesInUse
<1>16. /\ \A n \in 1 .. MaxFiles : n < nextFileNum => file'[n] = file[n]
       /\ \A n \in 1 .. MaxFiles : IsFiniteSet(file'[n].entries)
       /\ nextFileNum <= nextFileNum' /\ manifest'.next <= nextFileNum'
       /\ Entries(version, file) \subseteq Entries(version', file') /\ Entries(version', file') \subseteq Contents
  BY <1>2, <1>3, <1>8, TablesInUse
<1> QED
  BY <1>2, <1>3, <1>9, <1>10, <1>11, <1>12, <1>13, <1>14, <1>15, <1>16, WorkStep

\* Flush drops the memtable that it has logged.
LEMMA FlushDropInv ==
    ASSUME Inv, FlushDrop
    PROVE  Inv'
<1>1. /\ fl.pc = "logged" /\ immLo' = immLo + 1 /\ compactCh' = TRUE
      /\ fl' = [fl EXCEPT !.pc = "loop"]
      /\ UNCHANGED <<up, seqNum, lastSeqNum, wr, table, memId, inserted, co, tableCache, rd, panic,
                     restarts, treeVars, flushCh>>
  BY DEF FlushDrop
<1>2. UNCHANGED <<version, file, nextFileNum, manifest, onDisk>>
  BY <1>1 DEF treeVars
<1>3. up \in {"open", "closing"}
  BY <1>1 DEF Inv, Running, Busy
<1>4. immLo < memId /\ table[immLo] \subseteq Entries(version, file)
  BY <1>1 DEF Inv, FlushSound, Busy
<1>5. immLo \in Nat /\ immLo >= 1 /\ memId \in Nat /\ immLo' \in 1 .. memId
  BY <1>1, <1>4, BoundsAssumption DEF Inv, TypeOK, TypeWrite
<1>6. TypeWrite' /\ TypeTree' /\ TypeRead'
  BY <1>1, <1>2, <1>5 DEF Inv, TypeOK, TypeWrite, TypeTree, TypeRead
<1>7. fl' \in [pc : {"idle", "loop", "written", "logged", "done"}, num : 0 .. MaxFiles, last : BOOLEAN]
      /\ fl'.pc = "loop"
  BY <1>1 DEF Inv, TypeOK, TypeWork
<1>8. TypeWork'
  BY <1>1, <1>7 DEF Inv, TypeOK, TypeWork
<1>9. WriterSound' /\ FinSound'
  BY <1>1, <1>2 DEF Inv, WriterSound, FinSound
<1>10. FullSound'
  <2>1. \A m \in immLo' .. memId - 1 : m \in immLo .. memId - 1
    BY <1>1, <1>5
  <2> QED
    BY <1>1, <1>2, <2>1 DEF Inv, FullSound
<1>11. Numbered' /\ Running' /\ DiskSound'
  BY <1>1, <1>2, <1>3, <1>7 DEF Inv, Numbered, Running, DiskSound, Busy
<1>12. FlushSound' /\ CompactSound'
  BY <1>1, <1>2, <1>7 DEF Inv, FlushSound, CompactSound, Busy
<1>13. ContentSound'
  <2>1. Mems(immLo, memId)' \subseteq Mems(immLo, memId)
    <3>1. \A m \in immLo' .. memId : m \in immLo .. memId
      BY <1>1, <1>5
    <3> QED
      BY <1>1, <3>1 DEF Mems
  <2>2. Mems(immLo, memId) \subseteq table[immLo] \cup Mems(immLo, memId)'
    <3>1. \A m \in immLo .. memId : m = immLo \/ m \in immLo' .. memId
      BY <1>1, <1>5
    <3> QED
      BY <1>1, <3>1 DEF Mems
  <2>3. Contents' = Contents /\ Durable' = Durable
    BY <1>1, <1>2, <1>3, <1>4, <2>1, <2>2 DEF Contents, Durable
  <2> QED
    BY <1>1, <2>3 DEF Inv, ContentSound
<1>14. ReadSound'
  <2>1. immLo <= immLo' /\ memId <= memId'
    BY <1>1, <1>5
  <2>2. Entries(version, file) \subseteq Entries(version', file') /\ inserted \subseteq inserted'
    BY <1>1, <1>2
  <2> QED
    BY <1>1, <1>2, <1>3, <1>6, <2>1, <2>2, ReadKept
<1> QED
  BY <1>6, <1>8, <1>9, <1>10, <1>11, <1>12, <1>13, <1>14 DEF Inv, TypeOK

\* Compaction merges its inputs into new tables.
LEMMA CompactMergeInv ==
    ASSUME Inv, CompactMerge
    PROVE  Inv'
<1>1. /\ co'.pc = "written" /\ co'.inputs \subseteq version
      /\ co'.outputs \in SUBSET (1 .. MaxFiles)
      /\ \A n \in co'.outputs : /\ nextFileNum <= n /\ n < nextFileNum'
                                /\ file'[n].entries # {} /\ IsFiniteSet(file'[n].entries)
      /\ \A n \in 1 .. MaxFiles : n \notin co'.outputs => file'[n] = file[n]
      /\ nextFileNum' \in 1 .. MaxFiles + 1 /\ nextFileNum <= nextFileNum'
      /\ onDisk' = onDisk \cup co'.outputs
      /\ tableCache' = tableCache \cup co'.inputs
      /\ Entries(co'.outputs, file') = Entries(co'.inputs, file)
      /\ file' \in [1 .. MaxFiles -> [level : 0 .. NumLevels - 1, entries : SUBSET Entry]]
  BY MergeSound
<1>2. co.pc = "loop" /\ UNCHANGED <<up, writeVars, flushCh, fl, rd, panic, restarts, version, manifest, compactCh>>
  BY DEF CompactMerge, CompactFrame
<1>3. UNCHANGED <<up, seqNum, lastSeqNum, wr, table, memId, immLo, inserted, rd, restarts, fl, panic, version,
                  manifest, flushCh, compactCh>>
  BY <1>2 DEF writeVars
<1>4. up \in {"open", "closing"}
  BY <1>2 DEF Inv, Running
<1>5. nextFileNum \in Nat /\ nextFileNum' \in Nat /\ MaxFiles \in Nat /\ version \subseteq 1 .. MaxFiles
  BY <1>1, BoundsAssumption DEF Inv, TypeOK, TypeTree
<1>6. \A n \in 1 .. MaxFiles : n < nextFileNum => file'[n] = file[n]
  BY <1>1, <1>5
<1>7. /\ \A n \in version \cup manifest.files \cup rd.files :
            n < nextFileNum /\ n \in 1 .. MaxFiles /\ file'[n] = file[n]
      /\ Entries(version, file') = Entries(version, file)
      /\ Entries(manifest.files, file') = Entries(manifest.files, file)
  BY <1>4, <1>6, OldFiles
<1>8. co' \in [pc : {"idle", "loop", "written", "logged", "done"},
               inputs : SUBSET (1 .. MaxFiles), outputs : SUBSET (1 .. MaxFiles)]
  <2>1. co' = [pc |-> co'.pc, inputs |-> co'.inputs, outputs |-> co'.outputs]
    BY DEF CompactMerge
  <2>2. co'.inputs \in SUBSET (1 .. MaxFiles)
    BY <1>1, <1>5
  <2>3. co'.outputs \in SUBSET (1 .. MaxFiles) /\ co'.pc = "written"
    BY <1>1
  <2> DEFINE i == co'.inputs
             o == co'.outputs
  <2>4. co' = [pc |-> "written", inputs |-> i, outputs |-> o]
    BY <2>1, <2>3
  <2>5. i \in SUBSET (1 .. MaxFiles) /\ o \in SUBSET (1 .. MaxFiles)
    BY <2>2, <2>3
  <2> HIDE DEF i, o
  <2> QED
    BY <2>4, <2>5
<1>9. TypeWork'
  BY <1>3, <1>8 DEF Inv, TypeOK, TypeWork
<1>10. TypeTree'
  BY <1>1, <1>3, <1>5 DEF Inv, TypeOK, TypeTree
<1>11. co'.outputs \cap (version \cup manifest.files) = {}
  <2>1. \A n \in co'.outputs : ~(n < nextFileNum)
    BY <1>1, <1>5
  <2> QED
    BY <1>7, <2>1
<1>12. Entries(co'.outputs, file') = Entries(co'.inputs, file')
  <2>1. \A n \in co'.inputs : file'[n] = file[n]
    BY <1>1, <1>7
  <2>2. Entries(co'.inputs, file') = Entries(co'.inputs, file)
    BY <2>1, EntriesSame
  <2> QED
    BY <1>1, <2>2
<1>13. CompactSound'
  <2>1. co'.inputs \subseteq version' /\ co'.outputs \subseteq onDisk' /\ co'.inputs \subseteq tableCache'
    BY <1>1, <1>3
  <2>2. co'.outputs \cap (version' \cup manifest'.files) = {}
    BY <1>3, <1>11
  <2> QED
    BY <1>1, <1>12, <2>1, <2>2 DEF CompactSound, Busy
<1>14. FlushSound'
  <2>1. ASSUME fl.pc = "written"
        PROVE  /\ fl.num \in onDisk' /\ file'[fl.num] = file[fl.num]
               /\ fl.num \notin version \cup manifest.files \cup co'.inputs \cup co'.outputs
    <3>1. fl.num \in onDisk /\ fl.num \notin version \cup manifest.files /\ fl.num < nextFileNum
      BY <1>4, <2>1 DEF Inv, FlushSound, Numbered, Busy
    <3>2. fl.num \in 1 .. MaxFiles
      BY <3>1 DEF Inv, TypeOK, TypeTree
    <3>3. fl.num \notin co'.outputs
      BY <1>1, <1>5, <3>1, <3>2
    <3> QED
      BY <1>1, <3>1, <3>2, <3>3
  <2>2. Entries(version', file') = Entries(version, file)
    BY <1>3, <1>7
  <2>3. fl.pc \in Busy => immLo < memId
    BY DEF Inv, FlushSound
  <2>4. fl.pc = "written" => file[fl.num].entries = table[immLo]
    BY DEF Inv, FlushSound
  <2>5. fl.pc = "logged" => table[immLo] \subseteq Entries(version, file)
    BY DEF Inv, FlushSound
  <2> QED
    BY <1>3, <2>1, <2>2, <2>3, <2>4, <2>5 DEF FlushSound
<1>15. \A n \in 1 .. MaxFiles : IsFiniteSet(file'[n].entries)
  BY <1>1 DEF Inv, FinSound
<1>16. \A n \in version' \cup manifest'.files \cup co'.outputs : file'[n].entries # {}
  BY <1>1, <1>3, <1>4, <1>7, TablesInUse
<1>17. \A n \in version' \cup manifest'.files \cup co'.inputs \cup co'.outputs : n < nextFileNum'
  <2>1. \A n \in version \cup manifest.files : n \in Nat /\ n < nextFileNum
    BY <1>4, TablesInUse
  <2>2. \A n \in version \cup manifest.files : n < nextFileNum'
    BY <1>1, <1>5, <2>1
  <2> QED
    BY <1>1, <1>3, <2>2
<1>18. manifest'.next <= nextFileNum' /\ (fl'.pc \in Busy => fl'.num < nextFileNum')
  <2>1. manifest.next \in Nat /\ manifest.next <= nextFileNum
    BY <1>4, TablesInUse
  <2>2. fl.pc \in Busy => fl.num < nextFileNum
    BY <1>4 DEF Inv, Numbered
  <2>3. fl.num \in Nat
    BY BoundsAssumption DEF Inv, TypeOK, TypeWork
  <2> QED
    BY <1>1, <1>3, <1>5, <2>1, <2>2, <2>3
<1>19. /\ version' \cup manifest'.files \subseteq onDisk'
       /\ rd.files \subseteq onDisk' \cup tableCache'
       /\ \A n \in manifest'.files : n < manifest'.next
  BY <1>1, <1>3, <1>4, TablesInUse
<1>20. /\ Entries(version, file) \subseteq Entries(version', file')
       /\ Entries(version', file') \subseteq Contents
       /\ Entries(manifest'.files, file') \subseteq Contents
  BY <1>3, <1>4, <1>7, TablesInUse
<1> QED
  BY <1>1, <1>3, <1>4, <1>6, <1>9, <1>10, <1>13, <1>14, <1>15, <1>16, <1>17, <1>18, <1>19, <1>20, WorkStep

\* Compaction's edit, in the MANIFEST: new tables for the inputs.
LEMMA CompactEdit ==
    ASSUME Inv, co.pc = "written",
           manifest' = [files |-> (manifest.files \ co.inputs) \cup co.outputs, next |-> nextFileNum, last |-> lastSeqNum],
           UNCHANGED <<file, nextFileNum>>
    PROVE  /\ up \in {"open", "closing"}
           /\ manifest'.files = (manifest.files \ co.inputs) \cup co.outputs /\ manifest'.next = nextFileNum
           /\ manifest' \in [files : SUBSET (1 .. MaxFiles), next : 1 .. MaxFiles + 1, last : 0 .. MaxSeq]
           /\ Entries(co.outputs, file) = Entries(co.inputs, file)
           /\ Entries(manifest'.files, file') \subseteq Contents
           /\ Entries((version \ co.inputs) \cup co.outputs, file) = Entries(version, file)
           /\ manifest'.files \subseteq onDisk /\ co.outputs \subseteq onDisk
           /\ co.inputs \subseteq version /\ co.inputs \cap co.outputs = {}
           /\ fl.pc = "written" => fl.num \notin manifest'.files
           /\ manifest'.files \subseteq manifest.files \cup co.outputs
<1>1. up \in {"open", "closing"}
  BY DEF Inv, Running, Busy
<1>2. /\ co.inputs \subseteq version /\ co.outputs \subseteq onDisk
      /\ co.outputs \cap (version \cup manifest.files) = {}
      /\ Entries(co.outputs, file) = Entries(co.inputs, file)
  BY DEF Inv, CompactSound
<1>3. manifest'.files = (manifest.files \ co.inputs) \cup co.outputs /\ manifest'.next = nextFileNum
  OBVIOUS
<1>4. manifest' \in [files : SUBSET (1 .. MaxFiles), next : 1 .. MaxFiles + 1, last : 0 .. MaxSeq]
  <2>1. (manifest.files \ co.inputs) \cup co.outputs \in SUBSET (1 .. MaxFiles)
    BY <1>1, TablesInUse
  <2>2. lastSeqNum \in 0 .. MaxSeq /\ nextFileNum \in 1 .. MaxFiles + 1
    BY DEF Inv, TypeOK, TypeTree, TypeWrite
  <2> QED
    BY <2>1, <2>2
<1>5. Entries(co.inputs, file) \subseteq Entries(version, file)
  BY <1>2, EntriesMono
<1>6. Entries(manifest'.files, file') \subseteq Contents
  <2>1. Entries((manifest.files \ co.inputs) \cup co.outputs, file)
          \subseteq Entries(manifest.files, file) \cup Entries(co.outputs, file)
    BY EntriesEdit
  <2> QED
    BY <1>1, <1>2, <1>3, <1>5, <2>1, TablesInUse
<1>7. Entries((version \ co.inputs) \cup co.outputs, file) = Entries(version, file)
  <2>1. Entries((version \ co.inputs) \cup co.outputs, file) \subseteq Entries(version, file) \cup Entries(co.outputs, file)
    BY EntriesEdit
  <2>2. Entries(version, file) \subseteq Entries((version \ co.inputs) \cup co.outputs, file)
    BY <1>2, EntriesEdit
  <2> QED
    BY <1>2, <1>5, <2>1, <2>2
<1>8. manifest.files \subseteq onDisk
  BY DEF Inv, DiskSound
<1>9. fl.pc = "written" => fl.num \notin manifest.files \cup co.outputs
  BY DEF Inv, FlushSound
<1> QED
  BY <1>1, <1>2, <1>3, <1>4, <1>6, <1>7, <1>8, <1>9

\* Compaction logs its edit, and the version has the outputs instead of the
\* inputs.
LEMMA CompactLogInv ==
    ASSUME Inv, CompactLog
    PROVE  Inv'
<1>1. /\ co.pc = "written"
      /\ manifest' = [files |-> (manifest.files \ co.inputs) \cup co.outputs, next |-> nextFileNum, last |-> lastSeqNum]
      /\ version' = (version \ co.inputs) \cup co.outputs
      /\ co' = [co EXCEPT !.pc = "logged"]
      /\ UNCHANGED <<up, writeVars, flushCh, fl, rd, panic, restarts, file, nextFileNum, onDisk, tableCache, compactCh>>
  BY DEF CompactLog, CompactFrame, LogEdit, ApplyEdit
<1>2. UNCHANGED <<up, seqNum, lastSeqNum, wr, table, memId, immLo, inserted, rd, restarts, fl, panic,
                  file, nextFileNum, onDisk, tableCache, flushCh, compactCh>>
  BY <1>1 DEF writeVars
<1>3. /\ up \in {"open", "closing"}
      /\ manifest'.files = (manifest.files \ co.inputs) \cup co.outputs /\ manifest'.next = nextFileNum
      /\ manifest' \in [files : SUBSET (1 .. MaxFiles), next : 1 .. MaxFiles + 1, last : 0 .. MaxSeq]
      /\ Entries(manifest'.files, file') \subseteq Contents
      /\ Entries((version \ co.inputs) \cup co.outputs, file) = Entries(version, file)
      /\ manifest'.files \subseteq onDisk /\ co.outputs \subseteq onDisk
      /\ co.inputs \subseteq version /\ co.inputs \cap co.outputs = {}
      /\ fl.pc = "written" => fl.num \notin manifest'.files
      /\ manifest'.files \subseteq manifest.files \cup co.outputs
  BY <1>1, CompactEdit
<1>4. co' \in [pc : {"idle", "loop", "written", "logged", "done"},
               inputs : SUBSET (1 .. MaxFiles), outputs : SUBSET (1 .. MaxFiles)]
      /\ co'.pc = "logged" /\ co'.inputs = co.inputs /\ co'.outputs = co.outputs
  BY <1>1 DEF Inv, TypeOK, TypeWork
<1>5. TypeWork'
  BY <1>2, <1>4 DEF Inv, TypeOK, TypeWork
<1>6. TypeTree'
  <2>1. version' \subseteq 1 .. MaxFiles
    BY <1>1, <1>3, TablesInUse
  <2> QED
    BY <1>2, <1>3, <2>1 DEF Inv, TypeOK, TypeTree
<1>7. version' \subseteq version \cup co.outputs /\ version' \subseteq onDisk
  BY <1>1, <1>3 DEF Inv, DiskSound
<1>8. FlushSound'
  <2>1. fl.pc = "written" => fl.num \notin version' \cup manifest'.files \cup co'.inputs \cup co'.outputs
    BY <1>3, <1>4, <1>7 DEF Inv, FlushSound
  <2>2. Entries(version', file') = Entries(version, file)
    BY <1>1, <1>2, <1>3
  <2> QED
    BY <1>2, <2>1, <2>2 DEF Inv, FlushSound
<1>9. CompactSound'
  <2>1. co'.inputs \cap (version' \cup manifest'.files) = {}
    BY <1>1, <1>3, <1>4
  <2>2. co'.inputs \subseteq tableCache'
    BY <1>1, <1>2, <1>4 DEF Inv, CompactSound, Busy
  <2> QED
    BY <1>4, <2>1, <2>2 DEF CompactSound, Busy
<1>10. /\ \A n \in version' \cup manifest'.files \cup co'.outputs : file'[n].entries # {}
       /\ \A n \in version' \cup manifest'.files \cup co'.inputs \cup co'.outputs : n < nextFileNum'
       /\ \A n \in 1 .. MaxFiles : IsFiniteSet(file'[n].entries)
       /\ rd.files \subseteq onDisk' \cup tableCache'
       /\ nextFileNum <= nextFileNum' /\ manifest'.next <= nextFileNum'
       /\ Entries(version, file) \subseteq Contents
  BY <1>2, <1>3, <1>4, <1>7, TablesInUse
<1>11. \A n \in manifest'.files : n < manifest'.next
  BY <1>2, <1>3, <1>10
<1>12. fl'.pc \in Busy => fl'.num < nextFileNum'
  BY <1>2, <1>3 DEF Inv, Numbered
<1>13. /\ Entries(version, file) \subseteq Entries(version', file')
       /\ Entries(version', file') \subseteq Contents
       /\ version' \cup manifest'.files \subseteq onDisk'
       /\ \A n \in 1 .. MaxFiles : n < nextFileNum => file'[n] = file[n]
  BY <1>1, <1>2, <1>3, <1>7, <1>10
<1> QED
  BY <1>2, <1>3, <1>5, <1>6, <1>8, <1>9, <1>10, <1>11, <1>12, <1>13, WorkStep

\* The edit of a compaction is in the MANIFEST but the version still has the
\* inputs.
LEMMA CompactUnappliedInv ==
    ASSUME Inv, CompactUnapplied
    PROVE  Inv'
<1>1. /\ co.pc = "written"
      /\ manifest' = [files |-> (manifest.files \ co.inputs) \cup co.outputs, next |-> nextFileNum, last |-> lastSeqNum]
      /\ co' = [pc |-> "idle", inputs |-> {}, outputs |-> {}]
      /\ UNCHANGED <<up, writeVars, flushCh, fl, rd, panic, restarts, version, file, nextFileNum, onDisk, tableCache,
                     compactCh>>
  BY DEF CompactUnapplied, CompactFrame, LogEdit, CompactIdle
<1>2. UNCHANGED <<up, seqNum, lastSeqNum, wr, table, memId, immLo, inserted, rd, restarts, fl, panic, version,
                  file, nextFileNum, onDisk, tableCache, flushCh, compactCh>>
  BY <1>1 DEF writeVars
<1>3. /\ up \in {"open", "closing"}
      /\ manifest'.files = (manifest.files \ co.inputs) \cup co.outputs /\ manifest'.next = nextFileNum
      /\ manifest' \in [files : SUBSET (1 .. MaxFiles), next : 1 .. MaxFiles + 1, last : 0 .. MaxSeq]
      /\ Entries(manifest'.files, file') \subseteq Contents
      /\ manifest'.files \subseteq onDisk
      /\ fl.pc = "written" => fl.num \notin manifest'.files
      /\ manifest'.files \subseteq manifest.files \cup co.outputs
  BY <1>1, CompactEdit
<1>4. co' \in [pc : {"idle", "loop", "written", "logged", "done"},
               inputs : SUBSET (1 .. MaxFiles), outputs : SUBSET (1 .. MaxFiles)]
      /\ co'.pc = "idle" /\ co'.inputs = {} /\ co'.outputs = {}
  BY <1>1
<1>5. TypeWork'
  BY <1>2, <1>4 DEF Inv, TypeOK, TypeWork
<1>6. TypeTree'
  BY <1>2, <1>3 DEF Inv, TypeOK, TypeTree
<1>7. FlushSound'
  <2>1. fl.pc = "written" => fl.num \notin version' \cup manifest'.files \cup co'.inputs \cup co'.outputs
    BY <1>2, <1>3, <1>4 DEF Inv, FlushSound
  <2> QED
    BY <1>2, <2>1 DEF Inv, FlushSound
<1>8. CompactSound'
  BY <1>4 DEF CompactSound, Busy
<1>9. /\ \A n \in version' \cup manifest'.files \cup co'.outputs : file'[n].entries # {}
      /\ \A n \in version' \cup manifest'.files \cup co'.inputs \cup co'.outputs : n < nextFileNum'
      /\ \A n \in 1 .. MaxFiles : IsFiniteSet(file'[n].entries)
      /\ rd.files \subseteq onDisk' \cup tableCache'
      /\ nextFileNum <= nextFileNum' /\ manifest'.next <= nextFileNum'
      /\ Entries(version', file') \subseteq Contents
      /\ version' \subseteq onDisk'
  BY <1>2, <1>3, <1>4, TablesInUse
<1>10. \A n \in manifest'.files : n < manifest'.next
  BY <1>2, <1>3, <1>9
<1>11. fl'.pc \in Busy => fl'.num < nextFileNum'
  BY <1>2, <1>3 DEF Inv, Numbered
<1>12. /\ Entries(version, file) \subseteq Entries(version', file')
       /\ version' \cup manifest'.files \subseteq onDisk'
       /\ \A n \in 1 .. MaxFiles : n < nextFileNum => file'[n] = file[n]
  BY <1>2, <1>3, <1>9
<1> QED
  BY <1>2, <1>3, <1>5, <1>6, <1>7, <1>8, <1>9, <1>10, <1>11, <1>12, WorkStep

\* Compaction removes its inputs: nothing lists them, and readers that hold them
\* find them in the table cache.
LEMMA CompactRemoveInv ==
    ASSUME Inv, CompactRemove
    PROVE  Inv'
<1>1. /\ co.pc = "logged" /\ onDisk' = onDisk \ co.inputs
      /\ co' = [pc |-> "loop", inputs |-> {}, outputs |-> {}]
      /\ UNCHANGED <<up, writeVars, flushCh, fl, rd, panic, restarts, version, file, nextFileNum, manifest, tableCache,
                     compactCh>>
  BY DEF CompactRemove, CompactFrame, CompactIdle
<1>2. UNCHANGED <<up, seqNum, lastSeqNum, wr, table, memId, immLo, inserted, rd, restarts, fl, panic, version,
                  file, nextFileNum, manifest, tableCache, flushCh, compactCh>>
  BY <1>1 DEF writeVars
<1>3. up \in {"open", "closing"}
  BY <1>1 DEF Inv, Running, Busy
<1>4. co.inputs \cap (version \cup manifest.files) = {} /\ co.inputs \subseteq tableCache
  BY <1>1 DEF Inv, CompactSound, Busy
<1>5. co' \in [pc : {"idle", "loop", "written", "logged", "done"},
               inputs : SUBSET (1 .. MaxFiles), outputs : SUBSET (1 .. MaxFiles)]
      /\ co'.pc = "loop" /\ co'.inputs = {} /\ co'.outputs = {}
  BY <1>1
<1>6. TypeWork'
  BY <1>2, <1>5 DEF Inv, TypeOK, TypeWork
<1>7. TypeTree'
  BY <1>1, <1>2 DEF Inv, TypeOK, TypeTree
<1>8. FlushSound'
  <2>1. fl.pc = "written" => /\ fl.num \notin version \cup manifest.files \cup co'.inputs \cup co'.outputs
                             /\ fl.num \in onDisk'
    BY <1>1, <1>5 DEF Inv, FlushSound
  <2> QED
    BY <1>2, <2>1 DEF Inv, FlushSound
<1>9. CompactSound'
  BY <1>5 DEF CompactSound, Busy
<1>10. /\ \A n \in version' \cup manifest'.files \cup co'.outputs : file'[n].entries # {}
       /\ \A n \in version' \cup manifest'.files \cup co'.inputs \cup co'.outputs : n < nextFileNum'
       /\ \A n \in 1 .. MaxFiles : IsFiniteSet(file'[n].entries)
       /\ \A n \in manifest'.files : n < manifest'.next
       /\ nextFileNum <= nextFileNum' /\ manifest'.next <= nextFileNum'
       /\ Entries(version', file') \subseteq Contents /\ Entries(manifest'.files, file') \subseteq Contents
  BY <1>2, <1>3, <1>5, TablesInUse
<1>11. version' \cup manifest'.files \subseteq onDisk' /\ rd.files \subseteq onDisk' \cup tableCache'
  BY <1>1, <1>2, <1>3, <1>4, TablesInUse
<1>12. fl'.pc \in Busy => fl'.num < nextFileNum'
  BY <1>2, <1>3 DEF Inv, Numbered
<1>13. /\ Entries(version, file) \subseteq Entries(version', file')
       /\ \A n \in 1 .. MaxFiles : n < nextFileNum => file'[n] = file[n]
  BY <1>2
<1> QED
  BY <1>2, <1>3, <1>6, <1>7, <1>8, <1>9, <1>10, <1>11, <1>12, <1>13, WorkStep

-----------------------------------------------------------------------------
(* Crash and recovery *)

\* What is listed in the MANIFEST survives in its files.
LEMMA ListedSurvive ==
    ASSUME Inv, Restarted, manifest' = manifest
    PROVE  /\ \A n \in manifest.files : n \in 1 .. MaxFiles /\ file'[n] = file[n]
           /\ Entries(manifest.files, file') = Entries(manifest.files, file)
           /\ file' \in [1 .. MaxFiles -> [level : 0 .. NumLevels - 1, entries : SUBSET Entry]]
           /\ \A n \in 1 .. MaxFiles : IsFiniteSet(file'[n].entries)
<1>1. file' = [n \in 1 .. MaxFiles |-> IF n \in onDisk THEN file[n] ELSE NoFile]
  BY DEF Restarted
<1>2. file \in [1 .. MaxFiles -> [level : 0 .. NumLevels - 1, entries : SUBSET Entry]]
      /\ manifest.files \subseteq 1 .. MaxFiles
  BY DEF Inv, TypeOK, TypeTree
<1>3. NoFile \in [level : 0 .. NumLevels - 1, entries : SUBSET Entry] /\ NoFile.entries = {}
  BY SizesAssumption DEF NoFile
<1>4. manifest.files \subseteq onDisk
  BY DEF Inv, DiskSound
<1>5. \A n \in manifest.files : n \in 1 .. MaxFiles /\ file'[n] = file[n]
  BY <1>1, <1>2, <1>4
<1>6. Entries(manifest.files, file') = Entries(manifest.files, file)
  BY <1>5, EntriesSame
<1>7. file' \in [1 .. MaxFiles -> [level : 0 .. NumLevels - 1, entries : SUBSET Entry]]
  BY <1>1, <1>2, <1>3
<1>8. \A n \in 1 .. MaxFiles : file'[n] = file[n] \/ file'[n].entries = {}
  BY <1>1, <1>3
<1>9. \A n \in 1 .. MaxFiles : IsFiniteSet(file'[n].entries)
  BY <1>8, FS_EmptySet DEF Inv, FinSound
<1> QED
  BY <1>5, <1>6, <1>7, <1>9

\* After a restart the database is what the MANIFEST lists.
LEMMA RestartStep ==
    ASSUME Inv, Restarted, UNCHANGED <<manifest, onDisk>>,
           up' \in {"open", "down"},
           up' = "open" => version' = manifest.files /\ nextFileNum' = manifest.next,
           up' = "down" => version' = {} /\ nextFileNum' = 1,
           seqNum' \in 0 .. MaxSeq, lastSeqNum' \in 0 .. MaxSeq, restarts' \in 0 .. MaxRestarts,
           inserted' = Entries(manifest.files, file)
    PROVE  Inv'
<1>1. /\ panic' = FALSE /\ wr' = [w \in Writers |-> Idle]
      /\ table' = [m \in 1 .. MaxMems |-> {}]
      /\ memId' = 1 /\ immLo' = 1
      /\ flushCh' = FALSE /\ compactCh' = FALSE
      /\ fl' = FlushIdle /\ co' = CompactIdle
      /\ tableCache' = {} /\ rd' = ReadIdle
  BY DEF Restarted
<1>2. /\ \A n \in manifest.files : n \in 1 .. MaxFiles /\ file'[n] = file[n]
      /\ Entries(manifest.files, file') = Entries(manifest.files, file)
      /\ file' \in [1 .. MaxFiles -> [level : 0 .. NumLevels - 1, entries : SUBSET Entry]]
      /\ \A n \in 1 .. MaxFiles : IsFiniteSet(file'[n].entries)
  BY ListedSurvive
<1>3. manifest \in [files : SUBSET (1 .. MaxFiles), next : 1 .. MaxFiles + 1, last : 0 .. MaxSeq]
      /\ onDisk \subseteq 1 .. MaxFiles /\ MaxFiles \in Nat
  BY BoundsAssumption DEF Inv, TypeOK, TypeTree
<1>4. version' \subseteq manifest.files
  OBVIOUS
<1>5. TypeWrite'
  <2>1. wr' \in [Writers -> [pc : {"idle", "alloc", "stored", "signal"}, key : Keys \cup {0},
                            kind : Kinds \cup {0}, seq : 0 .. MaxSeq]]
    BY <1>1, BoundsAssumption DEF Idle
  <2>2. memId' \in 1 .. MaxMems /\ immLo' \in 1 .. memId' /\ table' \in [1 .. MaxMems -> SUBSET Entry]
    BY <1>1, BoundsAssumption
  <2>3. inserted' \subseteq Entry
    <3>1. \A n \in manifest.files : file'[n].entries \subseteq Entry
      BY <1>2
    <3> QED
      BY <1>2, <3>1, InEntries
  <2> QED
    BY <2>1, <2>2, <2>3 DEF TypeWrite
<1>6. TypeTree'
  <2>1. nextFileNum' \in 1 .. MaxFiles + 1 /\ version' \subseteq 1 .. MaxFiles
    BY <1>3, <1>4
  <2> QED
    BY <1>1, <1>2, <1>3, <2>1 DEF TypeTree
<1>7. TypeWork'
  <2>1. flushCh' \in BOOLEAN /\ compactCh' \in BOOLEAN /\ panic' \in BOOLEAN
    BY <1>1
  <2>2. fl' \in [pc : {"idle", "loop", "written", "logged", "done"}, num : 0 .. MaxFiles, last : BOOLEAN]
    BY <1>1, BoundsAssumption DEF FlushIdle
  <2>3. co' \in [pc : {"idle", "loop", "written", "logged", "done"},
                inputs : SUBSET (1 .. MaxFiles), outputs : SUBSET (1 .. MaxFiles)]
    BY <1>1 DEF CompactIdle
  <2> QED
    BY <2>1, <2>2, <2>3 DEF TypeWork
<1>8. TypeRead'
  BY <1>1, BoundsAssumption DEF TypeRead, ReadIdle
<1>9. WriterSound'
  BY <1>1 DEF WriterSound, Idle
<1>10. FinSound'
  BY <1>1, <1>2, FS_EmptySet DEF FinSound
<1>11. /\ fl'.pc = "idle" /\ co'.pc = "idle" /\ co'.inputs = {} /\ co'.outputs = {}
       /\ rd'.pc = "idle" /\ rd'.files = {}
  BY <1>1 DEF FlushIdle, CompactIdle, ReadIdle
<1>12. FullSound'
  <2>1. \A n \in manifest.files : file'[n].entries # {}
    BY <1>2 DEF Inv, FullSound
  <2>2. \A m \in 1 .. MaxMems : m \notin immLo' .. memId' - 1
    BY <1>1
  <2> QED
    BY <1>4, <1>11, <2>1, <2>2 DEF FullSound
<1>13. Numbered'
  <2>1. \A n \in manifest.files : n < manifest.next
    BY DEF Inv, Numbered
  <2>2. manifest.next <= manifest.next
    BY <1>3
  <2> QED
    BY <1>4, <1>11, <2>1, <2>2 DEF Numbered, Busy
<1>14. Running' /\ DiskSound'
  <2>1. manifest.files \subseteq onDisk
    BY DEF Inv, DiskSound
  <2> QED
    BY <1>1, <1>4, <1>11, <2>1 DEF Running, DiskSound, Busy
<1>15. FlushSound' /\ CompactSound' /\ ReadSound'
  BY <1>11 DEF FlushSound, CompactSound, ReadSound, Busy
<1>16. ContentSound'
  <2>1. Durable' = Entries(manifest.files, file)
    BY <1>2 DEF Durable
  <2>2. Mems(immLo, memId)' = {}
    <3>1. \A m \in immLo' .. memId' : table'[m] = {}
      BY <1>1, BoundsAssumption
    <3> QED
      BY <3>1 DEF Mems
  <2>3. Contents' = Entries(manifest.files, file)
    <3>1. CASE up' = "down"
      BY <2>1, <3>1 DEF Contents
    <3>2. CASE up' = "open"
      BY <1>2, <2>2, <3>2 DEF Contents
    <3> QED
      BY <3>1, <3>2
  <2> QED
    BY <2>1, <2>3 DEF ContentSound
<1> QED
  BY <1>5, <1>6, <1>7, <1>8, <1>9, <1>10, <1>12, <1>13, <1>14, <1>15, <1>16 DEF Inv, TypeOK

\* A crash, and the recovery of Open.
LEMMA RestartInv ==
    ASSUME Inv, Crash \/ Open
    PROVE  Inv'
<1>1. restarts \in 0 .. MaxRestarts /\ MaxRestarts \in Nat /\ MaxSeq \in Nat /\ manifest.last \in 0 .. MaxSeq
  BY BoundsAssumption DEF Inv, TypeOK, TypeWrite, TypeTree
<1>2. CASE Crash
  <2>1. /\ up' = "down" /\ Restarted /\ seqNum' = 0 /\ lastSeqNum' = 0 /\ version' = {} /\ nextFileNum' = 1
        /\ inserted' = Entries(manifest.files, file) /\ UNCHANGED <<manifest, onDisk>>
        /\ restarts < MaxRestarts /\ restarts' = restarts + 1
    BY <1>2 DEF Crash
  <2>2. restarts' \in 0 .. MaxRestarts /\ 0 \in 0 .. MaxSeq
    BY <1>1, <2>1
  <2> QED
    BY <2>1, <2>2, RestartStep
<1>3. CASE Open
  <2>1. /\ up' = "open" /\ Restarted /\ version' = manifest.files /\ nextFileNum' = manifest.next
        /\ lastSeqNum' = manifest.last /\ seqNum' = manifest.last
        /\ inserted' = Entries(manifest.files, file) /\ UNCHANGED <<manifest, onDisk>>
    BY <1>3 DEF Open
  <2>2. restarts' = restarts \/ (restarts < MaxRestarts /\ restarts' = restarts + 1)
    BY <1>3 DEF Open
  <2>3. restarts' \in 0 .. MaxRestarts
    BY <1>1, <2>2
  <2> QED
    BY <1>1, <2>1, <2>3, RestartStep
<1> QED
  BY <1>2, <1>3

-----------------------------------------------------------------------------
(* The theorems *)

\* Every step keeps the invariant.
LEMMA StepInv ==
    ASSUME Inv, [Next]_vars
    PROVE  Inv'
<1>1. ASSUME NEW w \in Writers, WriteAlloc(w) \/ WriteStore(w) \/ WriteInsert(w) \/ WriteSignal(w) PROVE Inv'
  BY <1>1, WriteQuiet, WriteInsertInv
<1>2. CASE Flush
  BY <1>2, FlushQuiet, FlushWriteInv, FlushLogInv, FlushUnappliedInv, FlushDropInv DEF Flush
<1>3. CASE Compact
  BY <1>3, CompactQuiet, CompactMergeInv, CompactLogInv, CompactUnappliedInv, CompactRemoveInv DEF Compact
<1>4. CASE Read
  BY <1>4, ReadBeginInv, ReadMemsInv, ReadVersionInv, GetMemtablesInv, GetTablesInv, IterTablesInv,
     SnapshotGetInv, ReadEndInv DEF Read
<1>5. CASE CloseBegin \/ CloseEnd \/ Crash \/ Open
  BY <1>5, CloseBeginInv, CloseEndInv, RestartInv
<1>6. CASE UNCHANGED vars
  <2>1. UNCHANGED <<table, memId, immLo, inserted, treeVars, tableCache, rd, up, fl, co, seqNum, lastSeqNum, wr,
                    flushCh, compactCh, panic, restarts>>
    BY <1>6 DEF vars, writeVars
  <2>2. TypeWrite' /\ TypeWork' /\ WriterSound'
    BY <2>1 DEF Inv, TypeOK, TypeWrite, TypeWork, WriterSound
  <2>3. Running' /\ FlushKeeps /\ CompactKeeps
    BY <2>1 DEF treeVars, Inv, Running, FlushKeeps, CompactKeeps
  <2> QED
    BY <2>1, <2>2, <2>3, QuietStep
<1> QED
  BY <1>1, <1>2, <1>3, <1>4, <1>5, <1>6 DEF Next

\* The invariant holds throughout.
THEOREM Invariance == Spec => []Inv
<1>1. Init => Inv
  BY InitInv
<1>2. Inv /\ [Next]_vars => Inv'
  BY StepInv
<1> QED
  BY <1>1, <1>2, PTL DEF Spec

\* Type correctness: every variable keeps its type (lsm.go, version.go), the
\* counters their bounds, through all faults, crashes and restarts.
THEOREM TypeCorrect == Spec => []TypeOK
<1>1. Inv => TypeOK
  BY DEF Inv
<1> QED
  BY <1>1, Invariance, PTL

\* At every moment recovery would find the files that the MANIFEST lists, with
\* numbers that are not given out again (version.go:334-415), whatever part of a
\* flush or a compaction has been done and whichever of its steps has failed.
THEOREM RecoveryPossible == Spec => []ManifestRecoverable
<1>1. Inv => ManifestRecoverable
  <2> SUFFICES ASSUME Inv PROVE ManifestRecoverable
    OBVIOUS
  <2>1. \A n \in version : n < nextFileNum
    BY DEF Inv, Numbered, Running
  <2> QED
    BY <2>1 DEF Inv, Numbered, DiskSound, ManifestRecoverable
<1> QED
  BY <1>1, Invariance, PTL

\* The tables of the current version and of a version that a reader holds can be
\* read, although runCompaction removes its inputs without looking for readers
\* (compaction.go:194-200): it has opened them first, and the table cache keeps
\* them.
THEOREM ReadersFindFiles == Spec => []FilesReadable
<1>1. Inv => FilesReadable
  BY DEF Inv, DiskSound, FilesReadable
<1> QED
  BY <1>1, Invariance, PTL

\* A Get or an iterator has captured every write that completed before it was
\* called, and a snapshot too if no memtable was dropped between the two parts of
\* its capture (lsm.go:187-226, 376-387, 434-444).
THEOREM ReadersSeeWrites == Spec => []ReadCovers
<1>1. Inv => ReadCovers
  BY DEF Inv, ReadSound, ReadCovers
<1> QED
  BY <1>1, Invariance, PTL

\* What the MANIFEST lists only grows in a step that does not write or restart.
LEMMA DurableGrows ==
    ASSUME Inv, Inv', Flush \/ Compact
    PROVE  inserted' = inserted /\ Durable \subseteq Durable'
<1>1. ASSUME FlushWake \/ FlushNothing \/ FlushFails \/ FlushDrop \/ CompactWake \/ CompactNothing \/ CompactFails
             \/ CompactRemove
      PROVE  inserted' = inserted /\ manifest' = manifest /\ file' = file
  BY <1>1 DEF FlushWake, FlushNothing, FlushFails, FlushDrop, CompactWake, CompactNothing, CompactFails,
     CompactRemove, FlushFrame, CompactFrame, writeVars, treeVars
<1>2. ASSUME FlushLog \/ FlushUnapplied
      PROVE  inserted' = inserted /\ Durable \subseteq Durable'
  <2>1. inserted' = inserted /\ file' = file /\ manifest'.files = (manifest.files \ {}) \cup {fl.num}
    BY <1>2 DEF FlushLog, FlushUnapplied, FlushFrame, writeVars, LogEdit
  <2>2. Entries(manifest.files, file) \subseteq Entries(manifest'.files, file)
    BY <2>1, EntriesMono
  <2> QED
    BY <2>1, <2>2 DEF Durable
<1>3. ASSUME CompactLog \/ CompactUnapplied
      PROVE  inserted' = inserted /\ Durable \subseteq Durable'
  <2>1. inserted' = inserted /\ file' = file /\ manifest'.files = (manifest.files \ co.inputs) \cup co.outputs
        /\ co.pc = "written"
    BY <1>3 DEF CompactLog, CompactUnapplied, CompactFrame, writeVars, LogEdit
  <2>2. Entries(co.inputs, file) \subseteq Entries(co.outputs, file)
    BY <2>1 DEF Inv, CompactSound
  <2>3. Entries(manifest.files, file) \subseteq Entries((manifest.files \ co.inputs) \cup co.outputs, file)
    BY <2>2, EntriesEdit
  <2> QED
    BY <2>1, <2>3 DEF Durable
<1>4. ASSUME FlushWrite
      PROVE  inserted' = inserted /\ Durable \subseteq Durable'
  <2>1. /\ inserted' = inserted /\ manifest' = manifest /\ fl.pc = "loop" /\ nextFileNum <= MaxFiles
        /\ file' = [file EXCEPT ![nextFileNum] = [level |-> 0, entries |-> table[immLo]]]
    BY <1>4 DEF FlushWrite, FlushFrame, writeVars
  <2>2. up # "down"
    BY <2>1 DEF Inv, Running
  <2>3. nextFileNum \in Nat /\ \A n \in 1 .. MaxFiles : n \in Nat
    BY <2>2, TablesInUse
  <2>4. \A n \in 1 .. MaxFiles : n < nextFileNum => file'[n] = file[n]
    BY <2>1, <2>3 DEF Inv, TypeOK, TypeTree
  <2>5. Entries(manifest.files, file') = Entries(manifest.files, file)
    BY <2>2, <2>4, OldFiles
  <2> QED
    BY <2>1, <2>5 DEF Durable
<1>5. ASSUME CompactMerge
      PROVE  inserted' = inserted /\ Durable \subseteq Durable'
  <2>1. inserted' = inserted /\ manifest' = manifest /\ co.pc = "loop"
    BY <1>5 DEF CompactMerge, CompactFrame, writeVars
  <2>2. up # "down"
    BY <2>1 DEF Inv, Running
  <2>3. nextFileNum \in Nat /\ \A n \in 1 .. MaxFiles : n \in Nat
    BY <2>2, TablesInUse
  <2>4. /\ \A n \in co'.outputs : nextFileNum <= n
        /\ \A n \in 1 .. MaxFiles : n \notin co'.outputs => file'[n] = file[n]
    BY <1>5, MergeSound
  <2>5. \A n \in 1 .. MaxFiles : n < nextFileNum => file'[n] = file[n]
    BY <2>3, <2>4
  <2>6. Entries(manifest.files, file') = Entries(manifest.files, file)
    BY <2>2, <2>5, OldFiles
  <2> QED
    BY <2>1, <2>6 DEF Durable
<1>6. ASSUME inserted' = inserted /\ manifest' = manifest /\ file' = file
      PROVE  inserted' = inserted /\ Durable \subseteq Durable'
  BY <1>6 DEF Durable
<1> QED
  BY <1>1, <1>2, <1>3, <1>4, <1>5, <1>6 DEF Flush, Compact

\* Every step of the database is a step of the abstract store, or none.
LEMMA StoreStep ==
    ASSUME Inv, Inv', [Next]_vars
    PROVE  [Store!Next]_Store!vars
<1>0. inserted = Contents /\ inserted' = Contents' /\ Durable \subseteq Contents /\ Durable' \subseteq Contents'
  BY DEF Inv, ContentSound
<1>1. ASSUME NEW w \in Writers, WriteInsert(w) PROVE Store!Write
  <2> DEFINE e == [key |-> wr[w].key, seq |-> wr[w].seq, kind |-> wr[w].kind]
  <2>1. inserted' = inserted \cup {e}
    BY <1>1 DEF WriteInsert
  <2>2. manifest' = manifest /\ file' = file
    BY <1>1 DEF WriteInsert, treeVars
  <2> HIDE DEF e
  <2>3. Contents' = Contents \cup {e} /\ Durable' = Durable
    BY <1>0, <2>1, <2>2 DEF Durable
  <2> QED
    BY <2>3 DEF Store!Write
<1>2. CASE Flush \/ Compact
  <2>1. inserted' = inserted /\ Durable \subseteq Durable'
    BY <1>2, DurableGrows
  <2> QED
    BY <1>0, <2>1 DEF Store!Next, Store!Persist
<1>3. ASSUME inserted' = inserted, manifest' = manifest, file' = file PROVE UNCHANGED Store!vars
  <2>1. Contents' = Contents /\ Durable' = Durable
    BY <1>0, <1>3 DEF Durable
  <2> QED
    BY <2>1 DEF Store!vars
<1>4. ASSUME NEW w \in Writers, WriteAlloc(w) \/ WriteStore(w) \/ WriteSignal(w) PROVE UNCHANGED Store!vars
  <2>1. inserted' = inserted /\ manifest' = manifest /\ file' = file
    BY <1>4 DEF WriteAlloc, WriteStore, WriteSignal, treeVars
  <2> QED
    BY <2>1, <1>3
<1>5. CASE Read \/ CloseBegin \/ CloseEnd \/ UNCHANGED vars
  <2>1. inserted' = inserted /\ manifest' = manifest /\ file' = file
    BY <1>5 DEF Read, ReadBegin, ReadMems, ReadVersion, GetMemtables, GetTables, IterTables, SnapshotGet, ReadEnd,
       ReadFrame, CloseBegin, CloseEnd, vars, writeVars, treeVars
  <2> QED
    BY <2>1, <1>3
<1>6. CASE Crash \/ Open
  <2>1. Restarted /\ manifest' = manifest /\ inserted' = Entries(manifest.files, file)
    BY <1>6 DEF Crash, Open
  <2>2. Entries(manifest.files, file') = Entries(manifest.files, file)
    BY <2>1, ListedSurvive
  <2>3. Contents' = Durable /\ Durable' = Durable
    BY <1>0, <2>1, <2>2 DEF Durable
  <2> QED
    BY <2>3 DEF Store!Next, Store!Restart
<1> QED
  BY <1>1, <1>2, <1>4, <1>5, <1>6 DEF Next, Store!Next

\* The database implements the store of LsmStore: flush and compaction, with any
\* of their steps failing, neither lose nor invent an entry and never take one off
\* the disk, and a restart loses only what was in memtables (flush.go,
\* compaction.go, version.go:334-415).
THEOREM StoreRefined == Spec => ImplementsStore
<1>1. Init => Store!Init
  <2> SUFFICES ASSUME Init PROVE Store!Init
    OBVIOUS
  <2>1. Inv
    BY InitInv
  <2>2. Contents = {} /\ Durable \subseteq Contents
    BY <2>1 DEF Init, Inv, ContentSound
  <2> QED
    BY <2>2 DEF Store!Init
<1>2. Inv /\ Inv' /\ [Next]_vars => [Store!Next]_Store!vars
  BY StoreStep
<1> QED
  BY <1>1, <1>2, Invariance, PTL DEF Spec, ImplementsStore, Store!Spec

-----------------------------------------------------------------------------
(* The order of the entries.  This needs what the rest does not: one writer, *)
(* because lastSeqNum can go back when two writers store their numbers in    *)
(* the other order (lsm.go:136), and an edit that is applied once it is in   *)
(* the MANIFEST, because a compaction that repeats an edit whose fsync       *)
(* failed leaves the outputs of both in the MANIFEST (version.go:335-363).   *)

OneWriter == \A v, w \in Writers : v = w
EditsApplied == "manifest" \notin Faults

\* Numbers grow: a call has a number above those of the completed writes, and
\* recovery starts from one that is not below those on disk.
SeqOrder ==
    /\ \A e \in Durable : e.seq <= manifest.last
    /\ \A a, b \in inserted : a.seq = b.seq => a = b
    /\ up # "down" =>
        /\ lastSeqNum <= seqNum
        /\ \A e \in inserted : e.seq <= lastSeqNum
        /\ \A w \in Writers :
            /\ wr[w].pc # "idle" => wr[w].seq <= seqNum
            /\ wr[w].pc = "alloc" => lastSeqNum < wr[w].seq
            /\ wr[w].pc = "stored" => lastSeqNum = wr[w].seq /\ \A e \in inserted : e.seq < wr[w].seq

\* Two files of V in one level below L0 are apart.
FilesApart(V, f) ==
    \A m, n \in V : m # n /\ f[m].level = f[n].level /\ f[m].level > 0 =>
        Apart(f[m].entries, f[n].entries)

\* The files of a level below L0 are apart, and the outputs of a compaction are
\* apart from each other and from what stays in their level.
RangeOrder ==
    /\ FilesApart(manifest.files, file)
    /\ up # "down" => version = manifest.files
    /\ fl.pc = "written" => file[fl.num].level = 0
    /\ co.pc = "written" =>
        /\ \A o \in co.outputs : file[o].level > 0
        /\ FilesApart(co.outputs, file)
        /\ \A n \in version \ co.inputs, o \in co.outputs :
            file[n].level = file[o].level => Apart(file[n].entries, file[o].entries)

\* All of es was written before all of fs.
Older(es, fs) == \A a \in es, b \in fs : a.seq < b.seq

\* Memtables hold entries in the order of their numbers, and all of them newer
\* than what is in files, except for a memtable that is already logged.
MemOrder ==
    /\ \A m, o \in immLo .. memId : m < o => Older(table[m], table[o])
    /\ \A a \in Entries(version, file), m \in immLo .. memId : \A b \in table[m] :
        a.seq < b.seq \/ (fl.pc = "logged" /\ m = immLo /\ a \in table[m])

\* The files of L0 are in the order of their numbers, above everything else.
TopOrder(V, f) ==
    /\ \A m, n \in V : f[m].level = 0 /\ f[n].level = 0 /\ m < n => Older(f[m].entries, f[n].entries)
    /\ \A m, n \in V : f[m].level = 0 /\ f[n].level > 0 => Older(f[n].entries, f[m].entries)

FileOrder ==
    /\ TopOrder(manifest.files, file)
    /\ fl.pc = "written" => \A n \in version : file[n].level = 0 => n < fl.num
    /\ co.pc = "written" =>
        \A n \in version \ co.inputs : file[n].level = 0 => Older(Entries(co.inputs, file), file[n].entries)

-----------------------------------------------------------------------------
(* What the steps leave alone *)

\* Flush and compaction write new files and leave alone what has been written;
\* their edits carry the last sequence number.
LEMMA WorkFrame ==
    ASSUME Inv, Flush \/ Compact
    PROVE  /\ up \in {"open", "closing"}
           /\ UNCHANGED <<up, seqNum, lastSeqNum, wr, table, memId, inserted>>
           /\ \A n \in 1 .. MaxFiles : n < nextFileNum => file'[n] = file[n]
           /\ manifest' = manifest \/ manifest'.last = lastSeqNum
<1> USE DEF FlushFrame, CompactFrame, writeVars, treeVars
<1>1. UNCHANGED <<up, seqNum, lastSeqNum, wr, table, memId, inserted>>
  BY DEF Flush, FlushWake, FlushNothing, FlushWrite, FlushLog, FlushDrop, FlushFails, FlushUnapplied,
     Compact, CompactWake, CompactNothing, CompactMerge, CompactLog, CompactRemove, CompactFails, CompactUnapplied
<1>2. up \in {"open", "closing"}
  BY DEF Inv, Running, Busy, Flush, FlushWake, FlushNothing, FlushWrite, FlushLog, FlushDrop, FlushFails, FlushUnapplied,
     Compact, CompactWake, CompactNothing, CompactMerge, CompactLog, CompactRemove, CompactFails, CompactUnapplied
<1>3. manifest' = manifest \/ manifest'.last = lastSeqNum
  <2>1. ASSUME NEW new, NEW deleted, LogEdit(new, deleted) PROVE manifest'.last = lastSeqNum
    BY <2>1 DEF LogEdit
  <2>2. CASE Flush
    BY <2>1, <2>2 DEF Flush, FlushWake, FlushNothing, FlushWrite, FlushLog, FlushDrop, FlushFails, FlushUnapplied
  <2>3. CASE Compact
    <3>1. CASE CompactMerge
      BY <3>1 DEF CompactMerge
    <3>2. CASE ~CompactMerge
      BY <2>1, <2>3, <3>2 DEF Compact, CompactWake, CompactNothing, CompactLog, CompactRemove, CompactFails, CompactUnapplied
    <3> QED
      BY <3>1, <3>2
  <2> QED
    BY <2>2, <2>3
<1>4. \A n \in 1 .. MaxFiles : n < nextFileNum => file'[n] = file[n]
  <2>0. nextFileNum \in Nat /\ \A n \in 1 .. MaxFiles : n \in Nat
    BY <1>2, TablesInUse
  <2>1. CASE CompactMerge
    <3>1. /\ \A n \in co'.outputs : nextFileNum <= n
          /\ \A n \in 1 .. MaxFiles : n \notin co'.outputs => file'[n] = file[n]
      BY <2>1, MergeSound
    <3> QED
      BY <2>0, <3>1
  <2>2. CASE FlushWrite
    BY <2>0, <2>2 DEF FlushWrite, Inv, TypeOK, TypeTree
  <2>3. CASE ~CompactMerge /\ ~FlushWrite
    <3>1. file' = file
      BY <2>3 DEF Flush, FlushWake, FlushNothing, FlushLog, FlushDrop, FlushFails, FlushUnapplied,
         Compact, CompactWake, CompactNothing, CompactLog, CompactRemove, CompactFails, CompactUnapplied
    <3> QED
      BY <3>1
  <2> QED
    BY <2>1, <2>2, <2>3
<1> QED
  BY <1>1, <1>2, <1>3, <1>4

\* Reading, closing and doing nothing change neither entries nor numbers.
LEMMA ReadFrames ==
    ASSUME Read \/ CloseBegin \/ CloseEnd \/ UNCHANGED vars
    PROVE  /\ UNCHANGED <<seqNum, lastSeqNum, wr, table, memId, immLo, inserted, version, file, nextFileNum, manifest,
                          fl, co>>
           /\ up' = "down" <=> up = "down"
<1> QED
  BY DEF Read, ReadBegin, ReadMems, ReadVersion, GetMemtables, GetTables, IterTables, SnapshotGet, ReadEnd,
     ReadFrame, CloseBegin, CloseEnd, vars, writeVars, treeVars

-----------------------------------------------------------------------------
(* Sequence numbers *)

\* Every step keeps the order of the numbers, if there is one writer.
LEMMA SeqStep ==
    ASSUME OneWriter, Inv, Inv', SeqOrder, [Next]_vars
    PROVE  SeqOrder'
<1>t. /\ seqNum \in Nat /\ lastSeqNum \in Nat
      /\ \A w \in Writers : wr[w].seq \in Nat /\ wr[w] = [pc |-> wr[w].pc, key |-> wr[w].key, kind |-> wr[w].kind, seq |-> wr[w].seq]
      /\ \A e \in inserted : e.seq \in Nat
      /\ wr \in [Writers -> [pc : {"idle", "alloc", "stored", "signal"}, key : Keys \cup {0},
                            kind : Kinds \cup {0}, seq : 0 .. MaxSeq]]
  BY BoundsAssumption DEF Inv, TypeOK, TypeWrite, Entry
<1>d. inserted = Contents /\ inserted' = Contents' /\ Durable \subseteq inserted /\ Durable' \subseteq inserted'
  BY DEF Inv, ContentSound
<1>1. ASSUME NEW w \in Writers, WriteAlloc(w) PROVE SeqOrder'
  <2>1. PICK k \in Keys, kind \in Kinds :
          wr' = [wr EXCEPT ![w] = [pc |-> "alloc", key |-> k, kind |-> kind, seq |-> seqNum + 1]]
    BY <1>1 DEF WriteAlloc
  <2>2. /\ up = "open" /\ up' = up /\ seqNum' = seqNum + 1
        /\ UNCHANGED <<lastSeqNum, inserted, manifest, file>>
    BY <1>1 DEF WriteAlloc, treeVars
  <2>3. Durable' = Durable
    BY <2>2 DEF Durable
  <2>4. \A v \in Writers : v = w /\ wr'[v].pc = "alloc" /\ wr'[v].seq = seqNum + 1
    BY <2>1, <1>t DEF OneWriter
  <2>5. lastSeqNum' <= seqNum' /\ lastSeqNum' < seqNum + 1 /\ seqNum + 1 <= seqNum'
    BY <2>2, <1>t DEF SeqOrder
  <2> QED
    BY <2>2, <2>3, <2>4, <2>5 DEF SeqOrder
<1>2. ASSUME NEW w \in Writers, WriteStore(w) PROVE SeqOrder'
  <2>1. /\ up # "down" /\ up' = up /\ wr[w].pc = "alloc" /\ lastSeqNum' = wr[w].seq
        /\ wr' = [wr EXCEPT ![w].pc = "stored"]
        /\ UNCHANGED <<seqNum, inserted, manifest, file>>
    BY <1>2 DEF WriteStore, treeVars
  <2>2. Durable' = Durable
    BY <2>1 DEF Durable
  <2>3. \A v \in Writers : v = w /\ wr'[v].pc = "stored" /\ wr'[v].seq = wr[w].seq
    BY <2>1, <1>t DEF OneWriter
  <2>4. lastSeqNum < wr[w].seq /\ wr[w].seq <= seqNum
    BY <2>1 DEF SeqOrder
  <2>5. \A e \in inserted : e.seq < wr[w].seq /\ e.seq <= wr[w].seq
    BY <2>1, <2>4, <1>t DEF SeqOrder
  <2> QED
    BY <2>1, <2>2, <2>3, <2>4, <2>5 DEF SeqOrder
<1>3. ASSUME NEW w \in Writers, WriteInsert(w) PROVE SeqOrder'
  <2> DEFINE e == [key |-> wr[w].key, seq |-> wr[w].seq, kind |-> wr[w].kind]
  <2>1. /\ up # "down" /\ up' = up /\ wr[w].pc = "stored" /\ inserted' = inserted \cup {e}
        /\ \E r \in {Idle, [Idle EXCEPT !.pc = "signal"]} : wr' = [wr EXCEPT ![w] = r]
        /\ UNCHANGED <<seqNum, lastSeqNum, manifest, file>>
    BY <1>3 DEF WriteInsert, treeVars
  <2>2. Durable' = Durable
    BY <2>1 DEF Durable
  <2>3. e.seq = wr[w].seq
    OBVIOUS
  <2> HIDE DEF e
  <2>4. \A v \in Writers : v = w /\ wr'[v].pc \in {"idle", "signal"} /\ wr'[v].seq = 0
    BY <2>1, <1>t DEF OneWriter, Idle
  <2>5. e.seq = lastSeqNum /\ \A x \in inserted : x.seq < e.seq
    BY <2>1, <2>3 DEF SeqOrder
  <2>6. \A x \in inserted' : x.seq <= lastSeqNum
    BY <2>1, <2>5, <1>t DEF SeqOrder
  <2>7. \A a, b \in inserted' : a.seq = b.seq => a = b
    BY <2>1, <2>5, <1>t DEF SeqOrder
  <2>8. \A v \in Writers : wr'[v].seq <= seqNum
    BY <2>4, <1>t
  <2> QED
    BY <2>1, <2>2, <2>4, <2>6, <2>7, <2>8 DEF SeqOrder
<1>s. ASSUME NEW w \in Writers, WriteSignal(w) PROVE SeqOrder'
  <2>1. /\ up # "down" /\ up' = up /\ wr' = [wr EXCEPT ![w] = Idle]
        /\ UNCHANGED <<seqNum, lastSeqNum, inserted, manifest, file>>
    BY <1>s DEF WriteSignal, treeVars
  <2>2. Durable' = Durable
    BY <2>1 DEF Durable
  <2>3. \A v \in Writers : v = w /\ wr'[v].pc = "idle"
    BY <2>1, <1>t DEF OneWriter, Idle
  <2> QED
    BY <2>1, <2>2, <2>3 DEF SeqOrder
<1>4. CASE Flush \/ Compact
  <2>1. /\ up \in {"open", "closing"} /\ UNCHANGED <<up, seqNum, lastSeqNum, wr, inserted>>
        /\ \A n \in 1 .. MaxFiles : n < nextFileNum => file'[n] = file[n]
        /\ manifest' = manifest \/ manifest'.last = lastSeqNum
    BY <1>4, WorkFrame
  <2>2. Entries(manifest.files, file') = Entries(manifest.files, file)
    BY <2>1, OldFiles
  <2>3. \A e \in Durable' : e.seq <= manifest'.last
    <3>1. CASE manifest' = manifest
      BY <2>2, <3>1 DEF Durable, SeqOrder
    <3>2. CASE manifest'.last = lastSeqNum
      BY <1>d, <2>1, <3>2 DEF SeqOrder
    <3> QED
      BY <2>1, <3>1, <3>2
  <2> QED
    BY <2>1, <2>3 DEF SeqOrder
<1>5. CASE Read \/ CloseBegin \/ CloseEnd \/ UNCHANGED vars
  <2>1. UNCHANGED <<seqNum, lastSeqNum, wr, inserted, file, manifest>> /\ (up' = "down" <=> up = "down")
    BY <1>5, ReadFrames
  <2>2. Durable' = Durable
    BY <2>1 DEF Durable
  <2> QED
    BY <2>1, <2>2 DEF SeqOrder
<1>6. CASE Crash \/ Open
  <2>1. Restarted /\ manifest' = manifest /\ inserted' = Durable /\ wr' = [w \in Writers |-> Idle]
    BY <1>6 DEF Crash, Open, Restarted, Durable
  <2>2. Durable' = Durable
    BY <2>1, ListedSurvive DEF Durable
  <2>3. up' = "down" \/ (seqNum' = manifest.last /\ lastSeqNum' = manifest.last)
    BY <1>6 DEF Crash, Open
  <2>4. \A w \in Writers : wr'[w].pc = "idle"
    BY <2>1 DEF Idle
  <2>5. manifest.last \in Nat /\ manifest.last <= manifest.last
    BY BoundsAssumption DEF Inv, TypeOK, TypeTree
  <2>6. \A e \in Durable : e.seq <= manifest.last
    BY DEF SeqOrder
  <2>7. \A a, b \in Durable : a.seq = b.seq => a = b
    BY <1>d DEF SeqOrder
  <2> QED
    BY <2>1, <2>2, <2>3, <2>4, <2>5, <2>6, <2>7 DEF SeqOrder
<1> QED
  BY <1>1, <1>2, <1>3, <1>s, <1>4, <1>5, <1>6 DEF Next

\* With one writer the order of the numbers holds throughout.
THEOREM NumbersGrow ==
    ASSUME OneWriter
    PROVE  Spec => []SeqOrder
<1>1. Init => SeqOrder
  <2> SUFFICES ASSUME Init PROVE SeqOrder
    OBVIOUS
  <2>1. Inv
    BY InitInv
  <2>2. inserted = {} /\ Durable = {}
    BY <2>1 DEF Init, Inv, ContentSound
  <2> QED
    BY <2>2 DEF Init, SeqOrder, Idle
<1>2. Inv /\ Inv' /\ SeqOrder /\ [Next]_vars => SeqOrder'
  BY SeqStep
<1> QED
  BY <1>1, <1>2, Invariance, PTL DEF Spec

\* With one writer no two writes have the same number, across crashes and
\* restarts too: what a crash leaves on disk is numbered at most manifest.last,
\* where Open starts counting (lsm.go:115-116, version.go:335-363).
THEOREM NumbersUnique ==
    ASSUME OneWriter
    PROVE  Spec => []SeqUnique
<1>1. Inv /\ SeqOrder => SeqUnique
  BY DEF Inv, ContentSound, SeqOrder, SeqUnique
<1> QED
  BY <1>1, Invariance, NumbersGrow, PTL

-----------------------------------------------------------------------------
(* Ranges of keys *)

\* Apart does not depend on the order of its arguments, nor on more entries than
\* there are.
LEMMA ApartLess ==
    ASSUME NEW es, NEW fs, Apart(es, fs), NEW gs \in SUBSET es
    PROVE  Apart(gs, fs) /\ Apart(fs, gs)
<1> QED
  BY DEF Apart

\* Files that are the same are apart in the same way.
LEMMA FilesApartSame ==
    ASSUME NEW V, NEW f, NEW g, \A n \in V : f[n] = g[n], FilesApart(V, f)
    PROVE  FilesApart(V, g)
<1> QED
  BY DEF FilesApart

\* The outputs of a merge are apart from each other and from what stays in their
\* level.
LEMMA MergeRange ==
    ASSUME Inv, RangeOrder, CompactMerge
    PROVE  /\ \A o \in co'.outputs : file'[o].level > 0
           /\ FilesApart(co'.outputs, file')
           /\ \A n \in version \ co'.inputs, o \in co'.outputs :
                file[n].level = file'[o].level => Apart(file[n].entries, file'[o].entries)
<1> DEFINE inputs == CompactionInputs
           es == Entries(inputs, file)
           target == TargetFileSize(SourceLevel + 1)
           src == Entries(SourceFiles, file)
           over == Overlapping(version, file, SourceLevel + 1, src)
<1>1. CompactionNeeded /\ up \in {"open", "closing"}
  BY DEF CompactMerge, Inv, Running
<1>2. /\ SourceLevel \in 0 .. NumLevels - 2 /\ SourceFiles \subseteq Level(version, file, SourceLevel)
      /\ SourceFiles # {} /\ inputs \subseteq version
  BY <1>1, PickSound
<1>3. SourceLevel + 1 \in Nat /\ SourceLevel + 1 > 0
  BY <1>2, SizesAssumption
<1>4. target \in Nat \ {0}
  BY <1>3, TargetPositive
<1>5. inputs = SourceFiles \cup over
  BY DEF CompactionInputs
<1>6. /\ co'.inputs = inputs
      /\ \A n \in co'.outputs : /\ n \in 1 .. MaxFiles /\ nextFileNum <= n
                                /\ file'[n].level = SourceLevel + 1
  BY MergeSound
<1>7. /\ co' = [pc |-> "written", inputs |-> inputs,
                outputs |-> nextFileNum .. nextFileNum + OutputCount(es, target) - 1]
      /\ file' = [n \in 1 .. MaxFiles |->
                    IF n \in nextFileNum .. nextFileNum + OutputCount(es, target) - 1
                    THEN [level |-> SourceLevel + 1, entries |-> Output(es, target, n - nextFileNum)]
                    ELSE file[n]]
  BY DEF CompactMerge
<1>8. \A n \in co'.outputs : file'[n].entries = Output(es, target, n - nextFileNum)
  <2>1. co'.outputs = nextFileNum .. nextFileNum + OutputCount(es, target) - 1
    BY <1>7
  <2> QED
    BY <1>6, <1>7, <2>1
<1>9. \A n \in version : file[n].entries \in SUBSET AnyEntry /\ IsFiniteSet(file[n].entries) /\ file[n].entries # {}
  BY VersionFiles
<1>10. IsFiniteSet(SourceFiles) /\ IsFiniteSet(inputs) /\ SourceFiles \subseteq version
  <2>1. SourceFiles \subseteq version
    BY <1>2 DEF Level
  <2> QED
    BY <1>2, <2>1, FinitelyMany DEF Inv, TypeOK, TypeTree
<1>11. src \in SUBSET AnyEntry /\ IsFiniteSet(src) /\ src # {}
  <2>1. src \in SUBSET AnyEntry
    BY <1>9, <1>10, InEntries
  <2>2. IsFiniteSet(src)
    BY <1>9, <1>10, EntriesFinite
  <2>3. PICK n \in SourceFiles : TRUE
    BY <1>2
  <2>4. PICK e \in file[n].entries : TRUE
    BY <1>9, <1>10, <2>3
  <2>5. e \in src
    BY <2>3, <2>4, InEntries
  <2> QED
    BY <2>1, <2>2, <2>5
<1>12. es \in SUBSET AnyEntry /\ IsFiniteSet(es)
  <2>1. es \in SUBSET AnyEntry
    BY <1>2, <1>9, InEntries
  <2> QED
    BY <1>2, <1>9, <1>10, <2>1, EntriesFinite
<1>13. \A n \in over : n \in version /\ file[n].level = SourceLevel + 1 /\ Overlaps(src, file[n].entries)
  BY DEF Overlapping, Level
<1>14. \A n \in version : file[n].level = SourceLevel + 1 /\ n \notin inputs => ~Overlaps(src, file[n].entries)
  BY <1>5 DEF Overlapping, Level
<1> HIDE DEF inputs, es, target, src, over
<1>15. ASSUME NEW n \in version \ inputs, file[n].level = SourceLevel + 1
       PROVE  Apart(es, file[n].entries)
  <2> DEFINE ms == file[n].entries
             F == {file[m].entries : m \in over}
  <2>1. ms \in SUBSET AnyEntry /\ IsFiniteSet(ms) /\ ms # {}
    BY <1>9
  <2>2. Apart(src, ms)
    BY <1>11, <1>14, <1>15, <2>1, OverlapsApart
  <2>3. ASSUME NEW f \in F PROVE f \in SUBSET AnyEntry /\ ~Apart(src, f) /\ Apart(f, ms)
    <3>1. PICK m \in over : f = file[m].entries
      OBVIOUS
    <3>2. m \in version /\ file[m].level = SourceLevel + 1 /\ Overlaps(src, f)
      BY <1>13, <3>1
    <3>3. f \in SUBSET AnyEntry /\ IsFiniteSet(f) /\ f # {}
      BY <1>9, <3>1, <3>2
    <3>4. m # n
      BY <1>5, <3>1, <1>15
    <3>5. FilesApart(version, file)
      BY <1>1 DEF RangeOrder
    <3>6. Apart(f, ms)
      BY <1>3, <1>15, <3>1, <3>2, <3>4, <3>5 DEF FilesApart
    <3> QED
      BY <1>11, <3>2, <3>3, <3>6, OverlapsApart
  <2>4. Apart(src \cup UNION F, ms)
    <3> HIDE DEF ms, F
    <3> QED
      BY <1>11, <2>1, <2>2, <2>3, MergeApart
  <2>5. es \in SUBSET (src \cup UNION F)
    BY <1>5 DEF es, src, Entries
  <2> HIDE DEF F
  <2> QED
    BY <2>4, <2>5, ApartLess
<1>16. \A i : Output(es, target, i) \in SUBSET es
  BY DEF Output
<1>17. ASSUME NEW n \in version \ co'.inputs, NEW o \in co'.outputs, file[n].level = file'[o].level
       PROVE  Apart(file[n].entries, file'[o].entries)
  <2>1. Apart(es, file[n].entries)
    BY <1>6, <1>15, <1>17
  <2>2. file'[o].entries \in SUBSET es
    BY <1>8, <1>16
  <2> QED
    BY <2>1, <2>2, ApartLess
<1>18. ASSUME NEW m \in co'.outputs, NEW n \in co'.outputs, m # n
       PROVE  Apart(file'[m].entries, file'[n].entries)
  <2> DEFINE i == m - nextFileNum
             j == n - nextFileNum
  <2>1. i \in Nat /\ j \in Nat /\ (i < j \/ j < i)
    <3>1. nextFileNum \in Nat /\ MaxFiles \in Nat
      BY BoundsAssumption DEF Inv, TypeOK, TypeTree
    <3> QED
      BY <1>6, <1>18, <3>1
  <2>2. file'[m].entries = Output(es, target, i) /\ file'[n].entries = Output(es, target, j)
    BY <1>8
  <2> HIDE DEF i, j
  <2>3. CASE i < j
    BY <1>4, <1>12, <2>1, <2>2, <2>3, OutputOrder DEF Apart
  <2>4. CASE j < i
    BY <1>4, <1>12, <2>1, <2>2, <2>4, OutputOrder DEF Apart
  <2> QED
    BY <2>1, <2>3, <2>4
<1> QED
  BY <1>3, <1>6, <1>17, <1>18 DEF FilesApart

\* A step that edits nothing keeps the files apart.
LEMMA RangeQuiet ==
    ASSUME RangeOrder, UNCHANGED <<version, manifest>>,
           up' = "down" <=> up = "down",
           \A n \in version \cup manifest.files \cup co.outputs : file'[n] = file[n],
           fl'.pc = "written" => file'[fl'.num].level = 0,
           co' = co \/ co'.pc # "written"
    PROVE  RangeOrder'
<1>1. FilesApart(manifest.files, file')
  BY FilesApartSame DEF RangeOrder
<1>2. ASSUME co'.pc = "written"
      PROVE  /\ \A o \in co.outputs : file'[o].level > 0
             /\ FilesApart(co.outputs, file')
             /\ \A n \in version \ co.inputs, o \in co.outputs :
                  file'[n].level = file'[o].level => Apart(file'[n].entries, file'[o].entries)
             /\ co' = co
  <2>1. co' = co /\ co.pc = "written"
    BY <1>2
  <2>2. FilesApart(co.outputs, file')
    BY <2>1, FilesApartSame DEF RangeOrder
  <2> QED
    BY <2>1, <2>2 DEF RangeOrder
<1> QED
  BY <1>1, <1>2 DEF RangeOrder

\* The steps of flush and compaction that edit nothing.
LEMMA WorkQuiet ==
    ASSUME EditsApplied, Inv, Flush \/ Compact, ~FlushLog, ~CompactLog
    PROVE  /\ UNCHANGED <<version, manifest>>
           /\ co' = co \/ co'.pc # "written" \/ CompactMerge
           /\ fl' = fl \/ fl'.pc \notin Busy \/ FlushWrite
<1>1. ~FlushUnapplied /\ ~CompactUnapplied
  BY DEF EditsApplied, FlushUnapplied, CompactUnapplied
<1>2. UNCHANGED <<version, manifest>>
  BY <1>1 DEF Flush, FlushWake, FlushNothing, FlushWrite, FlushDrop, FlushFails, treeVars,
     Compact, CompactWake, CompactNothing, CompactMerge, CompactRemove, CompactFails
<1>3. co' = co \/ co'.pc # "written" \/ CompactMerge
  <2>1. CASE Flush
    BY <1>1, <2>1 DEF Flush, FlushWake, FlushNothing, FlushWrite, FlushDrop, FlushFails, FlushFrame
  <2>2. CASE Compact
    <3>0. co \in [pc : {"idle", "loop", "written", "logged", "done"},
                  inputs : SUBSET (1 .. MaxFiles), outputs : SUBSET (1 .. MaxFiles)]
      BY DEF Inv, TypeOK, TypeWork
    <3>1. CASE CompactWake
      BY <3>0, <3>1 DEF CompactWake
    <3>2. CASE CompactNothing \/ CompactRemove \/ CompactFails
      BY <3>2 DEF CompactNothing, CompactRemove, CompactFails, CompactIdle
    <3> QED
      BY <1>1, <2>2, <3>1, <3>2 DEF Compact
  <2> QED
    BY <2>1, <2>2
<1>4. fl' = fl \/ fl'.pc \notin Busy \/ FlushWrite
  <2>1. CASE Flush
    <3>0. fl \in [pc : {"idle", "loop", "written", "logged", "done"}, num : 0 .. MaxFiles, last : BOOLEAN]
      BY DEF Inv, TypeOK, TypeWork
    <3>1. CASE FlushWake \/ FlushDrop
      BY <3>0, <3>1 DEF FlushWake, FlushDrop, Busy
    <3>2. CASE FlushNothing \/ FlushFails
      BY <3>2 DEF FlushNothing, FlushFails, FlushReturn, FlushIdle, Busy
    <3> QED
      BY <1>1, <2>1, <3>1, <3>2 DEF Flush
  <2>2. CASE Compact
    BY <1>1, <2>2 DEF Compact, CompactWake, CompactNothing, CompactMerge, CompactRemove, CompactFails, CompactFrame
  <2> QED
    BY <2>1, <2>2
<1> QED
  BY <1>2, <1>3, <1>4

\* Logging a flush adds a file to L0.
LEMMA FlushLogEdit ==
    ASSUME Inv, FlushLog
    PROVE  /\ fl.pc = "written" /\ up \in {"open", "closing"} /\ UNCHANGED <<up, file, co, table, memId, immLo>>
           /\ version' = version \cup {fl.num} /\ manifest'.files = manifest.files \cup {fl.num}
           /\ fl'.pc = "logged" /\ fl.num \in 1 .. MaxFiles /\ immLo < memId
           /\ file[fl.num].entries = table[immLo]
           /\ fl.num \notin version \cup manifest.files \cup co.inputs \cup co.outputs
<1>1. fl.pc = "written" /\ UNCHANGED <<up, file, co, table, memId, immLo>>
  BY DEF FlushLog, FlushFrame, writeVars
<1>2. version' = version \cup {fl.num} /\ manifest'.files = manifest.files \cup {fl.num}
  BY DEF FlushLog, LogEdit, ApplyEdit
<1>3. fl'.pc = "logged"
  BY DEF FlushLog, Inv, TypeOK, TypeWork
<1>4. fl.num \in onDisk /\ immLo < memId /\ file[fl.num].entries = table[immLo]
      /\ fl.num \notin version \cup manifest.files \cup co.inputs \cup co.outputs
  BY <1>1 DEF Inv, FlushSound, Busy
<1>5. fl.num \in 1 .. MaxFiles
  BY <1>4 DEF Inv, TypeOK, TypeTree
<1>6. up \in {"open", "closing"}
  BY <1>1 DEF Inv, Running, Busy
<1> QED
  BY <1>1, <1>2, <1>3, <1>4, <1>5, <1>6

\* Logging a compaction replaces inputs by outputs.
LEMMA CompactLogEdit ==
    ASSUME Inv, CompactLog
    PROVE  /\ co.pc = "written" /\ up \in {"open", "closing"} /\ UNCHANGED <<up, file, fl, table, memId, immLo>>
           /\ version' = (version \ co.inputs) \cup co.outputs
           /\ manifest'.files = (manifest.files \ co.inputs) \cup co.outputs
           /\ co'.pc = "logged" /\ co.inputs \subseteq version
           /\ Entries(co.outputs, file) = Entries(co.inputs, file)
           /\ Entries(version', file') = Entries(version, file)
<1>1. co.pc = "written" /\ UNCHANGED <<up, file, fl, table, memId, immLo, nextFileNum>>
  BY DEF CompactLog, CompactFrame, writeVars
<1>2. /\ manifest' = [files |-> (manifest.files \ co.inputs) \cup co.outputs, next |-> nextFileNum, last |-> lastSeqNum]
      /\ version' = (version \ co.inputs) \cup co.outputs
  BY DEF CompactLog, LogEdit, ApplyEdit
<1>3. co'.pc = "logged"
  BY DEF CompactLog, Inv, TypeOK, TypeWork
<1> QED
  BY <1>1, <1>2, <1>3, CompactEdit

\* Every step keeps the files of a level apart, if edits are applied.
LEMMA RangeStep ==
    ASSUME EditsApplied, Inv, RangeOrder, [Next]_vars
    PROVE  RangeOrder'
<1>1. ASSUME UNCHANGED <<version, manifest, file, fl, co>>, up' = "down" <=> up = "down" PROVE RangeOrder'
  <2>1. fl'.pc = "written" => file'[fl'.num].level = 0
    BY <1>1 DEF RangeOrder
  <2> QED
    BY <1>1, <2>1, RangeQuiet
<1>2. ASSUME NEW w \in Writers, WriteAlloc(w) \/ WriteStore(w) \/ WriteInsert(w) \/ WriteSignal(w) PROVE RangeOrder'
  <2>1. UNCHANGED <<up, version, manifest, file, fl, co>>
    BY <1>2 DEF WriteAlloc, WriteStore, WriteInsert, WriteSignal, treeVars
  <2> QED
    BY <1>1, <2>1
<1>3. CASE Read \/ CloseBegin \/ CloseEnd \/ UNCHANGED vars
  BY <1>1, <1>3, ReadFrames
<1>4. CASE (Flush \/ Compact) /\ ~FlushLog /\ ~CompactLog
  <2>1. /\ up \in {"open", "closing"} /\ up' = up
        /\ \A n \in 1 .. MaxFiles : n < nextFileNum => file'[n] = file[n]
    BY <1>4, WorkFrame
  <2>2. /\ UNCHANGED <<version, manifest>>
        /\ co' = co \/ co'.pc # "written" \/ CompactMerge
        /\ fl' = fl \/ fl'.pc \notin Busy \/ FlushWrite
    BY <1>4, WorkQuiet
  <2>3. \A n \in version \cup manifest.files \cup co.outputs : file'[n] = file[n]
    BY <2>1, OldFiles
  <2>4. fl'.pc = "written" => file'[fl'.num].level = 0
    <3>1. CASE fl' = fl
      <4>1. fl.pc = "written" => fl.num \in 1 .. MaxFiles /\ fl.num < nextFileNum
        BY <2>1 DEF Inv, FlushSound, Numbered, Busy, TypeOK, TypeTree
      <4> QED
        BY <2>1, <3>1, <4>1 DEF RangeOrder
    <3>2. CASE FlushWrite
      <4>1. nextFileNum \in 1 .. MaxFiles
        BY <3>2, BoundsAssumption DEF FlushWrite, Inv, TypeOK, TypeTree
      <4>2. fl'.num = nextFileNum
        BY <3>2 DEF FlushWrite, Inv, TypeOK, TypeWork
      <4>3. file'[nextFileNum].level = 0
        BY <3>2, <4>1 DEF FlushWrite, Inv, TypeOK, TypeTree
      <4> QED
        BY <4>2, <4>3
    <3> QED
      BY <2>2, <3>1, <3>2 DEF Busy
  <2>5. CASE ~CompactMerge
    BY <2>1, <2>2, <2>3, <2>4, <2>5, RangeQuiet
  <2>6. CASE CompactMerge
    <3>1. /\ \A o \in co'.outputs : file'[o].level > 0
          /\ FilesApart(co'.outputs, file')
          /\ \A n \in version \ co'.inputs, o \in co'.outputs :
                file[n].level = file'[o].level => Apart(file[n].entries, file'[o].entries)
      BY <2>6, MergeRange
    <3>2. FilesApart(manifest.files, file')
      BY <2>3, FilesApartSame DEF RangeOrder
    <3> QED
      BY <2>1, <2>2, <2>3, <2>4, <3>1, <3>2 DEF RangeOrder
  <2> QED
    BY <2>5, <2>6
<1>5. CASE FlushLog
  <2>1. /\ fl.pc = "written" /\ up \in {"open", "closing"} /\ UNCHANGED <<up, file, co>>
        /\ version' = version \cup {fl.num} /\ manifest'.files = manifest.files \cup {fl.num}
        /\ fl'.pc = "logged"
    BY <1>5, FlushLogEdit
  <2>2. file[fl.num].level = 0 /\ version = manifest.files /\ FilesApart(manifest.files, file)
    BY <2>1 DEF RangeOrder
  <2>3. FilesApart(manifest'.files, file')
    BY <2>1, <2>2 DEF FilesApart
  <2>4. ASSUME co.pc = "written", NEW n \in version' \ co.inputs, NEW o \in co.outputs, file[n].level = file[o].level
        PROVE  Apart(file[n].entries, file[o].entries)
    <3>1. file[o].level > 0
      BY <2>4 DEF RangeOrder
    <3>2. n # fl.num
      BY <2>2, <2>4, <3>1
    <3> QED
      BY <2>1, <2>4, <3>2 DEF RangeOrder
  <2> QED
    BY <2>1, <2>2, <2>3, <2>4 DEF RangeOrder
<1>6. CASE CompactLog
  <2>1. /\ co.pc = "written" /\ up \in {"open", "closing"} /\ UNCHANGED <<up, file, fl>>
        /\ version' = (version \ co.inputs) \cup co.outputs
        /\ manifest'.files = (manifest.files \ co.inputs) \cup co.outputs
        /\ co'.pc = "logged"
    BY <1>6, CompactLogEdit
  <2>2. version = manifest.files /\ FilesApart(manifest.files, file) /\ FilesApart(co.outputs, file)
    BY <2>1 DEF RangeOrder
  <2>3. ASSUME NEW m \in manifest'.files, NEW n \in manifest'.files, m # n, file[m].level = file[n].level,
               file[m].level > 0
        PROVE  Apart(file[m].entries, file[n].entries)
    <3>1. CASE m \in co.outputs /\ n \in co.outputs
      BY <2>2, <2>3, <3>1 DEF FilesApart
    <3>2. CASE m \in manifest.files \ co.inputs /\ n \in manifest.files \ co.inputs
      BY <2>2, <2>3, <3>2 DEF FilesApart
    <3>3. CASE m \in manifest.files \ co.inputs /\ n \in co.outputs
      BY <2>1, <2>2, <2>3, <3>3 DEF RangeOrder
    <3>4. CASE m \in co.outputs /\ n \in manifest.files \ co.inputs
      <4>1. Apart(file[n].entries, file[m].entries)
        BY <2>1, <2>2, <2>3, <3>4 DEF RangeOrder
      <4> QED
        BY <4>1, ApartLess
    <3> QED
      BY <2>1, <3>1, <3>2, <3>3, <3>4
  <2>4. FilesApart(manifest'.files, file')
    BY <2>1, <2>3 DEF FilesApart
  <2> QED
    BY <2>1, <2>2, <2>4 DEF RangeOrder
<1>7. CASE Crash \/ Open
  <2>1. Restarted /\ manifest' = manifest /\ fl' = FlushIdle /\ co' = CompactIdle
    BY <1>7 DEF Crash, Open, Restarted
  <2>2. \A n \in manifest.files : file'[n] = file[n]
    BY <2>1, ListedSurvive
  <2>3. FilesApart(manifest.files, file')
    BY <2>2, FilesApartSame DEF RangeOrder
  <2>4. up' = "down" \/ version' = manifest.files
    BY <1>7 DEF Crash, Open
  <2>5. fl'.pc = "idle" /\ co'.pc = "idle"
    BY <2>1 DEF FlushIdle, CompactIdle
  <2> QED
    BY <2>1, <2>3, <2>4, <2>5 DEF RangeOrder
<1> QED
  BY <1>2, <1>3, <1>4, <1>5, <1>6, <1>7 DEF Next

\* If edits are applied the files of a level stay apart.
THEOREM FilesStayApart ==
    ASSUME EditsApplied
    PROVE  Spec => []RangeOrder
<1>1. Init => RangeOrder
  BY DEF Init, RangeOrder, FilesApart, FlushIdle, CompactIdle
<1>2. Inv /\ RangeOrder /\ [Next]_vars => RangeOrder'
  BY RangeStep
<1> QED
  BY <1>1, <1>2, Invariance, PTL DEF Spec

\* If edits are applied, two files of a level below L0 never meet: whatever flush
\* adds while a compaction runs, its outputs stay clear of the files it left in
\* their level (compaction.go:40-83, version.go:256-266).
THEOREM LevelsDisjoint ==
    ASSUME EditsApplied
    PROVE  Spec => []RangesDisjoint
<1>1. Inv /\ RangeOrder => RangesDisjoint
  <2> SUFFICES ASSUME Inv, RangeOrder,
                      NEW m \in version, NEW n \in version,
                      m # n, file[m].level = file[n].level, file[m].level > 0
               PROVE  ~Overlaps(file[m].entries, file[n].entries)
    BY DEF RangesDisjoint
  <2>1. up # "down"
    BY DEF Inv, Running
  <2>2. Apart(file[m].entries, file[n].entries)
    BY <2>1 DEF RangeOrder, FilesApart
  <2> QED
    BY <2>2, VersionFiles, OverlapsApart
<1> QED
  BY <1>1, Invariance, FilesStayApart, PTL

-----------------------------------------------------------------------------
(* New above old *)

\* Being older passes to parts.
LEMMA OlderLess ==
    ASSUME NEW es, NEW fs, Older(es, fs), NEW gs \in SUBSET es
    PROVE  Older(gs, fs)
<1> QED
  BY DEF Older

\* Files that are the same are in the same order.
LEMMA TopOrderSame ==
    ASSUME NEW V, NEW f, NEW g, \A n \in V : f[n] = g[n], TopOrder(V, f)
    PROVE  TopOrder(V, g)
<1> QED
  BY DEF TopOrder

\* An inserted entry is newer than all there is.
LEMMA InsertOrder ==
    ASSUME Inv, SeqOrder, MemOrder, NEW w \in Writers, WriteInsert(w)
    PROVE  MemOrder'
<1> DEFINE e == [key |-> wr[w].key, seq |-> wr[w].seq, kind |-> wr[w].kind]
           full == Cardinality(table[memId]) >= MemCap
           t == IF full THEN memId + 1 ELSE memId
<1>1. /\ up # "down" /\ wr[w].pc = "stored" /\ t <= MaxMems /\ memId' = t
      /\ table' = [table EXCEPT ![t] = @ \cup {e}]
      /\ UNCHANGED <<immLo, version, file, fl>>
  BY DEF WriteInsert, treeVars
<1>2. memId \in 1 .. MaxMems /\ MaxMems \in Nat /\ immLo \in 1 .. memId /\ table \in [1 .. MaxMems -> SUBSET Entry]
  BY BoundsAssumption DEF Inv, TypeOK, TypeWrite
<1>3. t \in 1 .. MaxMems /\ (t = memId \/ t = memId + 1)
  BY <1>1, <1>2
<1>4. e.seq = wr[w].seq
  OBVIOUS
<1> HIDE DEF e, full, t
<1>5. table'[t] = table[t] \cup {e} /\ \A m \in 1 .. MaxMems : m # t => table'[m] = table[m]
  BY <1>1, <1>2, <1>3
<1>6. inserted = Mems(immLo, memId) \cup Entries(version, file)
  BY <1>1, WrittenWhere
<1>7. \A a \in inserted : a.seq < e.seq
  BY <1>1, <1>4 DEF SeqOrder
<1>8. \A m \in immLo .. t : m \in 1 .. MaxMems /\ (m \in immLo .. memId \/ (m = t /\ table[m] = {}))
  <2>1. \A m \in immLo .. t : m \in 1 .. MaxMems /\ (m \in immLo .. memId \/ (m = t /\ m > memId))
    BY <1>2, <1>3
  <2> QED
    BY <2>1 DEF Inv, FinSound
<1>9. \A m \in immLo .. memId : table[m] \subseteq inserted
  BY <1>6 DEF Mems
<1>10. ASSUME NEW m \in immLo .. t, NEW o \in immLo .. t, m < o, NEW a \in table'[m], NEW b \in table'[o]
       PROVE  a.seq < b.seq
  <2>1. m # t /\ m \in immLo .. memId
    BY <1>2, <1>3, <1>10
  <2>2. a \in table[m] /\ a \in inserted
    BY <1>5, <1>8, <1>9, <2>1
  <2>3. CASE b = e
    BY <1>7, <2>2, <2>3
  <2>4. CASE b # e
    <3>1. b \in table[o]
      BY <1>5, <1>8, <2>4
    <3>2. o \in immLo .. memId
      BY <1>8, <3>1
    <3> QED
      BY <1>10, <2>1, <2>2, <3>1, <3>2 DEF MemOrder, Older
  <2> QED
    BY <2>3, <2>4
<1>11. ASSUME NEW a \in Entries(version, file), NEW m \in immLo .. t, NEW b \in table'[m]
       PROVE  a.seq < b.seq \/ (fl.pc = "logged" /\ m = immLo /\ a \in table'[m])
  <2>1. CASE b = e
    BY <1>6, <1>7, <2>1
  <2>2. CASE b # e
    <3>1. b \in table[m] /\ table[m] \subseteq table'[m]
      BY <1>5, <1>8, <2>2
    <3>2. m \in immLo .. memId
      BY <1>8, <3>1
    <3> QED
      BY <3>1, <3>2 DEF MemOrder
  <2> QED
    BY <2>1, <2>2
<1> QED
  BY <1>1, <1>10, <1>11 DEF MemOrder, Older

\* Every step keeps the order of the memtables.
LEMMA MemStep ==
    ASSUME EditsApplied, Inv, SeqOrder, MemOrder, [Next]_vars
    PROVE  MemOrder'
<1>1. ASSUME UNCHANGED <<table, memId, immLo>>, Entries(version', file') = Entries(version, file),
             fl.pc = "logged" => fl'.pc = "logged"
      PROVE  MemOrder'
  BY <1>1 DEF MemOrder
<1>2. ASSUME NEW w \in Writers, WriteAlloc(w) \/ WriteStore(w) \/ WriteSignal(w) PROVE MemOrder'
  <2>1. UNCHANGED <<table, memId, immLo, version, file, fl>>
    BY <1>2 DEF WriteAlloc, WriteStore, WriteSignal, treeVars
  <2> QED
    BY <1>1, <2>1
<1>3. ASSUME NEW w \in Writers, WriteInsert(w) PROVE MemOrder'
  BY <1>3, InsertOrder
<1>4. CASE Read \/ CloseBegin \/ CloseEnd \/ UNCHANGED vars
  BY <1>1, <1>4, ReadFrames
<1>5. CASE (Flush \/ Compact) /\ ~FlushLog /\ ~FlushDrop
  <2>1. /\ up \in {"open", "closing"} /\ UNCHANGED <<table, memId>>
        /\ \A n \in 1 .. MaxFiles : n < nextFileNum => file'[n] = file[n]
    BY <1>5, WorkFrame
  <2>2. UNCHANGED immLo
    BY <1>5 DEF Flush, FlushWake, FlushNothing, FlushWrite, FlushFails, FlushUnapplied, FlushFrame, writeVars,
       Compact, CompactWake, CompactNothing, CompactMerge, CompactLog, CompactRemove, CompactFails, CompactUnapplied,
       CompactFrame
  <2>3. fl.pc = "logged" => fl'.pc = "logged"
    BY <1>5 DEF Flush, FlushWake, FlushNothing, FlushWrite, FlushFails, FlushUnapplied,
       Compact, CompactWake, CompactNothing, CompactMerge, CompactLog, CompactRemove, CompactFails, CompactUnapplied,
       CompactFrame
  <2>4. Entries(version', file') = Entries(version, file)
    <3>1. CASE CompactLog
      BY <3>1, CompactLogEdit
    <3>2. CASE ~CompactLog
      <4>1. version' = version
        BY <1>5, <3>2, WorkQuiet
      <4>2. Entries(version, file') = Entries(version, file)
        BY <2>1, OldFiles
      <4> QED
        BY <4>1, <4>2
    <3> QED
      BY <3>1, <3>2
  <2> QED
    BY <1>1, <2>1, <2>2, <2>3, <2>4
<1>6. CASE FlushLog
  <2>1. /\ fl.pc = "written" /\ UNCHANGED <<file, table, memId, immLo>>
        /\ version' = version \cup {fl.num} /\ fl'.pc = "logged"
        /\ file[fl.num].entries = table[immLo] /\ immLo < memId
    BY <1>6, FlushLogEdit
  <2>2. immLo \in Nat /\ memId \in Nat /\ immLo \in immLo .. memId
    BY <2>1, BoundsAssumption DEF Inv, TypeOK, TypeWrite
  <2>3. ASSUME NEW a \in Entries(version', file'), NEW m \in immLo .. memId, NEW b \in table[m]
        PROVE  a.seq < b.seq \/ (m = immLo /\ a \in table[m])
    <3>1. a \in Entries(version, file) \/ a \in table[immLo]
      <4>1. PICK n \in version' : a \in file[n].entries
        BY <2>1, InEntries
      <4> QED
        BY <2>1, <4>1, InEntries
    <3>2. CASE a \in Entries(version, file)
      BY <2>1, <3>2 DEF MemOrder
    <3>3. CASE a \in table[immLo] /\ m # immLo
      <4>1. immLo < m
        BY <2>2, <3>3
      <4> QED
        BY <2>2, <3>3, <4>1 DEF MemOrder, Older
    <3> QED
      BY <3>1, <3>2, <3>3
  <2> QED
    BY <2>1, <2>3 DEF MemOrder
<1>7. CASE FlushDrop
  <2>1. UNCHANGED <<table, memId, version, file>> /\ immLo' = immLo + 1
    BY <1>7 DEF FlushDrop, treeVars
  <2>2. immLo \in Nat /\ memId \in Nat
    BY BoundsAssumption DEF Inv, TypeOK, TypeWrite
  <2>3. \A m \in immLo' .. memId : m \in immLo .. memId /\ m # immLo
    BY <2>1, <2>2
  <2> QED
    BY <2>1, <2>3 DEF MemOrder
<1>8. CASE Crash \/ Open
  <2>1. table' = [m \in 1 .. MaxMems |-> {}] /\ memId' = 1 /\ immLo' = 1
    BY <1>8 DEF Crash, Open, Restarted
  <2>2. \A m \in immLo' .. memId' : table'[m] = {}
    BY <2>1, BoundsAssumption
  <2> QED
    BY <2>2 DEF MemOrder, Older
<1> QED
  BY <1>2, <1>3, <1>4, <1>5, <1>6, <1>7, <1>8 DEF Next

\* pickCompaction takes all of L0 or none of it.
LEMMA PickTop ==
    ASSUME Inv, CompactionNeeded
    PROVE  \/ \A n \in version : file[n].level = 0 => n \in CompactionInputs
           \/ \A n \in CompactionInputs : file[n].level > 0
<1>1. CASE L0Full
  BY <1>1 DEF CompactionInputs, SourceFiles, Level
<1>2. CASE ~L0Full
  <2>1. Oversized \in SUBSET Nat /\ Oversized # {}
    BY <1>2, SizesAssumption DEF Oversized, CompactionNeeded
  <2>2. \E l \in Oversized : \A k \in Oversized : l <= k
    BY <2>1, LeastNumber
  <2>3. SourceLevel \in Oversized
    BY <1>2, <2>2 DEF SourceLevel
  <2>4. SourceLevel \in Nat /\ SourceLevel > 0 /\ SourceLevel + 1 > 0
    BY <2>3, SizesAssumption DEF Oversized
  <2>5. SourceFiles \subseteq Level(version, file, SourceLevel)
    BY PickSound
  <2> QED
    BY <2>4, <2>5 DEF CompactionInputs, Overlapping, Level
<1> QED
  BY <1>1, <1>2

\* Every step keeps the order of the files.
LEMMA FileStep ==
    ASSUME EditsApplied, Inv, RangeOrder, MemOrder, FileOrder, [Next]_vars
    PROVE  FileOrder'
<1>1. ASSUME UNCHANGED <<version, manifest, file, fl, co>> PROVE FileOrder'
  BY <1>1 DEF FileOrder
<1>2. ASSUME NEW w \in Writers, WriteAlloc(w) \/ WriteStore(w) \/ WriteInsert(w) \/ WriteSignal(w) PROVE FileOrder'
  <2>1. UNCHANGED <<version, manifest, file, fl, co>>
    BY <1>2 DEF WriteAlloc, WriteStore, WriteInsert, WriteSignal, treeVars
  <2> QED
    BY <1>1, <2>1
<1>3. CASE Read \/ CloseBegin \/ CloseEnd \/ UNCHANGED vars
  BY <1>1, <1>3, ReadFrames
<1>4. CASE (Flush \/ Compact) /\ ~FlushLog /\ ~CompactLog
  <2>1. /\ up \in {"open", "closing"}
        /\ \A n \in 1 .. MaxFiles : n < nextFileNum => file'[n] = file[n]
    BY <1>4, WorkFrame
  <2>2. /\ UNCHANGED <<version, manifest>>
        /\ co' = co \/ co'.pc # "written" \/ CompactMerge
        /\ fl' = fl \/ fl'.pc \notin Busy \/ FlushWrite
    BY <1>4, WorkQuiet
  <2>3. /\ \A n \in version \cup manifest.files \cup co.inputs : file'[n] = file[n]
        /\ Entries(co.inputs, file') = Entries(co.inputs, file)
    BY <2>1, OldFiles
  <2>4. TopOrder(manifest.files, file')
    BY <2>3, TopOrderSame DEF FileOrder
  <2>5. fl'.pc = "written" => \A n \in version : file'[n].level = 0 => n < fl'.num
    <3>1. CASE fl' = fl
      BY <2>3, <3>1 DEF FileOrder
    <3>2. CASE FlushWrite
      <4>1. fl'.num = nextFileNum
        BY <3>2 DEF FlushWrite, Inv, TypeOK, TypeWork
      <4>2. \A n \in version : n < nextFileNum
        BY <2>1, TablesInUse
      <4> QED
        BY <4>1, <4>2
    <3> QED
      BY <2>2, <3>1, <3>2 DEF Busy
  <2>6. co'.pc = "written" =>
          \A n \in version \ co'.inputs : file'[n].level = 0 => Older(Entries(co'.inputs, file'), file'[n].entries)
    <3>1. CASE co' = co
      BY <2>3, <3>1 DEF FileOrder
    <3>2. CASE CompactMerge
      <4>1. co'.inputs = CompactionInputs /\ co'.inputs \subseteq version
        BY <3>2, MergeSound
      <4>2. CompactionNeeded
        BY <3>2 DEF CompactMerge
      <4>3. \/ \A n \in version : file[n].level = 0 => n \in co'.inputs
            \/ \A n \in co'.inputs : file[n].level > 0
        BY <4>1, <4>2, PickTop
      <4>4. version = manifest.files
        BY <2>1 DEF RangeOrder
      <4>5. ASSUME NEW n \in version \ co'.inputs, file'[n].level = 0,
                   NEW a \in Entries(co'.inputs, file'), NEW b \in file'[n].entries
            PROVE  a.seq < b.seq
        <5>1. PICK m \in co'.inputs : a \in file'[m].entries
          BY InEntries
        <5>2. file'[m] = file[m] /\ file'[n] = file[n] /\ m \in version
          BY <2>3, <4>1, <5>1
        <5>3. file[m].level > 0 /\ file[n].level = 0
          BY <4>3, <4>5, <5>1, <5>2
        <5> QED
          BY <4>4, <4>5, <5>1, <5>2, <5>3 DEF FileOrder, TopOrder, Older
      <4> QED
        BY <4>5 DEF Older
    <3> QED
      BY <2>2, <3>1, <3>2
  <2> QED
    BY <2>2, <2>4, <2>5, <2>6 DEF FileOrder
<1>5. CASE FlushLog
  <2>1. /\ fl.pc = "written" /\ up \in {"open", "closing"} /\ UNCHANGED <<file, co>>
        /\ version' = version \cup {fl.num} /\ manifest'.files = manifest.files \cup {fl.num}
        /\ fl'.pc = "logged" /\ immLo < memId /\ file[fl.num].entries = table[immLo]
    BY <1>5, FlushLogEdit
  <2>2. file[fl.num].level = 0 /\ version = manifest.files
    BY <2>1 DEF RangeOrder
  <2>3. immLo \in immLo .. memId
    BY <2>1, BoundsAssumption DEF Inv, TypeOK, TypeWrite
  <2>4. Older(Entries(version, file), file[fl.num].entries)
    BY <2>1, <2>3 DEF MemOrder, Older
  <2>5. \A n \in version : Older(file[n].entries, file[fl.num].entries)
    <3>1. \A n \in version : file[n].entries \in SUBSET Entries(version, file)
      BY InEntries
    <3> QED
      BY <2>4, <3>1, OlderLess
  <2>6. \A n \in version : file[n].level = 0 => n < fl.num
    BY <2>1 DEF FileOrder
  <2>7. TopOrder(manifest'.files, file')
    <3>1. \A n \in version : file[n].level = 0 => ~(fl.num < n)
      <4>1. fl.num \in Nat /\ \A n \in version : n \in Nat
        BY <2>1, TablesInUse, BoundsAssumption DEF Inv, TypeOK, TypeWork
      <4> QED
        BY <2>6, <4>1
    <3>2. ~(fl.num < fl.num)
      BY BoundsAssumption DEF Inv, TypeOK, TypeWork
    <3>3. TopOrder(version, file)
      BY <2>2 DEF FileOrder
    <3> QED
      BY <2>1, <2>2, <2>5, <3>1, <3>2, <3>3 DEF TopOrder
  <2>8. ASSUME co.pc = "written", NEW n \in version' \ co.inputs, file[n].level = 0
        PROVE  Older(Entries(co.inputs, file), file[n].entries)
    <3>1. CASE n \in version
      BY <2>8, <3>1 DEF FileOrder
    <3>2. CASE n = fl.num
      <4>1. co.inputs \subseteq version
        BY <2>8 DEF Inv, CompactSound
      <4>2. Entries(co.inputs, file) \in SUBSET Entries(version, file)
        BY <4>1, EntriesMono
      <4> QED
        BY <2>4, <3>2, <4>2, OlderLess
    <3> QED
      BY <2>1, <2>8, <3>1, <3>2
  <2> QED
    BY <2>1, <2>7, <2>8 DEF FileOrder
<1>6. CASE CompactLog
  <2>1. /\ co.pc = "written" /\ up \in {"open", "closing"} /\ UNCHANGED <<file, fl>>
        /\ version' = (version \ co.inputs) \cup co.outputs
        /\ manifest'.files = (manifest.files \ co.inputs) \cup co.outputs
        /\ co'.pc = "logged" /\ Entries(co.outputs, file) = Entries(co.inputs, file)
    BY <1>6, CompactLogEdit
  <2>2. version = manifest.files /\ \A o \in co.outputs : file[o].level > 0
    BY <2>1 DEF RangeOrder
  <2>3. \A o \in co.outputs : file[o].level # 0
    BY <2>2
  <2>4. ASSUME NEW m \in manifest'.files, NEW n \in manifest'.files, file[m].level = 0, file[n].level > 0
        PROVE  Older(file[n].entries, file[m].entries)
    <3>1. m \in version \ co.inputs
      BY <2>1, <2>2, <2>3, <2>4
    <3>2. CASE n \in co.outputs
      <4>1. file[n].entries \in SUBSET Entries(co.inputs, file)
        BY <2>1, <3>2, InEntries
      <4>2. Older(Entries(co.inputs, file), file[m].entries)
        BY <2>1, <2>4, <3>1 DEF FileOrder
      <4> QED
        BY <4>1, <4>2, OlderLess
    <3>3. CASE n \notin co.outputs
      BY <2>1, <2>2, <2>4, <3>1, <3>3 DEF FileOrder, TopOrder
    <3> QED
      BY <3>2, <3>3
  <2>5. ASSUME NEW m \in manifest'.files, NEW n \in manifest'.files, file[m].level = 0, file[n].level = 0, m < n
        PROVE  Older(file[m].entries, file[n].entries)
    BY <2>1, <2>3, <2>5 DEF FileOrder, TopOrder
  <2>6. TopOrder(manifest'.files, file')
    BY <2>1, <2>4, <2>5 DEF TopOrder
  <2>7. fl'.pc = "written" => \A n \in version' : file'[n].level = 0 => n < fl'.num
    BY <2>1, <2>3 DEF FileOrder
  <2> QED
    BY <2>1, <2>6, <2>7 DEF FileOrder
<1>7. CASE Crash \/ Open
  <2>1. Restarted /\ manifest' = manifest /\ fl' = FlushIdle /\ co' = CompactIdle
    BY <1>7 DEF Crash, Open, Restarted
  <2>2. \A n \in manifest.files : file'[n] = file[n]
    BY <2>1, ListedSurvive
  <2>3. TopOrder(manifest.files, file')
    BY <2>2, TopOrderSame DEF FileOrder
  <2>4. fl'.pc = "idle" /\ co'.pc = "idle"
    BY <2>1 DEF FlushIdle, CompactIdle
  <2> QED
    BY <2>1, <2>3, <2>4 DEF FileOrder
<1> QED
  BY <1>2, <1>3, <1>4, <1>5, <1>6, <1>7 DEF Next

\* The order of the places implies that what is found first is newest.
LEMMA OrderImpliesFresh ==
    ASSUME Inv, RangeOrder, MemOrder, FileOrder
    PROVE  FreshOnTop
<1> SUFFICES ASSUME NEW p \in MemPlaces \cup FilePlaces, NEW q \in MemPlaces \cup FilePlaces,
                    Above(p, q), p.kind = "mem" \/ p.depth < MaxFiles,
                    NEW a \in p.entries, NEW b \in q.entries
             PROVE  b.seq <= a.seq \/ b \in p.entries
  BY DEF FreshOnTop, Newer
<1>0. /\ memId \in Nat /\ immLo \in Nat /\ immLo >= 1 /\ MaxFiles \in Nat
      /\ version \subseteq 1 .. MaxFiles
      /\ \A n \in version : file[n].level \in Nat /\ file[n].entries \in SUBSET Entry
      /\ \A m \in immLo .. memId : table[m] \in SUBSET Entry /\ m \in Nat
  BY BoundsAssumption, SizesAssumption DEF Inv, TypeOK, TypeWrite, TypeTree
<1>1. \A x \in Entry : x.seq \in Nat
  BY BoundsAssumption DEF Entry
<1>2. ASSUME NEW x \in MemPlaces
      PROVE  \E m \in immLo .. memId : x.kind = "mem" /\ x.depth = memId - m /\ x.entries = table[m]
  BY <1>2 DEF MemPlaces
<1>3. ASSUME NEW x \in FilePlaces
      PROVE  \E n \in version : /\ x.kind = "file" /\ x.entries = file[n].entries
                                /\ file[n].level = 0 => x.depth = MaxFiles - n
                                /\ file[n].level # 0 => x.depth = MaxFiles + file[n].level
  BY <1>3 DEF FilePlaces
<1>4. CASE p \in MemPlaces
  <2>1. PICK m \in immLo .. memId : p.kind = "mem" /\ p.depth = memId - m /\ p.entries = table[m]
    BY <1>2, <1>4
  <2>2. CASE q \in MemPlaces
    <3>1. PICK o \in immLo .. memId : q.kind = "mem" /\ q.depth = memId - o /\ q.entries = table[o]
      BY <1>2, <2>2
    <3>2. o < m
      <4>1. memId - m < memId - o
        BY <2>1, <3>1 DEF Above
      <4> QED
        BY <1>0, <4>1
    <3>3. b.seq < a.seq
      BY <2>1, <3>1, <3>2 DEF MemOrder, Older
    <3> QED
      BY <1>0, <1>1, <2>1, <3>1, <3>3
  <2>3. CASE q \in FilePlaces
    <3>1. PICK n \in version : q.entries = file[n].entries
      BY <1>3, <2>3
    <3>2. b \in Entries(version, file)
      BY <3>1, InEntries
    <3>3. b.seq < a.seq \/ b \in table[m]
      BY <2>1, <3>2 DEF MemOrder
    <3> QED
      BY <1>0, <1>1, <2>1, <3>1, <3>3
  <2> QED
    BY <2>2, <2>3
<1>5. CASE p \in FilePlaces
  <2>1. PICK n \in version : /\ p.kind = "file" /\ p.entries = file[n].entries
                             /\ file[n].level = 0 => p.depth = MaxFiles - n
                             /\ file[n].level # 0 => p.depth = MaxFiles + file[n].level
    BY <1>3, <1>5
  <2>2. file[n].level = 0 /\ p.depth = MaxFiles - n
    <3>1. p.depth < MaxFiles
      BY <2>1
    <3> QED
      BY <1>0, <2>1, <3>1
  <2>3. q \notin MemPlaces
    BY <1>2, <2>1 DEF Above
  <2>4. PICK m \in version : /\ q.kind = "file" /\ q.entries = file[m].entries
                             /\ file[m].level = 0 => q.depth = MaxFiles - m
                             /\ file[m].level # 0 => q.depth = MaxFiles + file[m].level
    BY <1>3, <2>3
  <2>5. TopOrder(version, file)
    <3>1. up # "down"
      BY <2>1 DEF Inv, Running
    <3> QED
      BY <3>1 DEF RangeOrder, FileOrder
  <2>6. b.seq < a.seq
    <3>1. CASE file[m].level = 0
      <4>1. MaxFiles - n < MaxFiles - m
        BY <2>1, <2>2, <2>4, <3>1 DEF Above
      <4>2. m < n
        BY <1>0, <4>1
      <4> QED
        BY <2>1, <2>2, <2>4, <2>5, <3>1, <4>2 DEF TopOrder, Older
    <3>2. CASE file[m].level # 0
      <4>1. file[m].level > 0
        BY <1>0, <3>2
      <4> QED
        BY <2>1, <2>2, <2>4, <2>5, <4>1 DEF TopOrder, Older
    <3> QED
      BY <3>1, <3>2
  <2> QED
    BY <1>0, <1>1, <2>1, <2>4, <2>6
<1> QED
  BY <1>4, <1>5

\* With one writer, and if edits are applied, what is in a memtable or in L0 is
\* newer than what lies below it, while memtables are flushed and L0 is compacted
\* (lsm.go:517-549, compaction.go:40-58).
THEOREM NewestOnTop ==
    ASSUME OneWriter, EditsApplied
    PROVE  Spec => []FreshOnTop
<1>1. Init => MemOrder /\ FileOrder
  <2> SUFFICES ASSUME Init PROVE MemOrder /\ FileOrder
    OBVIOUS
  <2>1. table = [m \in 1 .. MaxMems |-> {}] /\ memId = 1 /\ immLo = 1
    BY DEF Init
  <2>2. \A m \in immLo .. memId : table[m] = {}
    BY <2>1, BoundsAssumption
  <2>3. MemOrder
    BY <2>2 DEF MemOrder, Older
  <2>4. FileOrder
    BY DEF Init, FileOrder, TopOrder, FlushIdle, CompactIdle
  <2> QED
    BY <2>3, <2>4
<1>2. Inv /\ SeqOrder /\ RangeOrder /\ MemOrder /\ FileOrder /\ [Next]_vars => MemOrder' /\ FileOrder'
  BY MemStep, FileStep
<1>3. Inv /\ RangeOrder /\ MemOrder /\ FileOrder => FreshOnTop
  BY OrderImpliesFresh
<1> QED
  BY <1>1, <1>2, <1>3, Invariance, NumbersGrow, FilesStayApart, PTL DEF Spec

=============================================================================
