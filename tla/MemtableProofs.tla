--------------------------- MODULE MemtableProofs ---------------------------
(***************************************************************************)
(* Proofs about the memtable, for any number of goroutines and keys, any   *)
(* arena and any height of the skiplist.                                   *)
(*                                                                         *)
(* ListsSound is not inductive: a compare-and-swap that succeeds keeps a   *)
(* level sorted only because the splice it is based on, found many steps   *)
(* earlier, still brackets the key (GoodSplice), because the node being    *)
(* linked is in exactly the levels below (GoodNode), and because a search  *)
(* only stands on nodes of its level (GoodPosition).  These speak of one   *)
(* goroutine each; what the others do to the shared words (Grows) never    *)
(* disturbs them.                                                          *)
(***************************************************************************)
EXTENDS Memtable, TLAPS

\* Inside Skiplist.Add with a node of its own.
Owning == {"height", "grow", "link", "relink", "done"}
\* Inside Skiplist.Add with a splice, complete or not.
Splicing == {"find", "alloc", "height", "grow", "link", "relink"}
Searching == {"find", "relink", "seek"}
\* updateSeqRange is past the minimum, past the maximum.
MaxSettled == {"start", "find", "alloc", "height", "grow", "link", "relink", "done"}
MinSettled == MaxSettled \cup {"max", "maxCas"}

\* The keys and counters a call works with, by where it is.
GoodControl(p) ==
    /\ pc[p] # "panic"
    /\ pc[p] # "idle" => key[p] \in Keys
    /\ pc[p] \in Searching => level[p] \in Levels
    /\ pc[p] \in {"alloc", "height", "grow"} => level[p] = 0
    /\ pc[p] \in Owning => ht[p] >= 1
    /\ pc[p] \in {"link", "relink"} => level[p] < ht[p]
    /\ pc[p] = "relink" => ~found[p]
    /\ pc[p] = "done" => level[p] > 0

\* A node that is being added has its key and is in the levels below the one
\* that is linked next.
GoodNode(p) ==
    pc[p] \in Owning =>
        /\ nodeKey[nd[p]] = key[p]
        /\ \A l \in Levels : nd[p] \in linked[l] <=> l < level[p]

\* A searched level is split in front of the key, until the key is found.
GoodSplice(p) ==
    pc[p] \in Splicing =>
        \A l \in Levels : spl[p][l].prev # 0 =>
            /\ spl[p][l].prev \in linked[l] \cup {Head}
            /\ nodeKey[spl[p][l].prev] < key[p]
            /\ \/ spl[p][l].next = 0
               \/ nodeKey[spl[p][l].next] > key[p]
               \/ pc[p] = "find" /\ found[p]

\* A search stands on a node of its level that is in front of the key.
GoodPosition(p) ==
    pc[p] \in Searching =>
        /\ prev[p] \in linked[level[p]] \cup {Head}
        /\ nodeKey[prev[p]] < key[p]

\* What has been found is in the list, and an iterator is on a node of it.
GoodFound(p) ==
    /\ pc[p] = "find" /\ found[p] => \E o \in linked[0] : nodeKey[o] = key[p]
    /\ it[p] \in linked[0] \cup {0}

\* A compare-and-swap of the sequence range would widen it, and a call that has
\* left updateSeqRange is covered by it.
GoodRange(p) ==
    /\ pc[p] = "minCas" => seen[p] = 0 \/ seen[p] > SeqNum[key[p]]
    /\ pc[p] = "maxCas" => seen[p] < SeqNum[key[p]]
    /\ pc[p] \in MinSettled => minSeq # 0 /\ minSeq <= SeqNum[key[p]]
    /\ pc[p] \in MaxSettled => SeqNum[key[p]] <= maxSeq

Good(p) ==
    GoodControl(p) /\ GoodNode(p) /\ GoodSplice(p) /\ GoodPosition(p) /\ GoodFound(p) /\ GoodRange(p)

\* Two goroutines never add the same node.
NodesOwned ==
    \A p, q \in Procs : pc[p] \in Owning /\ pc[q] \in Owning /\ nd[p] = nd[q] => p = q

\* What has been handed out ends before arena.n, and what follows is unused.
ArenaSound ==
    /\ n > Head
    /\ \A a \in blocks : a[2] > 0 /\ a[1] + a[2] <= n
    /\ AllocsDisjoint
    /\ \A o \in Offsets : o >= n \/ o \in {0, Head} => nodeKey[o] = 0
    /\ \A l \in Levels : \A o \in linked[l] : nodeKey[o] # 0

RangeSound == SeqRangeCovers /\ (linked[0] # {} => minSeq # 0)

\* A node is linked into the base level first.
BaseFirst == \A l \in Levels : linked[l] \subseteq linked[0]

Inv ==
    /\ TypeOK /\ ArenaSound /\ ListsSound /\ BaseFirst /\ RangeSound /\ NodesOwned
    /\ \A p \in Procs : Good(p)

-----------------------------------------------------------------------------
\* A key, its sequence number and its size are numbers.
LEMMA KeyTypes ==
    ASSUME NEW k \in Keys
    PROVE  k \in Nat /\ k > 0 /\ SeqNum[k] \in Nat /\ SeqNum[k] > 0 /\ KeySize[k] \in Nat
<1>1. SeqNum[k] \in Nat \ {0} /\ KeySize[k] \in Nat /\ k \in Nat \ {0}
  BY KeysAssumption
<1> QED
  BY <1>1

(* The arithmetic of the arena *)

\* Rounding x down to a multiple of the alignment.
LEMMA RoundDown ==
    ASSUME NEW x \in Nat
    PROVE  LET o == (x \div Alignment) * Alignment
           IN  o \in Nat /\ o <= x /\ x < o + Alignment /\ o % Alignment = 0
<1> DEFINE q == x \div Alignment
           o == q * Alignment
           r == o % Alignment
           d == o \div Alignment
<1>a. Alignment \in Nat /\ Alignment > 0
  BY ArenaAssumption
<1>1. q \in Nat /\ x = Alignment * q + (x % Alignment) /\ x % Alignment \in 0 .. Alignment - 1
  BY <1>a
<1>2. o \in Nat /\ o <= x /\ x < o + Alignment
  BY <1>1, <1>a
<1>3. d \in Nat /\ r \in 0 .. Alignment - 1 /\ o = Alignment * d + r
  BY <1>2, <1>a
<1>4. r = 0
  <2> HIDE DEF q, r, d
  <2>1. q * Alignment = d * Alignment + r
    BY <1>3, <1>1, <1>a
  <2>2. CASE q = d
    BY <2>1, <2>2, <1>1, <1>3, <1>a
  <2>3. CASE q >= d + 1
    <3>1. q * Alignment >= (d + 1) * Alignment
      BY <2>3, <1>1, <1>3, <1>a
    <3>2. (d + 1) * Alignment = d * Alignment + Alignment
      BY <1>3, <1>a
    <3>3. d * Alignment \in Nat /\ q * Alignment \in Nat
      BY <1>1, <1>3, <1>a
    <3> QED
      BY <2>1, <3>1, <3>2, <3>3, <1>3, <1>a
  <2>4. CASE d >= q + 1
    <3>1. d * Alignment >= (q + 1) * Alignment
      BY <2>4, <1>1, <1>3, <1>a
    <3>2. (q + 1) * Alignment = q * Alignment + Alignment
      BY <1>1, <1>a
    <3>3. d * Alignment \in Nat /\ q * Alignment \in Nat
      BY <1>1, <1>3, <1>a
    <3> QED
      BY <2>1, <3>1, <3>2, <3>3, <1>3, <1>a
  <2> QED
    BY <2>2, <2>3, <2>4, <1>1, <1>3
<1> QED
  BY <1>2, <1>4

\* An allocation that moves the end from m (at least 1) lies between the old
\* end and the new one, and is aligned.
LEMMA AllocFits ==
    ASSUME NEW m \in Nat \ {0}, NEW size \in Nat
    PROVE  LET o == AllocOffset(m + AllocSize(size), size)
           IN  o \in Nat /\ m <= o /\ o + size <= m + AllocSize(size) /\ o % Alignment = 0
<1>a. Alignment \in Nat /\ Alignment > 0
  BY ArenaAssumption
<1>1. (m + AllocSize(size)) - size = m + Alignment - 1 /\ m + Alignment - 1 \in Nat
  BY <1>a DEF AllocSize
<1> DEFINE x == m + Alignment - 1
           o == (x \div Alignment) * Alignment
<1>2. o \in Nat /\ o <= x /\ x < o + Alignment /\ o % Alignment = 0
  BY <1>1, RoundDown
<1>3. AllocOffset(m + AllocSize(size), size) = o
  BY <1>1 DEF AllocOffset
<1> HIDE DEF o
<1> QED
  BY <1>2, <1>3, <1>a DEF AllocSize

\* The head of the list is the first node of the arena.
LEMMA HeadFits ==
    /\ Head \in Offsets /\ Head > 0 /\ Head % Alignment = 0
    /\ Head + NodeSize <= 1 + AllocSize(NodeSize)
    /\ 1 + AllocSize(NodeSize) <= Capacity
<1>1. AllocSize(NodeSize) \in Nat /\ 1 + AllocSize(NodeSize) <= Capacity
  BY ArenaAssumption DEF AllocSize
<1>2. Head \in Nat /\ 1 <= Head /\ Head + NodeSize <= 1 + AllocSize(NodeSize) /\ Head % Alignment = 0
  BY AllocFits, ArenaAssumption DEF Head
<1> QED
  BY <1>1, <1>2, ArenaAssumption DEF Offsets

-----------------------------------------------------------------------------
(* Typing *)

\* A new memtable satisfies the invariant.
LEMMA InitInv == Init => Inv
<1> SUFFICES ASSUME Init PROVE Inv
  OBVIOUS
<1> USE HeadFits, ArenaAssumption, HeightAssumption DEF Init
<1>1. TypeOK
  <2>1. n \in Nat /\ height \in 1 .. MaxHeight /\ minSeq \in Nat /\ maxSeq \in Nat
    BY DEF AllocSize
  <2>2. blocks \subseteq Offsets \X Nat
    OBVIOUS
  <2>3. 0 \in Offsets /\ 0 \in 0 .. MaxHeight
    BY DEF Offsets
  <2>4. NoSplice \in [Levels -> [prev : Offsets, next : Offsets]]
    BY <2>3 DEF NoSplice
  <2> QED
    BY <2>1, <2>2, <2>3, <2>4 DEF TypeOK, TypeShared, TypeLocal, Labels
<1>2. ArenaSound
  BY DEF ArenaSound, AllocsDisjoint, Offsets, AllocSize
<1>3. ListsSound
  BY DEF ListsSound, InOrder, Offsets, Levels
<1>b. BaseFirst
  BY DEF BaseFirst, Levels
<1>4. RangeSound /\ NodesOwned
  BY DEF RangeSound, SeqRangeCovers, NodesOwned, Owning, Levels
<1>5. \A p \in Procs : Good(p)
  BY DEF Good, GoodControl, GoodNode, GoodSplice, GoodPosition, GoodFound, GoodRange,
         Owning, Splicing, Searching, MinSettled, MaxSettled
<1> QED
  BY <1>1, <1>2, <1>3, <1>4, <1>5, <1>b DEF Inv

\* Everything goroutine p may do.
Acts(p) ==
    \/ Step(p)
    \/ \E k \in Keys : Add(p, k) \/ SeekGE(p, k)
    \/ First(p) \/ Advance(p)

\* The arena gives a node of a size that fits into the rest of the buffer.
LEMMA NewNodeOffset ==
    ASSUME Inv, NEW p \in Procs, NEW h, NewNode(p, h)
    PROVE  LET size == NodeSize + KeySize[key[p]]
               o == AllocOffset(n + AllocSize(size), size)
           IN  /\ size \in Nat /\ size > 0
               /\ o \in Offsets /\ n <= o /\ o > Head /\ o % Alignment = 0
               /\ o + size <= n' /\ n' <= Capacity /\ n' \in Nat /\ n <= n'
<1> DEFINE size == NodeSize + KeySize[key[p]]
           o == AllocOffset(n + AllocSize(size), size)
<1>1. key[p] \in Keys /\ n \in Nat /\ n > Head
  BY DEF Inv, TypeOK, TypeShared, ArenaSound, Good, GoodControl, NewNode
<1>2. size \in Nat /\ size > 0
  BY <1>1, KeyTypes, ArenaAssumption
<1>3. n' = n + AllocSize(size) /\ n' <= Capacity
  BY DEF NewNode
<1>4. n \in Nat \ {0} /\ AllocSize(size) \in Nat
  BY <1>1, <1>2, HeadFits, ArenaAssumption DEF AllocSize, Offsets
<1>5. o \in Nat /\ n <= o /\ o + size <= n + AllocSize(size) /\ o % Alignment = 0
  BY <1>4, <1>2, AllocFits
<1> HIDE DEF o, size
<1>6. o \in Offsets /\ o > Head
  BY <1>1, <1>2, <1>3, <1>4, <1>5, ArenaAssumption, HeadFits DEF Offsets
<1> QED
  BY <1>2, <1>3, <1>4, <1>5, <1>6 DEF o, size

\* Every step keeps the types.
LEMMA TypeStep ==
    ASSUME Inv, NEW p \in Procs, Acts(p)
    PROVE  TypeOK'
<1> USE DEF GoTo, shared, listVars, seqVars, local
<1>t. TypeShared /\ TypeLocal /\ GoodControl(p)
  BY DEF Inv, Good, TypeOK
<1>n. pc[p] # "idle" => key[p] \in Keys /\ SeqNum[key[p]] \in Nat
  BY <1>t, KeyTypes DEF GoodControl
<1>w. pc[p] \in Searching => tower[prev[p]][level[p]] \in Offsets
  BY <1>t DEF TypeShared, TypeLocal, GoodControl
<1>z. 0 \in Offsets /\ Head \in Offsets /\ 0 \in 0 .. MaxHeight
  BY HeadFits, ArenaAssumption, HeightAssumption DEF Offsets
<1>s. NoSplice \in [Levels -> [prev : Offsets, next : Offsets]]
  BY <1>z DEF NoSplice
\* The shared words stay as they are in most steps.
<1>u. ASSUME UNCHANGED shared PROVE TypeShared'
  BY <1>u, <1>t DEF TypeShared
\* A word is loaded, and nothing else changes.
<1>l. ASSUME NEW lbl \in Labels, NEW w \in Nat, Loaded(p, lbl, w),
             UNCHANGED <<key, level, prev, spl, found, nd, ht, it, ret>>
      PROVE  TypeLocal'
  BY <1>l, <1>t DEF Loaded, TypeLocal
<1>g. ASSUME NEW lbl \in Labels, GoTo(p, lbl),
             UNCHANGED <<key, seen, level, prev, spl, found, nd, ht, it, ret>>
      PROVE  TypeLocal'
  BY <1>g, <1>t DEF TypeLocal
\* An Add returns.
<1>f. ASSUME NEW r \in {"ok", "exists", "full"}, Finish(p, r) PROVE TypeLocal'
  BY <1>f, <1>t, <1>z, <1>s DEF Finish, TypeLocal, Labels
\* A level has been searched.
<1>b. ASSUME Bracket(p), pc[p] \in Searching
      PROVE  /\ spl' \in [Procs -> [Levels -> [prev : Offsets, next : Offsets]]]
             /\ found' \in [Procs -> BOOLEAN]
  <2>1. level[p] \in Levels /\ prev[p] \in Offsets
    BY <1>b, <1>t DEF GoodControl, TypeLocal
  <2>2. Matches(p) \in BOOLEAN
    BY <1>t DEF Matches, TypeLocal
  <2> QED
    BY <1>b, <1>t, <1>w, <2>1, <2>2 DEF Bracket, TypeLocal
<1>1. ASSUME NEW k \in Keys, Add(p, k) PROVE TypeOK'
  <2>2. \E w \in Nat, lbl \in Labels : Loaded(p, lbl, w)
    BY <1>1, <1>t DEF Add, MinLoaded, TypeShared, Labels
  <2>3. TypeLocal'
    BY <1>1, <1>t, <2>2 DEF Add, Loaded, TypeLocal
  <2> QED
    BY <1>1, <1>u, <2>3 DEF TypeOK, Add
<1>2. CASE MinCas(p)
  <2>1. TypeShared'
    BY <1>2, <1>t, <1>n DEF MinCas, Loaded, TypeShared
  <2>2. \E w \in Nat, lbl \in Labels : Loaded(p, lbl, w) \/ (UNCHANGED seen /\ GoTo(p, lbl))
    BY <1>2 DEF MinCas, Labels
  <2>3. TypeLocal'
    BY <1>2, <2>2, <1>l, <1>g DEF MinCas
  <2> QED
    BY <2>1, <2>3 DEF TypeOK
<1>3. CASE MinLoad(p)
  <2>1. \E w \in Nat, lbl \in Labels : Loaded(p, lbl, w)
    BY <1>3, <1>t DEF MinLoad, MinLoaded, TypeShared, Labels
  <2> QED
    BY <1>3, <2>1, <1>l, <1>u DEF TypeOK, MinLoad
<1>4. CASE MaxLoad(p)
  <2>1. \E w \in Nat, lbl \in Labels : Loaded(p, lbl, w)
    BY <1>4, <1>t DEF MaxLoad, TypeShared, Labels
  <2> QED
    BY <1>4, <2>1, <1>l, <1>u DEF TypeOK, MaxLoad
<1>5. CASE MaxCas(p)
  <2>1. TypeShared'
    BY <1>5, <1>t, <1>n DEF MaxCas, Loaded, TypeShared
  <2>2. \E w \in Nat, lbl \in Labels : Loaded(p, lbl, w) \/ (UNCHANGED seen /\ GoTo(p, lbl))
    BY <1>5 DEF MaxCas, Labels
  <2>3. TypeLocal'
    BY <1>5, <2>2, <1>l, <1>g DEF MaxCas
  <2> QED
    BY <2>1, <2>3 DEF TypeOK
<1>6. ASSUME StartSearch(p) PROVE level' \in [Procs -> 0 .. MaxHeight]
  BY <1>6, <1>t, HeightAssumption DEF StartSearch, TypeLocal, TypeShared
<1>7. CASE StartAdd(p)
  <2>1. TypeLocal'
    BY <1>7, <1>6, <1>t, <1>z, <1>s DEF StartAdd, StartSearch, TypeLocal, Labels
  <2> QED
    BY <1>7, <2>1, <1>u DEF TypeOK, StartAdd, StartSearch
<1>8. ASSUME NEW k \in Keys, SeekGE(p, k) PROVE TypeOK'
  <2>1. TypeLocal'
    BY <1>8, <1>6, <1>t, <1>z, <1>s DEF SeekGE, StartSearch, TypeLocal, Labels
  <2> QED
    BY <1>8, <2>1, <1>u DEF TypeOK, SeekGE, StartSearch
<1>9. CASE Walk(p)
  <2>1. TypeLocal'
    BY <1>9, <1>t, <1>w DEF Walk, TypeLocal, Searching
  <2> QED
    BY <1>9, <2>1, <1>u DEF TypeOK, Walk
<1>10. CASE FindDown(p)
  <2>1. level' \in [Procs -> 0 .. MaxHeight]
    <3>1. level[p] \in 0 .. MaxHeight /\ level[p] > 0
      BY <1>10, <1>t DEF FindDown, TypeLocal
    <3>2. level[p] - 1 \in 0 .. MaxHeight
      BY <3>1, HeightAssumption
    <3> QED
      BY <1>10, <1>t, <3>2 DEF FindDown, TypeLocal
  <2>2. TypeLocal'
    BY <1>10, <1>t, <1>b, <2>1 DEF FindDown, TypeLocal, Searching
  <2> QED
    BY <1>10, <2>2, <1>u DEF TypeOK, FindDown
<1>11. CASE FindEnds(p)
  <2>1. TypeLocal'
    BY <1>11, <1>t, <1>b, <1>z DEF FindEnds, TypeLocal, Searching, Labels
  <2> QED
    BY <1>11, <2>1, <1>u DEF TypeOK, FindEnds
<1>12. CASE AddExists(p)
  BY <1>12, <1>f, <1>u DEF AddExists, TypeOK
<1>13. ASSUME NEW h \in 1 .. MaxHeight, NewNode(p, h) PROVE TypeOK'
  <2> DEFINE size == NodeSize + KeySize[key[p]]
             o == AllocOffset(n + AllocSize(size), size)
  <2>1. o \in Offsets /\ size \in Nat /\ n' \in Nat
    BY <1>13, NewNodeOffset
  <2> HIDE DEF o, size
  <2>2. /\ blocks' = blocks \cup {<<o, size>>}
        /\ nodeKey' = [nodeKey EXCEPT ![o] = key[p]]
        /\ nd' = [nd EXCEPT ![p] = o]
    BY <1>13 DEF NewNode, o, size
  <2>3. TypeShared'
    BY <1>13, <1>t, <2>1, <2>2 DEF NewNode, TypeShared, TypeLocal
  <2>4. TypeLocal'
    BY <1>13, <1>t, <2>1, <2>2, HeightAssumption DEF NewNode, TypeLocal, Labels
  <2> QED
    BY <2>3, <2>4 DEF TypeOK
<1>14. CASE NewNodeFull(p)
  <2>1. n' \in Nat
    BY <1>14, <1>t, <1>n, KeyTypes, ArenaAssumption DEF NewNodeFull, TypeShared, AllocSize
  <2>2. TypeShared'
    BY <1>14, <1>t, <2>1 DEF NewNodeFull, TypeShared
  <2> QED
    BY <1>14, <1>f, <2>2 DEF NewNodeFull, TypeOK
<1>15. CASE HeightLoad(p)
  <2>1. \E w \in Nat, lbl \in Labels : Loaded(p, lbl, w)
    <3>1. height \in Nat
      BY <1>t, HeightAssumption DEF TypeShared
    <3> QED
      BY <1>15, <3>1 DEF HeightLoad, Labels
  <2> QED
    BY <1>15, <2>1, <1>l, <1>u DEF TypeOK, HeightLoad
<1>16. CASE HeightCas(p)
  <2>1. ht[p] \in 1 .. MaxHeight
    BY <1>16, <1>t DEF HeightCas, GoodControl, Owning, TypeLocal
  <2>2. TypeShared'
    BY <1>16, <1>t, <2>1 DEF HeightCas, Loaded, TypeShared
  <2>3. \E w \in Nat, lbl \in Labels : Loaded(p, lbl, w) \/ (UNCHANGED seen /\ GoTo(p, lbl))
    BY <1>16 DEF HeightCas, Labels
  <2>4. TypeLocal'
    BY <1>16, <2>3, <1>l, <1>g DEF HeightCas
  <2> QED
    BY <2>2, <2>4 DEF TypeOK
<1>17. ASSUME pc[p] = "link"
       PROVE  /\ level[p] \in Levels /\ level[p] + 1 \in 0 .. MaxHeight
              /\ Splice(p, level[p]).prev \in Offsets /\ Splice(p, level[p]).next \in Offsets
  <2>1. level[p] \in Levels /\ level[p] + 1 \in 0 .. MaxHeight
    BY <1>17, <1>t, HeightAssumption DEF GoodControl, TypeLocal, Levels
  <2> QED
    BY <2>1, <1>t, <1>z DEF TypeLocal, Splice
<1>18. CASE Link(p)
  <2> DEFINE l == level[p]
             s == Splice(p, l)
  <2>1. l \in Levels /\ l + 1 \in 0 .. MaxHeight /\ s.prev \in Offsets /\ s.next \in Offsets
        /\ nd[p] \in Offsets
    BY <1>18, <1>17, <1>t DEF Link, TypeLocal
  <2>2. /\ tower' = [tower EXCEPT ![nd[p]][l] = s.next, ![s.prev][l] = nd[p]]
        /\ linked' = [linked EXCEPT ![l] = @ \cup {nd[p]}]
        /\ level' = [level EXCEPT ![p] = l + 1]
    BY <1>18 DEF Link
  <2> HIDE DEF l, s
  <2>a. tower' \in [Offsets -> [Levels -> Offsets]]
    BY <1>t, <2>1, <2>2 DEF TypeShared
  <2>3. TypeShared'
    <3>1. linked' \in [Levels -> SUBSET Offsets]
      BY <1>t, <2>1, <2>2 DEF TypeShared
    <3>2. UNCHANGED <<n, height, blocks, nodeKey, minSeq, maxSeq>>
      BY <1>18 DEF Link
    <3> QED
      BY <1>t, <3>1, <3>2, <2>a DEF TypeShared
  <2>4. TypeLocal'
    BY <1>18, <1>t, <2>1, <2>2 DEF Link, TypeLocal, Labels
  <2> QED
    BY <2>3, <2>4 DEF TypeOK
<1>19. CASE LinkLost(p)
  <2> DEFINE l == level[p]
             s == Splice(p, l)
  <2>1. l \in Levels /\ s.prev \in Offsets /\ s.next \in Offsets /\ nd[p] \in Offsets
    BY <1>19, <1>17, <1>t DEF LinkLost, TypeLocal
  <2>2. /\ tower' = [tower EXCEPT ![nd[p]][l] = s.next]
        /\ prev' = [prev EXCEPT ![p] = s.prev]
    BY <1>19 DEF LinkLost
  <2> HIDE DEF l, s
  <2>a. tower' \in [Offsets -> [Levels -> Offsets]]
    BY <1>t, <2>1, <2>2 DEF TypeShared
  <2>3. TypeShared'
    BY <1>19, <1>t, <2>1, <2>2, <2>a DEF LinkLost, TypeShared
  <2>4. TypeLocal'
    BY <1>19, <1>t, <2>1, <2>2 DEF LinkLost, TypeLocal, Labels
  <2> QED
    BY <2>3, <2>4 DEF TypeOK
<1>20. CASE Relinked(p)
  <2>1. TypeLocal'
    BY <1>20, <1>t, <1>b, <1>z DEF Relinked, TypeLocal, Searching, Labels
  <2> QED
    BY <1>20, <2>1, <1>u DEF TypeOK, Relinked
<1>21. CASE AddReturns(p)
  BY <1>21, <1>f, <1>u DEF AddReturns, TypeOK
<1>22. CASE SeekDown(p)
  <2>1. level[p] \in Levels /\ tower[prev[p]][0] \in Offsets
    BY <1>22, <1>t, HeightAssumption DEF SeekDown, GoodControl, Searching, TypeShared, TypeLocal, Levels
  <2>2. level[p] > 0 => level[p] - 1 \in 0 .. MaxHeight
    BY <1>t, HeightAssumption DEF TypeLocal
  <2>a. ASSUME level[p] > 0 PROVE TypeLocal'
    BY <1>22, <1>t, <2>2, <2>a DEF SeekDown, TypeLocal
  <2>b. ASSUME ~(level[p] > 0) PROVE TypeLocal'
    <3>1. SeekDone(p, tower[prev[p]][0]) /\ UNCHANGED <<seen, spl, found, nd, ht, ret>>
      BY <1>22, <2>b DEF SeekDown
    <3> QED
      BY <1>t, <2>1, <3>1, <1>z DEF SeekDone, TypeLocal, Labels
  <2>3. TypeLocal'
    BY <2>a, <2>b
  <2> QED
    BY <1>22, <2>3, <1>u DEF TypeOK, SeekDown
<1>23. ASSUME NEW o \in Offsets, MoveIt(p, tower[o][0]) PROVE TypeOK'
  <2>1. tower[o][0] \in Offsets
    BY <1>t, HeightAssumption DEF TypeShared, Levels
  <2>2. TypeLocal'
    BY <1>23, <2>1, <1>t DEF MoveIt, TypeLocal
  <2> QED
    BY <1>23, <2>2, <1>u DEF TypeOK, MoveIt
<1>24. CASE First(p)
  BY <1>24, <1>23, <1>z DEF First
<1>25. CASE Advance(p)
  BY <1>25, <1>23, <1>t DEF Advance, TypeLocal
<1> QED
  BY <1>1, <1>2, <1>3, <1>4, <1>5, <1>7, <1>8, <1>9, <1>10, <1>11, <1>12, <1>13, <1>14, <1>15, <1>16,
     <1>18, <1>19, <1>20, <1>21, <1>22, <1>24, <1>25 DEF Acts, Step

-----------------------------------------------------------------------------
(* What a step of one goroutine means to the others *)

\* The shared words as the others see them: nodes in use keep their keys, only
\* p's own node enters a list, the range of sequence numbers only widens.
Grows(p) ==
    /\ \A o \in Offsets : nodeKey[o] # 0 \/ o \in {0, Head} => nodeKey'[o] = nodeKey[o]
    /\ \A l \in Levels :
        /\ linked[l] \subseteq linked'[l]
        /\ linked'[l] \subseteq linked[l] \cup (IF pc[p] \in Owning THEN {nd[p]} ELSE {})
    /\ minSeq # 0 => minSeq' # 0 /\ minSeq' <= minSeq
    /\ maxSeq <= maxSeq'

\* Every step of p only lets the memtable grow.
LEMMA GrowsStep ==
    ASSUME Inv, NEW p \in Procs, Acts(p)
    PROVE  Grows(p)
<1> USE DEF GoTo, shared, listVars, seqVars, local
<1>t. TypeShared /\ TypeLocal /\ GoodControl(p) /\ GoodRange(p)
  BY DEF Inv, Good, TypeOK
<1>u. ASSUME UNCHANGED <<nodeKey, linked, minSeq, maxSeq>> PROVE Grows(p)
  BY <1>u, <1>t DEF Grows, TypeShared
<1>k. pc[p] # "idle" => key[p] \in Keys /\ SeqNum[key[p]] \in Nat /\ SeqNum[key[p]] > 0
  BY <1>t, KeyTypes DEF GoodControl
<1>1. CASE MinCas(p)
  <2>1. minSeq # 0 => minSeq' # 0 /\ minSeq' <= minSeq
    BY <1>1, <1>t, <1>k DEF MinCas, GoodRange, TypeShared
  <2> QED
    BY <1>1, <2>1, <1>t DEF MinCas, Grows, TypeShared
<1>2. CASE MaxCas(p)
  <2>1. maxSeq <= maxSeq'
    BY <1>2, <1>t, <1>k DEF MaxCas, GoodRange, TypeShared
  <2> QED
    BY <1>2, <2>1, <1>t DEF MaxCas, Grows, TypeShared
<1>3. ASSUME NEW h \in 1 .. MaxHeight, NewNode(p, h) PROVE Grows(p)
  <2> DEFINE size == NodeSize + KeySize[key[p]]
             o == AllocOffset(n + AllocSize(size), size)
  <2>1. o \in Offsets /\ n <= o /\ o > Head
    BY <1>3, NewNodeOffset
  <2> HIDE DEF o, size
  <2>2. nodeKey' = [nodeKey EXCEPT ![o] = key[p]]
    BY <1>3 DEF NewNode, o, size
  <2>3. nodeKey[o] = 0 /\ o \notin {0, Head}
    BY <2>1, HeadFits DEF Inv, ArenaSound, Offsets
  <2> QED
    BY <1>3, <2>1, <2>2, <2>3, <1>t DEF NewNode, Grows, TypeShared
<1>4. CASE Link(p)
  <2>1. level[p] \in Levels /\ pc[p] \in Owning
    BY <1>4, <1>t, HeightAssumption DEF Link, GoodControl, TypeLocal, Levels, Owning
  <2>2. linked' = [linked EXCEPT ![level[p]] = @ \cup {nd[p]}] /\ UNCHANGED <<nodeKey, minSeq, maxSeq>>
    BY <1>4 DEF Link
  <2> QED
    BY <2>1, <2>2, <1>t DEF Grows, TypeShared
<1>5. ASSUME UNCHANGED shared PROVE Grows(p)
  BY <1>5, <1>u
<1>6. CASE NewNodeFull(p) \/ HeightCas(p) \/ LinkLost(p)
  BY <1>6, <1>u DEF NewNodeFull, HeightCas, LinkLost
<1>7. CASE \E k \in Keys : Add(p, k) \/ SeekGE(p, k)
  BY <1>7, <1>5 DEF Add, SeekGE, StartSearch
<1>8. CASE First(p) \/ Advance(p)
  BY <1>8, <1>5 DEF First, Advance, MoveIt
<1>9. CASE MinLoad(p) \/ MaxLoad(p) \/ StartAdd(p) \/ Walk(p) \/ FindDown(p) \/ FindEnds(p)
           \/ AddExists(p) \/ HeightLoad(p) \/ Relinked(p) \/ AddReturns(p) \/ SeekDown(p)
  BY <1>9, <1>5 DEF MinLoad, MaxLoad, StartAdd, StartSearch, Walk, FindDown, FindEnds,
        AddExists, HeightLoad, Relinked, AddReturns, SeekDown
<1> QED
  BY <1>1, <1>2, <1>3, <1>4, <1>6, <1>7, <1>8, <1>9 DEF Acts, Step

\* The local variables of q.
Same(q) ==
    /\ pc'[q] = pc[q] /\ key'[q] = key[q] /\ seen'[q] = seen[q] /\ level'[q] = level[q]
    /\ prev'[q] = prev[q] /\ spl'[q] = spl[q] /\ found'[q] = found[q] /\ nd'[q] = nd[q]
    /\ ht'[q] = ht[q] /\ it'[q] = it[q]

\* A step of p leaves the local variables of the others alone.
LEMMA OthersSame ==
    ASSUME Inv, NEW p \in Procs, Acts(p), NEW q \in Procs, q # p
    PROVE  Same(q)
<1> USE DEF GoTo, local, Same
<1>t. TypeLocal
  BY DEF Inv, TypeOK
<1>f. ASSUME NEW r, Finish(p, r) PROVE Same(q)
  BY <1>f, <1>t DEF Finish, TypeLocal
<1>l. ASSUME NEW lbl, NEW w, Loaded(p, lbl, w), UNCHANGED <<key, level, prev, spl, found, nd, ht, it>>
      PROVE  Same(q)
  BY <1>l, <1>t DEF Loaded, TypeLocal
<1>g. ASSUME NEW lbl, GoTo(p, lbl), UNCHANGED <<seen, key, level, prev, spl, found, nd, ht, it>>
      PROVE  Same(q)
  BY <1>g, <1>t DEF TypeLocal
<1>1. ASSUME NEW k \in Keys, Add(p, k) PROVE Same(q)
  <2>1. \E lbl, w : Loaded(p, lbl, w)
    BY <1>1 DEF Add, MinLoaded
  <2> QED
    BY <1>1, <2>1, <1>t DEF Add, Loaded, TypeLocal
<1>2. CASE MinCas(p)
  BY <1>2, <1>l, <1>g DEF MinCas
<1>3. CASE MinLoad(p)
  BY <1>3, <1>l DEF MinLoad, MinLoaded
<1>4. CASE MaxLoad(p)
  BY <1>4, <1>l DEF MaxLoad
<1>5. CASE MaxCas(p)
  BY <1>5, <1>l, <1>g DEF MaxCas
<1>6. CASE StartAdd(p)
  BY <1>6, <1>t DEF StartAdd, StartSearch, TypeLocal
<1>7. CASE Walk(p)
  BY <1>7, <1>t DEF Walk, TypeLocal
<1>8. CASE FindDown(p)
  BY <1>8, <1>t DEF FindDown, Bracket, TypeLocal
<1>9. CASE FindEnds(p)
  BY <1>9, <1>t DEF FindEnds, Bracket, TypeLocal
<1>10. CASE AddExists(p) \/ NewNodeFull(p) \/ AddReturns(p)
  BY <1>10, <1>f DEF AddExists, NewNodeFull, AddReturns
<1>11. ASSUME NEW h, NewNode(p, h) PROVE Same(q)
  BY <1>11, <1>t DEF NewNode, TypeLocal
<1>12. CASE HeightLoad(p)
  BY <1>12, <1>l DEF HeightLoad
<1>13. CASE HeightCas(p)
  BY <1>13, <1>l, <1>g DEF HeightCas
<1>14. CASE Link(p)
  BY <1>14, <1>t DEF Link, TypeLocal
<1>15. CASE LinkLost(p)
  BY <1>15, <1>t DEF LinkLost, TypeLocal
<1>16. CASE Relinked(p)
  BY <1>16, <1>t DEF Relinked, Bracket, TypeLocal
<1>17. ASSUME NEW k \in Keys, SeekGE(p, k) PROVE Same(q)
  BY <1>17, <1>t DEF SeekGE, StartSearch, TypeLocal
<1>18. CASE SeekDown(p)
  BY <1>18, <1>t DEF SeekDown, SeekDone, TypeLocal
<1>19. CASE First(p) \/ Advance(p)
  BY <1>19, <1>t DEF First, Advance, MoveIt, TypeLocal
<1> QED
  BY <1>1, <1>2, <1>3, <1>4, <1>5, <1>6, <1>7, <1>8, <1>9, <1>10, <1>11, <1>12, <1>13, <1>14, <1>15,
     <1>16, <1>17, <1>18, <1>19 DEF Acts, Step

\* What is good about q stays good when another goroutine takes a step.
LEMMA OthersStayGood ==
    ASSUME Inv, NEW p \in Procs, NEW q \in Procs, q # p, Grows(p), Same(q), TypeOK'
    PROVE  Good(q)'
<1>t. TypeShared /\ TypeLocal /\ Good(q) /\ NodesOwned
  BY DEF Inv, TypeOK
<1>h. 0 \in Levels /\ Head \in Offsets
  BY HeadFits, HeightAssumption DEF Levels
<1>k. pc[q] # "idle" => key[q] \in Keys /\ key[q] \in Nat /\ key[q] > 0 /\ SeqNum[key[q]] \in Nat
  BY <1>t, KeyTypes DEF Good, GoodControl
<1>o. \A o \in Offsets : nodeKey[o] \in Nat
  BY <1>t, KeyTypes DEF TypeShared
<1>1. GoodControl(q)'
  BY <1>t DEF Good, GoodControl, Same
<1>2. GoodNode(q)'
  <2>1. pc[q] \in Owning => nd[q] \in Offsets /\ nodeKey'[nd[q]] = key[q]
    <3> SUFFICES ASSUME pc[q] \in Owning PROVE nd[q] \in Offsets /\ nodeKey'[nd[q]] = key[q]
      OBVIOUS
    <3>1. nd[q] \in Offsets /\ nodeKey[nd[q]] = key[q] /\ key[q] # 0
      BY <1>t, <1>k DEF Good, GoodNode, TypeLocal, Owning
    <3> QED
      BY <3>1 DEF Grows
  <2>2. ASSUME pc[q] \in Owning, NEW l \in Levels PROVE nd[q] \in linked'[l] <=> nd[q] \in linked[l]
    BY <2>2, <1>t DEF Grows, NodesOwned
  <2> QED
    BY <2>1, <2>2, <1>t DEF Good, GoodNode, Same
<1>3. GoodSplice(q)'
  <2> SUFFICES ASSUME pc[q] \in Splicing, NEW l \in Levels, spl[q][l].prev # 0
               PROVE  /\ spl[q][l].prev \in linked'[l] \cup {Head}
                      /\ nodeKey'[spl[q][l].prev] < key[q]
                      /\ \/ spl[q][l].next = 0
                         \/ nodeKey'[spl[q][l].next] > key[q]
                         \/ pc[q] = "find" /\ found[q]
    BY DEF GoodSplice, Same
  <2>1. /\ spl[q][l].prev \in linked[l] \cup {Head}
        /\ nodeKey[spl[q][l].prev] < key[q]
        /\ \/ spl[q][l].next = 0
           \/ nodeKey[spl[q][l].next] > key[q]
           \/ pc[q] = "find" /\ found[q]
    BY <1>t DEF Good, GoodSplice
  <2>2. spl[q][l].prev \in Offsets /\ spl[q][l].next \in Offsets
    BY <1>t DEF TypeLocal
  <2>3. nodeKey'[spl[q][l].prev] = nodeKey[spl[q][l].prev]
    BY <2>1, <2>2, <1>t DEF Grows, Inv, ArenaSound
  <2>4. nodeKey[spl[q][l].next] > key[q] => nodeKey'[spl[q][l].next] = nodeKey[spl[q][l].next]
    BY <2>2, <1>k, <1>o DEF Grows, Splicing
  <2> QED
    BY <2>1, <2>3, <2>4 DEF Grows
<1>4. GoodPosition(q)'
  <2> SUFFICES ASSUME pc[q] \in Searching
               PROVE  prev[q] \in linked'[level[q]] \cup {Head} /\ nodeKey'[prev[q]] < key[q]
    BY DEF GoodPosition, Same
  <2>1. level[q] \in Levels /\ prev[q] \in linked[level[q]] \cup {Head} /\ nodeKey[prev[q]] < key[q]
    BY <1>t DEF Good, GoodPosition, GoodControl
  <2>2. nodeKey'[prev[q]] = nodeKey[prev[q]]
    BY <2>1, <1>t, <1>h DEF Grows, Inv, ArenaSound, TypeShared
  <2> QED
    BY <2>1, <2>2 DEF Grows
<1>5. GoodFound(q)'
  <2>1. ASSUME pc[q] = "find", found[q] PROVE \E o \in linked'[0] : nodeKey'[o] = key[q]
    <3>1. PICK o \in linked[0] : nodeKey[o] = key[q]
      BY <2>1, <1>t DEF Good, GoodFound
    <3>2. o \in Offsets /\ nodeKey'[o] = nodeKey[o]
      BY <3>1, <1>h, <1>t DEF Grows, Inv, ArenaSound, TypeShared
    <3> QED
      BY <3>1, <3>2, <1>h DEF Grows
  <2>2. it[q] \in linked'[0] \cup {0}
    BY <1>t, <1>h DEF Good, GoodFound, Grows
  <2> QED
    BY <2>1, <2>2 DEF GoodFound, Same
<1>6. GoodRange(q)'
  <2>1. minSeq \in Nat /\ maxSeq \in Nat /\ minSeq' \in Nat /\ maxSeq' \in Nat
    BY <1>t DEF TypeOK, TypeShared
  <2>2. pc[q] = "minCas" => seen[q] = 0 \/ seen[q] > SeqNum[key[q]]
    BY <1>t DEF Good, GoodRange
  <2>3. pc[q] = "maxCas" => seen[q] < SeqNum[key[q]]
    BY <1>t DEF Good, GoodRange
  <2>4. pc[q] \in MinSettled => minSeq' # 0 /\ minSeq' <= SeqNum[key[q]]
    BY <1>t, <1>k, <2>1 DEF Good, GoodRange, Grows, MinSettled, MaxSettled
  <2>5. pc[q] \in MaxSettled => SeqNum[key[q]] <= maxSeq'
    BY <1>t, <1>k, <2>1 DEF Good, GoodRange, Grows, MaxSettled
  <2> QED
    BY <2>2, <2>3, <2>4, <2>5 DEF GoodRange, Same
<1> QED
  BY <1>1, <1>2, <1>3, <1>4, <1>5, <1>6 DEF Good

-----------------------------------------------------------------------------
(* The lists *)

\* A pointer of a level leads to the next larger key of that level.
LEMMA NextNode ==
    ASSUME Inv, NEW l \in Levels, NEW o \in linked[l] \cup {Head}
    PROVE  /\ tower[o][l] = 0 \/ (tower[o][l] \in linked[l] /\ nodeKey[tower[o][l]] > nodeKey[o])
           /\ \A x \in linked[l] : nodeKey[x] > nodeKey[o] =>
                tower[o][l] # 0 /\ nodeKey[tower[o][l]] <= nodeKey[x]
<1>1. InOrder(l, o)
  BY DEF Inv, ListsSound
<1>2. 0 \notin linked[l]
  BY ArenaAssumption DEF Inv, ArenaSound, Offsets
<1> QED
  BY <1>1, <1>2 DEF InOrder

\* The node at o is one that a list may lead through.
LEMMA ListNode ==
    ASSUME Inv, NEW l \in Levels, NEW o \in linked[l] \cup {Head}
    PROVE  o \in Offsets /\ nodeKey[o] \in Nat /\ (o \in linked[l] => nodeKey[o] > 0 /\ o # Head /\ o \in linked[0])
<1>1. o \in Offsets
  BY HeadFits DEF Inv, TypeOK, TypeShared
<1>2. nodeKey[o] \in Nat
  <2>1. nodeKey[o] \in Keys \cup {0}
    BY <1>1 DEF Inv, TypeOK, TypeShared
  <2> QED
    BY <2>1, KeyTypes
<1>3. o \in linked[l] => nodeKey[o] # 0 /\ o # Head
  BY <1>1 DEF Inv, ArenaSound
<1> QED
  BY <1>1, <1>2, <1>3 DEF Inv, BaseFirst

\* The splice Add uses brackets the key, whether its level was searched or not.
LEMMA SpliceBrackets ==
    ASSUME Inv, NEW p \in Procs, pc[p] = "link"
    PROVE  LET l == level[p]
               s == Splice(p, l)
           IN  /\ l \in Levels
               /\ s.prev \in linked[l] \cup {Head} /\ nodeKey[s.prev] < key[p]
               /\ s.next \in Offsets /\ (s.next = 0 \/ nodeKey[s.next] > key[p])
<1> DEFINE l == level[p]
           s == Splice(p, l)
<1>1. TypeLocal /\ Good(p)
  BY DEF Inv, TypeOK
<1>2. l \in Levels
  BY <1>1, HeightAssumption DEF Good, GoodControl, TypeLocal, Levels
<1>3. nodeKey[Head] = 0 /\ key[p] > 0 /\ 0 \in Offsets
  BY <1>1, KeyTypes, HeadFits, ArenaAssumption DEF Inv, ArenaSound, Good, GoodControl, Offsets
<1>4. CASE spl[p][l].prev = 0
  BY <1>2, <1>3, <1>4 DEF Splice
<1>5. CASE spl[p][l].prev # 0
  <2>1. s = spl[p][l] /\ s.next \in Offsets
    BY <1>1, <1>2, <1>5 DEF Splice, TypeLocal
  <2> QED
    BY <2>1, <1>1, <1>2, <1>5 DEF Good, GoodSplice, Splicing
<1> QED
  BY <1>4, <1>5

\* A level in which nothing changes stays sorted.
LEMMA OrderKept ==
    ASSUME Inv, NEW l \in Levels, linked'[l] = linked[l],
           \A o \in linked[l] \cup {Head} : nodeKey'[o] = nodeKey[o] /\ tower'[o][l] = tower[o][l]
    PROVE  \A o \in linked'[l] \cup {Head} : InOrder(l, o)'
<1> SUFFICES ASSUME NEW o \in linked[l] \cup {Head} PROVE InOrder(l, o)'
  OBVIOUS
<1>1. tower[o][l] = 0 \/ tower[o][l] \in linked[l]
  BY NextNode
<1>2. {x \in linked'[l] : nodeKey'[x] > nodeKey'[o]} = {x \in linked[l] : nodeKey[x] > nodeKey[o]}
  OBVIOUS
<1>3. InOrder(l, o)
  BY DEF Inv, ListsSound
<1>4. tower'[o][l] = tower[o][l]
  OBVIOUS
<1> QED
  BY <1>1, <1>2, <1>3, <1>4 DEF InOrder

\* A successful compare-and-swap keeps its level sorted.
LEMMA LinkSorted ==
    ASSUME Inv, NEW p \in Procs, Link(p), NEW l \in Levels, l = level[p]
    PROVE  /\ \A o \in linked'[l] \cup {Head} : InOrder(l, o)'
           /\ \A x, y \in linked'[l] : nodeKey'[x] = nodeKey'[y] => x = y
<1> DEFINE s == Splice(p, l)
           x == nd[p]
           k == key[p]
<1>1. /\ l \in Levels
      /\ s.prev \in linked[l] \cup {Head} /\ nodeKey[s.prev] < k
      /\ s.next \in Offsets /\ (s.next = 0 \/ nodeKey[s.next] > k)
  BY SpliceBrackets DEF Link
<1>2. /\ tower[s.prev][l] = s.next
      /\ tower' = [tower EXCEPT ![x][l] = s.next, ![s.prev][l] = x]
      /\ linked' = [linked EXCEPT ![l] = @ \cup {x}]
      /\ nodeKey' = nodeKey
  BY DEF Link
<1> HIDE DEF s
<1>3. /\ x \in Offsets /\ nodeKey[x] = k /\ k \in Nat /\ k > 0 /\ x \notin linked[l] /\ x # Head /\ x # 0
  <2>1. x \in Offsets /\ nodeKey[x] = k /\ k \in Keys /\ x \notin linked[l]
    BY <1>1 DEF Inv, TypeOK, TypeLocal, Good, GoodControl, GoodNode, Link, Owning, Levels
  <2>2. k \in Nat /\ k > 0
    BY <2>1, KeyTypes
  <2> QED
    BY <2>1, <2>2, HeadFits, ArenaAssumption DEF Inv, ArenaSound, Offsets
<1>4. /\ \A y \in linked[l] : nodeKey[y] > nodeKey[s.prev] => nodeKey[y] > k /\ s.next # 0 /\ nodeKey[s.next] <= nodeKey[y]
      /\ s.next # 0 => s.next \in linked[l]
  <2>1. /\ s.next = 0 \/ s.next \in linked[l]
        /\ \A y \in linked[l] : nodeKey[y] > nodeKey[s.prev] => s.next # 0 /\ nodeKey[s.next] <= nodeKey[y]
    BY <1>1, <1>2, NextNode
  <2>2. \A y \in linked[l] : nodeKey[y] \in Nat
    BY <1>1, ListNode
  <2> QED
    BY <1>1, <1>3, <2>1, <2>2
<1>5. s.prev \in Offsets /\ nodeKey[s.prev] \in Nat /\ s.prev # x
  BY <1>1, <1>3, ListNode
<1>6. /\ linked'[l] = linked[l] \cup {x}
      /\ tower'[x][l] = s.next /\ tower'[s.prev][l] = x
      /\ \A o \in Offsets : o # x /\ o # s.prev => tower'[o][l] = tower[o][l]
  BY <1>1, <1>2, <1>3, <1>5 DEF Inv, TypeOK, TypeShared
<1>7. \A y \in linked[l] : y \in Offsets /\ nodeKey[y] \in Nat /\ nodeKey[y] # k
  <2>1. ASSUME NEW y \in linked[l] PROVE y \in Offsets /\ nodeKey[y] \in Nat
    BY <1>1, ListNode
  <2> QED
    BY <2>1, <1>1, <1>3, <1>4, <1>5
<1>8. \A y, z \in linked[l] \cup {Head} : nodeKey[y] = nodeKey[z] => y = z
  <2>1. nodeKey[Head] = 0 /\ \A y \in linked[l] : nodeKey[y] # 0
    BY <1>1, HeadFits DEF Inv, ArenaSound
  <2>2. \A y, z \in linked[l] : nodeKey[y] = nodeKey[z] => y = z
    BY <1>1 DEF Inv, ListsSound
  <2> QED
    BY <2>1, <2>2
<1>h. Head \in Offsets /\ nodeKey[Head] = 0
  BY HeadFits DEF Inv, ArenaSound
<1> HIDE DEF x, k
<1>9. ASSUME NEW o \in linked[l] \cup {x, Head} PROVE InOrder(l, o)'
  <2> DEFINE after == {y \in linked[l] \cup {x} : nodeKey[y] > nodeKey[o]}
             next == tower'[o][l]
  <2> SUFFICES IF after = {} THEN next = 0
               ELSE next \in after /\ \A y \in after : nodeKey[next] <= nodeKey[y]
    BY <1>2, <1>6 DEF InOrder
  <2>1. CASE o = x
    <3>1. next = s.next
      BY <2>1, <1>6
    <3>2. \A y \in after : y \in linked[l] /\ nodeKey[y] > nodeKey[s.prev]
      BY <2>1, <1>1, <1>3, <1>5, <1>7
    <3>3. CASE s.next = 0
      BY <3>1, <3>2, <3>3, <1>4
    <3>4. CASE s.next # 0
      BY <3>1, <3>2, <3>4, <1>4, <1>1, <1>3, <2>1
    <3> QED
      BY <3>3, <3>4
  <2>2. CASE o = s.prev
    <3>1. next = x /\ x \in after
      BY <2>2, <1>6, <1>1, <1>3
    <3>2. \A y \in after : nodeKey[x] <= nodeKey[y]
      BY <2>2, <1>3, <1>4, <1>7
    <3> QED
      BY <3>1, <3>2
  <2>3. CASE o # x /\ o # s.prev
    <3>1. o \in linked[l] \cup {Head} /\ o \in Offsets /\ nodeKey[o] \in Nat
      BY <2>3, <1>7, <1>h
    <3>2. next = tower[o][l]
      BY <2>3, <3>1, <1>6
    <3>3. /\ next = 0 \/ (next \in linked[l] /\ nodeKey[next] > nodeKey[o])
          /\ \A y \in linked[l] : nodeKey[y] > nodeKey[o] => next # 0 /\ nodeKey[next] <= nodeKey[y]
      BY <3>1, <3>2, <1>1, NextNode
    <3>4. nodeKey[o] < k => nodeKey[s.prev] > nodeKey[o] /\ s.prev \in linked[l]
      <4>1. nodeKey[o] # nodeKey[s.prev]
        BY <2>3, <3>1, <1>1, <1>8
      <4>2. ~(nodeKey[o] > nodeKey[s.prev] /\ nodeKey[o] < k)
        BY <3>1, <1>1, <1>3, <1>4, <1>5, <1>h, <1>7
      <4> QED
        BY <4>1, <4>2, <3>1, <1>1, <1>5, <1>h
    <3>5. CASE nodeKey[o] < k
      <4>1. next \in linked[l] /\ nodeKey[next] > nodeKey[o] /\ nodeKey[next] <= nodeKey[s.prev]
        BY <3>3, <3>4, <3>5
      <4>2. nodeKey[next] <= k
        BY <4>1, <1>1, <1>3, <1>5, <1>7
      <4> QED
        BY <4>1, <4>2, <3>3, <1>3
    <3>6. CASE ~(nodeKey[o] < k)
      <4>1. \A y \in after : y \in linked[l]
        BY <3>6, <3>1, <1>3
      <4> QED
        BY <4>1, <3>3
    <3> QED
      BY <3>5, <3>6
  <2> QED
    BY <2>1, <2>2, <2>3
<1>10. \A y, z \in linked'[l] : nodeKey'[y] = nodeKey'[z] => y = z
  BY <1>2, <1>6, <1>7, <1>8, <1>3
<1> QED
  BY <1>9, <1>10, <1>6

\* Which steps of p change the lists, and how.
LEMMA ListChanges ==
    ASSUME Inv, NEW p \in Procs, Acts(p)
    PROVE  \/ UNCHANGED <<blocks, nodeKey, tower, linked>> /\ (n' = n \/ NewNodeFull(p))
           \/ \E h \in 1 .. MaxHeight : NewNode(p, h)
           \/ Link(p)
           \/ LinkLost(p)
<1> USE DEF shared, listVars, Acts, Step
<1>1. CASE MinCas(p) \/ MaxCas(p) \/ NewNodeFull(p) \/ HeightCas(p)
  BY <1>1 DEF MinCas, MaxCas, NewNodeFull, HeightCas
<1>2. CASE \E k \in Keys : Add(p, k) \/ SeekGE(p, k)
  BY <1>2 DEF Add, SeekGE, StartSearch
<1>3. CASE First(p) \/ Advance(p)
  BY <1>3 DEF First, Advance, MoveIt
<1>4. CASE MinLoad(p) \/ MaxLoad(p) \/ StartAdd(p) \/ Walk(p) \/ FindDown(p) \/ FindEnds(p)
           \/ AddExists(p) \/ HeightLoad(p) \/ Relinked(p) \/ AddReturns(p) \/ SeekDown(p)
  BY <1>4 DEF MinLoad, MaxLoad, StartAdd, StartSearch, Walk, FindDown, FindEnds,
        AddExists, HeightLoad, Relinked, AddReturns, SeekDown
<1> QED
  BY <1>1, <1>2, <1>3, <1>4

\* Every level stays a sorted list of the nodes linked into it, whatever the
\* goroutines do to it at the same time.
LEMMA ListsStep ==
    ASSUME Inv, NEW p \in Procs, Acts(p)
    PROVE  ListsSound' /\ BaseFirst'
<1>t. TypeShared /\ TypeLocal /\ ListsSound /\ BaseFirst /\ Good(p)
  BY DEF Inv, TypeOK
<1>k. ASSUME linked' = linked, \A l \in Levels : \A o \in linked[l] \cup {Head} :
                nodeKey'[o] = nodeKey[o] /\ tower'[o][l] = tower[o][l]
      PROVE  ListsSound' /\ BaseFirst'
  <2>1. \A l \in Levels : \A o \in linked'[l] \cup {Head} : InOrder(l, o)'
    BY <1>k, OrderKept
  <2> QED
    BY <2>1, <1>k, <1>t DEF ListsSound, BaseFirst
<1>1. CASE UNCHANGED <<blocks, nodeKey, tower, linked>>
  BY <1>1, <1>k
<1>2. ASSUME NEW h \in 1 .. MaxHeight, NewNode(p, h) PROVE ListsSound' /\ BaseFirst'
  <2>1. linked' = linked /\ tower' = tower
    BY <1>2 DEF NewNode
  <2>2. ASSUME NEW l \in Levels, NEW o \in linked[l] \cup {Head} PROVE nodeKey'[o] = nodeKey[o]
    BY <2>2, GrowsStep, ListNode DEF Grows
  <2> QED
    BY <2>1, <2>2, <1>k
<1>3. CASE LinkLost(p)
  <2>0. level[p] \in Levels /\ nd[p] \notin linked[level[p]] /\ nd[p] # Head
    <3>1. level[p] \in Levels /\ nodeKey[nd[p]] = key[p] /\ key[p] \in Keys
      BY <1>3, <1>t, HeightAssumption DEF LinkLost, Good, GoodControl, GoodNode, Owning, TypeLocal, Levels
    <3>2. nodeKey[nd[p]] # 0
      BY <3>1, KeyTypes
    <3> QED
      BY <1>3, <3>1, <3>2, <1>t, HeadFits DEF LinkLost, Good, GoodNode, Owning, Inv, ArenaSound, Levels
  <2>1. linked' = linked /\ nodeKey' = nodeKey
        /\ tower' = [tower EXCEPT ![nd[p]][level[p]] = Splice(p, level[p]).next]
    BY <1>3 DEF LinkLost
  <2>2. ASSUME NEW l \in Levels, NEW o \in linked[l] \cup {Head} PROVE tower'[o][l] = tower[o][l]
    <3>1. o \in Offsets
      BY ListNode
    <3> QED
      BY <2>0, <2>1, <3>1, <1>t DEF TypeShared
  <2> QED
    BY <2>1, <2>2, <1>k
<1>4. CASE Link(p)
  <2> DEFINE x == nd[p]
  <2>1. /\ level[p] \in Levels /\ level[p] \in Nat /\ x \in Offsets /\ Splice(p, level[p]).prev \in Offsets
        /\ linked' = [linked EXCEPT ![level[p]] = @ \cup {x}]
        /\ nodeKey' = nodeKey
        /\ tower' = [tower EXCEPT ![x][level[p]] = Splice(p, level[p]).next, ![Splice(p, level[p]).prev][level[p]] = x]
    BY <1>4, <1>t, SpliceBrackets, ListNode DEF Link, TypeLocal, Levels
  <2>2. \A l \in Levels : x \in linked[l] <=> l < level[p]
    BY <1>4, <1>t DEF Link, Good, GoodNode, Owning
  <2>3. ASSUME NEW l \in Levels
        PROVE  /\ \A o \in linked'[l] \cup {Head} : InOrder(l, o)'
               /\ \A y, z \in linked'[l] : nodeKey'[y] = nodeKey'[z] => y = z
    <3>1. CASE l = level[p]
      BY <3>1, <1>4, LinkSorted
    <3>2. CASE l # level[p]
      <4>1. linked'[l] = linked[l]
        BY <2>1, <3>2, <1>t DEF TypeShared
      <4>2. ASSUME NEW o \in linked[l] \cup {Head} PROVE tower'[o][l] = tower[o][l]
        <5>1. o \in Offsets
          BY ListNode
        <5>2. tower \in [Offsets -> [Levels -> Offsets]]
          BY <1>t DEF TypeShared
        <5> QED
          BY <2>1, <3>2, <5>1, <5>2
      <4>3. \A o \in linked'[l] \cup {Head} : InOrder(l, o)'
        BY <4>1, <4>2, <2>1, OrderKept
      <4> QED
        BY <4>1, <4>3, <2>1, <1>t DEF ListsSound
    <3> QED
      BY <3>1, <3>2
  <2>4. ASSUME NEW l \in Levels, l > 0 PROVE linked'[l] \subseteq linked'[l - 1]
    <3>1. l - 1 \in Levels /\ linked[l] \subseteq linked[l - 1]
      BY <2>4, <1>t, HeightAssumption DEF Levels, ListsSound
    <3>2. l = level[p] => x \in linked[l - 1]
      BY <2>2, <3>1 DEF Levels
    <3> QED
      BY <2>1, <3>1, <3>2, <1>t DEF TypeShared
  <2>5. BaseFirst'
    <3>1. 0 \in Levels
      BY HeightAssumption DEF Levels
    <3>2. level[p] # 0 => x \in linked[0]
      BY <2>1, <2>2, <3>1
    <3> QED
      BY <2>1, <3>1, <3>2, <1>t DEF BaseFirst, TypeShared
  <2> QED
    BY <2>3, <2>4, <2>5 DEF ListsSound
<1> QED
  BY <1>1, <1>2, <1>3, <1>4, ListChanges

\* Allocations stay disjoint, and no list leads to unused space.
LEMMA ArenaStep ==
    ASSUME Inv, NEW p \in Procs, Acts(p)
    PROVE  ArenaSound'
<1>t. TypeShared /\ TypeLocal /\ ArenaSound /\ Good(p)
  BY DEF Inv, TypeOK
<1>m. n \in Nat /\ Head \in Nat
  BY <1>t, HeadFits DEF TypeShared, Offsets
<1>u. ASSUME UNCHANGED <<blocks, nodeKey, linked>>, n' \in Nat, n <= n' PROVE ArenaSound'
  <2>1. \A a \in blocks : a[1] \in Nat /\ a[2] \in Nat
    BY <1>t DEF TypeShared, Offsets
  <2>2. \A a \in blocks : a[2] > 0 /\ a[1] + a[2] <= n'
    BY <2>1, <1>u, <1>t, <1>m DEF ArenaSound
  <2>3. \A o \in Offsets : o >= n' => o >= n
    BY <1>u, <1>m, ArenaAssumption DEF Offsets
  <2> QED
    BY <1>u, <2>2, <2>3, <1>t, <1>m DEF ArenaSound, AllocsDisjoint
<1>1. CASE UNCHANGED <<blocks, nodeKey, tower, linked>> /\ n' = n
  BY <1>1, <1>u, <1>m
<1>2. CASE NewNodeFull(p)
  <2>1. KeySize[key[p]] \in Nat
    BY <1>2, <1>t, KeyTypes DEF NewNodeFull, Good, GoodControl
  <2>2. n' \in Nat /\ n <= n'
    BY <1>2, <2>1, <1>m, ArenaAssumption DEF NewNodeFull, AllocSize
  <2> QED
    BY <1>2, <2>2, <1>u DEF NewNodeFull, listVars
<1>3. CASE LinkLost(p)
  BY <1>3, <1>u, <1>m DEF LinkLost
<1>4. CASE Link(p)
  <2>1. /\ UNCHANGED <<n, blocks, nodeKey>>
        /\ linked' = [linked EXCEPT ![level[p]] = @ \cup {nd[p]}]
    BY <1>4 DEF Link
  <2>2. nodeKey[nd[p]] # 0
    BY <1>4, <1>t, KeyTypes DEF Link, Good, GoodControl, GoodNode, Owning
  <2> QED
    BY <2>1, <2>2, <1>t DEF ArenaSound, AllocsDisjoint, TypeShared
<1>5. ASSUME NEW h \in 1 .. MaxHeight, NewNode(p, h) PROVE ArenaSound'
  <2> DEFINE size == NodeSize + KeySize[key[p]]
             o == AllocOffset(n + AllocSize(size), size)
  <2>1. /\ size \in Nat /\ size > 0
        /\ o \in Offsets /\ n <= o /\ o > Head /\ o % Alignment = 0
        /\ o + size <= n' /\ n' <= Capacity /\ n' \in Nat /\ n <= n'
    BY <1>5, NewNodeOffset
  <2>2. /\ blocks' = blocks \cup {<<o, size>>}
        /\ nodeKey' = [nodeKey EXCEPT ![o] = key[p]]
        /\ linked' = linked
    BY <1>5 DEF NewNode
  <2> HIDE DEF o, size
  <2>o. o \in Nat /\ o # 0
    BY <2>1, <1>m, HeadFits DEF Offsets
  <2>3. \A a \in blocks : a[1] \in Nat /\ a[2] \in Nat /\ a[2] > 0 /\ a[1] + a[2] <= n
    BY <1>t DEF TypeShared, ArenaSound, Offsets
  <2>4. \A a \in blocks' : a[2] > 0 /\ a[1] + a[2] <= n'
    BY <2>1, <2>2, <2>3, <1>m, <2>o
  <2>5. AllocsDisjoint'
    <3>1. \A a \in blocks : a[1] + a[2] <= o
      BY <2>1, <2>3, <1>m, <2>o
    <3>2. o + size <= Capacity
      BY <2>1, <2>o, ArenaAssumption
    <3>3. ASSUME NEW a \in blocks' PROVE a[1] > 0 /\ a[1] % Alignment = 0 /\ a[1] + a[2] <= Capacity
      <4>1. CASE a \in blocks
        BY <4>1, <1>t DEF ArenaSound, AllocsDisjoint
      <4>2. CASE a = <<o, size>>
        BY <4>2, <3>2, <2>1, <2>o
      <4> QED
        BY <4>1, <4>2, <2>2
    <3>4. ASSUME NEW a \in blocks', NEW b \in blocks'
          PROVE  a = b \/ a[1] + a[2] <= b[1] \/ b[1] + b[2] <= a[1]
      <4>1. CASE a \in blocks /\ b \in blocks
        BY <4>1, <1>t DEF ArenaSound, AllocsDisjoint
      <4>2. CASE a \in blocks /\ b = <<o, size>>
        BY <4>2, <3>1
      <4>3. CASE a = <<o, size>> /\ b \in blocks
        BY <4>3, <3>1
      <4> QED
        BY <4>1, <4>2, <4>3, <2>2
    <3> QED
      BY <3>3, <3>4 DEF AllocsDisjoint
  <2>6. ASSUME NEW z \in Offsets, z >= n' \/ z \in {0, Head} PROVE nodeKey'[z] = 0
    <3>1. z # o
      BY <2>6, <2>1, <2>o, <1>m DEF Offsets
    <3>2. z >= n \/ z \in {0, Head}
      BY <2>6, <2>1, <1>m DEF Offsets
    <3> QED
      BY <3>1, <3>2, <2>1, <2>2, <1>t DEF ArenaSound, TypeShared
  <2>7. ASSUME NEW l \in Levels, NEW z \in linked'[l] PROVE nodeKey'[z] # 0
    <3>1. z \in Offsets /\ nodeKey[z] # 0
      BY <2>2, <2>7, <1>t DEF ArenaSound, TypeShared
    <3>2. nodeKey[o] = 0
      BY <2>1, <1>t DEF ArenaSound
    <3> QED
      BY <3>1, <3>2, <2>1, <2>2, <1>t DEF TypeShared
  <2>8. n' > Head
    BY <2>1, <1>m, <1>t DEF ArenaSound
  <2> QED
    BY <2>4, <2>5, <2>6, <2>7, <2>8 DEF ArenaSound
<1> QED
  BY <1>1, <1>2, <1>3, <1>4, <1>5, ListChanges

-----------------------------------------------------------------------------
(* What a step means to the goroutine that takes it *)

\* The range of sequence numbers covers what is linked.
LEMMA RangeStep ==
    ASSUME Inv, NEW p \in Procs, Acts(p), TypeOK'
    PROVE  RangeSound'
<1>t. TypeShared /\ RangeSound /\ Good(p) /\ Grows(p) /\ 0 \in Levels
  BY GrowsStep, HeightAssumption DEF Inv, TypeOK, Levels
<1>1. minSeq \in Nat /\ maxSeq \in Nat /\ minSeq' \in Nat /\ maxSeq' \in Nat
  BY <1>t DEF TypeOK, TypeShared
<1>2. ASSUME NEW o \in linked[0]
      PROVE  nodeKey'[o] = nodeKey[o] /\ minSeq' # 0 /\ minSeq' <= SeqNum[nodeKey[o]] /\ SeqNum[nodeKey[o]] <= maxSeq'
  <2>1. o \in Offsets /\ nodeKey[o] \in Keys
    BY <1>2, <1>t DEF TypeShared, Inv, ArenaSound
  <2>2. nodeKey'[o] = nodeKey[o] /\ SeqNum[nodeKey[o]] \in Nat
    BY <2>1, <1>t, <1>2, KeyTypes DEF Grows, Inv, ArenaSound
  <2>3. minSeq # 0 /\ minSeq <= SeqNum[nodeKey[o]] /\ SeqNum[nodeKey[o]] <= maxSeq
    BY <1>2, <1>t DEF RangeSound, SeqRangeCovers
  <2> QED
    BY <2>2, <2>3, <1>1, <1>t DEF Grows
<1>3. ASSUME NEW o \in linked'[0], o \notin linked[0]
      PROVE  minSeq' # 0 /\ minSeq' <= SeqNum[nodeKey'[o]] /\ SeqNum[nodeKey'[o]] <= maxSeq'
  <2>1. Link(p)
    BY <1>3, ListChanges DEF NewNode, LinkLost
  <2>2. o = nd[p] /\ UNCHANGED <<nodeKey, minSeq, maxSeq>> /\ nodeKey[nd[p]] = key[p]
    BY <1>3, <2>1, <1>t DEF Grows, Link, Good, GoodNode, Owning, seqVars
  <2> QED
    BY <2>1, <2>2, <1>t DEF Link, Good, GoodRange, MinSettled, MaxSettled
<1> QED
  BY <1>2, <1>3 DEF RangeSound, SeqRangeCovers

\* A new node is nobody else's.
LEMMA OwnersStep ==
    ASSUME Inv, NEW p \in Procs, Acts(p)
    PROVE  NodesOwned'
<1>t. TypeShared /\ TypeLocal /\ NodesOwned /\ Good(p)
  BY DEF Inv, TypeOK
<1>o. \A q \in Procs : q # p => Same(q)
  BY OthersSame
<1>1. CASE pc'[p] \notin Owning \/ (pc[p] \in Owning /\ nd'[p] = nd[p])
  BY <1>1, <1>o, <1>t DEF NodesOwned, Same
<1>2. CASE \E h \in 1 .. MaxHeight : NewNode(p, h)
  <2> DEFINE size == NodeSize + KeySize[key[p]]
             o == AllocOffset(n + AllocSize(size), size)
  <2>1. o \in Offsets /\ n <= o /\ nd'[p] = o
    BY <1>2, NewNodeOffset, <1>t DEF NewNode, TypeLocal
  <2> HIDE DEF o
  <2>2. nodeKey[o] = 0
    BY <2>1 DEF Inv, ArenaSound
  <2>3. ASSUME NEW q \in Procs, q # p, pc[q] \in Owning PROVE nd[q] # o
    <3>1. key[q] \in Keys /\ nodeKey[nd[q]] = key[q]
      BY <2>3 DEF Inv, Good, GoodControl, GoodNode, Owning
    <3> QED
      BY <3>1, <2>2, KeyTypes
  <2> QED
    BY <2>1, <2>3, <1>o, <1>t DEF NodesOwned, Same
<1> USE DEF GoTo, Owning, local
<1>3. CASE Link(p) \/ LinkLost(p) \/ HeightLoad(p) \/ HeightCas(p) \/ Relinked(p)
  BY <1>3, <1>1, <1>t DEF Link, LinkLost, HeightLoad, HeightCas, Relinked, Loaded, TypeLocal
<1>4. CASE AddExists(p) \/ NewNodeFull(p) \/ AddReturns(p)
  BY <1>4, <1>1, <1>t DEF AddExists, NewNodeFull, AddReturns, Finish, TypeLocal
<1>5. CASE MinCas(p) \/ MaxCas(p) \/ MinLoad(p) \/ MaxLoad(p) \/ StartAdd(p) \/ SeekDown(p)
  BY <1>5, <1>1, <1>t DEF MinCas, MaxCas, MinLoad, MinLoaded, MaxLoad, Loaded, StartAdd, SeekDown, SeekDone, TypeLocal
<1>6. CASE Walk(p) \/ FindDown(p) \/ FindEnds(p)
  BY <1>6, <1>1, <1>t DEF Walk, FindDown, FindEnds, TypeLocal
<1>7. CASE (\E k \in Keys : Add(p, k) \/ SeekGE(p, k)) \/ First(p) \/ Advance(p)
  BY <1>7, <1>1, <1>t DEF Add, MinLoaded, Loaded, SeekGE, First, Advance, MoveIt, TypeLocal
<1> QED
  BY <1>2, <1>3, <1>4, <1>5, <1>6, <1>7 DEF Acts, Step

\* A step leaves its own goroutine in a good state.
LEMMA OwnStep ==
    ASSUME Inv, NEW p \in Procs, Acts(p)
    PROVE  Good(p)'
<1> USE DEF GoTo, shared, listVars, seqVars, local
<1>t. TypeShared /\ TypeLocal /\ Good(p)
  BY DEF Inv, TypeOK
<1>h. nodeKey[Head] = 0 /\ height - 1 \in Levels /\ height - 1 \in 0 .. MaxHeight /\ 0 \in Levels
  BY <1>t, HeadFits, HeightAssumption DEF Inv, ArenaSound, TypeShared, Levels
<1>k. pc[p] # "idle" => key[p] \in Keys /\ key[p] \in Nat /\ key[p] > 0 /\ SeqNum[key[p]] \in Nat /\ SeqNum[key[p]] > 0
  BY <1>t, KeyTypes DEF Good, GoodControl
<1>m. minSeq \in Nat /\ maxSeq \in Nat
  BY <1>t DEF TypeShared
<1>w. LET next == tower[prev[p]][level[p]]
      IN  pc[p] \in Searching =>
            /\ next = 0 \/ (next \in linked[level[p]] /\ next \in linked[0] /\ nodeKey[next] \in Nat)
            /\ level[p] \in Levels /\ level[p] \in Nat
  <2> SUFFICES ASSUME pc[p] \in Searching
               PROVE  LET next == tower[prev[p]][level[p]]
                      IN  /\ next = 0 \/ (next \in linked[level[p]] /\ next \in linked[0] /\ nodeKey[next] \in Nat)
                          /\ level[p] \in Levels /\ level[p] \in Nat
    OBVIOUS
  <2>1. level[p] \in Levels /\ prev[p] \in linked[level[p]] \cup {Head}
    BY <1>t DEF Good, GoodControl, GoodPosition
  <2>2. tower[prev[p]][level[p]] = 0 \/ tower[prev[p]][level[p]] \in linked[level[p]]
    BY <2>1, NextNode
  <2> QED
    BY <2>1, <2>2, ListNode DEF Levels
<1>1. ASSUME NEW k \in Keys, Add(p, k) PROVE Good(p)'
  BY <1>1, <1>t, <1>k, <1>m, KeyTypes DEF Add, MinLoaded, Loaded, TypeLocal, Good, GoodControl, GoodNode, GoodSplice, GoodPosition, GoodFound, GoodRange,
     Owning, Splicing, Searching, MinSettled, MaxSettled
<1>2. CASE MinCas(p)
  BY <1>2, <1>t, <1>k, <1>m DEF MinCas, Loaded, TypeLocal, Good, GoodControl, GoodNode, GoodSplice, GoodPosition, GoodFound, GoodRange,
     Owning, Splicing, Searching, MinSettled, MaxSettled
<1>3. CASE MinLoad(p)
  BY <1>3, <1>t, <1>k, <1>m DEF MinLoad, MinLoaded, Loaded, TypeLocal, Good, GoodControl, GoodNode, GoodSplice, GoodPosition, GoodFound, GoodRange,
     Owning, Splicing, Searching, MinSettled, MaxSettled
<1>4. CASE MaxLoad(p)
  BY <1>4, <1>t, <1>k, <1>m DEF MaxLoad, Loaded, TypeLocal, Good, GoodControl, GoodNode, GoodSplice, GoodPosition, GoodFound, GoodRange,
     Owning, Splicing, Searching, MinSettled, MaxSettled
<1>5. CASE MaxCas(p)
  BY <1>5, <1>t, <1>k, <1>m DEF MaxCas, Loaded, TypeLocal, Good, GoodControl, GoodNode, GoodSplice, GoodPosition, GoodFound, GoodRange,
     Owning, Splicing, Searching, MinSettled, MaxSettled
<1>6. CASE StartAdd(p)
  BY <1>6, <1>t, <1>k, <1>m, <1>h DEF StartAdd, StartSearch, NoSplice, TypeLocal, Good, GoodControl, GoodNode, GoodSplice, GoodPosition, GoodFound, GoodRange,
     Owning, Splicing, Searching, MinSettled, MaxSettled
<1>7. ASSUME NEW k \in Keys, SeekGE(p, k) PROVE Good(p)'
  BY <1>7, <1>t, <1>k, <1>m, <1>h, KeyTypes DEF SeekGE, StartSearch, NoSplice, TypeLocal, Good, GoodControl, GoodNode, GoodSplice, GoodPosition, GoodFound, GoodRange,
     Owning, Splicing, Searching, MinSettled, MaxSettled
<1>8. ASSUME NEW r, Finish(p, r), UNCHANGED linked PROVE Good(p)'
  BY <1>8, <1>t, <1>k, <1>m DEF Finish, TypeLocal, Good, GoodControl, GoodNode, GoodSplice, GoodPosition, GoodFound, GoodRange,
     Owning, Splicing, Searching, MinSettled, MaxSettled
<1>9. CASE AddExists(p) \/ NewNodeFull(p) \/ AddReturns(p)
  BY <1>9, <1>8 DEF AddExists, NewNodeFull, AddReturns
<1>10. CASE HeightLoad(p)
  BY <1>10, <1>t, <1>k, <1>m DEF HeightLoad, Loaded, TypeLocal, Good, GoodControl, GoodNode, GoodSplice, GoodPosition, GoodFound, GoodRange,
     Owning, Splicing, Searching, MinSettled, MaxSettled
<1>11. CASE HeightCas(p)
  BY <1>11, <1>t, <1>k, <1>m DEF HeightCas, Loaded, TypeLocal, Good, GoodControl, GoodNode, GoodSplice, GoodPosition, GoodFound, GoodRange,
     Owning, Splicing, Searching, MinSettled, MaxSettled
<1>12. CASE Walk(p)
  BY <1>12, <1>t, <1>k, <1>m, <1>w DEF Walk, Passes, TypeLocal, Good, GoodControl, GoodNode, GoodSplice, GoodPosition, GoodFound, GoodRange,
     Owning, Splicing, Searching, MinSettled, MaxSettled
\* A level has been searched: the splice found there brackets the key.
<1>b. ASSUME pc[p] \in {"find", "relink"}, ~Passes(p), Bracket(p),
             found'[p] => pc'[p] = "find" \/ pc'[p] \notin Splicing,
             pc'[p] = "find" => pc[p] = "find",
             key'[p] = key[p], UNCHANGED shared
      PROVE  GoodSplice(p)'
  <2> DEFINE next == tower[prev[p]][level[p]]
  <2> SUFFICES ASSUME pc'[p] \in Splicing, NEW l \in Levels, spl'[p][l].prev # 0
               PROVE  /\ spl'[p][l].prev \in linked[l] \cup {Head}
                      /\ nodeKey[spl'[p][l].prev] < key[p]
                      /\ \/ spl'[p][l].next = 0
                         \/ nodeKey[spl'[p][l].next] > key[p]
                         \/ pc'[p] = "find" /\ found'[p]
    BY <1>b DEF GoodSplice
  <2>1. level[p] \in Levels /\ pc[p] \in Splicing
    BY <1>b, <1>w DEF Searching, Splicing
  <2>f. found'[p] = Matches(p) /\ (found[p] => Matches(p))
    BY <1>b, <1>t DEF Bracket, TypeLocal, Matches
  <2>2. CASE l = level[p]
    <3>1. spl'[p][l] = [prev |-> prev[p], next |-> next]
      BY <2>2, <2>1, <1>b, <1>t DEF Bracket, TypeLocal
    <3>2. prev[p] \in linked[l] \cup {Head} /\ nodeKey[prev[p]] < key[p]
      BY <2>2, <1>b, <1>t DEF Good, GoodPosition, Searching
    <3>3. next = 0 \/ nodeKey[next] > key[p] \/ Matches(p)
      BY <1>b, <1>w, <1>k DEF Passes, Matches, Searching
    <3> QED
      BY <3>1, <3>2, <3>3, <2>f, <1>b
  <2>3. CASE l # level[p]
    <3>1. spl'[p][l] = spl[p][l]
      BY <2>3, <2>1, <1>b, <1>t DEF Bracket, TypeLocal
    <3> QED
      BY <3>1, <2>1, <2>f, <1>b, <1>t DEF Good, GoodSplice
  <2> QED
    BY <2>2, <2>3
<1>13. CASE FindDown(p)
  <2>1. /\ level[p] \in Levels /\ level[p] \in Nat /\ level[p] > 0 /\ pc[p] = "find" /\ pc' = pc
        /\ level'[p] = level[p] - 1 /\ found'[p] = Matches(p) /\ key' = key
    BY <1>13, <1>t, <1>w DEF FindDown, Bracket, TypeLocal, Searching
  <2>2. GoodSplice(p)'
    BY <2>1, <1>13, <1>b DEF FindDown
  <2>3. GoodPosition(p)'
    <3>1. linked[level[p]] \subseteq linked[level[p] - 1]
      BY <2>1 DEF Inv, ListsSound
    <3> QED
      BY <3>1, <2>1, <1>13, <1>t DEF FindDown, Good, GoodPosition, Searching
  <2>4. GoodFound(p)'
    BY <1>13, <2>1, <1>t, <1>w DEF FindDown, Good, GoodFound, Matches, Searching
  <2>5. level[p] - 1 \in Levels
    BY <2>1, HeightAssumption DEF Levels
  <2> QED
    BY <2>1, <2>2, <2>3, <2>4, <2>5, <1>13, <1>t DEF FindDown, Good, GoodControl, GoodNode, GoodRange,
       Owning, Searching, MinSettled, MaxSettled
<1>14. CASE FindEnds(p)
  <2>1. /\ pc[p] = "find" /\ pc'[p] = "alloc" /\ level[p] = 0
        /\ found'[p] = FALSE /\ key' = key
    BY <1>14, <1>t, <1>w DEF FindEnds, Bracket, TypeLocal, Matches
  <2>2. GoodSplice(p)'
    BY <2>1, <1>14, <1>b DEF FindEnds
  <2> QED
    BY <2>1, <2>2, <1>14, <1>t DEF FindEnds, Good, GoodControl, GoodNode, GoodPosition, GoodFound, GoodRange,
       Owning, Searching, MinSettled, MaxSettled
<1>15. ASSUME NEW h \in 1 .. MaxHeight, NewNode(p, h) PROVE Good(p)'
  <2> DEFINE size == NodeSize + KeySize[key[p]]
             o == AllocOffset(n + AllocSize(size), size)
  <2>1. o \in Offsets /\ n <= o
    BY <1>15, NewNodeOffset
  <2>2. /\ nodeKey' = [nodeKey EXCEPT ![o] = key[p]]
        /\ nd'[p] = o /\ ht'[p] = h /\ pc[p] = "alloc" /\ pc'[p] = "height"
        /\ UNCHANGED <<linked, minSeq, maxSeq, key, seen, level, prev, spl, found, it>>
    BY <1>15, <1>t DEF NewNode, TypeLocal
  <2> HIDE DEF o, size
  <2>3. nodeKey[o] = 0 /\ \A l \in Levels : o \notin linked[l]
    BY <2>1 DEF Inv, ArenaSound
  <2>4. GoodNode(p)'
    <3>1. level[p] = 0 /\ \A l \in Levels : ~(l < 0)
      BY <2>2, <1>t DEF Good, GoodControl, Levels
    <3>2. nodeKey'[o] = key[p]
      BY <2>1, <2>2, <1>t DEF TypeShared
    <3> QED
      BY <3>1, <3>2, <2>2, <2>3 DEF GoodNode
  <2>5. GoodSplice(p)'
    <3> SUFFICES ASSUME NEW l \in Levels, spl[p][l].prev # 0
                 PROVE  /\ spl[p][l].prev \in linked[l] \cup {Head}
                        /\ nodeKey'[spl[p][l].prev] < key[p]
                        /\ spl[p][l].next = 0 \/ nodeKey'[spl[p][l].next] > key[p]
      BY <2>2 DEF GoodSplice
    <3>1. /\ spl[p][l].prev \in linked[l] \cup {Head}
          /\ nodeKey[spl[p][l].prev] < key[p]
          /\ spl[p][l].next = 0 \/ nodeKey[spl[p][l].next] > key[p]
      BY <2>2, <1>t DEF Good, GoodSplice, Splicing
    <3>2. spl[p][l].prev \in Offsets /\ spl[p][l].next \in Offsets
      BY <1>t DEF TypeLocal
    <3>3. spl[p][l].prev # o
      BY <2>1, <2>3, <3>1, HeadFits DEF Inv, ArenaSound, TypeOK, TypeShared, Offsets
    <3>4. nodeKey[spl[p][l].next] > key[p] => spl[p][l].next # o
      BY <2>2, <2>3, <1>k
    <3> QED
      BY <2>1, <2>2, <3>1, <3>2, <3>3, <3>4, <1>t DEF TypeShared
  <2> QED
    BY <2>2, <2>4, <2>5, <1>t DEF Good, GoodControl, GoodPosition, GoodFound, GoodRange,
       Owning, Searching, MinSettled, MaxSettled
<1>16. ASSUME pc[p] = "link"
       PROVE  LET s == Splice(p, level[p])
              IN  /\ level[p] \in Levels /\ level[p] \in Nat /\ s.prev \in linked[level[p]] \cup {Head}
                  /\ nodeKey[s.prev] < key[p]
  BY <1>16, SpliceBrackets DEF Levels
<1>17. CASE Link(p)
  <2>1. /\ pc[p] = "link" /\ pc'[p] = (IF level[p] + 1 = ht[p] THEN "done" ELSE "link")
        /\ level'[p] = level[p] + 1
        /\ linked' = [linked EXCEPT ![level[p]] = @ \cup {nd[p]}]
        /\ UNCHANGED <<nodeKey, minSeq, maxSeq, key, seen, prev, spl, found, nd, ht, it>>
    BY <1>17, <1>t DEF Link, TypeLocal
  <2>2. level[p] \in Levels /\ level[p] \in Nat /\ ht[p] \in Nat
    BY <2>1, <1>16, <1>t, HeightAssumption DEF TypeLocal
  <2>3. \A l \in Levels : /\ linked[l] \subseteq linked'[l]
                          /\ linked'[l] = linked[l] \cup (IF l = level[p] THEN {nd[p]} ELSE {})
    BY <2>1, <2>2, <1>t DEF TypeShared
  <2>4. GoodNode(p)'
    <3>1. \A l \in Levels : nd[p] \in linked[l] <=> l < level[p]
      BY <2>1, <1>t DEF Good, GoodNode, Owning
    <3>2. \A l \in Levels : nd[p] \in linked'[l] <=> l < level[p] + 1
      BY <3>1, <2>2, <2>3 DEF Levels
    <3> QED
      BY <2>1, <3>2, <1>t DEF Good, GoodNode, Owning
  <2>5. GoodSplice(p)'
    BY <2>1, <2>3, <1>t DEF Good, GoodSplice, Splicing
  <2>6. GoodControl(p)'
    BY <2>1, <2>2, <1>t DEF Good, GoodControl, Searching, Owning
  <2> QED
    BY <2>1, <2>3, <2>4, <2>5, <2>6, <1>t, <1>h DEF Good, GoodPosition, GoodFound, GoodRange,
       Owning, Searching, MinSettled, MaxSettled
<1>18. CASE LinkLost(p)
  <2>1. /\ pc[p] = "link" /\ pc'[p] = "relink" /\ found'[p] = FALSE
        /\ prev'[p] = Splice(p, level[p]).prev
        /\ UNCHANGED <<nodeKey, linked, minSeq, maxSeq, key, seen, level, spl, nd, ht, it>>
    BY <1>18, <1>t DEF LinkLost, TypeLocal
  <2>2. GoodPosition(p)'
    BY <2>1, <1>16 DEF GoodPosition
  <2> QED
    BY <2>1, <2>2, <1>16, <1>t DEF Good, GoodControl, GoodNode, GoodSplice, GoodFound, GoodRange,
       Owning, Splicing, Searching, MinSettled, MaxSettled
\* A match above the base level would be another node with the key of this one,
\* which is already in the base level.
<1>19. CASE Relinked(p)
  <2> DEFINE next == tower[prev[p]][level[p]]
  <2>1. pc[p] = "relink" /\ ~found[p] /\ pc[p] \in Owning /\ pc[p] \in Searching
    BY <1>19, <1>t DEF Relinked, Good, GoodControl, Owning, Searching
  <2>2. ~Matches(p)
    <3> SUFFICES ASSUME next # 0, nodeKey[next] = key[p] PROVE FALSE
      BY <2>1 DEF Matches
    <3>1. level[p] > 0
      BY <1>19 DEF Relinked, Matches
    <3>2. next \in linked[level[p]] /\ next \in linked[0] /\ level[p] \in Levels /\ level[p] \in Nat
      BY <1>w, <2>1
    <3>3. nd[p] \in linked[0] /\ nd[p] \notin linked[level[p]] /\ nodeKey[nd[p]] = key[p]
      BY <2>1, <3>1, <3>2, <1>h, <1>t DEF Good, GoodNode
    <3> QED
      BY <3>2, <3>3, <1>h DEF Inv, ListsSound
  <2>3. /\ pc'[p] = "link" /\ found'[p] = FALSE
        /\ UNCHANGED <<nodeKey, linked, minSeq, maxSeq, key, seen, level, nd, ht, it>>
    BY <1>19, <2>2, <1>t DEF Relinked, Bracket, TypeLocal
  <2>4. GoodSplice(p)'
    BY <2>1, <2>3, <1>19, <1>b DEF Relinked
  <2> QED
    BY <2>1, <2>3, <2>4, <1>t DEF Good, GoodControl, GoodNode, GoodPosition, GoodFound, GoodRange,
       Owning, Searching, MinSettled, MaxSettled
<1>20. CASE SeekDown(p)
  <2>1. /\ pc[p] = "seek" /\ UNCHANGED <<nodeKey, linked, minSeq, maxSeq>>
        /\ level[p] \in Levels /\ level[p] \in Nat
    BY <1>20, <1>w DEF SeekDown, Searching
  <2>2. ASSUME level[p] > 0 PROVE Good(p)'
    <3>1. level'[p] = level[p] - 1 /\ UNCHANGED <<pc, key, prev, it>>
      BY <2>2, <1>20, <1>t DEF SeekDown, TypeLocal
    <3>2. level[p] - 1 \in Levels /\ linked[level[p]] \subseteq linked[level[p] - 1]
      BY <2>1, <2>2, HeightAssumption DEF Levels, Inv, ListsSound
    <3> QED
      BY <2>1, <3>1, <3>2, <1>t DEF Good, GoodControl, GoodNode, GoodSplice, GoodPosition, GoodFound, GoodRange,
         Owning, Splicing, Searching, MinSettled, MaxSettled
  <2>3. ASSUME ~(level[p] > 0) PROVE Good(p)'
    <3>1. pc'[p] = "idle" /\ it'[p] = tower[prev[p]][0]
      BY <2>3, <1>20, <1>t DEF SeekDown, SeekDone, TypeLocal
    <3>2. it'[p] \in linked[0] \cup {0}
      BY <3>1, <2>1, <2>3, <1>w DEF Searching
    <3> QED
      BY <2>1, <3>1, <3>2 DEF Good, GoodControl, GoodNode, GoodSplice, GoodPosition, GoodFound, GoodRange,
         Owning, Splicing, Searching, MinSettled, MaxSettled
  <2> QED
    BY <2>2, <2>3
<1>21. ASSUME NEW o \in linked[0] \cup {Head}, MoveIt(p, tower[o][0]) PROVE Good(p)'
  <2>1. tower[o][0] \in linked[0] \cup {0}
    BY NextNode, <1>h
  <2>2. pc'[p] = "idle" /\ it'[p] = tower[o][0] /\ linked' = linked
    BY <1>21, <1>t DEF MoveIt, TypeLocal
  <2> QED
    BY <2>1, <2>2 DEF Good, GoodControl, GoodNode, GoodSplice, GoodPosition, GoodFound, GoodRange,
       Owning, Splicing, Searching, MinSettled, MaxSettled
<1>22. CASE First(p) \/ Advance(p)
  BY <1>22, <1>21, <1>t DEF First, Advance, Good, GoodFound
<1> QED
  BY <1>1, <1>2, <1>3, <1>4, <1>5, <1>6, <1>7, <1>9, <1>10, <1>11, <1>12, <1>13, <1>14, <1>15,
     <1>17, <1>18, <1>19, <1>20, <1>22 DEF Acts, Step

-----------------------------------------------------------------------------
(* The invariant *)

\* The invariant is inductive.
LEMMA InvStep == Inv /\ [Next]_vars => Inv'
<1> SUFFICES ASSUME Inv, [Next]_vars PROVE Inv'
  OBVIOUS
<1>1. CASE UNCHANGED vars
  <2>1. TypeOK'
    BY <1>1 DEF Inv, TypeOK, TypeShared, TypeLocal, vars, shared, listVars, seqVars, local
  <2>2. ArenaSound' /\ ListsSound' /\ BaseFirst' /\ RangeSound' /\ NodesOwned'
    BY <1>1 DEF Inv, ArenaSound, AllocsDisjoint, ListsSound, InOrder, BaseFirst, RangeSound, SeqRangeCovers,
         NodesOwned, vars, shared, listVars, seqVars, local
  <2>3. \A p \in Procs : Good(p)'
    BY <1>1 DEF Inv, Good, GoodControl, GoodNode, GoodSplice, GoodPosition, GoodFound, GoodRange,
         vars, shared, listVars, seqVars, local
  <2> QED
    BY <2>1, <2>2, <2>3 DEF Inv
<1>2. ASSUME NEW p \in Procs, Acts(p) PROVE Inv'
  <2>1. TypeOK'
    BY <1>2, TypeStep
  <2>2. ArenaSound' /\ ListsSound' /\ BaseFirst' /\ RangeSound' /\ NodesOwned'
    BY <1>2, <2>1, ArenaStep, ListsStep, RangeStep, OwnersStep
  <2>3. ASSUME NEW q \in Procs PROVE Good(q)'
    <3>1. CASE q = p
      BY <3>1, <1>2, OwnStep
    <3>2. CASE q # p
      BY <3>2, <1>2, <2>1, GrowsStep, OthersSame, OthersStayGood
    <3> QED
      BY <3>1, <3>2
  <2> QED
    BY <2>1, <2>2, <2>3 DEF Inv
<1>3. Next => \E p \in Procs : Acts(p)
  BY DEF Next, Acts, Procs
<1> QED
  BY <1>1, <1>2, <1>3

\* The invariant holds in every state of the memtable.
THEOREM Invariance == Spec => []Inv
<1> QED
  BY InitInv, InvStep, PTL DEF Spec

\* Every variable keeps its type (pkg/lsm/skiplist, pkg/lsm/arena).
THEOREM TypeCorrect == Spec => []TypeOK
<1>1. Inv => TypeOK
  BY DEF Inv
<1> QED
  BY <1>1, Invariance, PTL

\* Concurrent allocations never overlap and stay inside the buffer
\* (arena.go:50-63), whatever sizes and alignment are used.
THEOREM AllocationsDisjoint == Spec => []AllocsDisjoint
<1>1. Inv => AllocsDisjoint
  BY DEF Inv, ArenaSound
<1> QED
  BY <1>1, Invariance, PTL

\* Every level is a sorted list of exactly the nodes linked into it, a sublist
\* of the level below (skiplist.go:74-106), for any number of goroutines.
THEOREM ListsStaySound == Spec => []ListsSound
<1>1. Inv => ListsSound
  BY DEF Inv
<1> QED
  BY <1>1, Invariance, PTL

\* The panic of skiplist.go:98-100 is unreachable.
THEOREM PanicUnreachable == Spec => []NoPanic
<1>1. Inv => NoPanic
  BY DEF Inv, NoPanic, Good, GoodControl
<1> QED
  BY <1>1, Invariance, PTL

\* The range of sequence numbers (memtable.go:118-139) covers every entry of
\* the base level.
THEOREM SeqRangeStaysWide == Spec => []SeqRangeCovers
<1>1. Inv => SeqRangeCovers
  BY DEF Inv, RangeSound
<1> QED
  BY <1>1, Invariance, PTL

-----------------------------------------------------------------------------
(* The memtable implements the ordered set *)

\* What the ordered set sees of goroutine p.
AbsAdding(p) == IF pc[p] \in Adding THEN key[p] ELSE 0
AbsInserted(p) == pc[p] \in {"link", "relink", "done", "panic"} /\ level[p] > 0
AbsSeeking(p) == IF pc[p] = "seek" THEN key[p] ELSE 0
AbsPos(p) == nodeKey[it[p]]

\* The variables of the ordered set.
absSet == {nodeKey[o] : o \in linked[0]}
absAdding == [p \in Procs |-> AbsAdding(p)]
absInserted == {p \in Procs : AbsInserted(p)}
absSeeking == [p \in Procs |-> AbsSeeking(p)]
absPos == [p \in Procs |-> AbsPos(p)]

\* A step of p shows in the ordered set only where it is about p.
LEMMA AbsStep ==
    ASSUME Inv, NEW p \in Procs, Acts(p)
    PROVE  /\ absAdding' = [absAdding EXCEPT ![p] = AbsAdding(p)']
           /\ absInserted' = (IF AbsInserted(p)' THEN absInserted \cup {p} ELSE absInserted \ {p})
           /\ absSeeking' = [absSeeking EXCEPT ![p] = AbsSeeking(p)']
           /\ absPos' = [absPos EXCEPT ![p] = AbsPos(p)']
           /\ it'[p] = it[p] => AbsPos(p)' = AbsPos(p)
<1>1. ASSUME NEW q \in Procs PROVE it[q] \in Offsets /\ nodeKey'[it[q]] = nodeKey[it[q]]
  <2>1. it[q] \in linked[0] \cup {0} /\ it[q] \in Offsets /\ 0 \in Levels
    BY HeightAssumption DEF Inv, Good, GoodFound, TypeOK, TypeLocal, Levels
  <2>2. nodeKey[it[q]] # 0 \/ it[q] = 0
    BY <2>1 DEF Inv, ArenaSound
  <2> QED
    BY <2>1, <2>2, GrowsStep DEF Grows
<1>2. ASSUME NEW q \in Procs, q # p
      PROVE  /\ AbsAdding(q)' = AbsAdding(q) /\ AbsInserted(q)' = AbsInserted(q)
             /\ AbsSeeking(q)' = AbsSeeking(q) /\ AbsPos(q)' = AbsPos(q)
  BY <1>1, <1>2, OthersSame DEF Same, AbsAdding, AbsInserted, AbsSeeking, AbsPos
<1>3. absAdding' = [absAdding EXCEPT ![p] = AbsAdding(p)']
  BY <1>2 DEF absAdding
<1>4. absSeeking' = [absSeeking EXCEPT ![p] = AbsSeeking(p)']
  BY <1>2 DEF absSeeking
<1>5. absPos' = [absPos EXCEPT ![p] = AbsPos(p)']
  BY <1>2 DEF absPos
<1>6. absInserted' = (IF AbsInserted(p)' THEN absInserted \cup {p} ELSE absInserted \ {p})
  BY <1>2 DEF absInserted
<1>7. it'[p] = it[p] => AbsPos(p)' = AbsPos(p)
  BY <1>1 DEF AbsPos
<1> QED
  BY <1>3, <1>4, <1>5, <1>6, <1>7

\* The set gains a key when a node is linked into the base level, and only then.
LEMMA AbsSetStep ==
    ASSUME Inv, NEW p \in Procs, Acts(p)
    PROVE  /\ Link(p) /\ level[p] = 0 => absSet' = absSet \cup {key[p]} /\ key[p] \notin absSet
           /\ ~(Link(p) /\ level[p] = 0) => absSet' = absSet
<1>t. TypeShared /\ TypeLocal /\ 0 \in Levels
  BY HeightAssumption DEF Inv, TypeOK, Levels
<1>1. ASSUME NEW o \in linked[0] PROVE nodeKey'[o] = nodeKey[o]
  BY <1>1, <1>t, GrowsStep, ListNode DEF Grows
<1>2. ASSUME linked'[0] = linked[0] PROVE absSet' = absSet
  BY <1>1, <1>2 DEF absSet
<1>3. ASSUME Link(p), level[p] = 0 PROVE absSet' = absSet \cup {key[p]} /\ key[p] \notin absSet
  <2>1. linked'[0] = linked[0] \cup {nd[p]} /\ nodeKey' = nodeKey
    BY <1>3, <1>t DEF Link, TypeShared
  <2>2. nodeKey[nd[p]] = key[p] /\ nd[p] \notin linked[0]
    BY <1>3, <1>t DEF Link, Inv, Good, GoodNode, Owning
  <2>3. \A x, y \in linked'[0] : nodeKey'[x] = nodeKey'[y] => x = y
    BY <1>3, <1>t, LinkSorted
  <2> QED
    BY <2>1, <2>2, <2>3 DEF absSet
<1>4. ASSUME ~(Link(p) /\ level[p] = 0) PROVE linked'[0] = linked[0]
  <2>1. CASE Link(p)
    <3>1. level[p] # 0 /\ level[p] \in Levels
      BY <2>1, <1>4, SpliceBrackets DEF Link
    <3> QED
      BY <2>1, <3>1, <1>t DEF Link, TypeShared
  <2>2. CASE ~Link(p)
    BY <2>2, ListChanges DEF NewNode, LinkLost
  <2> QED
    BY <2>1, <2>2
<1> QED
  BY <1>2, <1>3, <1>4

\* The node after o is the first from t on, when it is not before t and what is
\* from t on is after o.
LEMMA FirstFrom ==
    ASSUME Inv, NEW o \in linked[0] \cup {Head}, NEW t,
           tower[o][0] = 0 \/ t <= nodeKey[tower[o][0]],
           \A x \in linked[0] : nodeKey[x] < t \/ nodeKey[x] > nodeKey[o]
    PROVE  Abstract!IsFirstFrom(nodeKey[tower[o][0]], t) /\ nodeKey[tower[o][0]] \in Keys \cup {0}
<1> DEFINE next == tower[o][0]
<1>0. 0 \in Levels
  BY HeightAssumption DEF Levels
<1>1. /\ next = 0 \/ next \in linked[0]
      /\ \A x \in linked[0] : nodeKey[x] > nodeKey[o] => next # 0 /\ nodeKey[next] <= nodeKey[x]
  BY <1>0, NextNode
<1>2. nodeKey[0] = 0 /\ \A x \in linked[0] : nodeKey[x] \in Keys \cup {0}
  BY <1>0, ArenaAssumption DEF Inv, ArenaSound, TypeOK, TypeShared, Offsets
<1> HIDE DEF next
<1>3. CASE next = 0
  BY <1>1, <1>2, <1>3 DEF Abstract!IsFirstFrom, next
<1>4. CASE next # 0
  BY <1>1, <1>2, <1>4 DEF Abstract!IsFirstFrom, next
<1> QED
  BY <1>3, <1>4

\* Every step of the memtable is a step of the ordered set or none: linking into
\* the base level is the insertion, reading the pointer of the base level is the
\* movement of the iterator.
LEMMA RefinementStep ==
    ASSUME Inv, NEW p \in Procs, Acts(p)
    PROVE  Abstract!Next \/ UNCHANGED Abstract!vars
<1> USE DEF GoTo, shared, listVars, seqVars, local
<1>t. TypeShared /\ TypeLocal /\ Good(p)
  BY DEF Inv, TypeOK
<1>h. 0 \in Levels /\ nodeKey[Head] = 0
  BY HeadFits, HeightAssumption DEF Levels, Inv, ArenaSound
<1>k. pc[p] # "idle" => key[p] \in Keys /\ key[p] \in Nat /\ key[p] > 0
  BY <1>t, KeyTypes DEF Good, GoodControl
<1>a. /\ absAdding' = [absAdding EXCEPT ![p] = AbsAdding(p)']
      /\ absInserted' = (IF AbsInserted(p)' THEN absInserted \cup {p} ELSE absInserted \ {p})
      /\ absSeeking' = [absSeeking EXCEPT ![p] = AbsSeeking(p)']
      /\ absPos' = [absPos EXCEPT ![p] = AbsPos(p)']
      /\ it'[p] = it[p] => AbsPos(p)' = AbsPos(p)
  BY AbsStep
<1>v. /\ absAdding[p] = AbsAdding(p) /\ absSeeking[p] = AbsSeeking(p) /\ absPos[p] = AbsPos(p)
      /\ p \in absInserted <=> AbsInserted(p)
  BY DEF absAdding, absSeeking, absPos, absInserted
<1>s. Link(p) \/ absSet' = absSet
  BY AbsSetStep
\* A step that changes nothing of p that the ordered set sees.
<1>u. ASSUME AbsAdding(p)' = AbsAdding(p), AbsInserted(p)' = AbsInserted(p), AbsSeeking(p)' = AbsSeeking(p),
             it'[p] = it[p], absSet' = absSet, UNCHANGED ret
      PROVE  UNCHANGED Abstract!vars
  <2>1. absAdding' = absAdding /\ absSeeking' = absSeeking /\ absPos' = absPos
    BY <1>u, <1>a, <1>v DEF absAdding, absSeeking, absPos
  <2>2. absInserted' = absInserted
    BY <1>u, <1>a, <1>v
  <2> QED
    BY <2>1, <2>2, <1>u DEF Abstract!vars, absSet, absAdding, absInserted, absSeeking, absPos,
       AbsAdding, AbsInserted, AbsSeeking, AbsPos
<1>n. ASSUME \/ \E k \in Keys : Abstract!CallAdd(p, k) \/ Abstract!CallSeek(p, k)
             \/ Abstract!Insert(p) \/ Abstract!ReturnAdd(p)
             \/ Abstract!Seek(p) \/ Abstract!First(p) \/ Abstract!Advance(p)
      PROVE  Abstract!Next
  BY <1>n DEF Abstract!Next
<1>1. ASSUME NEW k \in Keys, Add(p, k) PROVE Abstract!CallAdd(p, k)
  <2>1. AbsAdding(p) = 0 /\ AbsSeeking(p) = 0 /\ ~AbsInserted(p)
    BY <1>1 DEF Add, AbsAdding, AbsSeeking, AbsInserted, Adding
  <2>2. AbsAdding(p)' = k /\ AbsSeeking(p)' = 0 /\ ~AbsInserted(p)' /\ it'[p] = it[p] /\ ~Link(p)
    BY <1>1, <1>t DEF Add, MinLoaded, Loaded, AbsAdding, AbsSeeking, AbsInserted, Adding, Link, TypeLocal
  <2>3. /\ absAdding[p] = 0 /\ absSeeking[p] = 0 /\ absAdding' = [absAdding EXCEPT ![p] = k]
        /\ absInserted' = absInserted
    BY <2>1, <2>2, <1>a, <1>v
  <2>4. absSeeking' = absSeeking /\ absPos' = absPos
    BY <2>1, <2>2, <1>a, <1>v DEF absSeeking, absPos
  <2>5. ret' = [ret EXCEPT ![p] = "none"] /\ absSet' = absSet
    BY <1>1, <1>s, <2>2 DEF Add
  <2> QED
    BY <2>3, <2>4, <2>5 DEF Abstract!CallAdd, Abstract!Idle, absSet, absAdding, absInserted, absSeeking, absPos,
       AbsAdding, AbsInserted, AbsSeeking, AbsPos
<1>2. ASSUME NEW k \in Keys, SeekGE(p, k) PROVE Abstract!CallSeek(p, k)
  <2>1. AbsAdding(p) = 0 /\ AbsSeeking(p) = 0 /\ ~AbsInserted(p)
    BY <1>2 DEF SeekGE, AbsAdding, AbsSeeking, AbsInserted, Adding
  <2>2. AbsAdding(p)' = 0 /\ AbsSeeking(p)' = k /\ ~AbsInserted(p)' /\ it'[p] = it[p] /\ ~Link(p)
    BY <1>2, <1>t DEF SeekGE, StartSearch, AbsAdding, AbsSeeking, AbsInserted, Adding, Link, TypeLocal
  <2>3. /\ absAdding[p] = 0 /\ absSeeking[p] = 0 /\ absSeeking' = [absSeeking EXCEPT ![p] = k]
        /\ absInserted' = absInserted
    BY <2>1, <2>2, <1>a, <1>v
  <2>4. absAdding' = absAdding /\ absPos' = absPos
    BY <2>1, <2>2, <1>a, <1>v DEF absAdding, absPos
  <2>5. ret' = ret /\ absSet' = absSet
    BY <1>2, <1>s, <2>2 DEF SeekGE, StartSearch
  <2> QED
    BY <2>3, <2>4, <2>5 DEF Abstract!CallSeek, Abstract!Idle, absSet, absAdding, absInserted, absSeeking, absPos,
       AbsAdding, AbsInserted, AbsSeeking, AbsPos
<1>3. ASSUME Link(p), level[p] = 0 PROVE Abstract!Insert(p)
  <2>1. AbsAdding(p) = key[p] /\ AbsSeeking(p) = 0 /\ ~AbsInserted(p) /\ key[p] # 0
    BY <1>3, <1>k DEF Link, AbsAdding, AbsSeeking, AbsInserted, Adding
  <2>2. AbsAdding(p)' = key[p] /\ AbsSeeking(p)' = 0 /\ AbsInserted(p)' /\ it'[p] = it[p]
    BY <1>3, <1>t DEF Link, AbsAdding, AbsSeeking, AbsInserted, Adding, TypeLocal
  <2>3. /\ absAdding[p] = key[p] /\ p \notin absInserted
        /\ absInserted' = absInserted \cup {p}
    BY <2>1, <2>2, <1>a, <1>v
  <2>a. absAdding' = absAdding
    BY <2>1, <2>2, <1>a, <1>v DEF absAdding
  <2>4. absSeeking' = absSeeking /\ absPos' = absPos
    BY <2>1, <2>2, <1>a, <1>v DEF absSeeking, absPos
  <2>5. ret' = ret /\ absSet' = absSet \cup {key[p]} /\ key[p] \notin absSet
    BY <1>3, AbsSetStep DEF Link
  <2> QED
    BY <2>1, <2>3, <2>a, <2>4, <2>5 DEF Abstract!Insert, absSet, absAdding, absInserted, absSeeking, absPos,
       AbsAdding, AbsInserted, AbsSeeking, AbsPos
<1>4. ASSUME Link(p), level[p] # 0 PROVE UNCHANGED Abstract!vars
  <2>a. pc[p] = "link" /\ absSet' = absSet
    BY <1>4, AbsSetStep DEF Link
  <2>1. level[p] \in Nat /\ absSet' = absSet
    BY <2>a, SpliceBrackets DEF Levels
  <2> QED
    BY <2>1, <1>4, <1>u, <1>t DEF Link, AbsAdding, AbsSeeking, AbsInserted, Adding, TypeLocal
\* An Add returns r.
<1>f. ASSUME NEW r \in {"ok", "exists", "full"}, Finish(p, r), pc[p] \in Adding, absSet' = absSet,
             r = "ok" <=> AbsInserted(p), r = "exists" => key[p] \in absSet
      PROVE  Abstract!ReturnAdd(p)
  <2>1. AbsAdding(p) = key[p] /\ AbsSeeking(p) = 0 /\ key[p] # 0
    BY <1>f, <1>k DEF AbsAdding, AbsSeeking, Adding
  <2>2. AbsAdding(p)' = 0 /\ AbsSeeking(p)' = 0 /\ ~AbsInserted(p)' /\ it'[p] = it[p]
        /\ ret' = [ret EXCEPT ![p] = r]
    BY <1>f, <1>t DEF Finish, AbsAdding, AbsSeeking, AbsInserted, Adding, TypeLocal
  <2>3. /\ absAdding[p] = key[p] /\ absAdding' = [absAdding EXCEPT ![p] = 0]
        /\ absInserted' = absInserted \ {p}
        /\ r = "ok" <=> p \in absInserted
    BY <2>1, <2>2, <1>a, <1>v, <1>f
  <2>4. absSeeking' = absSeeking /\ absPos' = absPos
    BY <2>1, <2>2, <1>a, <1>v DEF absSeeking, absPos
  <2> QED
    BY <2>1, <2>2, <2>3, <2>4, <1>f DEF Abstract!ReturnAdd, absSet, absAdding, absInserted, absSeeking, absPos,
       AbsAdding, AbsInserted, AbsSeeking, AbsPos
<1>5. ASSUME AddExists(p) PROVE Abstract!ReturnAdd(p)
  <2>1. pc[p] \in {"find", "relink"} /\ level[p] = 0 /\ Matches(p) /\ Finish(p, "exists") /\ ~Link(p)
    BY <1>5 DEF AddExists, Link
  <2>2. prev[p] \in linked[0] \cup {Head}
    BY <2>1, <1>t DEF Good, GoodPosition, Searching
  <2>3. tower[prev[p]][0] = 0 \/ tower[prev[p]][0] \in linked[0]
    BY <2>2, <1>h, NextNode
  <2>4. \E o \in linked[0] : nodeKey[o] = key[p]
    BY <2>1, <2>3, <1>t DEF Matches, Good, GoodFound, GoodControl
  <2>5. key[p] \in absSet /\ ~AbsInserted(p) /\ pc[p] \in Adding
    BY <2>1, <2>4 DEF absSet, AbsInserted, Adding
  <2> QED
    BY <2>1, <2>5, <1>s, <1>f
<1>6. ASSUME NewNodeFull(p) PROVE Abstract!ReturnAdd(p)
  <2>1. Finish(p, "full") /\ ~Link(p) /\ pc[p] \in Adding /\ ~AbsInserted(p)
    BY <1>6 DEF NewNodeFull, Link, Adding, AbsInserted
  <2> QED
    BY <2>1, <1>s, <1>f
<1>7. ASSUME AddReturns(p) PROVE Abstract!ReturnAdd(p)
  <2>1. Finish(p, "ok") /\ ~Link(p) /\ pc[p] \in Adding /\ AbsInserted(p)
    BY <1>7, <1>t DEF AddReturns, Link, Adding, AbsInserted, Good, GoodControl
  <2> QED
    BY <2>1, <1>s, <1>f
\* The iterator of p moves to the node after o, the first from t on.
<1>m. ASSUME NEW o \in linked[0] \cup {Head}, it'[p] = tower[o][0], nodeKey' = nodeKey, NEW t,
             tower[o][0] = 0 \/ t <= nodeKey[tower[o][0]],
             \A x \in linked[0] : nodeKey[x] < t \/ nodeKey[x] > nodeKey[o],
             AbsAdding(p) = 0, AbsAdding(p)' = 0, ~AbsInserted(p), ~AbsInserted(p)',
             absSet' = absSet, UNCHANGED ret
      PROVE  Abstract!MoveTo(p, t)
  <2>1. Abstract!IsFirstFrom(nodeKey[tower[o][0]], t) /\ nodeKey[tower[o][0]] \in Keys \cup {0}
    BY <1>m, FirstFrom
  <2>2. absPos' = [absPos EXCEPT ![p] = nodeKey[tower[o][0]]]
    BY <1>a, <1>m DEF AbsPos
  <2>3. absInserted' = absInserted
    BY <1>a, <1>m, <1>v
  <2>4. absAdding' = absAdding
    BY <1>a, <1>m, <1>v DEF absAdding
  <2>5. \E k \in Keys \cup {0} : Abstract!IsFirstFrom(k, t) /\ absPos' = [absPos EXCEPT ![p] = k]
    BY <2>1, <2>2
  <2> QED
    BY <2>3, <2>4, <2>5, <1>m DEF Abstract!MoveTo, absSet, absAdding, absInserted, absPos,
       AbsAdding, AbsInserted, AbsPos
<1>8. ASSUME SeekDown(p), ~(level[p] > 0) PROVE Abstract!Seek(p)
  <2>1. /\ pc[p] = "seek" /\ level[p] = 0 /\ pc'[p] = "idle" /\ it'[p] = tower[prev[p]][0]
        /\ nodeKey' = nodeKey /\ ret' = ret
        /\ tower[prev[p]][0] = 0 \/ ~(nodeKey[tower[prev[p]][0]] < key[p])
    BY <1>8, <1>t, HeightAssumption DEF SeekDown, SeekDone, Passes, TypeLocal
  <2>2. prev[p] \in linked[0] \cup {Head} /\ nodeKey[prev[p]] < key[p]
    BY <2>1, <1>t DEF Good, GoodPosition, Searching
  <2>3. AbsAdding(p) = 0 /\ AbsSeeking(p) = key[p] /\ ~AbsInserted(p) /\ key[p] # 0
        /\ AbsAdding(p)' = 0 /\ AbsSeeking(p)' = 0 /\ ~AbsInserted(p)' /\ ~Link(p)
    BY <2>1, <1>k DEF AbsAdding, AbsSeeking, AbsInserted, Adding, Link
  <2>4. tower[prev[p]][0] = 0 \/ key[p] <= nodeKey[tower[prev[p]][0]]
    BY <2>1, <2>2, <1>h, <1>k, NextNode, ListNode
  <2>5. \A x \in linked[0] : nodeKey[x] < key[p] \/ nodeKey[x] > nodeKey[prev[p]]
    BY <2>1, <2>2, <1>h, <1>k, ListNode
  <2>6. ASSUME NEW t, t = key[p] PROVE Abstract!MoveTo(p, t)
    BY <2>1, <2>2, <2>3, <2>4, <2>5, <2>6, <1>s, <1>m
  <2>7. absSeeking[p] = key[p] /\ absSeeking' = [absSeeking EXCEPT ![p] = 0]
    BY <2>3, <1>a, <1>v
  <2> QED
    BY <2>3, <2>6, <2>7 DEF Abstract!Seek, Abstract!MoveTo, Abstract!IsFirstFrom, absSeeking, AbsSeeking
<1>9. ASSUME SeekDown(p), level[p] > 0 PROVE UNCHANGED Abstract!vars
  <2>1. UNCHANGED <<pc, key, it, ret>> /\ pc[p] = "seek"
    BY <1>9 DEF SeekDown
  <2> QED
    BY <2>1, <1>u, <1>s DEF AbsAdding, AbsSeeking, AbsInserted, Adding, Link
\* The other movements.
<1>10. ASSUME NEW o \in linked[0] \cup {Head}, MoveIt(p, tower[o][0]), NEW t \in Nat,
              t <= nodeKey[o] + 1, nodeKey[o] < t \/ nodeKey[o] = 0
       PROVE  Abstract!Idle(p) /\ Abstract!MoveTo(p, t) /\ absSeeking' = absSeeking
  <2>1. /\ pc[p] = "idle" /\ pc'[p] = "idle" /\ it'[p] = tower[o][0] /\ nodeKey' = nodeKey /\ ret' = ret
    BY <1>10, <1>t DEF MoveIt, TypeLocal
  <2>2. AbsAdding(p) = 0 /\ AbsSeeking(p) = 0 /\ ~AbsInserted(p)
        /\ AbsAdding(p)' = 0 /\ AbsSeeking(p)' = 0 /\ ~AbsInserted(p)' /\ ~Link(p)
    BY <2>1 DEF AbsAdding, AbsSeeking, AbsInserted, Adding, Link
  <2>3. nodeKey[o] \in Nat /\ \A x \in linked[0] : nodeKey[x] \in Nat /\ nodeKey[x] > 0
    BY <1>h, ListNode
  <2>4. tower[o][0] = 0 \/ (tower[o][0] \in linked[0] /\ nodeKey[tower[o][0]] > nodeKey[o])
    BY <1>h, NextNode
  <2>5. tower[o][0] = 0 \/ t <= nodeKey[tower[o][0]]
    BY <2>3, <2>4, <1>10
  <2>6. \A x \in linked[0] : nodeKey[x] < t \/ nodeKey[x] > nodeKey[o]
    BY <2>3, <1>10
  <2>7. Abstract!MoveTo(p, t)
    BY <2>1, <2>2, <2>5, <2>6, <1>s, <1>m
  <2>8. absSeeking' = absSeeking
    BY <2>2, <1>a, <1>v DEF absSeeking
  <2>9. absSeeking[p] = 0 /\ absAdding[p] = 0
    BY <2>2, <1>v
  <2> QED
    BY <2>7, <2>8, <2>9 DEF Abstract!Idle, absSeeking, absAdding, AbsAdding, AbsSeeking
<1>11. ASSUME First(p) PROVE Abstract!First(p)
  <2>1. Abstract!Idle(p) /\ Abstract!MoveTo(p, 0) /\ absSeeking' = absSeeking
    BY <1>11, <1>10, <1>h DEF First
  <2> QED
    BY <2>1 DEF Abstract!First, absSeeking, AbsSeeking
<1>12. ASSUME Advance(p) PROVE Abstract!Advance(p)
  <2>1. it[p] # 0 /\ it[p] \in linked[0] /\ MoveIt(p, tower[it[p]][0])
    BY <1>12, <1>t DEF Advance, Good, GoodFound
  <2>2. nodeKey[it[p]] \in Nat /\ nodeKey[it[p]] > 0
    BY <2>1, <1>h, ListNode
  <2>t. PICK t : t = nodeKey[it[p]] + 1
    OBVIOUS
  <2>3. Abstract!Idle(p) /\ Abstract!MoveTo(p, t) /\ absSeeking' = absSeeking
    BY <2>1, <2>2, <2>t, <1>10
  <2>4. absPos[p] = nodeKey[it[p]]
    BY <1>v DEF AbsPos
  <2>5. absPos[p] # 0 /\ absPos[p] + 1 = t
    BY <2>2, <2>4, <2>t
  <2>6. Abstract!Advance(p) <=>
          Abstract!Idle(p) /\ absPos[p] # 0 /\ Abstract!MoveTo(p, t) /\ absSeeking' = absSeeking
    BY <2>5 DEF Abstract!Advance, Abstract!MoveTo, Abstract!IsFirstFrom, absSeeking, AbsSeeking, absPos, AbsPos
  <2> QED
    BY <2>3, <2>5, <2>6
\* The rest of an Add cannot be seen.
<1>13. CASE MinLoad(p) \/ MinCas(p) \/ MaxLoad(p) \/ MaxCas(p) \/ HeightLoad(p) \/ HeightCas(p)
  <2>1. /\ pc[p] \in {"min", "minCas", "max", "maxCas", "height", "grow"}
        /\ pc'[p] \in {"min", "minCas", "max", "maxCas", "start", "height", "grow", "link"}
        /\ pc[p] \notin {"height", "grow"} => pc'[p] # "link"
        /\ UNCHANGED <<key, level, it, ret>>
    BY <1>13, <1>t DEF MinLoad, MinCas, MinLoaded, MaxLoad, MaxCas, HeightLoad, HeightCas, Loaded, TypeLocal
  <2>2. pc'[p] = "link" => level[p] = 0
    BY <2>1, <1>t DEF Good, GoodControl
  <2> QED
    BY <2>1, <2>2, <1>u, <1>s DEF AbsAdding, AbsSeeking, AbsInserted, Adding, Link
<1>14. CASE StartAdd(p) \/ FindDown(p) \/ FindEnds(p) \/ \E h \in 1 .. MaxHeight : NewNode(p, h)
  <2>1. /\ pc[p] \in {"start", "find", "alloc"} /\ pc'[p] \in {"find", "alloc", "height"}
        /\ UNCHANGED <<key, it, ret>>
    BY <1>14, <1>t DEF StartAdd, StartSearch, FindDown, FindEnds, NewNode, TypeLocal
  <2> QED
    BY <2>1, <1>u, <1>s DEF AbsAdding, AbsSeeking, AbsInserted, Adding, Link
<1>15. CASE LinkLost(p) \/ Relinked(p)
  <2>1. /\ pc[p] \in {"link", "relink"} /\ pc'[p] \in {"link", "relink", "panic"}
        /\ UNCHANGED <<key, level, it, ret>> /\ linked' = linked
    BY <1>15, <1>t DEF LinkLost, Relinked, TypeLocal
  <2>2. ~Link(p) \/ absSet' = absSet
    <3>1. Link(p) => linked' # linked
      <4>1. Link(p) => level[p] \in Levels /\ nd[p] \notin linked[level[p]] /\ nd[p] \in linked'[level[p]]
        BY <1>t, SpliceBrackets DEF Link, Good, GoodNode, Owning, TypeShared, Levels
      <4> QED
        BY <4>1
    <3> QED
      BY <2>1, <3>1
  <2> QED
    BY <2>1, <2>2, <1>u, <1>s DEF AbsAdding, AbsSeeking, AbsInserted, Adding
<1>16. CASE Walk(p)
  BY <1>16, <1>u, <1>s DEF Walk, AbsAdding, AbsSeeking, AbsInserted, Link
<1> QED
  BY <1>1, <1>2, <1>3, <1>4, <1>5, <1>6, <1>7, <1>8, <1>9, <1>11, <1>12, <1>13, <1>14, <1>15, <1>16, <1>n
     DEF Acts, Step

\* The memtable behaves like the ordered set: although an Add and a search are
\* many loads and compare-and-swaps, each takes effect in one of them.
THEOREM MemtableRefines == Spec => ImplementsOrderedSet
<1>1. Init => Abstract!Init
  <2> SUFFICES ASSUME Init PROVE Abstract!Init
    OBVIOUS
  <2>1. absSet = {} /\ absAdding = [p \in Procs |-> 0] /\ absInserted = {} /\ absSeeking = [p \in Procs |-> 0]
    BY HeightAssumption DEF Init, absSet, absAdding, absInserted, absSeeking, AbsAdding, AbsInserted, AbsSeeking,
       Adding, Levels
  <2>2. absPos = [p \in Procs |-> 0] /\ ret = [p \in Procs |-> "none"]
    BY ArenaAssumption DEF Init, absPos, AbsPos, Offsets
  <2> QED
    BY <2>1, <2>2 DEF Abstract!Init, absSet, absAdding, absInserted, absSeeking, absPos,
       AbsAdding, AbsInserted, AbsSeeking, AbsPos
<1>2. Inv /\ [Next]_vars => [Abstract!Next]_Abstract!vars
  <2> SUFFICES ASSUME Inv, [Next]_vars PROVE Abstract!Next \/ UNCHANGED Abstract!vars
    OBVIOUS
  <2>1. CASE UNCHANGED vars
    BY <2>1 DEF vars, shared, listVars, seqVars, local, Abstract!vars
  <2>2. Next => \E p \in Procs : Acts(p)
    BY DEF Next, Acts, Procs
  <2> QED
    BY <2>1, <2>2, RefinementStep
<1> QED
  BY <1>1, <1>2, Invariance, PTL DEF Spec, Abstract!Spec, ImplementsOrderedSet

=============================================================================
