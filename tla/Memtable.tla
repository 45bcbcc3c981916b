------------------------------ MODULE Memtable ------------------------------
(***************************************************************************)
(* The memtable: a lock-free skiplist in an arena (pkg/lsm/memtable,       *)
(* pkg/lsm/skiplist, pkg/lsm/arena).  One action is one atomic load,       *)
(* addition or compare-and-swap with the private work around it.           *)
(*                                                                         *)
(* An internal key is its rank among the internal keys, SeqNum its sequence   *)
(* number, KeySize its length together with the length of its value.       *)
(* Nodes are arena offsets; 0 is the nil sentinel, as in the code.  The    *)
(* sets in linked are history: the nodes that a successful compare-and-    *)
(* swap has linked into each level.                                        *)
(***************************************************************************)
EXTENDS Naturals

CONSTANTS
    Writers,      \* goroutines that call Set or Delete
    Readers,      \* goroutines that use an iterator
    Keys,         \* internal keys, in their order
    SeqNum,          \* SeqNum[k]: the sequence number in k
    KeySize,      \* KeySize[k]: bytes of k and of its value
    NodeSize,     \* maxNodeSize
    Alignment,    \* arena.NodeAlignment
    Capacity,     \* bytes of the arena
    MaxHeight     \* skiplist.MaxHeight

ASSUME KeysAssumption ==
    /\ Keys \subseteq Nat \ {0}
    /\ SeqNum \in [Keys -> Nat \ {0}]
    /\ KeySize \in [Keys -> Nat]
ASSUME ArenaAssumption ==
    /\ NodeSize \in Nat \ {0} /\ Alignment \in Nat \ {0} /\ Capacity \in Nat
    /\ NodeSize + Alignment <= Capacity
ASSUME HeightAssumption == MaxHeight \in Nat \ {0}

Procs == Writers \cup Readers
Offsets == 0 .. Capacity
Levels == 0 .. MaxHeight - 1

VARIABLES
    \* shared
    n,          \* arena.n: end of the allocated part
    blocks,     \* history: the <<offset, size>> handed out
    nodeKey,    \* nodeKey[o]: the key in the node at o (0: none)
    tower,      \* tower[o][l]: next node after o in level l
    height,     \* Skiplist.height
    minSeq, maxSeq,
    linked,     \* history: linked[l] are the nodes in level l
    \* of each goroutine
    pc,
    key,        \* the key of the call in progress
    seen,       \* a shared word as last loaded, for a compare-and-swap
    level,      \* the level being searched or linked
    prev,       \* the node the search is at
    spl,        \* spl[p][l]: the splice, prev and next (prev 0: not searched)
    found,      \* the search has met the key itself
    nd,         \* the new node
    ht,         \* its height
    it,         \* the node p's iterator is at
    ret         \* the result of p's last Add

listVars == <<blocks, nodeKey, tower, linked>>
seqVars == <<minSeq, maxSeq>>
shared == <<n, height, listVars, seqVars>>
local == <<key, seen, level, prev, spl, found, nd, ht, it, ret>>
vars == <<shared, pc, local>>

NoSplice == [l \in Levels |-> [prev |-> 0, next |-> 0]]

-----------------------------------------------------------------------------
(* Arena *)

\* Mutant of AllocSize: no room is made for the alignment.
AllocSizeUnpadded(size) == size

\* What an allocation adds to arena.n.
AllocSize(size) == size + Alignment - 1

\* The offset of the allocation that moved arena.n to newSize.
AllocOffset(newSize, size) == ((newSize - size) \div Alignment) * Alignment

Head == AllocOffset(1 + AllocSize(NodeSize), NodeSize)

\* New: the head is the first node, without a key.
Init ==
    /\ n = 1 + AllocSize(NodeSize)
    /\ blocks = {<<Head, NodeSize>>}
    /\ nodeKey = [o \in Offsets |-> 0]
    /\ tower = [o \in Offsets |-> [l \in Levels |-> 0]]
    /\ height = 1
    /\ minSeq = 0 /\ maxSeq = 0
    /\ linked = [l \in Levels |-> {}]
    /\ pc = [p \in Procs |-> "idle"]
    /\ key = [p \in Procs |-> 0]
    /\ seen = [p \in Procs |-> 0]
    /\ level = [p \in Procs |-> 0]
    /\ prev = [p \in Procs |-> 0]
    /\ spl = [p \in Procs |-> NoSplice]
    /\ found = [p \in Procs |-> FALSE]
    /\ nd = [p \in Procs |-> 0]
    /\ ht = [p \in Procs |-> 0]
    /\ it = [p \in Procs |-> 0]
    /\ ret = [p \in Procs |-> "none"]

GoTo(p, label) == pc' = [pc EXCEPT ![p] = label]

\* An Add returns r; its local variables go out of scope.
Finish(p, r) ==
    /\ GoTo(p, "idle")
    /\ ret' = [ret EXCEPT ![p] = r]
    /\ key' = [key EXCEPT ![p] = 0]
    /\ seen' = [seen EXCEPT ![p] = 0]
    /\ level' = [level EXCEPT ![p] = 0]
    /\ prev' = [prev EXCEPT ![p] = 0]
    /\ spl' = [spl EXCEPT ![p] = NoSplice]
    /\ found' = [found EXCEPT ![p] = FALSE]
    /\ nd' = [nd EXCEPT ![p] = 0]
    /\ ht' = [ht EXCEPT ![p] = 0]
    /\ UNCHANGED it

-----------------------------------------------------------------------------
(* Memtable.Set and Delete: updateSeqRange, then Skiplist.Add *)

\* Go on at label with a word that a compare-and-swap will need (0: none).
Loaded(p, label, word) ==
    /\ GoTo(p, label)
    /\ seen' = [seen EXCEPT ![p] = word]

\* The minimum stays when it is set and not above the number in k.
MinLoaded(p, k) ==
    IF minSeq # 0 /\ minSeq <= SeqNum[k] THEN Loaded(p, "max", 0) ELSE Loaded(p, "minCas", minSeq)

\* The call, and the first load of the minimum.  After a refused allocation the
\* database takes a new memtable (lsm.go:140-143); a goroutine that iterates
\* gets to the end before it writes (a bound on the callers).
Add(p, k) ==
    /\ pc[p] = "idle"
    /\ n <= Capacity
    /\ it[p] = 0
    /\ key' = [key EXCEPT ![p] = k]
    /\ ret' = [ret EXCEPT ![p] = "none"]
    /\ MinLoaded(p, k)
    /\ UNCHANGED <<shared, level, prev, spl, found, nd, ht, it>>

\* Another goroutine has changed the minimum: load it again.
MinCas(p) ==
    /\ pc[p] = "minCas"
    /\ IF minSeq = seen[p]
       THEN minSeq' = SeqNum[key[p]] /\ Loaded(p, "max", 0)
       ELSE UNCHANGED <<minSeq, seen>> /\ GoTo(p, "min")
    /\ UNCHANGED <<n, height, listVars, maxSeq, key, level, prev, spl, found, nd, ht, it, ret>>

MinLoad(p) ==
    /\ pc[p] = "min"
    /\ MinLoaded(p, key[p])
    /\ UNCHANGED <<shared, key, level, prev, spl, found, nd, ht, it, ret>>

MaxLoad(p) ==
    /\ pc[p] = "max"
    /\ IF maxSeq >= SeqNum[key[p]] THEN Loaded(p, "start", 0) ELSE Loaded(p, "maxCas", maxSeq)
    /\ UNCHANGED <<shared, key, level, prev, spl, found, nd, ht, it, ret>>

\* Mutant of MaxCas: the new maximum is stored whatever is there by now.
MaxStore(p) ==
    /\ pc[p] = "maxCas"
    /\ maxSeq' = SeqNum[key[p]]
    /\ Loaded(p, "start", 0)
    /\ UNCHANGED <<n, height, listVars, minSeq, key, level, prev, spl, found, nd, ht, it, ret>>

MaxCas(p) ==
    /\ pc[p] = "maxCas"
    /\ IF maxSeq = seen[p]
       THEN maxSeq' = SeqNum[key[p]] /\ Loaded(p, "start", 0)
       ELSE UNCHANGED <<maxSeq, seen>> /\ GoTo(p, "max")
    /\ UNCHANGED <<n, height, listVars, minSeq, key, level, prev, spl, found, nd, ht, it, ret>>

-----------------------------------------------------------------------------
(* Searches: findSplice (all levels, for Add), seekGE (all levels, for the  *)
(* iterator) and findSpliceForLevel (one level, after a lost CAS).          *)

\* A search from the head starts at the height of the list.
StartSearch(p) ==
    /\ level' = [level EXCEPT ![p] = height - 1]
    /\ prev' = [prev EXCEPT ![p] = Head]
    /\ spl' = [spl EXCEPT ![p] = NoSplice]
    /\ found' = [found EXCEPT ![p] = FALSE]
    /\ UNCHANGED <<shared, seen, nd, ht, it, ret>>

StartAdd(p) ==
    /\ pc[p] = "start"
    /\ UNCHANGED key
    /\ GoTo(p, "find")
    /\ StartSearch(p)

\* The node after prev[p] in the level p searches is there and before the key.
Passes(p) ==
    LET next == tower[prev[p]][level[p]]
    IN  next # 0 /\ nodeKey[next] < key[p]

\* One step along a level.
Walk(p) ==
    /\ pc[p] \in {"find", "relink", "seek"}
    /\ Passes(p)
    /\ prev' = [prev EXCEPT ![p] = tower[prev[p]][level[p]]]
    /\ UNCHANGED <<shared, pc, key, seen, level, spl, found, nd, ht, it, ret>>

\* The search has met the key itself, here or in a level above.
Matches(p) ==
    LET next == tower[prev[p]][level[p]]
    IN  found[p] \/ (next # 0 /\ nodeKey[next] = key[p])

\* The search in this level ends between prev[p] and the node it points to.
Bracket(p) ==
    /\ spl' = [spl EXCEPT ![p][level[p]] = [prev |-> prev[p], next |-> tower[prev[p]][level[p]]]]
    /\ found' = [found EXCEPT ![p] = Matches(p)]

\* findSplice goes down a level.
FindDown(p) ==
    /\ pc[p] = "find"
    /\ ~Passes(p)
    /\ level[p] > 0
    /\ Bracket(p)
    /\ level' = [level EXCEPT ![p] = @ - 1]
    /\ UNCHANGED <<shared, pc, key, seen, prev, nd, ht, it, ret>>

\* findSplice ends in the base level.
FindEnds(p) ==
    /\ pc[p] = "find"
    /\ ~Passes(p)
    /\ level[p] = 0
    /\ ~Matches(p)
    /\ Bracket(p)
    /\ prev' = [prev EXCEPT ![p] = 0]
    /\ GoTo(p, "alloc")
    /\ UNCHANGED <<shared, key, seen, level, nd, ht, it, ret>>

\* The key is there, or another Add of it won the race for the base level.
AddExists(p) ==
    /\ pc[p] \in {"find", "relink"}
    /\ ~Passes(p)
    /\ level[p] = 0
    /\ Matches(p)
    /\ Finish(p, "exists")
    /\ UNCHANGED shared

-----------------------------------------------------------------------------
(* The rest of Skiplist.Add *)

\* newNode: the addition decides, a refused one has moved the end all the same.
NewNode(p, h) ==
    LET size == NodeSize + KeySize[key[p]]
        newSize == n + AllocSize(size)
        o == AllocOffset(newSize, size)
    IN  /\ pc[p] = "alloc"
        /\ newSize <= Capacity
        /\ n' = newSize
        /\ blocks' = blocks \cup {<<o, size>>}
        /\ nodeKey' = [nodeKey EXCEPT ![o] = key[p]]
        /\ nd' = [nd EXCEPT ![p] = o]
        /\ ht' = [ht EXCEPT ![p] = h]
        /\ GoTo(p, "height")
        /\ UNCHANGED <<tower, linked, height, seqVars, key, seen, level, prev, spl, found, it, ret>>

NewNodeFull(p) ==
    LET newSize == n + AllocSize(NodeSize + KeySize[key[p]])
    IN  /\ pc[p] = "alloc"
        /\ newSize > Capacity
        /\ n' = newSize
        /\ Finish(p, "full")
        /\ UNCHANGED <<listVars, height, seqVars>>

HeightLoad(p) ==
    /\ pc[p] = "height"
    /\ IF ht[p] > height THEN Loaded(p, "grow", height) ELSE Loaded(p, "link", 0)
    /\ UNCHANGED <<shared, key, level, prev, spl, found, nd, ht, it, ret>>

\* Mutant of HeightCas: the height is taken for the highest level.
HeightOffByOne(p) ==
    /\ pc[p] = "grow"
    /\ height' = ht[p] + 1
    /\ Loaded(p, "link", 0)
    /\ UNCHANGED <<n, listVars, seqVars, key, level, prev, spl, found, nd, ht, it, ret>>

HeightCas(p) ==
    /\ pc[p] = "grow"
    /\ IF height = seen[p]
       THEN height' = ht[p] /\ Loaded(p, "link", 0)
       ELSE UNCHANGED <<height, seen>> /\ GoTo(p, "height")
    /\ UNCHANGED <<n, listVars, seqVars, key, level, prev, spl, found, nd, ht, it, ret>>

\* The splice Add uses at level l: an unsearched level is taken to be empty.
Splice(p, l) == IF spl[p][l].prev = 0 THEN [prev |-> Head, next |-> 0] ELSE spl[p][l]

\* Mutant of Link: the new node is linked without a compare.
LinkBlindly(p) ==
    LET l == level[p]
        s == Splice(p, l)
    IN  /\ pc[p] = "link"
        /\ tower' = [tower EXCEPT ![nd[p]][l] = s.next, ![s.prev][l] = nd[p]]
        /\ linked' = [linked EXCEPT ![l] = @ \cup {nd[p]}]
        /\ level' = [level EXCEPT ![p] = l + 1]
        /\ GoTo(p, IF l + 1 = ht[p] THEN "done" ELSE "link")
        /\ UNCHANGED <<n, height, blocks, nodeKey, seqVars, key, seen, prev, spl, found, nd, ht, it, ret>>

\* casNext succeeds: the node is in level l.
Link(p) ==
    LET l == level[p]
        s == Splice(p, l)
    IN  /\ pc[p] = "link"
        /\ tower[s.prev][l] = s.next
        /\ tower' = [tower EXCEPT ![nd[p]][l] = s.next, ![s.prev][l] = nd[p]]
        /\ linked' = [linked EXCEPT ![l] = @ \cup {nd[p]}]
        /\ level' = [level EXCEPT ![p] = l + 1]
        /\ GoTo(p, IF l + 1 = ht[p] THEN "done" ELSE "link")
        /\ UNCHANGED <<n, height, blocks, nodeKey, seqVars, key, seen, prev, spl, found, nd, ht, it, ret>>

\* Mutant of LinkLost: the search is not repeated.
LinkLostForgets(p) ==
    LET l == level[p]
        s == Splice(p, l)
    IN  /\ pc[p] = "link"
        /\ tower[s.prev][l] # s.next
        /\ tower' = [tower EXCEPT ![nd[p]][l] = s.next]
        /\ UNCHANGED <<n, height, blocks, nodeKey, linked, seqVars, pc, local>>

\* casNext fails: search this level again, from the node that was in front.
LinkLost(p) ==
    LET l == level[p]
        s == Splice(p, l)
    IN  /\ pc[p] = "link"
        /\ tower[s.prev][l] # s.next
        /\ tower' = [tower EXCEPT ![nd[p]][l] = s.next]
        /\ prev' = [prev EXCEPT ![p] = s.prev]
        /\ found' = [found EXCEPT ![p] = FALSE]
        /\ GoTo(p, "relink")
        /\ UNCHANGED <<n, height, blocks, nodeKey, linked, seqVars, key, seen, level, spl, nd, ht, it, ret>>

\* Mutant of Relinked: a match in the base level goes unnoticed.
RelinkedUnmatched(p) ==
    /\ pc[p] = "relink"
    /\ ~Passes(p)
    /\ Bracket(p)
    /\ prev' = [prev EXCEPT ![p] = 0]
    /\ GoTo(p, IF Matches(p) /\ level[p] > 0 THEN "panic" ELSE "link")
    /\ UNCHANGED <<shared, key, seen, level, nd, ht, it, ret>>

\* findSpliceForLevel ends: the new splice is tried.  A match in the base level
\* is AddExists, in a higher level the code panics.
Relinked(p) ==
    /\ pc[p] = "relink"
    /\ ~Passes(p)
    /\ Matches(p) => level[p] > 0
    /\ Bracket(p)
    /\ prev' = [prev EXCEPT ![p] = 0]
    /\ GoTo(p, IF Matches(p) THEN "panic" ELSE "link")
    /\ UNCHANGED <<shared, key, seen, level, nd, ht, it, ret>>

AddReturns(p) ==
    /\ pc[p] = "done"
    /\ Finish(p, "ok")
    /\ UNCHANGED shared

-----------------------------------------------------------------------------
(* Iterator: First, Next, SeekGE; Skiplist.Get is a SeekGE and a comparison *)

\* The call, and the load of the height.
SeekGE(p, k) ==
    /\ pc[p] = "idle"
    /\ GoTo(p, "seek")
    /\ key' = [key EXCEPT ![p] = k]
    /\ StartSearch(p)

\* seekGE returns the node at o.
SeekDone(p, o) ==
    /\ GoTo(p, "idle")
    /\ it' = [it EXCEPT ![p] = o]
    /\ key' = [key EXCEPT ![p] = 0]
    /\ level' = [level EXCEPT ![p] = 0]
    /\ prev' = [prev EXCEPT ![p] = 0]

\* Mutant of SeekDown: a node from the key on ends the search in any level.
SeekStopsEarly(p) ==
    LET next == tower[prev[p]][level[p]]
    IN  /\ pc[p] = "seek"
        /\ ~Passes(p)
        /\ IF level[p] > 0 /\ next = 0
           THEN level' = [level EXCEPT ![p] = @ - 1] /\ UNCHANGED <<pc, key, prev, it>>
           ELSE SeekDone(p, next)
        /\ UNCHANGED <<shared, seen, spl, found, nd, ht, ret>>

SeekDown(p) ==
    /\ pc[p] = "seek"
    /\ ~Passes(p)
    /\ IF level[p] > 0
       THEN level' = [level EXCEPT ![p] = @ - 1] /\ UNCHANGED <<pc, key, prev, it>>
       ELSE SeekDone(p, tower[prev[p]][0])
    /\ UNCHANGED <<shared, seen, spl, found, nd, ht, ret>>

MoveIt(p, o) ==
    /\ pc[p] = "idle"
    /\ it' = [it EXCEPT ![p] = o]
    /\ UNCHANGED <<shared, pc, key, seen, level, prev, spl, found, nd, ht, ret>>

First(p) == MoveIt(p, tower[Head][0])

Advance(p) == it[p] # 0 /\ MoveIt(p, tower[it[p]][0])

-----------------------------------------------------------------------------
\* A goroutine inside a call takes its next step.
Step(p) ==
    \/ MinLoad(p) \/ MinCas(p) \/ MaxLoad(p) \/ MaxCas(p)
    \/ StartAdd(p) \/ Walk(p) \/ FindDown(p) \/ FindEnds(p) \/ AddExists(p)
    \/ \E h \in 1 .. MaxHeight : NewNode(p, h)
    \/ NewNodeFull(p)
    \/ HeightLoad(p) \/ HeightCas(p)
    \/ Link(p) \/ LinkLost(p) \/ Relinked(p) \/ AddReturns(p)
    \/ SeekDown(p)

Next ==
    \/ \E p \in Procs : Step(p)
    \/ \E p \in Writers, k \in Keys : Add(p, k)
    \/ \E p \in Readers, k \in Keys : SeekGE(p, k)
    \/ \E p \in Readers : First(p) \/ Advance(p)

Spec == Init /\ [][Next]_vars

\* The scheduler lets every goroutine that is inside a call go on.
FairSpec == Spec /\ \A p \in Procs : WF_vars(Step(p))

-----------------------------------------------------------------------------
Labels == {"idle", "min", "minCas", "max", "maxCas", "start", "find", "alloc", "height", "grow",
           "link", "relink", "done", "panic", "seek"}

TypeShared ==
    /\ n \in Nat /\ height \in 1 .. MaxHeight /\ minSeq \in Nat /\ maxSeq \in Nat
    /\ blocks \subseteq Offsets \X Nat
    /\ nodeKey \in [Offsets -> Keys \cup {0}]
    /\ tower \in [Offsets -> [Levels -> Offsets]]
    /\ linked \in [Levels -> SUBSET Offsets]

TypeLocal ==
    /\ pc \in [Procs -> Labels]
    /\ key \in [Procs -> Keys \cup {0}]
    /\ seen \in [Procs -> Nat]
    /\ level \in [Procs -> 0 .. MaxHeight]
    /\ prev \in [Procs -> Offsets] /\ nd \in [Procs -> Offsets] /\ it \in [Procs -> Offsets]
    /\ spl \in [Procs -> [Levels -> [prev : Offsets, next : Offsets]]]
    /\ found \in [Procs -> BOOLEAN]
    /\ ht \in [Procs -> 0 .. MaxHeight]
    /\ ret \in [Procs -> {"none", "ok", "exists", "full"}]

TypeOK == TypeShared /\ TypeLocal

\* What the arena hands out (arena.go:50-63) is aligned, inside the buffer, not
\* at the nil sentinel, and overlaps nothing handed out before, however the
\* additions of concurrent allocations are ordered.
AllocsDisjoint ==
    \A a \in blocks :
        /\ a[1] > 0 /\ a[1] % Alignment = 0 /\ a[1] + a[2] <= Capacity
        /\ \A b \in blocks : a = b \/ a[1] + a[2] <= b[1] \/ b[1] + b[2] <= a[1]

\* o is followed in level l by the node of l with the next larger key.
InOrder(l, o) ==
    LET next == tower[o][l]
        after == {x \in linked[l] : nodeKey[x] > nodeKey[o]}
    IN  IF after = {} THEN next = 0
        ELSE next \in after /\ \A x \in after : nodeKey[next] <= nodeKey[x]

\* Every level is a sorted list without duplicates of exactly the nodes linked
\* into it, a sublist of the level below: no compare-and-swap drops a concurrent
\* insertion (skiplist.go:74-106).
ListsSound ==
    \A l \in Levels :
        /\ \A o \in linked[l] \cup {Head} : InOrder(l, o)
        /\ \A x, y \in linked[l] : nodeKey[x] = nodeKey[y] => x = y
        /\ l > 0 => linked[l] \subseteq linked[l - 1]

\* The "duplicate found at non-base level" panic (skiplist.go:98-100) cannot
\* happen: a lost race for a key is noticed in the base level.
NoPanic == \A p \in Procs : pc[p] # "panic"

\* The range of sequence numbers (memtable.go:118-139) covers every entry that
\* can be found, although it is kept in two words.
SeqRangeCovers == \A o \in linked[0] : minSeq <= SeqNum[nodeKey[o]] /\ SeqNum[nodeKey[o]] <= maxSeq

Adding == {"min", "minCas", "max", "maxCas", "start", "find", "alloc", "height", "grow",
           "link", "relink", "done", "panic"}

Abstract == INSTANCE OrderedSet WITH
    set <- {nodeKey[o] : o \in linked[0]},
    adding <- [p \in Procs |-> IF pc[p] \in Adding THEN key[p] ELSE 0],
    inserted <- {p \in Procs : pc[p] \in {"link", "relink", "done", "panic"} /\ level[p] > 0},
    seeking <- [p \in Procs |-> IF pc[p] = "seek" THEN key[p] ELSE 0],
    pos <- [p \in Procs |-> nodeKey[it[p]]]

\* Searches and insertions that interleave at every load and compare-and-swap
\* behave as if each insertion and each movement of an iterator were one step.
ImplementsOrderedSet == Abstract!Spec

\* No operation is retried for ever: every lost compare-and-swap is another
\* goroutine's insertion, and the arena bounds those.
CallsReturn == \A p \in Procs : pc[p] # "idle" ~> pc[p] = "idle"
=============================================================================
