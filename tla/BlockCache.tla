----------------------------- MODULE BlockCache -----------------------------
(***************************************************************************)
(* The block cache all tables share (pkg/lsm/sstable/cache.go): a map and  *)
(* a doubly linked list, both under c.mu, so that Get, Set and Evict are   *)
(* one step each.  An entry is identified by its key, <<file, block>>; its *)
(* data are those of the file, so that only their length is kept.          *)
(***************************************************************************)
EXTENDS Naturals, Sequences, SequencesExt, FiniteSets

Nil == <<0, 0>>

\* items: the keys of the map; head, tail, prev, next: the list
NewBlockCache(keys) ==
    [items |-> {}, len |-> [k \in keys |-> 0], size |-> 0, head |-> Nil, tail |-> Nil,
     prev |-> [k \in keys \cup {Nil} |-> Nil], next |-> [k \in keys \cup {Nil} |-> Nil]]

\* f[k] = v, unless k is nil
Store(f, k, v) == IF k = Nil THEN f ELSE [f EXCEPT ![k] = v]

PushFront(c, k) ==
    [c EXCEPT !.next = Store(@, k, c.head),
              !.prev = Store(Store(@, k, Nil), c.head, k),
              !.head = k,
              !.tail = IF @ = Nil THEN k ELSE @]

\* remove
Unlink(c, k) ==
    [c EXCEPT !.next = Store(Store(@, c.prev[k], c.next[k]), k, Nil),
              !.prev = Store(Store(@, c.next[k], c.prev[k]), k, Nil),
              !.head = IF c.prev[k] = Nil THEN c.next[k] ELSE @,
              !.tail = IF c.next[k] = Nil THEN c.prev[k] ELSE @]

MoveToFront(c, k) == IF k = c.head THEN c ELSE PushFront(Unlink(c, k), k)

\* Take an entry out of the list, the map and the size: evictTail, and the loop
\* of Evict.
Discard(c, k) ==
    [Unlink(c, k) EXCEPT !.items = @ \ {k}, !.size = @ - c.len[k], !.len[k] = 0]

CacheHas(c, k) == k \in c.items

CacheGet(c, k) == IF CacheHas(c, k) THEN MoveToFront(c, k) ELSE c

EvictStep(c, capacity) == IF c.size > capacity /\ c.tail # Nil THEN Discard(c, c.tail) ELSE c

Evicting == INSTANCE Loops WITH Step <- EvictStep

\* evictTail, again and again until the cache is within its capacity
EvictTails(c, capacity) ==
    Evicting!Loop(c, Evicting!Times(Cardinality(c.items), capacity))

\* Mutant of CacheSet: a block that is cached already is counted again.
CacheSetTwice(c, k, len, capacity) ==
    IF CacheHas(c, k) THEN [MoveToFront(c, k) EXCEPT !.size = @ + len]
    ELSE EvictTails([PushFront(c, k) EXCEPT !.items = @ \cup {k}, !.len[k] = len, !.size = @ + len],
                    capacity)

CacheSet(c, k, len, capacity) ==
    IF CacheHas(c, k) THEN MoveToFront(c, k)
    ELSE EvictTails([PushFront(c, k) EXCEPT !.items = @ \cup {k}, !.len[k] = len, !.size = @ + len],
                    capacity)

Discarding == INSTANCE Loops WITH Step <- Discard

\* Evict: the blocks of the file, collected in the order in which the map gives them
CacheEvict(c, file) == Discarding!Loop(c, SetToSeq({k \in c.items : k[1] = file}))

\* The list from its head on, following next.
Follow(k, c) == c.next[k]

Following == INSTANCE Loops WITH Step <- Follow

Nth(c, i) == Following!Loop(c.head, Following!Times(i - 1, c))

CacheOrder(c) ==
    LET n == Cardinality({i \in 1 .. Cardinality(DOMAIN c.len) : Nth(c, i) # Nil})
    IN  [i \in 1 .. n |-> Nth(c, i)]
=============================================================================
