----------------------------- MODULE DBIterator -----------------------------
(***************************************************************************)
(* Reading through DBIterator (pkg/lsm/lsm.go) and MergeIterator           *)
(* (merge_iterator.go): a memtable and SSTables are filled, an iterator    *)
(* over all of them is opened, positioned and advanced.  Its data blocks   *)
(* come through the block cache, which another reader and the eviction     *)
(* after a compaction use at the same time.                                *)
(*                                                                         *)
(* The writes are given; each may be in any of the sources, in several     *)
(* too: an iterator opened during a flush holds a memtable and the table   *)
(* made of it, and level compactions may have moved newer versions below   *)
(* older ones.  The value of a write is its sequence number.  Sources are  *)
(* the memtable (1) and the tables from the newest to the oldest.          *)
(***************************************************************************)
EXTENDS SSTable, BlockCache

CONSTANTS
    Writes,        \* the sequence of writes: records with a key and a kind
    Targets,       \* user keys SeekGE is called with
    MaxTables,     \* bound on tables
    MaxEntries,    \* bound on entries in all sources together
    MaxLone,       \* bound on entries of a table that is the only source
    CacheCapacity, \* in bytes
    MaxOther       \* bound on blocks read by the other reader, and on evictions

\* Keys are strings of bytes, and the sequence numbers of the writes have room in
\* a trailer.
ASSUME WritesAssumption ==
    /\ Writes \in Seq([key: Seq(0 .. MaxByte), kind: {KindDelete, KindSet}])
    /\ \A i \in DOMAIN Writes : i < MaxSeqNum

ASSUME TargetsAssumption == \A t \in Targets : t \in Seq(0 .. MaxByte)

ASSUME BoundsAssumption == MaxTables \in Nat /\ CacheCapacity \in Nat

VARIABLES
    phase,      \* "build", then "read"
    mem,        \* the memtable: its writes in the order of their internal keys
    put,        \* history: put[s] are the writes source s holds
    wtr,        \* the writer of the table being written
    tables,     \* the finished tables
    src,        \* src[s]: the iterator over source s
    live,       \* the sources in the merge iterator's heap
    dbi,        \* DBIterator: valid, key, val
    call,       \* the call it is in
    from, out,  \* history: where it was positioned, what it has returned since
    clobbered,  \* history: a comparison has met an overwritten key
    cache,
    loader,     \* blocks a goroutine still has to read, and whether it missed the first
    others      \* what the other reader and evictions have done so far

readVars == <<src, live, dbi, call, from, out, clobbered>>
buildVars == <<phase, mem, put, wtr, tables>>
vars == <<buildVars, readVars, cache, loader, others>>

Sources == 1 .. MaxTables + 1
Readers == {"iterator", "other"}
CacheKeys == (1 .. MaxTables) \X (1 .. Len(Writes))
BlockLength(k) == tables[k[1]].blocks[k[2]].len

\* The internal key and the value of write i.
InternalKey(i) == MakeInternalKey(Writes[i].key, i, Writes[i].kind)
Value(i) == IF Writes[i].kind = KindSet THEN i ELSE 0

Idle == [pc |-> "idle", back |-> "idle", owner |-> 1, seen |-> <<>>, given |-> <<>>, shared |-> FALSE]
NoLoads == [todo |-> <<>>, missed |-> FALSE]
Unpositioned == [valid |-> FALSE, key |-> <<>>, val |-> 0]

Init ==
    /\ phase = "build"
    /\ mem = <<>>
    /\ put = [s \in Sources |-> {}]
    /\ wtr = NewWriter
    /\ tables = <<>>
    /\ src = <<>> /\ live = {}
    /\ dbi = Unpositioned
    /\ call = Idle
    /\ from = [placed |-> FALSE, key |-> <<>>] /\ out = <<>> /\ clobbered = FALSE
    /\ cache = NewBlockCache(CacheKeys)
    /\ loader = [r \in Readers |-> NoLoads]
    /\ others = 0

-----------------------------------------------------------------------------
(* The sources *)

\* The sequence of F(s), for every source s.
EachSource(F(_)) == <<>> \o [s \in 1 .. Len(tables) + 1 |-> F(s)]

Entries == UNION {{<<s, i>> : i \in put[s]} : s \in Sources}
Writing == Len(tables) + 2

\* Room for one more entry of source s.
Room(s) ==
    LET alone == \A o \in Sources \ {s} : put[o] = {}
    IN  Cardinality(Entries) < (IF alone /\ s > 1 THEN MaxLone ELSE MaxEntries)

\* The number of entries of the memtable below a key.
MemBelow(key) == Cardinality({n \in DOMAIN mem : Less(InternalKey(mem[n]), key)})

MemtableSet(i) ==
    /\ phase = "build"
    /\ tables = <<>> /\ put[2] = {}
    /\ Room(1)
    /\ \A j \in put[1] : j < i
    /\ mem' = LET n == MemBelow(InternalKey(i))
              IN  SubSeq(mem, 1, n) \o <<i>> \o SubSeq(mem, n + 1, Len(mem))
    /\ put' = [put EXCEPT ![1] = @ \cup {i}]
    /\ UNCHANGED <<phase, wtr, tables, readVars, cache, loader, others>>

\* The writer of a flush or a compaction: keys come in order.
TableAdd(i) ==
    /\ phase = "build"
    /\ Writing \in Sources
    /\ Room(Writing)
    /\ MayAdd(wtr, InternalKey(i))
    /\ wtr' = WriterAdd(wtr, InternalKey(i), Value(i))
    /\ put' = [put EXCEPT ![Writing] = @ \cup {i}]
    /\ UNCHANGED <<phase, mem, tables, readVars, cache, loader, others>>

TableClose ==
    /\ phase = "build"
    /\ wtr.hashes # <<>>
    /\ tables' = Append(tables, WriterClose(wtr))
    /\ wtr' = NewWriter
    /\ UNCHANGED <<phase, mem, put, readVars, cache, loader, others>>

\* NewIterator
NewIterator ==
    /\ phase = "build"
    /\ wtr = NewWriter
    /\ phase' = "read"
    /\ src' = EachSource(LAMBDA s :
                IF s = 1 THEN [pos |-> 0, ok |-> FALSE, loads |-> <<>>]
                ELSE NewTableIterator(tables[s - 1], s - 1))
    /\ UNCHANGED <<mem, put, wtr, tables, live, dbi, call, from, out, clobbered, cache, loader, others>>

-----------------------------------------------------------------------------
(* Iterators over a source *)

MemAt(n) == [pos |-> n, ok |-> n \in DOMAIN mem, loads |-> <<>>]

Key(it, s) == IF s = 1 THEN InternalKey(mem[it.pos]) ELSE it.dat.key
Val(it, s) == IF s = 1 THEN Value(mem[it.pos]) ELSE it.dat.val

SourceFirst(it, s) == IF s = 1 THEN MemAt(1) ELSE TableFirst(tables[s - 1], it)

SourceSeekGE(it, s, target) ==
    IF s = 1 THEN MemAt(MemBelow(target) + 1) ELSE TableSeekGE(tables[s - 1], it, target)

SourceNext(it, s) == IF s = 1 THEN MemAt(it.pos + 1) ELSE TableNext(tables[s - 1], it)

-----------------------------------------------------------------------------
(* MergeIterator: its heap is the set of sources that have a key; the top   *)
(* is the one with the smallest key, the newest source of equals.           *)

Top(srcs, heap) ==
    CHOOSE s \in heap :
        \A o \in heap \ {s} :
            \/ Less(Key(srcs[s], s), Key(srcs[o], o))
            \/ Key(srcs[s], s) = Key(srcs[o], o) /\ s < o

TopKey == Key(src[Top(src, live)], Top(src, live))
TopVal == Val(src[Top(src, live)], Top(src, live))

Cat == INSTANCE Loops WITH Step <- \o

\* Of the sources in srcs, those in ss have been moved: they stay in the heap as
\* long as they have a key.  The blocks they loaded are to be read now.
Moved(srcs, ss) ==
    /\ src' = EachSource(LAMBDA s : [srcs[s] EXCEPT !.loads = <<>>])
    /\ live' = (live \ ss) \cup {s \in ss : srcs[s].ok}
    /\ loader' = [loader EXCEPT !["iterator"].todo =
                    Cat!Loop(<<>>, [s \in DOMAIN srcs |-> IF s \in ss THEN srcs[s].loads ELSE <<>>])]

\* The sources merge.Next advances: all that stand at the current key.
AtTop == {s \in live : Key(src[s], s) = TopKey}

-----------------------------------------------------------------------------
(* DBIterator.  call is where it is in its loops.  The user key that         *)
(* skipUserKey was given is a slice: seen is what it reads as, given what    *)
(* it was.  As long as the source it came from (owner) keeps its key buffer  *)
(* (shared), decoding the next entry overwrites it.                          *)

ReadFrame == <<buildVars, cache, others>>

MayStep(pc) == phase = "read" /\ call.pc = pc /\ loader["iterator"] = NoLoads

First ==
    /\ MayStep("idle")
    /\ Moved(EachSource(LAMBDA s : SourceFirst(src[s], s)), DOMAIN src)
    /\ call' = [Idle EXCEPT !.pc = "visible"]
    /\ from' = [placed |-> TRUE, key |-> <<>>] /\ out' = <<>>
    /\ UNCHANGED <<ReadFrame, dbi, clobbered>>

SeekGE(target) ==
    /\ MayStep("idle")
    /\ LET seekKey == MakeInternalKey(target, MaxSeqNum, KindSet)
       IN  Moved(EachSource(LAMBDA s : SourceSeekGE(src[s], s, seekKey)), DOMAIN src)
    /\ call' = [Idle EXCEPT !.pc = "below"]
    /\ from' = [placed |-> TRUE, key |-> target] /\ out' = <<>>
    /\ UNCHANGED <<ReadFrame, dbi, clobbered>>

NextKey ==
    /\ MayStep("idle")
    /\ dbi.valid
    /\ call' = [Idle EXCEPT !.pc = "visible"]
    /\ UNCHANGED <<ReadFrame, src, live, dbi, from, out, clobbered, loader>>

\* Call skipUserKey with the user key of the top, and go on at "back" after it.
SkipAndThen(back) ==
    call' = [pc |-> "skip", back |-> back, owner |-> Top(src, live), shared |-> TRUE,
             seen |-> UserKey(TopKey), given |-> UserKey(TopKey)]

\* The first loop of SeekGE: user keys below the target are skipped.
Below ==
    /\ MayStep("below")
    /\ IF live # {} /\ Less(UserKey(TopKey), from.key) THEN SkipAndThen("below")
       ELSE call' = [Idle EXCEPT !.pc = "visible"]
    /\ UNCHANGED <<ReadFrame, src, live, dbi, from, out, clobbered, loader>>

\* findNextVisible: nothing is left...
Exhausted ==
    /\ MayStep("visible")
    /\ live = {}
    /\ dbi' = [dbi EXCEPT !.valid = FALSE]
    /\ call' = Idle
    /\ UNCHANGED <<ReadFrame, src, live, from, out, clobbered, loader>>

\* ...a live key is found, and the versions under it are skipped...
FoundSet ==
    /\ MayStep("visible")
    /\ live # {} /\ KindOfKey(TopKey) = KindSet
    /\ dbi' = [valid |-> TRUE, key |-> UserKey(TopKey), val |-> TopVal]
    /\ out' = Append(out, [key |-> UserKey(TopKey), val |-> TopVal])
    /\ SkipAndThen("idle")
    /\ UNCHANGED <<ReadFrame, src, live, from, clobbered, loader>>

\* Mutant of FoundTombstone: the tombstone alone is passed over.
FoundTombstoneAlone ==
    /\ MayStep("visible")
    /\ live # {} /\ KindOfKey(TopKey) = KindDelete
    /\ Moved(EachSource(LAMBDA s : IF s \in AtTop THEN SourceNext(src[s], s) ELSE src[s]), AtTop)
    /\ UNCHANGED <<ReadFrame, dbi, call, from, out, clobbered>>

\* ...or a tombstone, and all versions of its key are skipped.
FoundTombstone ==
    /\ MayStep("visible")
    /\ live # {} /\ KindOfKey(TopKey) = KindDelete
    /\ SkipAndThen("visible")
    /\ UNCHANGED <<ReadFrame, src, live, dbi, from, out, clobbered, loader>>

\* skipUserKey: merge.Next, then compare with the user key it was given.
Skip ==
    /\ MayStep("skip")
    /\ Moved(EachSource(LAMBDA s : IF s \in AtTop THEN SourceNext(src[s], s) ELSE src[s]), AtTop)
    /\ LET o == call.owner
           same == /\ call.shared /\ o > 1
                   /\ src'[o].blk = src[o].blk
                   /\ src'[o].dat.cap = src[o].dat.cap
           seen == IF same THEN SubSeq(src'[o].dat.buf, 1, Len(call.seen)) ELSE call.seen
           user == UserKey(Key(src'[Top(src', live')], Top(src', live')))
           skips == live' # {} /\ user = seen
       IN  /\ call' = IF skips THEN [call EXCEPT !.seen = seen, !.shared = same]
                      ELSE [Idle EXCEPT !.pc = call.back]
           /\ clobbered' = (clobbered \/ (live' # {} /\ (user = seen) # (user = call.given)))
    /\ UNCHANGED <<ReadFrame, dbi, from, out>>

-----------------------------------------------------------------------------
(* readDataBlock, by the iterator and by another goroutine *)

\* The block is looked up in the cache: found, or to be read from the file.
ReadCached(r) ==
    /\ loader[r].todo # <<>> /\ ~loader[r].missed
    /\ LET k == Head(loader[r].todo)
       IN  /\ cache' = CacheGet(cache, k)
           /\ loader' = [loader EXCEPT ![r] =
                            IF CacheHas(cache, k) THEN [loader[r] EXCEPT !.todo = Tail(@)]
                            ELSE [loader[r] EXCEPT !.missed = TRUE]]
    /\ UNCHANGED <<buildVars, readVars, others>>

\* It has been read from the file and is put into the cache.
ReadRaw(r) ==
    /\ loader[r].missed
    /\ LET k == Head(loader[r].todo)
       IN  cache' = CacheSet(cache, k, BlockLength(k), CacheCapacity)
    /\ loader' = [loader EXCEPT ![r] = [todo |-> Tail(@.todo), missed |-> FALSE]]
    /\ UNCHANGED <<buildVars, readVars, others>>

OtherRead(f, n) ==
    /\ phase = "read"
    /\ others < MaxOther
    /\ loader["other"] = NoLoads
    /\ loader' = [loader EXCEPT !["other"].todo = <<<<f, n>>>>]
    /\ others' = others + 1
    /\ UNCHANGED <<buildVars, readVars, cache>>

\* doCompaction evicts the blocks of a file it has removed.
Evict(f) ==
    /\ phase = "read"
    /\ others < MaxOther
    /\ cache' = CacheEvict(cache, f)
    /\ others' = others + 1
    /\ UNCHANGED <<buildVars, readVars, loader>>

-----------------------------------------------------------------------------
Next ==
    \/ \E i \in DOMAIN Writes : MemtableSet(i) \/ TableAdd(i)
    \/ TableClose
    \/ NewIterator
    \/ First
    \/ \E t \in Targets : SeekGE(t)
    \/ NextKey \/ Below \/ Exhausted \/ FoundSet \/ FoundTombstone \/ Skip
    \/ \E r \in Readers : ReadCached(r) \/ ReadRaw(r)
    \/ \E f \in DOMAIN tables : Evict(f) \/ \E n \in DOMAIN tables[f].blocks : OtherRead(f, n)

Spec == Init /\ [][Next]_vars

-----------------------------------------------------------------------------
\* The table finished last, while nothing else has happened.
JustClosed == phase = "build" /\ tables # <<>> /\ wtr = NewWriter
LastTable == tables[Len(tables)]
LastKeys == {InternalKey(i) : i \in put[Len(tables) + 1]}
SeekKeys == {InternalKey(i) : i \in DOMAIN Writes}
                \cup {MakeInternalKey(t, MaxSeqNum, KindSet) : t \in Targets}

\* Seeking in a table finds the first key that is not below the target, for
\* targets in, between, before and after its keys, whatever block and restart
\* interval they fall into and however the index keys were shortened
\* (block.go:150-180, reader.go:254-273, writer.go:247-286).
SeekExact ==
    JustClosed =>
        \A target \in SeekKeys :
            LET it == TableSeekGE(LastTable, NewTableIterator(LastTable, 1), target)
                above == {k \in LastKeys : AtLeast(k, target)}
            IN  /\ it.ok = (above # {})
                /\ it.ok => it.dat.key \in above /\ \A k \in above : AtLeast(k, it.dat.key)

AdvanceStep(it, t) == TableNext(t, it)

Advance == INSTANCE Loops WITH Step <- AdvanceStep

\* An iterator over the whole table after First and n calls of Next.
ScanTo(t, n) == Advance!Loop(TableFirst(t, NewTableIterator(t, 1)), Advance!Times(n, t))

\* A scan of a table returns exactly the entries that were added, in order:
\* prefix compression, restart points and block boundaries lose and change
\* nothing (block.go:54-95, 208-245, reader.go:276-303).
ScanExact ==
    JustClosed =>
        LET n == Cardinality(LastKeys)
        IN  /\ \A i \in 1 .. n :
                    LET it == ScanTo(LastTable, i - 1)
                    IN  /\ it.ok
                        /\ Cardinality({k \in LastKeys : Less(k, it.dat.key)}) = i - 1
                        /\ \E w \in put[Len(tables) + 1] :
                                it.dat.key = InternalKey(w) /\ it.dat.val = Value(w)
            /\ ~ScanTo(LastTable, n).ok

\* A point lookup finds a key exactly if it was added: the filter never
\* rejects a key of the table, and the index leads to its block
\* (reader.go:90-116, 180-198, bloom.go:38-121).
GetExact ==
    JustClosed =>
        \A i \in DOMAIN Writes :
            ReaderGet(LastTable, InternalKey(i)) =
                IF i \in put[Len(tables) + 1] THEN {Value(i)} ELSE {}

-----------------------------------------------------------------------------
Held == UNION {put[s] : s \in Sources}
UserKeys == {Writes[i].key : i \in Held}
NewestWrite(k) ==
    CHOOSE i \in Held : Writes[i].key = k /\ \A j \in Held : Writes[j].key = k => j <= i

\* The keys an iterator positioned at "from" has in front of it.
Live == {k \in UserKeys : Writes[NewestWrite(k)].kind = KindSet /\ AtLeast(k, from.key)}

\* What it returns: those keys in order, each with its newest value.
Expected ==
    LET rank(k) == Cardinality({x \in Live : Less(x, k)}) + 1
        at(n) == CHOOSE k \in Live : rank(k) = n
    IN  [n \in 1 .. Cardinality(Live) |-> [key |-> at(n), val |-> NewestWrite(at(n))]]

\* "NewIterator returns a forward iterator over all live key-value pairs. The
\* iterator merges data from memtables and SSTables, resolving MVCC (only the
\* newest version of each key is visible) and filtering tombstones"
\* (lsm.go:371-373): from First or SeekGE on it has returned the live keys in
\* order with their newest values, and it ends when it has returned them all.
IteratesLive ==
    from.placed /\ call.pc = "idle" =>
        /\ Len(out) <= Len(Expected)
        /\ \A n \in DOMAIN out : out[n] = Expected[n]
        /\ ~dbi.valid => Len(out) = Len(Expected)

\* No user key that is stored or sought is a proper prefix of another.
PrefixFree ==
    \A a, b \in UserKeys \cup (IF from.key = <<>> THEN {} ELSE {from.key}) : ~IsProperPrefix(a, b)

\* The iterator does so wherever the versions of a key are, whatever was
\* called before on the same iterator, as long as no user key is a prefix of
\* another (trailers are compared with key bytes, lsm.go:618-620) and no
\* comparison has met a key that was overwritten in a block iterator's buffer
\* (lsm.go:696).
IteratorExact == PrefixFree /\ ~clobbered => IteratesLive

CacheContents ==
    LET order == CacheOrder(cache)
    IN  [n \in DOMAIN order |-> [block |-> order[n], len |-> cache.len[order[n]]]]

Lru == INSTANCE LruCache WITH
    Files <- 1 .. MaxTables, Capacity <- CacheCapacity,
    order <- CacheContents, cached <- cache.items, total <- cache.size

\* The map and the list of the block cache together are a cache of the blocks
\* used last that never exceeds its capacity, with two readers that miss the
\* same block, a reader that adds a block of a file that was just evicted, and
\* blocks larger than the cache (cache.go:54-142).
ImplementsLruCache == Lru!Spec
=============================================================================
